--------------------- MODULE TaskCommandProjection_proofs ---------------------
(***************************************************************************)
(* Proofs about the control events one renderer receives, for any tasks,   *)
(* clients, ring size and bounds.                                          *)
(*                                                                         *)
(* The frames on the socket and those in the micro-batch are one stream.   *)
(* A frame reaches the number the renderer has processed once it has taken *)
(* it; the stream is in order when every event is at most one ahead of     *)
(* what the frames before it reach, and so is the next event the server    *)
(* will number (IInv).                                                     *)
(*                                                                         *)
(* The second half is about what the renderer shows: the promise, told of  *)
(* where LInv is defined, that for every live lease the renderer has been, *)
(* or will be, told of its holder.                                         *)
(***************************************************************************)
EXTENDS TaskCommandProjection, SequenceTheorems, TaskCommandLeaseStore_proofs

IsSeq(s) == s \in Seq(Range(s))

\* Frames that the renderer counts, and what it has counted up to once it has them.
Counted(f) == f.kind \in {"event", "replay-truncated", "control-replay-batch"}

Reach(f) ==
    CASE f.kind = "event" -> f.seq
      [] f.kind = "replay-truncated" -> f.latestSeq
      [] OTHER -> f.toSeq

\* After the first k frames of s, a renderer that had processed "last" before them
\* is not surprised by the number m.
Follows(s, k, last, m) ==
    \/ \E i \in 1 .. k : Counted(s[i]) /\ m <= Reach(s[i]) + 1
    \/ (\A i \in 1 .. k : ~Counted(s[i])) /\ m <= last + 1

\* The stream s to a renderer that has processed "last", of a server that is at n.
Stream(s, last, n) ==
    /\ \A i \in 1 .. Len(s) : Counted(s[i]) => Reach(s[i]) \in 0 .. n
    /\ \A i \in 1 .. Len(s) : s[i].kind = "event" => s[i].seq > 0
    /\ \A i, j \in 1 .. Len(s) :
          i < j /\ Counted(s[i]) /\ Counted(s[j]) =>
             /\ Reach(s[i]) <= Reach(s[j])
             /\ s[j].kind = "event" => Reach(s[i]) < Reach(s[j])
    /\ \A j \in 1 .. Len(s) : s[j].kind = "event" => Follows(s, j - 1, last, s[j].seq)
    /\ Follows(s, Len(s), last, n + 1)

\* The replay ring is in the order of the sequence numbers and ends at n at most.
InOrder(r, n) ==
    /\ \A i \in 1 .. Len(r) : r[i].seq \in 1 .. n
    /\ \A i, j \in 1 .. Len(r) : i < j => r[i].seq < r[j].seq

IInv ==
    /\ seq \in Nat /\ lastSeq \in Nat /\ connected \in BOOLEAN
    /\ IsSeq(ring) /\ IsSeq(wire) /\ IsSeq(queued)
    /\ InOrder(ring, seq)
    /\ IF connected THEN Stream(wire \o queued, lastSeq, seq)
       ELSE wire = <<>> /\ queued = <<>>

-----------------------------------------------------------------------------
(* Sequences. *)

\* A sequence is one over whatever it holds.
LEMMA SeqIs ==
    ASSUME NEW S, NEW s \in Seq(S)
    PROVE  IsSeq(s) /\ Len(s) \in Nat /\ DOMAIN s = 1 .. Len(s)
<1>1. Len(s) \in Nat /\ DOMAIN s = 1 .. Len(s)
  OBVIOUS
<1>2. s \in [1 .. Len(s) -> Range(s)]
  BY <1>1 DEF Range
<1> QED
  BY <1>1, <1>2 DEF IsSeq

\* Two sequences, one after the other.
LEMMA Joined ==
    ASSUME NEW a, NEW b, IsSeq(a), IsSeq(b)
    PROVE  /\ IsSeq(a \o b) /\ Len(a) \in Nat /\ Len(b) \in Nat
           /\ Len(a \o b) = Len(a) + Len(b)
           /\ \A i \in 1 .. Len(a) : (a \o b)[i] = a[i]
           /\ \A i \in 1 .. Len(b) : (a \o b)[Len(a) + i] = b[i]
<1> DEFINE S == Range(a) \cup Range(b)
<1>1. a \in Seq(S) /\ b \in Seq(S) /\ Len(a) \in Nat /\ Len(b) \in Nat
  BY DEF IsSeq
<1> HIDE DEF S
<1>2. /\ a \o b \in Seq(S) /\ Len(a \o b) = Len(a) + Len(b)
      /\ \A i \in 1 .. Len(a) + Len(b) : (a \o b)[i] = IF i <= Len(a) THEN a[i] ELSE b[i - Len(a)]
  BY <1>1, ConcatProperties
<1>3. IsSeq(a \o b)
  BY <1>2, SeqIs
<1>4. \A i \in 1 .. Len(a) : (a \o b)[i] = a[i]
  BY <1>1, <1>2
<1>5. ASSUME NEW i \in 1 .. Len(b) PROVE (a \o b)[Len(a) + i] = b[i]
  <2>1. Len(a) + i \in 1 .. Len(a) + Len(b) /\ ~(Len(a) + i <= Len(a)) /\ Len(a) + i - Len(a) = i
    BY <1>1
  <2> QED
    BY <2>1, <1>2
<1> QED
  BY <1>1, <1>2, <1>3, <1>4, <1>5

\* A sequence written down by its elements.
LEMMA Tabled ==
    ASSUME NEW n \in Nat, NEW S, NEW f \in [1 .. n -> S]
    PROVE  IsSeq(f) /\ Len(f) = n
<1>1. f \in Seq(S) /\ Len(f) = n
  OBVIOUS
<1> QED
  BY <1>1, SeqIs

\* One frame more.
LEMMA Appended ==
    ASSUME NEW a, NEW f, IsSeq(a)
    PROVE  /\ Append(a, f) = a \o <<f>> /\ IsSeq(<<f>>) /\ Len(<<f>>) = 1 /\ <<f>>[1] = f
<1> DEFINE S == Range(a) \cup {f}
<1>1. a \in Seq(S) /\ f \in S
  BY DEF IsSeq
<1> HIDE DEF S
<1>2. <<f>> \in Seq(S)
  BY <1>1
<1>3. Append(a, f) = a \o <<f>>
  BY <1>1
<1> QED
  BY <1>2, <1>3, SeqIs

\* What is left of a sequence without its first element.
LEMMA TailIs ==
    ASSUME NEW s, IsSeq(s), s # <<>>
    PROVE  /\ IsSeq(Tail(s)) /\ Len(s) \in Nat \ {0} /\ Len(Tail(s)) = Len(s) - 1
           /\ \A i \in 1 .. Len(s) - 1 : Tail(s)[i] = s[i + 1]
           /\ Head(s) = s[1]
<1>1. s \in Seq(Range(s))
  BY DEF IsSeq
<1>2. /\ Tail(s) \in Seq(Range(s)) /\ Len(Tail(s)) = Len(s) - 1
      /\ \A i \in 1 .. Len(Tail(s)) : Tail(s)[i] = s[i + 1]
  BY <1>1, HeadTailProperties
<1>3. Len(s) \in Nat \ {0} /\ Head(s) = s[1]
  BY <1>1, EmptySeq
<1> QED
  BY <1>2, <1>3, SeqIs

\* A piece of a sequence.
LEMMA PieceIs ==
    ASSUME NEW s, IsSeq(s), NEW m \in Nat \ {0}, NEW n \in 0 .. Len(s)
    PROVE  /\ IsSeq(SubSeq(s, m, n))
           /\ Len(SubSeq(s, m, n)) = IF m <= n THEN n - m + 1 ELSE 0
           /\ \A i \in 1 .. n - m + 1 : SubSeq(s, m, n)[i] = s[m + i - 1]
<1>1. s \in Seq(Range(s)) /\ Len(s) \in Nat
  BY DEF IsSeq
<1>2. \A i \in m .. n : s[i] \in Range(s)
  BY <1>1
<1>3. SubSeq(s, m, n) \in Seq(Range(s))
  BY <1>1, <1>2, SubSeqProperties
<1>4. /\ Len(SubSeq(s, m, n)) = IF m <= n THEN n - m + 1 ELSE 0
      /\ \A i \in 1 .. n - m + 1 : SubSeq(s, m, n)[i] = s[m + i - 1]
  BY <1>1, <1>2, SubSeqProperties
<1> QED
  BY <1>3, <1>4, SeqIs

\* What follows the k-th element of a sequence.
LEMMA RestIs ==
    ASSUME NEW s, IsSeq(s), NEW k \in 0 .. Len(s)
    PROVE  /\ IsSeq(SubSeq(s, k + 1, Len(s))) /\ Len(SubSeq(s, k + 1, Len(s))) = Len(s) - k
           /\ \A i \in 1 .. Len(s) - k : SubSeq(s, k + 1, Len(s))[i] = s[k + i]
<1> DEFINE m == k + 1
           p == SubSeq(s, m, Len(s))
<1>1. Len(s) \in Nat /\ k \in Nat /\ k <= Len(s)
  BY DEF IsSeq
<1>2. m \in Nat \ {0} /\ Len(s) \in 0 .. Len(s) /\ m = k + 1
  BY <1>1
<1> HIDE DEF m
<1>3. /\ IsSeq(p) /\ Len(p) = IF m <= Len(s) THEN Len(s) - m + 1 ELSE 0
      /\ \A i \in 1 .. Len(s) - m + 1 : p[i] = s[m + i - 1]
  BY <1>2, PieceIs
<1> HIDE DEF p
<1>4. Len(p) = Len(s) - k
  BY <1>1, <1>2, <1>3
<1>5. \A i \in 1 .. Len(s) - k : p[i] = s[k + i]
  <2> SUFFICES ASSUME NEW i \in 1 .. Len(s) - k PROVE p[i] = s[k + i]
    OBVIOUS
  <2>1. i \in 1 .. Len(s) - m + 1 /\ m + i - 1 = k + i
    BY <1>1, <1>2
  <2> QED
    BY <2>1, <1>3
<1> QED
  BY <1>3, <1>4, <1>5 DEF p, m

-----------------------------------------------------------------------------
(* The ring. *)

\* Losing the oldest entries leaves the ring in order.
LEMMA NewestInOrder ==
    ASSUME NEW r, IsSeq(r), NEW n \in Nat, InOrder(r, n)
    PROVE  IsSeq(Newest(r)) /\ InOrder(Newest(r), n)
<1>1. Len(r) \in Nat /\ RingSize \in Nat
  BY ProjectionAssumption DEF IsSeq
<1> DEFINE m == IF Len(r) > RingSize THEN Len(r) - RingSize + 1 ELSE 1
           w == SubSeq(r, m, Len(r))
<1>2. m \in Nat \ {0}
  BY <1>1
<1> HIDE DEF m
<1>3. /\ IsSeq(w) /\ Len(w) = IF m <= Len(r) THEN Len(r) - m + 1 ELSE 0
      /\ \A i \in 1 .. Len(r) - m + 1 : w[i] = r[m + i - 1]
  BY <1>1, <1>2, PieceIs
<1> HIDE DEF w
<1>4. \A i \in 1 .. Len(w) : m + i - 1 \in 1 .. Len(r) /\ w[i] = r[m + i - 1]
  BY <1>1, <1>2, <1>3
<1>5. InOrder(w, n)
  <2>1. \A i \in 1 .. Len(w) : w[i].seq \in 1 .. n
    BY <1>4 DEF InOrder
  <2>2. ASSUME NEW i \in 1 .. Len(w), NEW j \in 1 .. Len(w), i < j
        PROVE  w[i].seq < w[j].seq
    <3>1. m + i - 1 < m + j - 1
      BY <1>2, <2>2
    <3> QED
      BY <3>1, <1>4 DEF InOrder
  <2> QED
    BY <2>1, <2>2 DEF InOrder
<1>6. Newest(r) = w
  BY DEF Newest, w, m
<1> QED
  BY <1>3, <1>5, <1>6

\* New entries carry the numbers that follow.
LEMMA JoinedInOrder ==
    ASSUME NEW r, NEW t, IsSeq(r), IsSeq(t), NEW n \in Nat, InOrder(r, n),
           \A i \in 1 .. Len(t) : t[i].seq = n + i
    PROVE  IsSeq(r \o t) /\ InOrder(r \o t, n + Len(t))
<1> DEFINE w == r \o t
<1>1. /\ IsSeq(w) /\ Len(r) \in Nat /\ Len(t) \in Nat /\ Len(w) = Len(r) + Len(t)
      /\ \A i \in 1 .. Len(r) : w[i] = r[i]
      /\ \A i \in 1 .. Len(t) : w[Len(r) + i] = t[i]
  BY Joined
<1> HIDE DEF w
<1>2. \A i \in 1 .. Len(r) : w[i].seq = r[i].seq /\ w[i].seq \in 1 .. n
  BY <1>1 DEF InOrder
<1>3. \A i \in 1 .. Len(w) : i > Len(r) => w[i].seq = n + i - Len(r)
  <2> SUFFICES ASSUME NEW i \in 1 .. Len(w), i > Len(r) PROVE w[i].seq = n + i - Len(r)
    OBVIOUS
  <2>1. i - Len(r) \in 1 .. Len(t) /\ Len(r) + (i - Len(r)) = i
    BY <1>1
  <2>2. w[i] = t[i - Len(r)]
    BY <2>1, <1>1
  <2> QED
    BY <2>1, <2>2, <1>1
<1>4. \A i \in 1 .. Len(w) : w[i].seq \in 1 .. n + Len(t)
  <2> SUFFICES ASSUME NEW i \in 1 .. Len(w) PROVE w[i].seq \in 1 .. n + Len(t)
    OBVIOUS
  <2>1. CASE i \in 1 .. Len(r)
    BY <2>1, <1>1, <1>2
  <2>2. CASE i > Len(r)
    BY <2>2, <1>1, <1>3
  <2> QED
    BY <2>1, <2>2, <1>1
<1>5. ASSUME NEW i \in 1 .. Len(w), NEW j \in 1 .. Len(w), i < j
      PROVE  w[i].seq < w[j].seq
  <2>1. CASE j \in 1 .. Len(r)
    <3>1. i \in 1 .. Len(r)
      BY <2>1, <1>5, <1>1
    <3> QED
      BY <2>1, <3>1, <1>2, <1>5 DEF InOrder
  <2>2. CASE i \in 1 .. Len(r) /\ j > Len(r)
    BY <2>2, <1>1, <1>2, <1>3
  <2>3. CASE i > Len(r) /\ j > Len(r)
    BY <2>3, <1>1, <1>3, <1>5
  <2> QED
    BY <2>1, <2>2, <2>3, <1>1, <1>5
<1> QED
  BY <1>1, <1>4, <1>5 DEF InOrder, w

\* A presence list takes the place of the one before it.
LEMMA PresenceInOrder ==
    ASSUME NEW r, IsSeq(r), NEW n \in Nat, InOrder(r, n)
    PROVE  IsSeq(AddPresence(r, n + 1)) /\ InOrder(AddPresence(r, n + 1), n + 1)
<1> DEFINE superseded == {i \in DOMAIN r : r[i].event = Presence}
           k == CHOOSE i \in superseded : TRUE
           kept == IF superseded = {} THEN r ELSE RemoveAt(r, k)
           e == [seq |-> n + 1, event |-> Presence]
<1>1. Len(r) \in Nat /\ DOMAIN r = 1 .. Len(r)
  BY DEF IsSeq
<1>2. IsSeq(kept) /\ InOrder(kept, n)
  <2>1. CASE superseded = {}
    BY <2>1
  <2>2. CASE superseded # {}
    <3>1. k \in 1 .. Len(r)
      BY <2>2, <1>1
    <3> HIDE DEF k
    <3> DEFINE a == SubSeq(r, 1, k - 1)
               b == SubSeq(r, k + 1, Len(r))
               w == a \o b
    <3>2. k - 1 \in 0 .. Len(r) /\ k + 1 \in Nat \ {0} /\ Len(r) \in 0 .. Len(r)
      BY <3>1, <1>1
    <3>3. IsSeq(a) /\ Len(a) = k - 1 /\ \A i \in 1 .. k - 1 : a[i] = r[i]
      <4>1. /\ IsSeq(a) /\ Len(a) = IF 1 <= k - 1 THEN k - 1 - 1 + 1 ELSE 0
            /\ \A i \in 1 .. k - 1 - 1 + 1 : a[i] = r[1 + i - 1]
        BY <3>2, PieceIs
      <4> HIDE DEF a
      <4> QED
        BY <4>1, <3>1, <1>1
    <3>4. IsSeq(b) /\ Len(b) = Len(r) - k /\ \A i \in 1 .. Len(r) - k : b[i] = r[k + i]
      BY <3>1, RestIs
    <3> HIDE DEF a, b
    <3>5. /\ IsSeq(w) /\ Len(w) = Len(a) + Len(b)
          /\ \A i \in 1 .. Len(a) : w[i] = a[i]
          /\ \A i \in 1 .. Len(b) : w[Len(a) + i] = b[i]
      <4>1. IsSeq(a) /\ IsSeq(b)
        BY <3>3, <3>4
      <4> QED
        BY <4>1, Joined
    <3> HIDE DEF w
    <3>6. /\ Len(w) = Len(r) - 1
          /\ \A i \in 1 .. Len(w) : w[i] = r[IF i < k THEN i ELSE i + 1]
      <4>1. Len(w) = Len(r) - 1
        BY <3>1, <3>3, <3>4, <3>5, <1>1
      <4>2. ASSUME NEW i \in 1 .. Len(w), i < k PROVE w[i] = r[i]
        BY <4>2, <3>1, <3>3, <3>5, <1>1
      <4>3. ASSUME NEW i \in 1 .. Len(w), ~(i < k) PROVE w[i] = r[i + 1]
        <5>1. i - (k - 1) \in 1 .. Len(r) - k /\ (k - 1) + (i - (k - 1)) = i
              /\ k + (i - (k - 1)) = i + 1
          BY <4>1, <4>3, <3>1, <1>1
        <5>2. w[(k - 1) + (i - (k - 1))] = b[i - (k - 1)]
          BY <5>1, <3>3, <3>4, <3>5
        <5>3. b[i - (k - 1)] = r[k + (i - (k - 1))]
          BY <5>1, <3>4
        <5> QED
          BY <5>1, <5>2, <5>3
      <4> QED
        BY <4>1, <4>2, <4>3
    <3>7. InOrder(w, n)
      <4>1. \A i \in 1 .. Len(w) : (IF i < k THEN i ELSE i + 1) \in 1 .. Len(r)
        BY <3>6, <3>1, <1>1
      <4>2. \A i, j \in 1 .. Len(w) : i < j =>
               (IF i < k THEN i ELSE i + 1) < (IF j < k THEN j ELSE j + 1)
        BY <3>6, <3>1, <1>1
      <4>3. \A i \in 1 .. Len(w) : w[i].seq \in 1 .. n
        BY <4>1, <3>6 DEF InOrder
      <4>4. \A i, j \in 1 .. Len(w) : i < j => w[i].seq < w[j].seq
        BY <4>1, <4>2, <3>6 DEF InOrder
      <4> QED
        BY <4>3, <4>4 DEF InOrder
    <3>8. kept = w
      BY <2>2 DEF RemoveAt, w, a, b
    <3> QED
      BY <3>5, <3>7, <3>8
  <2> QED
    BY <2>1, <2>2
<1>3. AddPresence(r, n + 1) = Newest(Append(kept, e))
  BY DEF AddPresence
<1> HIDE DEF kept, superseded, k
<1>4. Append(kept, e) = kept \o <<e>> /\ IsSeq(<<e>>) /\ Len(<<e>>) = 1 /\ <<e>>[1] = e
  BY <1>2, Appended
<1>5. \A i \in 1 .. Len(<<e>>) : <<e>>[i].seq = n + i
  BY <1>4
<1>6. IsSeq(kept \o <<e>>) /\ InOrder(kept \o <<e>>, n + 1)
  <2>1. IsSeq(kept \o <<e>>) /\ InOrder(kept \o <<e>>, n + Len(<<e>>))
    BY <1>2, <1>4, <1>5, JoinedInOrder
  <2> QED
    BY <2>1, <1>4
<1>7. n + 1 \in Nat /\ AddPresence(r, n + 1) = Newest(kept \o <<e>>)
  <2>1. n + 1 \in Nat
    OBVIOUS
  <2> QED
    BY <2>1, <1>3, <1>4
<1> HIDE DEF e
<1> QED
  BY <1>6, <1>7, NewestInOrder

\* The ring is split by a number: what has it or less comes first.
LEMMA RingSplits ==
    ASSUME IsSeq(ring), seq \in Nat, lastSeq \in Nat, InOrder(ring, seq)
    PROVE  \E k \in 0 .. Len(ring) : \A i \in DOMAIN ring : i <= k <=> ring[i].seq <= lastSeq
<1> DEFINE T == {i \in 1 .. Len(ring) + 1 : i = Len(ring) + 1 \/ ring[i].seq > lastSeq}
<1>1. Len(ring) \in Nat /\ DOMAIN ring = 1 .. Len(ring)
  BY DEF IsSeq
<1>2. /\ \A i \in 1 .. Len(ring) : ring[i].seq \in Nat
      /\ \A i, j \in 1 .. Len(ring) : i <= j => ring[i].seq <= ring[j].seq
  <2>1. \A i \in 1 .. Len(ring) : ring[i].seq \in 1 .. seq
    BY DEF InOrder
  <2>2. \A i, j \in 1 .. Len(ring) : i < j => ring[i].seq < ring[j].seq
    BY DEF InOrder
  <2>3. \A i, j \in 1 .. Len(ring) : i <= j => i = j \/ i < j
    BY <1>1
  <2> QED
    BY <2>1, <2>2, <2>3
<1>3. PICK f \in T : \A m \in T : f <= m
  <2>1. T \in SUBSET Nat /\ T # {}
    BY <1>1
  <2> HIDE DEF T
  <2> QED
    BY <2>1, LeastNatural
<1>4. f \in 1 .. Len(ring) + 1 /\ f - 1 \in 0 .. Len(ring)
  BY <1>1, <1>3
<1>5. ASSUME NEW i \in 1 .. Len(ring), i <= f - 1 PROVE ring[i].seq <= lastSeq
  <2>1. i \notin T
    BY <1>4, <1>5, <1>1, <1>3
  <2> QED
    BY <2>1, <1>1, <1>2
<1>6. ASSUME NEW i \in 1 .. Len(ring), ~(i <= f - 1) PROVE ~(ring[i].seq <= lastSeq)
  <2>1. f \in 1 .. Len(ring) /\ f <= i
    BY <1>4, <1>6, <1>1
  <2>2. ring[f].seq > lastSeq
    BY <2>1, <1>1, <1>3
  <2> QED
    BY <2>1, <2>2, <1>2
<1> QED
  BY <1>1, <1>4, <1>5, <1>6

\* What the renderer has not seen is the newer end of the ring.
LEMMA WindowIs ==
    ASSUME IsSeq(ring), seq \in Nat, lastSeq \in Nat, InOrder(ring, seq)
    PROVE  /\ IsSeq(Window) /\ InOrder(Window, seq)
           /\ \A i \in 1 .. Len(Window) : Window[i].seq > lastSeq
           /\ Len(Window) > 0 => ring # <<>> /\ ring[1].seq <= Window[1].seq
<1> DEFINE Splits(k) == \A i \in DOMAIN ring : i <= k <=> ring[i].seq <= lastSeq
           old == CHOOSE k \in 0 .. Len(ring) : Splits(k)
           w == SubSeq(ring, old + 1, Len(ring))
<1>1. Len(ring) \in Nat /\ DOMAIN ring = 1 .. Len(ring)
  BY DEF IsSeq
<1>2. /\ \A i \in 1 .. Len(ring) : ring[i].seq \in Nat
      /\ \A i, j \in 1 .. Len(ring) : i <= j => ring[i].seq <= ring[j].seq
  <2>1. \A i \in 1 .. Len(ring) : ring[i].seq \in 1 .. seq
    BY DEF InOrder
  <2>2. \A i, j \in 1 .. Len(ring) : i < j => ring[i].seq < ring[j].seq
    BY DEF InOrder
  <2>3. \A i, j \in 1 .. Len(ring) : i <= j => i = j \/ i < j
    BY <1>1
  <2> QED
    BY <2>1, <2>2, <2>3
<1>4. \E k \in 0 .. Len(ring) : Splits(k)
  BY RingSplits
<1>5. old \in 0 .. Len(ring) /\ Splits(old)
  <2> HIDE DEF Splits
  <2> QED
    BY <1>4
<1> HIDE DEF old
<1>6. /\ IsSeq(w) /\ Len(w) = Len(ring) - old
      /\ \A i \in 1 .. Len(ring) - old : w[i] = ring[old + i]
  BY <1>5, RestIs
<1>7. Window = w
  BY DEF Window, old
<1> HIDE DEF w
<1>8. \A i \in 1 .. Len(w) : old + i \in 1 .. Len(ring) /\ w[i] = ring[old + i] /\ ~(old + i <= old)
  BY <1>1, <1>5, <1>6
<1>9. \A i \in 1 .. Len(w) : w[i].seq > lastSeq
  <2>1. \A i \in 1 .. Len(w) : ~(ring[old + i].seq <= lastSeq)
    BY <1>1, <1>5, <1>8
  <2> QED
    BY <2>1, <1>2, <1>8
<1>10. InOrder(w, seq)
  <2>1. \A i \in 1 .. Len(w) : w[i].seq \in 1 .. seq
    BY <1>8 DEF InOrder
  <2>2. \A i, j \in 1 .. Len(w) : i < j => old + i < old + j
    BY <1>1, <1>5
  <2>3. \A i, j \in 1 .. Len(w) : i < j => w[i].seq < w[j].seq
    BY <2>2, <1>8 DEF InOrder
  <2> QED
    BY <2>1, <2>3 DEF InOrder
<1>11. ASSUME Len(w) > 0 PROVE ring # <<>> /\ ring[1].seq <= w[1].seq
  <2>1. 1 \in 1 .. Len(w) /\ 1 \in 1 .. Len(ring) /\ 1 <= old + 1
    BY <1>1, <1>5, <1>6, <1>11
  <2>2. ring[1].seq <= ring[old + 1].seq
    BY <2>1, <1>2, <1>8
  <2>3. Len(<<>>) = 0
    OBVIOUS
  <2> QED
    BY <2>1, <2>2, <2>3, <1>8
<1> QED
  BY <1>6, <1>7, <1>9, <1>10, <1>11

\* As many numbers in order as lie between two bounds are all of them.
LEMMA Consecutive ==
    ASSUME NEW w, IsSeq(w), NEW L \in Nat, NEW n \in Nat, InOrder(w, n),
           \A i \in 1 .. Len(w) : w[i].seq > L, Len(w) = n - L
    PROVE  \A i \in 1 .. Len(w) : w[i].seq = L + i
<1>1. Len(w) \in Nat /\ \A i \in 1 .. Len(w) : w[i].seq \in 1 .. n
  BY DEF IsSeq, InOrder
<1> DEFINE S == {d \in Nat : \A i \in 1 .. Len(w) :
                    i + d <= Len(w) => w[i].seq + d <= w[i + d].seq}
<1>2. 0 \in S
  BY <1>1
<1>3. ASSUME NEW d \in Nat, d \in S PROVE d + 1 \in S
  <2> SUFFICES ASSUME NEW i \in 1 .. Len(w), i + (d + 1) <= Len(w)
               PROVE  w[i].seq + (d + 1) <= w[i + (d + 1)].seq
    OBVIOUS
  <2>1. i + d \in 1 .. Len(w) /\ i + (d + 1) \in 1 .. Len(w) /\ i + d < i + (d + 1)
    BY <1>1
  <2>2. w[i].seq + d <= w[i + d].seq
    BY <1>3, <2>1
  <2>3. w[i + d].seq < w[i + (d + 1)].seq
    BY <2>1 DEF InOrder
  <2>4. w[i].seq \in Nat /\ w[i + d].seq \in Nat /\ w[i + (d + 1)].seq \in Nat
    BY <2>1, <1>1
  <2>5. \A p, q, z \in Nat : p + d <= q /\ q < z => p + (d + 1) <= z
    OBVIOUS
  <2> QED
    BY <2>2, <2>3, <2>4, <2>5
<1>4. Nat \subseteq S
  <2> HIDE DEF S
  <2> QED
    BY <1>2, <1>3, NaturalsByStep
<1> SUFFICES ASSUME NEW i \in 1 .. Len(w) PROVE w[i].seq = L + i
  OBVIOUS
<1>5. i - 1 \in Nat /\ Len(w) - i \in Nat /\ 1 \in 1 .. Len(w) /\ Len(w) \in 1 .. Len(w)
      /\ 1 + (i - 1) = i /\ i + (Len(w) - i) = Len(w) /\ i <= Len(w)
  BY <1>1
<1>6. w[1].seq + (i - 1) <= w[i].seq
  <2>1. i - 1 \in S
    BY <1>4, <1>5
  <2> QED
    BY <2>1, <1>5
<1>7. w[i].seq + (Len(w) - i) <= w[Len(w)].seq
  <2>1. Len(w) - i \in S
    BY <1>4, <1>5
  <2> QED
    BY <2>1, <1>1, <1>5
<1>8. w[1].seq \in 1 .. n /\ w[i].seq \in 1 .. n /\ w[Len(w)].seq \in 1 .. n /\ w[1].seq > L
  BY <1>1, <1>5
<1>9. ASSUME NEW p \in Nat, NEW q \in Nat, NEW z \in Nat, NEW l \in Nat, p > L, z <= n,
             p + (i - 1) <= q, q + (l - i) <= z, l = n - L
      PROVE  q = L + i
  BY <1>9
<1>10. /\ w[1].seq \in Nat /\ w[i].seq \in Nat /\ w[Len(w)].seq \in Nat
       /\ w[Len(w)].seq <= n /\ Len(w) = n - L
  <2>1. \A x \in 1 .. n : x \in Nat /\ x <= n
    OBVIOUS
  <2> QED
    BY <1>8, <2>1
<1> QED
  BY <1>1, <1>6, <1>7, <1>8, <1>9, <1>10

-----------------------------------------------------------------------------
(* The stream. *)

\* The renderer takes the first frame and has then processed "now".
LEMMA StreamTail ==
    ASSUME NEW s, IsSeq(s), s # <<>>, NEW last \in Nat, NEW now \in Nat, NEW n \in Nat,
           Stream(s, last, n),
           IF Counted(s[1]) THEN Reach(s[1]) <= now ELSE now = last
    PROVE  Stream(Tail(s), now, n)
<1> DEFINE r == Tail(s)
<1>1. /\ Len(s) \in Nat \ {0} /\ Len(r) = Len(s) - 1
      /\ \A i \in 1 .. Len(r) : r[i] = s[i + 1]
  BY TailIs
<1> HIDE DEF r
<1>2. \A i \in 1 .. Len(r) : i + 1 \in 1 .. Len(s) /\ 1 < i + 1 /\ r[i] = s[i + 1]
  BY <1>1
<1>3. \A i \in 1 .. Len(s) : Counted(s[i]) => Reach(s[i]) \in Nat
  BY DEF Stream
<1>4. ASSUME NEW k \in 1 .. Len(s), NEW m \in Nat, Follows(s, k, last, m)
      PROVE  Follows(r, k - 1, now, m)
  <2>1. 1 \in 1 .. k /\ 1 \in 1 .. Len(s) /\ k - 1 \in 0 .. Len(r)
    BY <1>1
  <2>2. ASSUME NEW i \in 2 .. k, Counted(s[i]), m <= Reach(s[i]) + 1
        PROVE  Follows(r, k - 1, now, m)
    <3>1. i - 1 \in 1 .. k - 1 /\ i - 1 \in 1 .. Len(r) /\ (i - 1) + 1 = i
      BY <1>1
    <3>2. r[i - 1] = s[i]
      BY <3>1, <1>2
    <3> QED
      BY <2>2, <3>1, <3>2 DEF Follows
  <2>3. ASSUME \A i \in 2 .. k : ~Counted(s[i]), m <= now + 1
        PROVE  Follows(r, k - 1, now, m)
    <3>1. \A i \in 1 .. k - 1 : i + 1 \in 2 .. k /\ r[i] = s[i + 1]
      BY <1>1, <1>2
    <3> QED
      BY <2>3, <3>1 DEF Follows
  <2>4. CASE Counted(s[1]) /\ m <= Reach(s[1]) + 1
    <3>1. ASSUME NEW i \in 2 .. k, Counted(s[i]) PROVE m <= Reach(s[i]) + 1
      <4>1. i \in 1 .. Len(s) /\ 1 < i
        BY <1>1
      <4>2. Reach(s[1]) <= Reach(s[i])
        BY <4>1, <3>1, <2>1, <2>4 DEF Stream
      <4> QED
        BY <4>1, <4>2, <3>1, <2>1, <2>4, <1>3
    <3>2. m <= now + 1
      BY <2>1, <2>4, <1>3
    <3> QED
      BY <3>1, <3>2, <2>2, <2>3
  <2>5. CASE \E i \in 2 .. k : Counted(s[i]) /\ m <= Reach(s[i]) + 1
    BY <2>5, <2>2
  <2>6. CASE (\A i \in 1 .. k : ~Counted(s[i])) /\ m <= last + 1
    <3>1. now = last
      BY <2>1, <2>6
    <3>2. \A i \in 2 .. k : i \in 1 .. k
      OBVIOUS
    <3> QED
      BY <3>1, <3>2, <2>3, <2>6
  <2>7. \A i \in 1 .. k : i = 1 \/ i \in 2 .. k
    OBVIOUS
  <2> QED
    BY <2>4, <2>5, <2>6, <2>7, <1>4 DEF Follows
<1>5. \A i \in 1 .. Len(r) : Counted(r[i]) => Reach(r[i]) \in 0 .. n
  BY <1>2 DEF Stream
<1>6. \A i \in 1 .. Len(r) : r[i].kind = "event" => r[i].seq > 0
  BY <1>2 DEF Stream
<1>7. \A i, j \in 1 .. Len(r) :
         i < j /\ Counted(r[i]) /\ Counted(r[j]) =>
            /\ Reach(r[i]) <= Reach(r[j])
            /\ r[j].kind = "event" => Reach(r[i]) < Reach(r[j])
  <2>1. \A i, j \in 1 .. Len(r) : i < j => i + 1 < j + 1
    BY <1>1
  <2> QED
    BY <2>1, <1>2 DEF Stream
<1>8. ASSUME NEW j \in 1 .. Len(r), r[j].kind = "event" PROVE Follows(r, j - 1, now, r[j].seq)
  <2>1. j + 1 \in 1 .. Len(s) /\ s[j + 1] = r[j] /\ j \in 1 .. Len(s) /\ (j + 1) - 1 = j
    BY <1>1, <1>2
  <2>2. Follows(s, j, last, s[j + 1].seq)
    BY <2>1, <1>8 DEF Stream
  <2>3. s[j + 1].seq \in Nat
    <3>1. Counted(s[j + 1]) /\ Reach(s[j + 1]) = s[j + 1].seq
      BY <2>1, <1>8 DEF Counted, Reach
    <3> QED
      BY <3>1, <2>1, <1>3
  <2> QED
    BY <2>1, <2>2, <2>3, <1>4
<1>9. Follows(r, Len(r), now, n + 1)
  <2>1. Len(s) \in 1 .. Len(s) /\ n + 1 \in Nat /\ Follows(s, Len(s), last, n + 1)
    BY <1>1 DEF Stream
  <2>2. Follows(r, Len(s) - 1, now, n + 1)
    BY <2>1, <1>4
  <2> QED
    BY <2>2, <1>1
<1> QED
  BY <1>5, <1>6, <1>7, <1>8, <1>9 DEF Stream, r
\* Only the frames before count.
LEMMA FollowsSame ==
    ASSUME NEW s, NEW w, NEW k, NEW last, NEW m, \A i \in 1 .. k : w[i] = s[i],
           Follows(s, k, last, m)
    PROVE  Follows(w, k, last, m)
  BY DEF Follows

\* The server broadcasts the next events.
LEMMA StreamGrows ==
    ASSUME NEW s, NEW t, IsSeq(s), IsSeq(t), NEW last \in Nat, NEW n \in Nat,
           Stream(s, last, n),
           \A i \in 1 .. Len(t) : t[i].kind = "event" /\ t[i].seq = n + i
    PROVE  Stream(s \o t, last, n + Len(t))
<1> DEFINE w == s \o t
<1>1. /\ Len(s) \in Nat /\ Len(t) \in Nat /\ Len(w) = Len(s) + Len(t)
      /\ \A i \in 1 .. Len(s) : w[i] = s[i]
      /\ \A i \in 1 .. Len(t) : w[Len(s) + i] = t[i]
  BY Joined
<1> HIDE DEF w
<1>2. \A i \in 1 .. Len(s) : Counted(w[i]) => Reach(w[i]) \in 0 .. n
  BY <1>1 DEF Stream
<1>3. \A j \in 1 .. Len(w) : j > Len(s) =>
         /\ w[j].kind = "event" /\ w[j].seq = n + j - Len(s)
         /\ Counted(w[j]) /\ Reach(w[j]) = n + j - Len(s)
  <2> SUFFICES ASSUME NEW j \in 1 .. Len(w), j > Len(s)
               PROVE  /\ w[j].kind = "event" /\ w[j].seq = n + j - Len(s)
                      /\ Counted(w[j]) /\ Reach(w[j]) = n + j - Len(s)
    OBVIOUS
  <2>1. j - Len(s) \in 1 .. Len(t) /\ Len(s) + (j - Len(s)) = j
        /\ n + (j - Len(s)) = n + j - Len(s)
    BY <1>1
  <2>2. w[j] = t[j - Len(s)]
    BY <2>1, <1>1
  <2>3. w[j].kind = "event" /\ w[j].seq = n + j - Len(s)
    BY <2>1, <2>2
  <2> QED
    BY <2>3 DEF Counted, Reach
<1>4. \A i \in 1 .. Len(w) : i \in 1 .. Len(s) \/ i > Len(s)
  BY <1>1
<1>5. \A i \in 1 .. Len(w) : Counted(w[i]) => Reach(w[i]) \in 0 .. n + Len(t)
  BY <1>1, <1>2, <1>3, <1>4
<1>6. \A i \in 1 .. Len(w) : w[i].kind = "event" => w[i].seq > 0
  <2>1. \A i \in 1 .. Len(s) : w[i].kind = "event" => w[i].seq > 0
    BY <1>1 DEF Stream
  <2>2. \A i \in 1 .. Len(w) : i > Len(s) => n + i - Len(s) > 0
    BY <1>1
  <2> QED
    BY <2>1, <2>2, <1>3, <1>4
<1>7. ASSUME NEW i \in 1 .. Len(w), NEW j \in 1 .. Len(w), i < j, Counted(w[i]), Counted(w[j])
      PROVE  Reach(w[i]) <= Reach(w[j]) /\ (w[j].kind = "event" => Reach(w[i]) < Reach(w[j]))
  <2>1. CASE j \in 1 .. Len(s)
    <3>1. i \in 1 .. Len(s)
      BY <2>1, <1>7, <1>1
    <3>2. w[i] = s[i] /\ w[j] = s[j]
      BY <2>1, <3>1, <1>1
    <3> QED
      BY <2>1, <3>1, <3>2, <1>7 DEF Stream
  <2>2. CASE i \in 1 .. Len(s) /\ j > Len(s)
    <3>1. Reach(w[i]) \in 0 .. n /\ Reach(w[j]) = n + j - Len(s)
      BY <2>2, <1>2, <1>3, <1>7
    <3> QED
      BY <2>2, <3>1, <1>1
  <2>3. CASE i > Len(s) /\ j > Len(s)
    <3>1. Reach(w[i]) = n + i - Len(s) /\ Reach(w[j]) = n + j - Len(s)
      BY <2>3, <1>3
    <3> QED
      BY <3>1, <1>1, <1>7
  <2> QED
    BY <2>1, <2>2, <2>3, <1>4
<1>8. Follows(w, Len(s), last, n + 1)
  BY <1>1, FollowsSame DEF Stream
<1>9. \A k \in 1 .. Len(w) : k > Len(s) => Follows(w, k, last, n + k - Len(s) + 1)
  <2> SUFFICES ASSUME NEW k \in 1 .. Len(w), k > Len(s)
               PROVE  Follows(w, k, last, n + k - Len(s) + 1)
    OBVIOUS
  <2>1. k \in 1 .. k /\ Counted(w[k]) /\ Reach(w[k]) = n + k - Len(s)
    BY <1>3
  <2>2. n + k - Len(s) + 1 <= Reach(w[k]) + 1
    BY <2>1, <1>1
  <2> QED
    BY <2>1, <2>2 DEF Follows
<1>10. ASSUME NEW j \in 1 .. Len(w), w[j].kind = "event" PROVE Follows(w, j - 1, last, w[j].seq)
  <2>1. CASE j \in 1 .. Len(s)
    <3>1. w[j] = s[j] /\ \A i \in 1 .. j - 1 : w[i] = s[i]
      BY <2>1, <1>1
    <3>2. Follows(s, j - 1, last, s[j].seq)
      BY <2>1, <3>1, <1>10 DEF Stream
    <3>3. Follows(w, j - 1, last, s[j].seq)
      BY <3>1, <3>2, FollowsSame
    <3> QED
      BY <3>1, <3>3
  <2>2. CASE j = Len(s) + 1
    <3>1. w[j].seq = n + j - Len(s) /\ n + j - Len(s) = n + 1 /\ j - 1 = Len(s)
      BY <2>2, <1>1, <1>3
    <3> QED
      BY <3>1, <1>8
  <2>3. CASE j > Len(s) + 1
    <3>0. j \in Nat /\ j <= Len(w) /\ Len(s) \in Nat /\ Len(w) \in Nat
      BY <1>1
    <3>1. j - 1 \in 1 .. Len(w) /\ j - 1 > Len(s) /\ n + (j - 1) - Len(s) + 1 = n + j - Len(s)
      BY <2>3, <3>0
    <3>2. w[j].seq = n + j - Len(s)
      BY <2>3, <1>1, <1>3
    <3>3. Follows(w, j - 1, last, n + (j - 1) - Len(s) + 1)
      BY <3>1, <1>9
    <3> QED
      BY <3>1, <3>2, <3>3
  <2>4. j \in 1 .. Len(s) \/ j = Len(s) + 1 \/ j > Len(s) + 1
    BY <1>1
  <2> QED
    BY <2>1, <2>2, <2>3, <2>4
<1>11. Follows(w, Len(w), last, n + Len(t) + 1)
  <2>1. CASE Len(t) = 0
    <3>1. Len(w) = Len(s) /\ n + Len(t) + 1 = n + 1
      BY <2>1, <1>1
    <3> QED
      BY <3>1, <1>8
  <2>2. CASE Len(t) # 0
    <3>1. /\ Len(w) \in 1 .. Len(w) /\ Len(w) > Len(s)
          /\ n + Len(w) - Len(s) + 1 = n + Len(t) + 1
      BY <2>2, <1>1
    <3>2. Follows(w, Len(w), last, n + Len(w) - Len(s) + 1)
      BY <3>1, <1>9
    <3> QED
      BY <3>1, <3>2
  <2> QED
    BY <2>1, <2>2
<1> QED
  BY <1>5, <1>6, <1>7, <1>10, <1>11 DEF Stream, w

\* A frame without a number goes in between.
LEMMA StreamSlips ==
    ASSUME NEW a, NEW b, NEW f, IsSeq(a), IsSeq(b), ~Counted(f), NEW last \in Nat, NEW n \in Nat,
           Stream(a \o b, last, n)
    PROVE  Stream(Append(a, f) \o b, last, n)
<1> DEFINE s == a \o b
           af == a \o <<f>>
           w == af \o b
           at(i) == IF i <= Len(a) THEN i ELSE i - 1
<1>1. Append(a, f) = af /\ IsSeq(<<f>>) /\ Len(<<f>>) = 1 /\ <<f>>[1] = f
  BY Appended
<1>2. /\ Len(a) \in Nat /\ Len(b) \in Nat /\ Len(s) = Len(a) + Len(b)
      /\ \A i \in 1 .. Len(a) : s[i] = a[i]
      /\ \A i \in 1 .. Len(b) : s[Len(a) + i] = b[i]
  BY Joined
<1>3. /\ IsSeq(af) /\ Len(af) = Len(a) + Len(<<f>>)
      /\ \A i \in 1 .. Len(a) : af[i] = a[i]
      /\ \A i \in 1 .. Len(<<f>>) : af[Len(a) + i] = <<f>>[i]
  BY <1>1, Joined
<1>4. IsSeq(af) /\ Len(af) = Len(a) + 1 /\ af[Len(a) + 1] = f
      /\ \A i \in 1 .. Len(a) : af[i] = a[i]
  BY <1>1, <1>3
<1> HIDE DEF af, s
<1>5. /\ Len(w) = Len(af) + Len(b)
      /\ \A i \in 1 .. Len(af) : w[i] = af[i]
      /\ \A i \in 1 .. Len(b) : w[Len(af) + i] = b[i]
  <2>1. IsSeq(af) /\ IsSeq(b)
    BY <1>4
  <2> QED
    BY <2>1, Joined
<1> HIDE DEF w
<1>6. Len(w) = Len(s) + 1 /\ w[Len(a) + 1] = f /\ \A i \in 1 .. Len(a) : w[i] = s[i]
  BY <1>2, <1>4, <1>5
<1>7. \A i \in 1 .. Len(w) : i > Len(a) + 1 => w[i] = s[i - 1]
  <2> SUFFICES ASSUME NEW i \in 1 .. Len(w), i > Len(a) + 1 PROVE w[i] = s[i - 1]
    OBVIOUS
  <2>1. /\ i - (Len(a) + 1) \in 1 .. Len(b) /\ (Len(a) + 1) + (i - (Len(a) + 1)) = i
        /\ Len(a) + (i - (Len(a) + 1)) = i - 1
    BY <1>2, <1>6
  <2>2. w[(Len(a) + 1) + (i - (Len(a) + 1))] = b[i - (Len(a) + 1)]
    BY <2>1, <1>4, <1>5
  <2>3. s[Len(a) + (i - (Len(a) + 1))] = b[i - (Len(a) + 1)]
    BY <2>1, <1>2
  <2> QED
    BY <2>1, <2>2, <2>3
<1>8. \A i \in 1 .. Len(w) : i # Len(a) + 1 => at(i) \in 1 .. Len(s) /\ w[i] = s[at(i)]
  <2> SUFFICES ASSUME NEW i \in 1 .. Len(w), i # Len(a) + 1
               PROVE  at(i) \in 1 .. Len(s) /\ w[i] = s[at(i)]
    OBVIOUS
  <2>1. CASE i <= Len(a)
    BY <2>1, <1>2, <1>6
  <2>2. CASE i > Len(a) + 1
    <3>1. at(i) = i - 1 /\ i - 1 \in 1 .. Len(s)
      BY <2>2, <1>2, <1>6
    <3> QED
      BY <3>1, <2>2, <1>7
  <2>3. i <= Len(a) \/ i > Len(a) + 1
    BY <1>2
  <2> QED
    BY <2>1, <2>2, <2>3
<1>9. \A i \in 1 .. Len(w) : w[i].kind = "event" \/ Counted(w[i]) => i # Len(a) + 1
  BY <1>6 DEF Counted
<1>10. \A i, j \in 1 .. Len(w) : i # Len(a) + 1 /\ j # Len(a) + 1 /\ i < j => at(i) < at(j)
  BY <1>2
<1>11. \A i \in 1 .. Len(w) : Counted(w[i]) => Reach(w[i]) \in 0 .. n
  BY <1>8, <1>9 DEF Stream, s
<1>12. \A i \in 1 .. Len(w) : w[i].kind = "event" => w[i].seq > 0
  BY <1>8, <1>9 DEF Stream, s
<1>13. \A i, j \in 1 .. Len(w) :
          i < j /\ Counted(w[i]) /\ Counted(w[j]) =>
             /\ Reach(w[i]) <= Reach(w[j])
             /\ w[j].kind = "event" => Reach(w[i]) < Reach(w[j])
  BY <1>8, <1>9, <1>10 DEF Stream, s
<1>14. ASSUME NEW k \in 0 .. Len(w), NEW m, Follows(s, at(k), last, m)
       PROVE  Follows(w, k, last, m)
  <2>1. CASE \E i \in 1 .. at(k) : Counted(s[i]) /\ m <= Reach(s[i]) + 1
    <3>1. PICK i \in 1 .. at(k) : Counted(s[i]) /\ m <= Reach(s[i]) + 1
      BY <2>1
    <3>2. CASE i <= Len(a)
      <4>1. i \in 1 .. k /\ w[i] = s[i]
        BY <3>2, <1>2, <1>6
      <4> QED
        BY <3>1, <4>1 DEF Follows
    <3>3. CASE ~(i <= Len(a))
      <4>1. i + 1 \in 1 .. k /\ i + 1 \in 1 .. Len(w) /\ i + 1 > Len(a) + 1 /\ (i + 1) - 1 = i
        BY <3>3, <1>2, <1>6
      <4>2. w[i + 1] = s[i]
        BY <4>1, <1>7
      <4> QED
        BY <3>1, <4>1, <4>2 DEF Follows
    <3> QED
      BY <3>2, <3>3
  <2>2. CASE (\A i \in 1 .. at(k) : ~Counted(s[i])) /\ m <= last + 1
    <3>1. ASSUME NEW i \in 1 .. k PROVE ~Counted(w[i])
      <4>1. CASE i = Len(a) + 1
        BY <4>1, <1>6
      <4>2. CASE i # Len(a) + 1
        <5>1. at(i) \in 1 .. at(k) /\ w[i] = s[at(i)]
          BY <4>2, <1>2, <1>6, <1>8
        <5> QED
          BY <5>1, <2>2
      <4> QED
        BY <4>1, <4>2
    <3> QED
      BY <3>1, <2>2 DEF Follows
  <2> QED
    BY <2>1, <2>2, <1>14 DEF Follows
<1>15. ASSUME NEW j \in 1 .. Len(w), w[j].kind = "event" PROVE Follows(w, j - 1, last, w[j].seq)
  <2>1. j # Len(a) + 1 /\ at(j) \in 1 .. Len(s) /\ w[j] = s[at(j)]
    BY <1>8, <1>9, <1>15
  <2>2. Follows(s, at(j) - 1, last, s[at(j)].seq)
    BY <2>1, <1>15 DEF Stream, s
  <2>3. j - 1 \in 0 .. Len(w) /\ (at(j - 1) = at(j) - 1 \/ j = Len(a) + 2)
    BY <2>1, <1>2, <1>6
  <2>4. CASE at(j - 1) = at(j) - 1
    BY <2>1, <2>2, <2>3, <2>4, <1>14
  <2>5. CASE j = Len(a) + 2
    <3>1. at(j - 1) = Len(a) /\ at(j) - 1 = Len(a)
      BY <2>5, <1>2
    <3> QED
      BY <3>1, <2>1, <2>2, <2>3, <1>14
  <2> QED
    BY <2>3, <2>4, <2>5
<1>16. Follows(w, Len(w), last, n + 1)
  <2>1. Len(w) \in 0 .. Len(w) /\ at(Len(w)) = Len(s)
    BY <1>2, <1>6
  <2>2. Follows(s, Len(s), last, n + 1)
    BY DEF Stream, s
  <2> QED
    BY <2>1, <2>2, <1>14
<1>17. Stream(w, last, n)
  BY <1>11, <1>12, <1>13, <1>15, <1>16 DEF Stream
<1> QED
  BY <1>1, <1>17 DEF w
\* The first frame of a stream whose beginning is on the wire.
LEMMA TailJoined ==
    ASSUME NEW a, NEW b, IsSeq(a), IsSeq(b), a # <<>>
    PROVE  /\ Tail(a) \o b = Tail(a \o b) /\ a \o b # <<>> /\ (a \o b)[1] = Head(a)
           /\ IsSeq(a \o b) /\ IsSeq(Tail(a))
<1> DEFINE S == Range(a) \cup Range(b)
<1>1. a \in Seq(S) /\ b \in Seq(S)
  BY DEF IsSeq
<1> HIDE DEF S
<1>2. IsSeq(a \o b) /\ IsSeq(Tail(a)) /\ Head(a) = a[1] /\ Len(a) \in Nat \ {0}
  BY Joined, TailIs
<1>3. (a \o b)[1] = a[1]
  BY <1>2, Joined
<1>4. a \o b # <<>>
  BY <1>1, ConcatEqualIffEmpty
<1>5. Tail(a) \o b = Tail(a \o b)
  <2>1. /\ Tail(a) \in Seq(S) /\ a \o b \in Seq(S) /\ Tail(a) \o b \in Seq(S)
        /\ Tail(a \o b) \in Seq(S)
    BY <1>1, <1>4
  <2>2. /\ Len(Tail(a)) = Len(a) - 1 /\ \A i \in 1 .. Len(a) - 1 : Tail(a)[i] = a[i + 1]
    BY TailIs
  <2>3. /\ Len(a) \in Nat /\ Len(b) \in Nat /\ Len(a \o b) = Len(a) + Len(b)
        /\ \A i \in 1 .. Len(a) : (a \o b)[i] = a[i]
        /\ \A i \in 1 .. Len(b) : (a \o b)[Len(a) + i] = b[i]
    BY Joined
  <2>4. /\ Len(Tail(a) \o b) = Len(Tail(a)) + Len(b)
        /\ \A i \in 1 .. Len(Tail(a)) : (Tail(a) \o b)[i] = Tail(a)[i]
        /\ \A i \in 1 .. Len(b) : (Tail(a) \o b)[Len(Tail(a)) + i] = b[i]
    BY <1>2, Joined
  <2>5. /\ Len(Tail(a \o b)) = Len(a \o b) - 1
        /\ \A i \in 1 .. Len(a \o b) - 1 : Tail(a \o b)[i] = (a \o b)[i + 1]
    BY <1>2, <1>4, TailIs
  <2>6. Len(Tail(a) \o b) = Len(Tail(a \o b))
    BY <2>2, <2>3, <2>4, <2>5, <1>2
  <2>7. ASSUME NEW i \in 1 .. Len(Tail(a) \o b) PROVE (Tail(a) \o b)[i] = Tail(a \o b)[i]
    <3>1. i \in 1 .. Len(a \o b) - 1 /\ Tail(a \o b)[i] = (a \o b)[i + 1]
      BY <2>2, <2>3, <2>4, <2>5, <1>2
    <3>2. CASE i <= Len(a) - 1
      <4>1. i \in 1 .. Len(Tail(a)) /\ i \in 1 .. Len(a) - 1 /\ i + 1 \in 1 .. Len(a)
        BY <3>2, <2>2, <1>2
      <4> QED
        BY <4>1, <3>1, <2>2, <2>3, <2>4
    <3>3. CASE ~(i <= Len(a) - 1)
      <4>1. /\ i - (Len(a) - 1) \in 1 .. Len(b) /\ Len(Tail(a)) + (i - (Len(a) - 1)) = i
            /\ Len(a) + (i - (Len(a) - 1)) = i + 1
        BY <3>3, <3>1, <2>2, <2>3, <1>2
      <4>2. (Tail(a) \o b)[Len(Tail(a)) + (i - (Len(a) - 1))] = b[i - (Len(a) - 1)]
        BY <4>1, <2>4
      <4>3. (a \o b)[Len(a) + (i - (Len(a) - 1))] = b[i - (Len(a) - 1)]
        BY <4>1, <2>3
      <4> QED
        BY <4>1, <4>2, <4>3, <3>1
    <3> QED
      BY <3>2, <3>3
  <2> QED
    BY <2>1, <2>6, <2>7, SeqEqual
<1> QED
  BY <1>2, <1>3, <1>4, <1>5

\* Three parts of a stream.
LEMMA Regrouped ==
    ASSUME NEW a, NEW b, NEW c, IsSeq(a), IsSeq(b), IsSeq(c)
    PROVE  (a \o b) \o c = a \o (b \o c) /\ a \o <<>> = a /\ <<>> \o a = a /\ IsSeq(<<>>)
<1> DEFINE S == Range(a) \cup Range(b) \cup Range(c)
<1>1. a \in Seq(S) /\ b \in Seq(S) /\ c \in Seq(S) /\ <<>> \in Seq(S)
  BY DEF IsSeq
<1> HIDE DEF S
<1>2. (a \o b) \o c = a \o (b \o c)
  BY <1>1, ConcatAssociative
<1>3. a \o <<>> = a /\ <<>> \o a = a
  BY <1>1, ConcatEmptySeq
<1> QED
  BY <1>1, <1>2, <1>3, SeqIs

-----------------------------------------------------------------------------
(* What the server sends. *)

\* A broadcast numbers its events, keeps them, and queues them for whom is connected.
LEMMA Broadcasting ==
    ASSUME IInv, NEW events, IsSeq(events), Broadcasts(events)
    PROVE  /\ seq' \in Nat /\ IsSeq(ring') /\ InOrder(ring', seq') /\ IsSeq(queued')
           /\ IF connected THEN Stream(wire \o queued', lastSeq, seq') ELSE queued' = <<>>
<1>1. Len(events) \in Nat /\ DOMAIN events = 1 .. Len(events)
  BY DEF IsSeq
<1>2. seq \in Nat /\ seq' = seq + Len(events) /\ seq' \in Nat
  BY <1>1 DEF IInv, Broadcasts
<1> DEFINE entries == [i \in 1 .. Len(events) |-> [seq |-> seq + i, event |-> events[i]]]
           frames == [i \in 1 .. Len(events) |-> EventFrame(seq + i, events[i])]
<1>3. IsSeq(entries) /\ Len(entries) = Len(events)
  <2>1. entries \in [1 .. Len(events) -> {entries[i] : i \in 1 .. Len(events)}]
    OBVIOUS
  <2> HIDE DEF entries
  <2> QED
    BY <1>1, <2>1, Tabled
<1>4. IsSeq(frames) /\ Len(frames) = Len(events)
  <2>1. frames \in [1 .. Len(events) -> {frames[i] : i \in 1 .. Len(events)}]
    OBVIOUS
  <2> HIDE DEF frames
  <2> QED
    BY <1>1, <2>1, Tabled
<1>5. \A i \in 1 .. Len(entries) : entries[i].seq = seq + i
  BY <1>3
<1>6. \A i \in 1 .. Len(frames) : frames[i].kind = "event" /\ frames[i].seq = seq + i
  BY <1>4 DEF EventFrame
<1>7. ring' = Newest(ring \o entries) /\ queued' = IF connected THEN queued \o frames ELSE queued
  BY <1>1 DEF Broadcasts
<1> HIDE DEF entries, frames
<1>8. IsSeq(ring \o entries) /\ InOrder(ring \o entries, seq')
  <2>1. IsSeq(ring) /\ InOrder(ring, seq)
    BY DEF IInv
  <2>2. IsSeq(ring \o entries) /\ InOrder(ring \o entries, seq + Len(entries))
    BY <2>1, <1>2, <1>3, <1>5, JoinedInOrder
  <2> QED
    BY <2>2, <1>2, <1>3
<1>9. IsSeq(ring') /\ InOrder(ring', seq')
  BY <1>2, <1>7, <1>8, NewestInOrder
<1>10. CASE connected
  <2>1. IsSeq(wire) /\ IsSeq(queued) /\ lastSeq \in Nat /\ Stream(wire \o queued, lastSeq, seq)
    BY <1>10 DEF IInv
  <2>2. IsSeq(wire \o queued) /\ IsSeq(queued \o frames)
    BY <2>1, <1>4, Joined
  <2>3. Stream((wire \o queued) \o frames, lastSeq, seq + Len(frames))
    <3>1. IsSeq(wire \o queued) /\ IsSeq(frames)
      BY <2>2, <1>4
    <3> QED
      BY <2>1, <3>1, <1>2, <1>6, StreamGrows, SMTT(30)
  <2>4. (wire \o queued) \o frames = wire \o (queued \o frames)
    <3>1. IsSeq(wire) /\ IsSeq(queued) /\ IsSeq(frames)
      BY <2>1, <1>4
    <3> QED
      BY <3>1, Regrouped, SMTT(30)
  <2>5. queued' = queued \o frames
    BY <1>7, <1>10
  <2>6. seq + Len(frames) = seq'
    BY <1>2, <1>4
  <2>7. Stream(wire \o queued', lastSeq, seq')
    BY <2>3, <2>4, <2>5, <2>6
  <2> QED
    BY <2>2, <2>5, <2>7, <1>2, <1>9, <1>10
<1>11. CASE ~connected
  <2>1. queued' = <<>> /\ IsSeq(queued)
    BY <1>7, <1>11 DEF IInv
  <2> QED
    BY <2>1, <1>2, <1>7, <1>9, <1>11
<1> QED
  BY <1>10, <1>11

\* The answer to the renderer's own request overtakes the broadcasts in the micro-batch.
LEMMA Serving ==
    ASSUME IInv, NEW c, NEW result, NEW events, IsSeq(events), Serve(c, result, events)
    PROVE  IInv'
<1>1. /\ seq' \in Nat /\ IsSeq(ring') /\ InOrder(ring', seq') /\ IsSeq(queued')
      /\ IF connected THEN Stream(wire \o queued', lastSeq, seq') ELSE queued' = <<>>
  BY Broadcasting DEF Serve
<1>2. lastSeq' = lastSeq /\ connected' = connected
  BY DEF Serve, client
<1>3. lastSeq \in Nat /\ connected \in BOOLEAN /\ IsSeq(wire)
  BY DEF IInv
<1>4. CASE c # Self
  <2>1. wire' = wire /\ (~connected => wire = <<>>)
    BY <1>4 DEF Serve, IInv
  <2> QED
    BY <1>1, <1>2, <1>3, <2>1 DEF IInv
<1>5. CASE c = Self
  <2> DEFINE f == ReplyFrame(result.snapshot)
  <2>1. connected /\ wire' = Append(wire, f)
    BY <1>5 DEF Serve
  <2>2. ~Counted(f)
    BY DEF ReplyFrame, Counted
  <2> HIDE DEF f
  <2>3. Append(wire, f) = wire \o <<f>> /\ IsSeq(<<f>>)
    BY <1>3, Appended
  <2>4. IsSeq(wire')
    BY <1>3, <2>1, <2>3, Joined
  <2>5. Stream(Append(wire, f) \o queued', lastSeq, seq')
    BY <1>1, <1>3, <2>1, <2>2, StreamSlips
  <2> QED
    BY <1>1, <1>2, <1>3, <2>1, <2>4, <2>5 DEF IInv
<1> QED
  BY <1>4, <1>5

\* The renderer takes the first frame, and has then processed its number.
LEMMA Receiving ==
    ASSUME IInv, NEW kind, Receive(kind), lastSeq' \in Nat,
           IF Counted(Head(wire)) THEN Reach(Head(wire)) <= lastSeq' ELSE lastSeq' = lastSeq
    PROVE  IInv'
<1>1. /\ wire # <<>> /\ wire' = Tail(wire) /\ queued' = queued /\ connected' = connected
      /\ seq' = seq /\ ring' = ring
  BY DEF Receive, server
<1>2. /\ connected /\ seq \in Nat /\ lastSeq \in Nat /\ IsSeq(wire) /\ IsSeq(queued)
      /\ Stream(wire \o queued, lastSeq, seq)
  BY <1>1 DEF IInv
<1>3. /\ Tail(wire) \o queued = Tail(wire \o queued) /\ wire \o queued # <<>>
      /\ (wire \o queued)[1] = Head(wire) /\ IsSeq(wire \o queued) /\ IsSeq(Tail(wire))
  BY <1>1, <1>2, TailJoined
<1>4. Stream(Tail(wire \o queued), lastSeq', seq)
  BY <1>2, <1>3, StreamTail
<1> QED
  BY <1>1, <1>2, <1>3, <1>4 DEF IInv
-----------------------------------------------------------------------------
(* Reconnecting. *)

\* Frames that take the renderer to n at once.
LEMMA StreamJumps ==
    ASSUME NEW s, IsSeq(s), s # <<>>, NEW last \in Nat, NEW n \in Nat,
           \A i \in 1 .. Len(s) : Counted(s[i]) /\ s[i].kind # "event" /\ Reach(s[i]) = n
    PROVE  Stream(s, last, n)
<1>1. Len(s) \in Nat \ {0} /\ 1 \in 1 .. Len(s)
  BY TailIs
<1>2. Follows(s, Len(s), last, n + 1)
  <2>1. Counted(s[1]) /\ n + 1 <= Reach(s[1]) + 1
    BY <1>1
  <2> QED
    BY <1>1, <2>1 DEF Follows
<1>3. \A i \in 1 .. Len(s) : Reach(s[i]) \in 0 .. n
  OBVIOUS
<1>4. \A i, j \in 1 .. Len(s) : Reach(s[i]) <= Reach(s[j])
  OBVIOUS
<1> QED
  BY <1>2, <1>3, <1>4 DEF Stream

\* An empty stream to a renderer that is ahead.
LEMMA StreamEmpty ==
    ASSUME NEW last \in Nat, NEW n \in Nat, n <= last
    PROVE  Stream(<<>>, last, n) /\ IsSeq(<<>>)
<1>1. Len(<<>>) = 0 /\ IsSeq(<<>>)
  <2>1. <<>> \in Seq({})
    OBVIOUS
  <2> QED
    BY <2>1, SeqIs
<1>2. Follows(<<>>, 0, last, n + 1)
  BY DEF Follows
<1> QED
  BY <1>1, <1>2 DEF Stream

\* One frame is a sequence.
LEMMA OneFrame ==
    ASSUME NEW S, NEW f \in S
    PROVE  <<f>> \in Seq(S) /\ <<f>> # <<>> /\ <<>> \in Seq(S)
  OBVIOUS

\* What is replayed leaves the renderer at the number the server is at: one by one if
\* nothing is missing, else at once.
LEMMA Replaying ==
    ASSUME IsSeq(ring), seq \in Nat, lastSeq \in Nat, InOrder(ring, seq)
    PROVE  IsSeq(ReplayFrames) /\ Stream(ReplayFrames, lastSeq, seq)
<1> DEFINE truncation == IF ReplayTruncated THEN <<TruncatedFrame>> ELSE <<>>
           frames == [i \in DOMAIN Window |-> EventFrame(Window[i].seq, Window[i].event)]
           Jumps(f) == Counted(f) /\ f.kind # "event" /\ Reach(f) = seq
<1>1. Jumps(TruncatedFrame) /\ Jumps(BatchFrame)
  BY DEF TruncatedFrame, BatchFrame, Counted, Reach
<1>2. /\ IsSeq(Window) /\ InOrder(Window, seq)
      /\ \A i \in 1 .. Len(Window) : Window[i].seq > lastSeq
      /\ Len(Window) > 0 => ring # <<>> /\ ring[1].seq <= Window[1].seq
  BY WindowIs
<1>3. Len(Window) \in Nat /\ DOMAIN Window = 1 .. Len(Window)
  BY <1>2 DEF IsSeq
<1>4. CASE Resync
  <2> DEFINE s == ReplayFrames
  <2>1. s \in Seq({TruncatedFrame, BatchFrame}) /\ s # <<>>
    <3>1. s = truncation \o <<BatchFrame>>
      BY <1>4 DEF ReplayFrames
    <3>2. truncation \in Seq({TruncatedFrame, BatchFrame})
      BY OneFrame, Zenon
    <3>3. <<BatchFrame>> \in Seq({TruncatedFrame, BatchFrame}) /\ <<BatchFrame>> # <<>>
      BY OneFrame
    <3> HIDE DEF truncation
    <3> QED
      BY <3>1, <3>2, <3>3, ConcatProperties, ConcatEqualIffEmpty
  <2>2. ReplayFrames = s
    OBVIOUS
  <2> HIDE DEF s
  <2>3. IsSeq(s) /\ \A i \in 1 .. Len(s) : s[i] \in {TruncatedFrame, BatchFrame}
    BY <2>1, SeqIs
  <2>4. Stream(s, lastSeq, seq)
    BY <1>1, <2>1, <2>3, StreamJumps
  <2> QED
    BY <2>2, <2>3, <2>4
<1>5. CASE ~Resync /\ ~WindowPerEventReplayable
  <2> DEFINE s == <<TruncatedFrame>>
  <2>1. s \in Seq({TruncatedFrame}) /\ s # <<>>
    OBVIOUS
  <2>2. ReplayFrames = s
    BY <1>5 DEF ReplayFrames
  <2> HIDE DEF s
  <2>3. IsSeq(s) /\ \A i \in 1 .. Len(s) : s[i] \in {TruncatedFrame}
    BY <2>1, SeqIs
  <2>4. Stream(s, lastSeq, seq)
    BY <1>1, <2>1, <2>3, StreamJumps
  <2> QED
    BY <2>2, <2>3, <2>4
<1>6. CASE ~Resync /\ WindowPerEventReplayable /\ seq <= lastSeq
  <2>1. Len(Window) = 0
    <3> SUFFICES ASSUME Len(Window) # 0 PROVE FALSE
      OBVIOUS
    <3>1. 1 \in 1 .. Len(Window)
      BY <1>3
    <3>2. Window[1].seq \in 1 .. seq /\ Window[1].seq > lastSeq
      BY <3>1, <1>2 DEF InOrder
    <3> QED
      BY <3>2, <1>6
  <2>2. frames = <<>>
    <3>1. frames = [i \in 1 .. 0 |-> EventFrame(Window[i].seq, Window[i].event)]
      BY <2>1, <1>3
    <3> QED
      BY <3>1
  <2>3. truncation = <<>>
    BY <1>6 DEF ReplayTruncated
  <2>4. ReplayFrames = truncation \o frames
    BY <1>6 DEF ReplayFrames
  <2>5. ReplayFrames = <<>>
    BY <2>2, <2>3, <2>4
  <2> QED
    BY <2>5, <1>6, StreamEmpty
<1>7. CASE ~Resync /\ WindowPerEventReplayable /\ ~(seq <= lastSeq)
  <2>1. Len(Window) = seq - lastSeq /\ seq - lastSeq > 0
    BY <1>7 DEF WindowPerEventReplayable
  <2>2. \A i \in 1 .. Len(Window) : Window[i].seq = lastSeq + i
    BY <1>2, <2>1, Consecutive
  <2>3. ~ReplayTruncated
    <3>1. ring[1].seq <= lastSeq + 1
      BY <2>1, <2>2, <1>2, <1>3
    <3>2. ring[1].seq \in Nat
      <4>1. 1 \in 1 .. Len(ring)
        <5>1. ring # <<>>
          BY <1>2, <1>3, <2>1
        <5>2. Len(ring) \in Nat \ {0}
          BY <5>1, TailIs
        <5> QED
          BY <5>2
      <4> QED
        BY <4>1 DEF InOrder
    <3> QED
      BY <3>1, <3>2 DEF ReplayTruncated
  <2>4. IsSeq(frames) /\ Len(frames) = Len(Window)
    <3>1. frames \in [1 .. Len(Window) -> {frames[i] : i \in 1 .. Len(Window)}]
      BY <1>3
    <3> HIDE DEF frames
    <3> QED
      BY <3>1, <1>3, Tabled
  <2>5. \A i \in 1 .. Len(frames) : frames[i].kind = "event" /\ frames[i].seq = lastSeq + i
    BY <1>3, <2>2, <2>4 DEF EventFrame
  <2>6. ReplayFrames = <<>> \o frames
    BY <1>7, <2>3 DEF ReplayFrames
  <2> HIDE DEF frames
  <2>7. Stream(<<>>, lastSeq, lastSeq) /\ IsSeq(<<>>)
    BY StreamEmpty
  <2>8. Stream(<<>> \o frames, lastSeq, lastSeq + Len(frames))
    BY <2>4, <2>5, <2>7, StreamGrows
  <2>9. <<>> \o frames = frames
    BY <2>4, Regrouped
  <2>10. lastSeq + Len(frames) = seq
    BY <2>1, <2>4
  <2> QED
    BY <2>4, <2>6, <2>8, <2>9, <2>10
<1> QED
  BY <1>4, <1>5, <1>6, <1>7

\* A new connection starts with what was missed, the bootstrap, and its own presence.
LEMMA Connecting ==
    ASSUME IInv, NEW order, Connect(order)
    PROVE  IInv'
<1> DEFINE R == ReplayFrames
           f == EventFrame(seq + 1, Presence)
<1>1. PICK boot : wire' = Append(R, boot) /\ ~Counted(boot)
  BY DEF Connect, BootstrapFrame, Counted
<1>2. /\ connected' = TRUE /\ seq' = seq + 1 /\ ring' = AddPresence(ring, seq + 1)
      /\ queued' = <<f>> /\ lastSeq' = lastSeq
  BY DEF Connect
<1>3. seq \in Nat /\ lastSeq \in Nat /\ IsSeq(ring) /\ InOrder(ring, seq)
  BY DEF IInv
<1>4. f.kind = "event" /\ f.seq = seq + 1
  BY DEF EventFrame
<1>5. IsSeq(R) /\ Stream(R, lastSeq, seq)
  BY <1>3, Replaying
<1> HIDE DEF R, f
<1>6. /\ Append(R, f) = R \o <<f>> /\ IsSeq(<<f>>) /\ Len(<<f>>) = 1 /\ <<f>>[1] = f
  BY <1>5, Appended
<1>7. Stream(R \o <<f>>, lastSeq, seq + 1)
  <2>1. \A i \in 1 .. Len(<<f>>) : <<f>>[i].kind = "event" /\ <<f>>[i].seq = seq + i
    BY <1>4, <1>6
  <2>2. Stream(R \o <<f>>, lastSeq, seq + Len(<<f>>))
    BY <1>3, <1>5, <1>6, <2>1, StreamGrows
  <2> QED
    BY <2>2, <1>6
<1>8. Stream(Append(R, boot) \o <<f>>, lastSeq, seq + 1)
  <2>1. seq + 1 \in Nat
    BY <1>3
  <2> QED
    BY <1>1, <1>3, <1>5, <1>6, <1>7, <2>1, StreamSlips
<1>9. IsSeq(Append(R, boot))
  <2>1. Append(R, boot) = R \o <<boot>> /\ IsSeq(<<boot>>)
    BY <1>5, Appended
  <2> QED
    BY <1>5, <2>1, Joined
<1>10. IsSeq(ring') /\ InOrder(ring', seq + 1)
  BY <1>2, <1>3, PresenceInOrder
<1>11. seq' \in Nat /\ lastSeq' \in Nat /\ connected' \in BOOLEAN
  BY <1>2, <1>3
<1> QED
  BY <1>1, <1>2, <1>6, <1>8, <1>9, <1>10, <1>11 DEF IInv

\* A connection that is lost takes its frames with it.
LEMMA Disconnecting ==
    ASSUME IInv, Disconnect
    PROVE  IInv'
<1>1. /\ connected' = FALSE /\ wire' = <<>> /\ queued' = <<>> /\ lastSeq' = lastSeq
      /\ seq' = seq + 1 /\ ring' = AddPresence(ring, seq + 1)
  BY DEF Disconnect
<1>2. seq \in Nat /\ lastSeq \in Nat /\ IsSeq(ring) /\ InOrder(ring, seq)
  BY DEF IInv
<1>3. IsSeq(ring') /\ InOrder(ring', seq + 1)
  BY <1>1, <1>2, PresenceInOrder
<1>4. IsSeq(<<>>) /\ seq + 1 \in Nat
  BY <1>2, StreamEmpty
<1> QED
  BY <1>1, <1>2, <1>3, <1>4 DEF IInv

\* The server starts again with nothing.
LEMMA Restarting ==
    ASSUME IInv, Restart
    PROVE  IInv'
<1>1. /\ connected' = FALSE /\ wire' = <<>> /\ queued' = <<>> /\ lastSeq' = lastSeq
      /\ seq' = 0 /\ ring' = <<>>
  BY DEF Restart
<1>2. lastSeq \in Nat
  BY DEF IInv
<1>3. IsSeq(<<>>) /\ Len(<<>>) = 0
  BY <1>2, StreamEmpty
<1>4. InOrder(<<>>, 0)
  BY <1>3 DEF InOrder
<1> QED
  BY <1>1, <1>2, <1>3, <1>4 DEF IInv

\* The micro-batch moves to the wire.
LEMMA Flushing ==
    ASSUME IInv, FlushClientBatch
    PROVE  IInv'
<1>1. /\ queued # <<>> /\ wire' = wire \o queued /\ queued' = <<>> /\ connected' = connected
      /\ seq' = seq /\ ring' = ring /\ lastSeq' = lastSeq
  BY DEF FlushClientBatch, server, client
<1>2. /\ connected /\ IsSeq(wire) /\ IsSeq(queued) /\ Stream(wire \o queued, lastSeq, seq)
      /\ seq \in Nat /\ lastSeq \in Nat /\ IsSeq(ring) /\ InOrder(ring, seq)
  BY <1>1 DEF IInv
<1>3. IsSeq(wire \o queued)
  BY <1>2, Joined
<1>4. (wire \o queued) \o <<>> = wire \o queued /\ IsSeq(<<>>)
  BY <1>3, Regrouped
<1> QED
  BY <1>1, <1>2, <1>3, <1>4 DEF IInv
-----------------------------------------------------------------------------
(* The stream stays in order. *)

\* The stream starts empty, to a renderer that has processed nothing.
LEMMA InitHolds == Init => IInv
<1> SUFFICES ASSUME Init PROVE IInv
  OBVIOUS
<1>1. /\ seq = 0 /\ ring = <<>> /\ wire = <<>> /\ queued = <<>> /\ lastSeq = 0
      /\ connected = FALSE
  BY DEF Init
<1>2. IsSeq(<<>>) /\ Len(<<>>) = 0
  BY StreamEmpty
<1>3. InOrder(<<>>, 0)
  BY <1>2 DEF InOrder
<1> QED
  BY <1>1, <1>2, <1>3 DEF IInv

\* A broadcast that answers nobody.
LEMMA BroadcastKeeps ==
    ASSUME IInv, NEW events, IsSeq(events), Broadcasts(events),
           connected' = connected, wire' = wire, lastSeq' = lastSeq
    PROVE  IInv'
<1>1. /\ seq' \in Nat /\ IsSeq(ring') /\ InOrder(ring', seq') /\ IsSeq(queued')
      /\ IF connected THEN Stream(wire \o queued', lastSeq, seq') ELSE queued' = <<>>
  BY Broadcasting
<1>2. lastSeq \in Nat /\ connected \in BOOLEAN /\ IsSeq(wire) /\ (~connected => wire = <<>>)
  BY DEF IInv
<1> QED
  BY <1>1, <1>2 DEF IInv

\* A sweep broadcasts one event for each lease it found expired.
LEMMA SweepKeeps ==
    ASSUME IInv, NEW order, PruneExpiredTaskCommandLeases(order)
    PROVE  IInv'
<1> DEFINE S == Prune(store, order).snapshots
           events(walk) == [i \in DOMAIN walk |-> ControllerEvent(walk[i])]
<1>1. IsFiniteSet(S)
  <2>1. IsFiniteSet(ExpiredTasks(store))
    <3>1. ExpiredTasks(store) \subseteq Tasks /\ IsFiniteSet(Tasks)
      BY LeaseAssumption DEF ExpiredTasks
    <3> QED
      BY <3>1, FS_Subset
  <2> DEFINE X == ExpiredTasks(store)
             next == DeleteAll(store, X)
             snap == [t \in X |-> SnapshotAt(next, t, WalkVersion(store, X, order, t))]
  <2>2. S = {snap[t] : t \in X}
    BY DEF Prune, ReleasedSnapshots
  <2>3. {snap[t] : t \in X} = {s \in {snap[t] : t \in X} : TRUE}
    OBVIOUS
  <2> HIDE DEF X, next
  <2>4. IsFiniteSet(X)
    BY <2>1 DEF X
  <2> DEFINE Y == {snap[t] : t \in X}
  <2>5. snap \in Surjection(X, Y)
    BY DEF Surjection
  <2> HIDE DEF snap, Y
  <2>6. IsFiniteSet(Y)
    BY <2>4, <2>5, FS_Surjection
  <2> QED
    BY <2>2, <2>6 DEF Y
<1>2. PICK walk \in [1 .. Cardinality(S) -> S] : Broadcasts(events(walk))
  BY DEF PruneExpiredTaskCommandLeases
<1>3. /\ connected' = connected /\ wire' = wire /\ lastSeq' = lastSeq
  BY DEF PruneExpiredTaskCommandLeases, client
<1> HIDE DEF S
<1>4. IsSeq(events(walk))
  <2>1. Cardinality(S) \in Nat /\ DOMAIN walk = 1 .. Cardinality(S)
    BY <1>1, FS_CardinalityType
  <2>2. events(walk) \in [1 .. Cardinality(S) -> {ControllerEvent(s) : s \in S}]
    BY <2>1
  <2> HIDE DEF events
  <2> QED
    BY <2>1, <2>2, Tabled
<1> HIDE DEF events
<1> QED
  BY <1>2, <1>3, <1>4, BroadcastKeeps

\* What a step leaves to the server and the network, or to the rest of the renderer.
LEMMA Elsewhere ==
    ASSUME IInv, UNCHANGED <<seq, ring, connected, queued, wire, lastSeq>>
    PROVE  IInv'
  BY DEF IInv, InOrder, Stream, Follows

\* Taking the first frame off the wire leaves the rest a stream to what the
\* renderer has processed then.
LEMMA DeliverKeeps ==
    ASSUME IInv, Deliver
    PROVE  IInv'
<1>1. seq \in Nat /\ lastSeq \in Nat
  BY DEF IInv
<1>2. ASSUME NEW kind, Receive(kind)
      PROVE  /\ Head(wire).kind = kind /\ connected
             /\ Counted(Head(wire)) => Reach(Head(wire)) \in Nat
             /\ kind = "event" => Head(wire).seq \in Nat \ {0}
  <2>1. wire # <<>> /\ Head(wire).kind = kind
    BY <1>2 DEF Receive
  <2>2. /\ connected /\ IsSeq(wire) /\ IsSeq(queued) /\ Stream(wire \o queued, lastSeq, seq)
    BY <2>1 DEF IInv
  <2>3. IsSeq(wire \o queued) /\ wire \o queued # <<>> /\ (wire \o queued)[1] = Head(wire)
    BY <2>1, <2>2, TailJoined
  <2>4. 1 \in 1 .. Len(wire \o queued)
    BY <2>3, TailIs
  <2>5. Counted(Head(wire)) => Reach(Head(wire)) \in 0 .. seq
    BY <2>2, <2>3, <2>4 DEF Stream
  <2>6. kind = "event" => Head(wire).seq > 0
    BY <2>1, <2>2, <2>3, <2>4 DEF Stream
  <2>7. kind = "event" => Counted(Head(wire)) /\ Reach(Head(wire)) = Head(wire).seq
    BY <2>1 DEF Counted, Reach
  <2> QED
    BY <2>1, <2>2, <2>5, <2>6, <2>7, <1>1
<1>3. CASE DeliverEvent
  <2>1. Receive("event")
    BY <1>3 DEF DeliverEvent
  <2>2. Head(wire).kind = "event" /\ Head(wire).seq \in Nat \ {0}
    BY <2>1, <1>2
  <2>3. Counted(Head(wire)) /\ Reach(Head(wire)) = Head(wire).seq
    BY <2>2 DEF Counted, Reach
  <2>4. \/ Head(wire).seq <= LastSeqFor(Head(wire).seq) /\ lastSeq' = lastSeq
        \/ lastSeq' = Head(wire).seq
    BY <1>3 DEF DeliverEvent
  <2>5. LastSeqFor(Head(wire).seq) \in {0, lastSeq}
    BY DEF LastSeqFor
  <2>6. lastSeq' \in Nat /\ Head(wire).seq <= lastSeq'
    BY <2>2, <2>4, <2>5, <1>1
  <2> QED
    BY <2>1, <2>3, <2>6, Receiving
<1>4. CASE DeliverReplayBatch
  <2>1. Receive("control-replay-batch") /\ AdoptSeq(Head(wire).toSeq)
    BY <1>4 DEF DeliverReplayBatch
  <2>2. Head(wire).kind = "control-replay-batch"
    BY <2>1, <1>2
  <2>3. Counted(Head(wire)) /\ Reach(Head(wire)) = Head(wire).toSeq
    BY <2>2 DEF Counted, Reach
  <2>4. Head(wire).toSeq \in Nat
    BY <2>1, <2>3, <1>2
  <2>5. lastSeq' \in Nat /\ Head(wire).toSeq <= lastSeq'
    BY <2>1, <2>4, <1>1 DEF AdoptSeq
  <2> QED
    BY <2>1, <2>3, <2>5, Receiving
<1>5. CASE DeliverReplayTruncated
  <2>1. Receive("replay-truncated") /\ AdoptSeq(Head(wire).latestSeq)
    BY <1>5 DEF DeliverReplayTruncated
  <2>2. Head(wire).kind = "replay-truncated"
    BY <2>1, <1>2
  <2>3. Counted(Head(wire)) /\ Reach(Head(wire)) = Head(wire).latestSeq
    BY <2>2 DEF Counted, Reach
  <2>4. Head(wire).latestSeq \in Nat
    BY <2>1, <2>3, <1>2
  <2>5. lastSeq' \in Nat /\ Head(wire).latestSeq <= lastSeq'
    BY <2>1, <2>4, <1>1 DEF AdoptSeq
  <2> QED
    BY <2>1, <2>3, <2>5, Receiving
<1>6. CASE DeliverBootstrap
  <2>1. Receive("state-bootstrap") /\ lastSeq' = lastSeq
    BY <1>6 DEF DeliverBootstrap
  <2>2. ~Counted(Head(wire))
    BY <2>1, <1>2 DEF Counted
  <2> QED
    BY <2>1, <2>2, <1>1, Receiving
<1>7. CASE DeliverReply
  <2>1. Receive("reply") /\ lastSeq' = lastSeq
    BY <1>7 DEF DeliverReply
  <2>2. ~Counted(Head(wire))
    BY <2>1, <1>2 DEF Counted
  <2> QED
    BY <2>1, <2>2, <1>1, Receiving
<1> QED
  BY <1>3, <1>4, <1>5, <1>6, <1>7 DEF Deliver

\* Every step of the system keeps the order of the stream and of the ring.
LEMMA StepKeeps == IInv /\ [Next]_vars => IInv'
<1> SUFFICES ASSUME IInv, [Next]_vars PROVE IInv'
  OBVIOUS
<1>0. \A x : IsSeq(<<x>>) /\ IsSeq(<<>>) /\ \A y : IsSeq(<<x, y>>)
  <2> SUFFICES ASSUME NEW x, NEW y PROVE IsSeq(<<x>>) /\ IsSeq(<<>>) /\ IsSeq(<<x, y>>)
    OBVIOUS
  <2>1. <<x>> \in Seq({x, y}) /\ <<>> \in Seq({x, y}) /\ <<x, y>> \in Seq({x, y})
    OBVIOUS
  <2> QED
    BY <2>1, SeqIs
<1>1. ASSUME NEW t, NEW c, NEW o, NEW a, NEW takeover,
             AcquireTaskCommandLease(t, c, o, a, takeover)
      PROVE  IInv'
  <2> DEFINE result == Acquire(store, t, c, o, a, takeover)
  <2>1. Serve(c, result, Changes(result))
    BY <1>1 DEF AcquireTaskCommandLease
  <2> HIDE DEF result
  <2>2. IsSeq(Changes(result))
    BY <1>0 DEF Changes
  <2> QED
    BY <2>1, <2>2, Serving
<1>2. ASSUME NEW t, NEW c, NEW o, RenewTaskCommandLease(t, c, o) PROVE IInv'
  <2>1. Serve(c, Renew(store, t, c, o, None), <<>>)
    BY <1>2 DEF RenewTaskCommandLease
  <2> QED
    BY <2>1, <1>0, Serving
<1>3. ASSUME NEW t, NEW c, NEW o, ReleaseTaskCommandLease(t, c, o) PROVE IInv'
  <2> DEFINE result == Release(store, t, c, o, None)
  <2>1. Serve(c, result, Changes(result))
    BY <1>3 DEF ReleaseTaskCommandLease
  <2> HIDE DEF result
  <2>2. IsSeq(Changes(result))
    BY <1>0 DEF Changes
  <2> QED
    BY <2>1, <2>2, Serving
<1>4. ASSUME NEW t, NEW c, NEW o, NEW d, NEW a, ReleaseToRequester(t, c, o, d, a) PROVE IInv'
  <2>1. \E result, x, y : Serve(c, result, <<x, y>>)
    BY <1>4 DEF ReleaseToRequester
  <2> QED
    BY <2>1, <1>0, Serving
<1>5. CASE BroadcastOther
  <2>1. /\ Broadcasts(<<Lifecycle>>)
        /\ connected' = connected /\ wire' = wire /\ lastSeq' = lastSeq
    BY <1>5 DEF BroadcastOther, client
  <2> QED
    BY <2>1, <1>0, BroadcastKeeps
<1>6. ASSUME \/ \E order \in KeyOrders : GetTaskCommandControllers(order)
             \/ \E t \in Tasks : ReadTaskCommandLease(t)
             \/ Tick
             \/ Restore
             \/ \E fetch \in fetches : DeliverList(fetch) \/ LoseList(fetch)
             \/ UNCHANGED vars
      PROVE  IInv'
  <2>1. UNCHANGED <<seq, ring, connected, queued, wire, lastSeq>>
    BY <1>6 DEF GetTaskCommandControllers, ReadTaskCommandLease, Tick, Restore, AnswerStatus,
                CheckStatus, AnswerSnapshot, RestoreList, RestoreFails, DeliverList, LoseList,
                vars, server, network, client
  <2> QED
    BY <2>1, Elsewhere
<1>7. CASE Next
  BY <1>1, <1>2, <1>3, <1>4, <1>5, <1>6, <1>7, SweepKeeps, Connecting, Disconnecting, Restarting,
     Flushing, DeliverKeeps
     DEF Next
<1> QED
  BY <1>6, <1>7

\* The invariant of the stream: the ring is in order, nothing is in flight without a
\* connection, and no frame on its way is more than one ahead of those before it.
THEOREM StreamInOrder == Spec => []IInv
<1> QED
  BY InitHolds, StepKeeps, PTL DEF Spec

\* The client's gap detection, which forces a full restore, never fires
\* (websocket-client.ts, shouldProcessMessage): not after an eviction, a compaction, a
\* truncated or batched replay, a lost socket or a restart of the server.
THEOREM GapFree == Spec => []NoSequenceGap
<1>1. IInv => NoSequenceGap
  <2> SUFFICES ASSUME IInv, wire # <<>>, Head(wire).kind = "event",
                      LastSeqFor(Head(wire).seq) # 0
               PROVE  Head(wire).seq <= LastSeqFor(Head(wire).seq) + 1
    BY DEF NoSequenceGap
  <2>1. /\ connected /\ IsSeq(wire) /\ IsSeq(queued) /\ Stream(wire \o queued, lastSeq, seq)
    BY DEF IInv
  <2>2. IsSeq(wire \o queued) /\ wire \o queued # <<>> /\ (wire \o queued)[1] = Head(wire)
    BY <2>1, TailJoined
  <2>3. 1 \in 1 .. Len(wire \o queued)
    BY <2>2, TailIs
  <2>4. Follows(wire \o queued, 1 - 1, lastSeq, Head(wire).seq)
    BY <2>1, <2>2, <2>3 DEF Stream
  <2>5. Head(wire).seq <= lastSeq + 1
    BY <2>4 DEF Follows
  <2>6. LastSeqFor(Head(wire).seq) = lastSeq
    BY DEF LastSeqFor
  <2> QED
    BY <2>5, <2>6
<1> QED
  BY <1>1, StreamInOrder, PTL

-----------------------------------------------------------------------------
(* What the renderer shows, and what it will hear.                         *)
(*                                                                         *)
(* For each live lease there is a version g, that of the change that made  *)
(* its holder known: whatever is on its way about the task and is as new   *)
(* as g tells the truth, and either the renderer has applied something as  *)
(* new as g, or the event with that change is on its way or in the ring    *)
(* beyond what the renderer has processed, or a list is owed to it.        *)

\* The snapshots that are on their way, and those the ring would replay.
Tells(event, p) == event.topic = "controller" /\ event.snapshot = p

Carries(f, p) ==
    \/ f.kind = "event" /\ Tells(f.event, p)
    \/ f.kind = "control-replay-batch" /\ \E e \in Range(f.events) : Tells(e.event, p)
    \/ f.kind = "reply" /\ f.snapshot = p

Frames == Range(wire) \cup Range(queued)

Circulates(p) ==
    \/ \E f \in Frames : Carries(f, p)
    \/ \E e \in Range(ring) : Tells(e.event, p)

\* The lists of this instance that may still be applied.
Outstanding(l) ==
    \/ \E f \in fetches : f.instance = instance /\ f.list = l
    \/ restore.step = "list" /\ restore.list = l
    \/ \E f \in Range(wire) : f.kind = "state-bootstrap" /\ l \in f.lists

\* A snapshot with a controller names its action.
Named(p) == p \in ControllerSnapshot /\ (p.controllerId # None => p.action # None)

WellListed(l) ==
    l \in List /\ \A p \in l.snapshots : Named(p) /\ p.version <= l.version

Typed ==
    /\ TypeOK
    /\ Current(store)
    /\ known <= instance
    /\ ~connected => restore \in {Cold, Idle}

\* Nothing is newer than the table, nor a list's snapshot than its list.
Truthful ==
    /\ \A p : Circulates(p) => Named(p) /\ p.version <= store.version
    /\ \A l : Outstanding(l) => WellListed(l) /\ l.version <= store.version

\* The versions of the renderer, unless they are those of a dead instance.
Tracked ==
    /\ \A t \in Tasks : seen[t] <= top
    /\ anchored /\ known \in {0, instance} => top <= store.version

\* On the wire, a batch has at most a truncation before it, and the bootstrap has
\* only the replay before it, than which its list is no older.
Handshake(w) ==
    \A i, j \in 1 .. Len(w) : i < j =>
        /\ w[j].kind = "state-bootstrap" =>
              /\ w[i].kind \notin {"reply", "state-bootstrap"}
              /\ \A l \in w[j].lists : \A p : Carries(w[i], p) => p.version <= l.version
        /\ w[j].kind = "control-replay-batch" => w[i].kind = "replay-truncated"

\* Who does not know the instance of the server is about to.
Greeted ==
    /\ \A f \in Range(queued) : f.kind = "event"
    /\ Handshake(wire)
    /\ \A f \in Range(wire) : f.kind = "state-bootstrap" =>
          f.instance = instance /\ (known # instance => f.lists # {})
    /\ connected /\ known # instance => \E f \in Range(wire) : f.kind = "state-bootstrap"

\* No event on its way about a controller will be taken for one processed before.
Heard ==
    /\ foreign \/ lastSeq <= seq
    /\ anchored /\ connected =>
          \/ lastSeq <= seq /\ \A f \in Frames : f.kind = "event" => f.seq > lastSeq
          \/ /\ fresh /\ foreign
             /\ \E e \in Frames : e.kind = "event"
             /\ \A f \in Frames : Counted(f) =>
                   /\ f.kind = "event"
                   /\ f.event.topic = "controller" =>
                         \E e \in Frames : e.kind = "event" /\ e.seq < f.seq

IsNews(event, t, g) ==
    event.topic = "controller" /\ event.snapshot.taskId = t /\ event.snapshot.version >= g

\* Event number n, with news of t, would be replayed, or missed with a truncation.
Recoverable(n, t, g) ==
    /\ n \in 1 .. seq
    /\ \/ \E e \in Range(ring) : e.seq = n /\ IsNews(e.event, t, g)
       \/ ring # <<>> /\ n < ring[1].seq
    /\ foreign \/ n > lastSeq

\* It is on its way.
Comes(n, t, g) ==
    \E f \in Frames :
        \/ f.kind = "event" /\ f.seq = n /\ IsNews(f.event, t, g)
        \/ /\ f.kind = "control-replay-batch"
           /\ \E e \in Range(f.events) : e.seq = n /\ IsNews(e.event, t, g)
           /\ \A x \in Range(wire) : x.kind # "replay-truncated"

Right(p, lease) == p.controllerId = lease.clientId /\ p.action = lease.action

ListRight(l, lease, t, g) ==
    l.version >= g =>
        /\ Listed(l, t)
        /\ \A p \in l.snapshots : p.taskId = t => p.version >= g /\ Right(p, lease)

\* What projection p has of task t, if it is as new as g, is lease.
Fits(p, lease, t, g) ==
    p.seen[t] >= g => p.view[t] # None /\ Right(p.view[t], lease)

\* Everything about task t that is as new as g tells of lease.
Told(lease, t, g) ==
    /\ \A p : Circulates(p) /\ p.taskId = t /\ p.version >= g => Right(p, lease)
    /\ \A l : Outstanding(l) => ListRight(l, lease, t, g)
    /\ known \in {0, instance} => Fits(Projection, lease, t, g)

\* The renderer knows it, or will.
Informed(t, g) ==
    IF known = instance
    THEN \/ seen[t] >= g
         \/ owed >= g
         \/ \E n : Recoverable(n, t, g) /\ (connected => Comes(n, t, g))
    ELSE connected => \E f \in Range(wire) :
            /\ f.kind = "state-bootstrap"
            /\ \/ known = 0 /\ seen[t] >= g
               \/ \A l \in f.lists : l.version >= g /\ (known = 0 => top <= l.version)
               \/ /\ \A l \in f.lists : l.version < g
                  /\ \E n : Recoverable(n, t, g) /\ Comes(n, t, g)

\* For every live lease, unless something of a dead instance got stuck.
Promised ==
    anchored => \A t \in Tasks : Held(store, t) =>
        \E g \in 1 .. store.version : Told(store.lease[t], t, g) /\ Informed(t, g)

\* What was fetched, from this instance or a dead one.
Fetched == \A f \in fetches : f.instance <= instance /\ WellListed(f.list)

\* The inductive invariant of LiveControllerKnown, but for Fetched.
LInv == IInv /\ Typed /\ Truthful /\ Tracked /\ Greeted /\ Heard /\ Promised

-----------------------------------------------------------------------------
(* What sequences hold. *)

\* Two sequences hold what each of them holds.
LEMMA JoinedHold ==
    ASSUME NEW a, NEW b, IsSeq(a), IsSeq(b)
    PROVE  Range(a \o b) = Range(a) \cup Range(b)
<1> DEFINE w == a \o b
<1>1. /\ IsSeq(w) /\ Len(a) \in Nat /\ Len(b) \in Nat /\ Len(w) = Len(a) + Len(b)
      /\ \A i \in 1 .. Len(a) : w[i] = a[i]
      /\ \A i \in 1 .. Len(b) : w[Len(a) + i] = b[i]
  BY Joined
<1> HIDE DEF w
<1>2. DOMAIN a = 1 .. Len(a) /\ DOMAIN b = 1 .. Len(b) /\ DOMAIN w = 1 .. Len(w)
  BY <1>1 DEF IsSeq
<1>3. ASSUME NEW i \in 1 .. Len(w) PROVE w[i] \in Range(a) \cup Range(b)
  <2>1. CASE i <= Len(a)
    BY <2>1, <1>1, <1>2 DEF Range
  <2>2. CASE ~(i <= Len(a))
    <3>1. i - Len(a) \in 1 .. Len(b) /\ Len(a) + (i - Len(a)) = i
      BY <2>2, <1>1
    <3>2. w[i] = b[i - Len(a)]
      BY <3>1, <1>1
    <3> QED
      BY <3>1, <3>2, <1>2 DEF Range
  <2> QED
    BY <2>1, <2>2
<1>4. ASSUME NEW i \in 1 .. Len(a) PROVE a[i] \in Range(w)
  <2>1. i \in 1 .. Len(w) /\ w[i] = a[i]
    BY <1>1
  <2> QED
    BY <2>1, <1>2 DEF Range
<1>5. ASSUME NEW i \in 1 .. Len(b) PROVE b[i] \in Range(w)
  <2>1. Len(a) + i \in 1 .. Len(w) /\ w[Len(a) + i] = b[i]
    BY <1>1
  <2> QED
    BY <2>1, <1>2 DEF Range
<1>6. Range(w) \subseteq Range(a) \cup Range(b)
  BY <1>2, <1>3 DEF Range
<1>7. Range(a) \subseteq Range(w) /\ Range(b) \subseteq Range(w)
  <2>1. \A x \in Range(a) : \E i \in 1 .. Len(a) : x = a[i]
    BY <1>2 DEF Range
  <2>2. \A x \in Range(b) : \E i \in 1 .. Len(b) : x = b[i]
    BY <1>2 DEF Range
  <2> QED
    BY <2>1, <2>2, <1>4, <1>5
<1> QED
  BY <1>6, <1>7 DEF w

\* One more.
LEMMA AppendedHold ==
    ASSUME NEW a, NEW f, IsSeq(a)
    PROVE  Range(Append(a, f)) = Range(a) \cup {f} /\ IsSeq(Append(a, f))
<1>1. Append(a, f) = a \o <<f>> /\ IsSeq(<<f>>) /\ Len(<<f>>) = 1 /\ <<f>>[1] = f
  BY Appended
<1>2. Range(<<f>>) = {f}
  <2>1. DOMAIN <<f>> = 1 .. 1
    BY <1>1 DEF IsSeq
  <2> QED
    BY <2>1, <1>1 DEF Range
<1>3. Range(a \o <<f>>) = Range(a) \cup Range(<<f>>) /\ IsSeq(a \o <<f>>)
  BY <1>1, JoinedHold, Joined
<1> QED
  BY <1>1, <1>2, <1>3

\* What is left of a sequence, and what was taken.
LEMMA TailHolds ==
    ASSUME NEW s, IsSeq(s), s # <<>>
    PROVE  /\ Range(s) = Range(Tail(s)) \cup {Head(s)}
           /\ \A x \in Range(Tail(s)) : \E j \in 1 .. Len(s) : 1 < j /\ x = s[j]
<1>1. /\ IsSeq(Tail(s)) /\ Len(s) \in Nat \ {0} /\ Len(Tail(s)) = Len(s) - 1
      /\ \A i \in 1 .. Len(s) - 1 : Tail(s)[i] = s[i + 1]
      /\ Head(s) = s[1]
  BY TailIs
<1> DEFINE r == Tail(s)
<1> HIDE DEF r
<1>2. DOMAIN r = 1 .. Len(s) - 1 /\ DOMAIN s = 1 .. Len(s)
  BY <1>1 DEF IsSeq, r
<1>3. \A i \in 1 .. Len(s) - 1 : r[i] = s[i + 1] /\ i + 1 \in 1 .. Len(s) /\ 1 < i + 1
  BY <1>1 DEF r
<1>4. \A x \in Range(r) : \E j \in 1 .. Len(s) : 1 < j /\ x = s[j]
  <2>1. \A x \in Range(r) : \E i \in 1 .. Len(s) - 1 : x = r[i]
    BY <1>2 DEF Range
  <2> QED
    BY <2>1, <1>3
<1>5. \A j \in 1 .. Len(s) : j = 1 \/ (j - 1 \in 1 .. Len(s) - 1 /\ s[j] = r[j - 1])
  <2> SUFFICES ASSUME NEW j \in 1 .. Len(s), j # 1
               PROVE  j - 1 \in 1 .. Len(s) - 1 /\ s[j] = r[j - 1]
    OBVIOUS
  <2>1. j - 1 \in 1 .. Len(s) - 1 /\ (j - 1) + 1 = j
    BY <1>1
  <2> QED
    BY <2>1, <1>3
<1>6. Range(s) = Range(r) \cup {s[1]}
  <2>1. \A i \in 1 .. Len(s) - 1 : r[i] \in Range(r) /\ r[i] \in Range(s)
    BY <1>2, <1>3 DEF Range
  <2>2. \A x \in Range(s) : \E j \in 1 .. Len(s) : x = s[j]
    BY <1>2 DEF Range
  <2>3. s[1] \in Range(s)
    BY <1>1, <1>2 DEF Range
  <2>4. \A x \in Range(r) : \E i \in 1 .. Len(s) - 1 : x = r[i]
    BY <1>2 DEF Range
  <2> QED
    BY <2>1, <2>2, <2>3, <2>4, <1>5
<1> QED
  BY <1>1, <1>4, <1>6 DEF r

\* Nothing.
LEMMA EmptyHolds == Range(<<>>) = {} /\ IsSeq(<<>>) /\ Len(<<>>) = 0
<1>1. <<>> \in Seq({}) /\ Len(<<>>) = 0
  OBVIOUS
<1>2. IsSeq(<<>>) /\ DOMAIN <<>> = 1 .. 0
  BY <1>1, SeqIs
<1> QED
  BY <1>1, <1>2 DEF Range

\* The last elements of a sequence.
LEMMA RestHolds ==
    ASSUME NEW s, IsSeq(s), NEW k \in 0 .. Len(s)
    PROVE  Range(SubSeq(s, k + 1, Len(s))) = {s[i] : i \in k + 1 .. Len(s)}
<1> DEFINE p == SubSeq(s, k + 1, Len(s))
<1>1. /\ IsSeq(p) /\ Len(p) = Len(s) - k /\ Len(s) \in Nat
      /\ \A i \in 1 .. Len(s) - k : p[i] = s[k + i]
  BY RestIs DEF IsSeq
<1> HIDE DEF p
<1>2. DOMAIN p = 1 .. Len(s) - k
  BY <1>1 DEF IsSeq
<1>3. \A i \in 1 .. Len(s) - k : k + i \in k + 1 .. Len(s) /\ p[i] = s[k + i]
  BY <1>1
<1>4. \A j \in k + 1 .. Len(s) : j - k \in 1 .. Len(s) - k /\ k + (j - k) = j
  BY <1>1
<1>5. \A x \in Range(p) : \E j \in k + 1 .. Len(s) : x = s[j]
  <2>1. \A x \in Range(p) : \E i \in 1 .. Len(s) - k : x = p[i]
    BY <1>2 DEF Range
  <2> QED
    BY <2>1, <1>3
<1>6. \A j \in k + 1 .. Len(s) : s[j] \in Range(p)
  <2> SUFFICES ASSUME NEW j \in k + 1 .. Len(s) PROVE s[j] \in Range(p)
    OBVIOUS
  <2>1. s[j] = p[j - k] /\ j - k \in DOMAIN p
    BY <1>2, <1>3, <1>4
  <2> QED
    BY <2>1 DEF Range
<1> QED
  BY <1>5, <1>6 DEF p

\* A sequence over a set holds members of it, and is one over any set of what it holds.
LEMMA SeqHolds ==
    ASSUME NEW s, NEW S
    PROVE  s \in Seq(S) <=> IsSeq(s) /\ Range(s) \subseteq S
<1>1. ASSUME s \in Seq(S) PROVE IsSeq(s) /\ Range(s) \subseteq S
  BY <1>1, SeqIs DEF Range
<1>2. ASSUME IsSeq(s), Range(s) \subseteq S PROVE s \in Seq(S)
  BY <1>2 DEF IsSeq
<1> QED
  BY <1>1, <1>2

\* What a sequence holds it has somewhere.
LEMMA HeldAt ==
    ASSUME NEW s, IsSeq(s)
    PROVE  /\ Len(s) \in Nat
           /\ \A x \in Range(s) : \E i \in 1 .. Len(s) : x = s[i]
           /\ \A i \in 1 .. Len(s) : s[i] \in Range(s)
<1>1. Len(s) \in Nat /\ DOMAIN s = 1 .. Len(s)
  BY DEF IsSeq
<1> QED
  BY <1>1 DEF Range

-----------------------------------------------------------------------------
(* What the ring remembers. *)

\* A ring remembers an event unless it was superseded: it holds it or is beyond it.
Remembers(r, e) == (\E x \in Range(r) : x = e) \/ (r # <<>> /\ e.seq < r[1].seq)

\* The newest entries are entries; the others are older.
LEMMA NewestHolds ==
    ASSUME NEW r, IsSeq(r), NEW n \in Nat, InOrder(r, n)
    PROVE  /\ Range(Newest(r)) \subseteq Range(r)
           /\ Len(Newest(r)) <= RingSize
           /\ \A e \in Range(r) : Remembers(Newest(r), e)
           /\ r # <<>> => Newest(r) # <<>> /\ r[1].seq <= Newest(r)[1].seq
<1> DEFINE k == IF Len(r) > RingSize THEN Len(r) - RingSize ELSE 0
           w == SubSeq(r, k + 1, Len(r))
<1>1. Len(r) \in Nat /\ RingSize \in Nat \ {0} /\ DOMAIN r = 1 .. Len(r)
  BY ProjectionAssumption DEF IsSeq
<1>2. k \in 0 .. Len(r) /\ Len(r) - k <= RingSize /\ (Len(r) > 0 => Len(r) - k > 0)
  BY <1>1
<1>3. Newest(r) = w
  <2>1. (IF Len(r) > RingSize THEN Len(r) - RingSize + 1 ELSE 1) = k + 1
    BY <1>1
  <2> QED
    BY <2>1 DEF Newest
<1> HIDE DEF k
<1>4. /\ IsSeq(w) /\ Len(w) = Len(r) - k
      /\ \A i \in 1 .. Len(r) - k : w[i] = r[k + i]
  BY <1>2, RestIs
<1>5. Range(w) = {r[i] : i \in k + 1 .. Len(r)}
  BY <1>2, RestHolds
<1> HIDE DEF w
<1>6. Range(w) \subseteq Range(r)
  <2>1. \A i \in k + 1 .. Len(r) : i \in 1 .. Len(r)
    BY <1>1, <1>2
  <2>2. \A i \in 1 .. Len(r) : r[i] \in Range(r)
    BY <1>1 DEF Range
  <2> QED
    BY <2>1, <2>2, <1>5
<1>7. ASSUME Len(r) > 0 PROVE w # <<>> /\ w[1] = r[k + 1]
  <2>1. 1 \in 1 .. Len(r) - k
    BY <1>7, <1>1, <1>2
  <2> QED
    BY <2>1, <1>4, EmptyHolds
<1>8. \A i \in 1 .. Len(r) : r[i].seq \in Nat
  BY DEF InOrder
<1>9. ASSUME NEW e \in Range(r) PROVE Remembers(w, e)
  <2>1. PICK i \in 1 .. Len(r) : e = r[i]
    BY <1>1 DEF Range
  <2>2. CASE i >= k + 1
    <3>1. i \in k + 1 .. Len(r)
      BY <2>2, <1>1, <1>2
    <3> QED
      BY <2>1, <3>1, <1>5 DEF Remembers
  <2>3. CASE ~(i >= k + 1)
    <3>1. Len(r) > 0 /\ k + 1 \in 1 .. Len(r) /\ i < k + 1
      BY <2>3, <1>1, <1>2
    <3>2. r[i].seq < r[k + 1].seq
      BY <3>1 DEF InOrder
    <3> QED
      BY <2>1, <3>1, <3>2, <1>7 DEF Remembers
  <2> QED
    BY <2>2, <2>3
<1>10. ASSUME r # <<>> PROVE w # <<>> /\ r[1].seq <= w[1].seq
  <2>1. Len(r) > 0 /\ 1 \in 1 .. Len(r) /\ k + 1 \in 1 .. Len(r)
    <3>1. Len(r) # 0
      BY <1>10, EmptySeq DEF IsSeq
    <3> QED
      BY <3>1, <1>1, <1>2
  <2>2. 1 = k + 1 \/ 1 < k + 1
    BY <1>2
  <2>3. r[1].seq <= r[k + 1].seq
    BY <2>1, <2>2, <1>8 DEF InOrder
  <2> QED
    BY <2>1, <2>3, <1>7
<1> QED
  BY <1>2, <1>3, <1>4, <1>6, <1>9, <1>10

\* A presence list supersedes nothing but the one before it.
LEMMA PresenceHolds ==
    ASSUME NEW r, IsSeq(r), NEW n \in Nat, InOrder(r, n)
    PROVE  LET next == AddPresence(r, n + 1) IN
           /\ Range(next) \subseteq Range(r) \cup {[seq |-> n + 1, event |-> Presence]}
           /\ Len(next) <= RingSize
           /\ \A e \in Range(r) : e.event # Presence => Remembers(next, e)
           /\ r # <<>> => next # <<>> /\ r[1].seq <= next[1].seq
<1> DEFINE superseded == {i \in DOMAIN r : r[i].event = Presence}
           k == CHOOSE i \in superseded : TRUE
           kept == IF superseded = {} THEN r ELSE RemoveAt(r, k)
           e == [seq |-> n + 1, event |-> Presence]
           s == Append(kept, e)
<1>1. Len(r) \in Nat /\ DOMAIN r = 1 .. Len(r)
  BY DEF IsSeq
<1>2. \A i \in 1 .. Len(r) : r[i].seq \in 1 .. n
  BY DEF InOrder
<1>3. /\ IsSeq(kept) /\ InOrder(kept, n)
      /\ Range(kept) \subseteq Range(r)
      /\ \A x \in Range(r) : x.event # Presence => x \in Range(kept)
      /\ kept # <<>> => r # <<>> /\ r[1].seq <= kept[1].seq
  <2>1. CASE superseded = {}
    <3>1. r # <<>> => 1 \in 1 .. Len(r)
      BY <1>1, EmptySeq DEF IsSeq
    <3>2. r # <<>> => r[1].seq <= r[1].seq
      BY <3>1, <1>2
    <3> QED
      BY <2>1, <3>2
  <2>2. CASE superseded # {}
    <3>1. k \in 1 .. Len(r) /\ r[k].event = Presence
      BY <2>2, <1>1
    <3> HIDE DEF k, superseded
    <3> DEFINE a == SubSeq(r, 1, k - 1)
               b == SubSeq(r, k + 1, Len(r))
               w == a \o b
    <3>2. k - 1 \in 0 .. Len(r) /\ 1 \in Nat \ {0}
      BY <3>1, <1>1
    <3>3. IsSeq(a) /\ Len(a) = k - 1 /\ \A i \in 1 .. k - 1 : a[i] = r[i]
      <4>1. /\ IsSeq(a) /\ Len(a) = IF 1 <= k - 1 THEN k - 1 - 1 + 1 ELSE 0
            /\ \A i \in 1 .. k - 1 - 1 + 1 : a[i] = r[1 + i - 1]
        BY <3>2, PieceIs
      <4> HIDE DEF a
      <4> QED
        BY <4>1, <3>1, <1>1
    <3>4. IsSeq(b) /\ Len(b) = Len(r) - k /\ \A i \in 1 .. Len(r) - k : b[i] = r[k + i]
      BY <3>1, RestIs
    <3>5. Range(b) = {r[i] : i \in k + 1 .. Len(r)}
      BY <3>1, RestHolds
    <3> HIDE DEF a, b
    <3>6. Range(a) = {r[i] : i \in 1 .. k - 1}
      <4>1. DOMAIN a = 1 .. k - 1
        BY <3>1, <3>3, <1>1 DEF IsSeq
      <4> QED
        BY <4>1, <3>3 DEF Range
    <3>7. /\ IsSeq(w) /\ Len(w) = Len(a) + Len(b)
          /\ \A i \in 1 .. Len(a) : w[i] = a[i]
          /\ \A i \in 1 .. Len(b) : w[Len(a) + i] = b[i]
          /\ Range(w) = Range(a) \cup Range(b)
      <4>1. IsSeq(a) /\ IsSeq(b)
        BY <3>3, <3>4
      <4> QED
        BY <4>1, Joined, JoinedHold
    <3> HIDE DEF w
    <3>8. \A x \in Range(w) : \E i \in 1 .. Len(r) : x = r[i]
      <4>1. \A i \in 1 .. k - 1 : i \in 1 .. Len(r)
        BY <3>1, <1>1
      <4>2. \A i \in k + 1 .. Len(r) : i \in 1 .. Len(r)
        BY <3>1, <1>1
      <4> QED
        BY <4>1, <4>2, <3>5, <3>6, <3>7
    <3>9. Range(w) \subseteq Range(r)
      BY <3>8, <1>1 DEF Range
    <3>10. \A x \in Range(r) : x.event # Presence => x \in Range(w)
      <4> SUFFICES ASSUME NEW x \in Range(r), x.event # Presence PROVE x \in Range(w)
        OBVIOUS
      <4>1. PICK i \in 1 .. Len(r) : x = r[i]
        BY <1>1 DEF Range
      <4>2. i # k
        BY <4>1, <3>1
      <4>3. i \in 1 .. k - 1 \/ i \in k + 1 .. Len(r)
        BY <4>2, <3>1, <1>1
      <4> QED
        BY <4>1, <4>3, <3>5, <3>6, <3>7
    <3>11. ASSUME w # <<>> PROVE r # <<>> /\ r[1].seq <= w[1].seq
      <4>1. 1 \in DOMAIN w
        <5>1. Len(w) \in Nat /\ DOMAIN w = 1 .. Len(w) /\ Len(w) # 0
          BY <3>7, <3>11, EmptySeq DEF IsSeq
        <5> QED
          BY <5>1
      <4>2. w[1] \in Range(w)
        BY <4>1 DEF Range
      <4>3. PICK i \in 1 .. Len(r) : w[1] = r[i]
        BY <4>2, <3>8
      <4>4. 1 \in 1 .. Len(r) /\ (i = 1 \/ 1 < i)
        BY <4>3, <1>1
      <4>5. r[1].seq \in 1 .. n /\ r[1].seq <= r[i].seq
        BY <4>4, <1>2 DEF InOrder
      <4> QED
        BY <4>3, <4>4, <4>5, EmptyHolds
    <3>12. kept = w
      BY <2>2 DEF RemoveAt, w, a, b
    <3>13. InOrder(w, n)
      <4>1. Len(w) = Len(r) - 1
        BY <3>1, <3>3, <3>4, <3>7, <1>1
      <4> DEFINE at(i) == IF i < k THEN i ELSE i + 1
      <4>2. ASSUME NEW i \in 1 .. Len(w) PROVE at(i) \in 1 .. Len(r) /\ w[i] = r[at(i)]
        <5>1. CASE i < k
          BY <5>1, <4>1, <3>1, <3>3, <3>7, <1>1
        <5>2. CASE ~(i < k)
          <6>1. i - (k - 1) \in 1 .. Len(r) - k /\ (k - 1) + (i - (k - 1)) = i
                /\ k + (i - (k - 1)) = i + 1 /\ i + 1 \in 1 .. Len(r)
            BY <4>1, <5>2, <3>1, <1>1
          <6>2. w[(k - 1) + (i - (k - 1))] = b[i - (k - 1)]
            BY <6>1, <3>3, <3>4, <3>7
          <6>3. b[i - (k - 1)] = r[k + (i - (k - 1))]
            BY <6>1, <3>4
          <6> QED
            BY <5>2, <6>1, <6>2, <6>3
        <5> QED
          BY <5>1, <5>2
      <4>3. \A i, j \in 1 .. Len(w) : i < j => at(i) < at(j)
        BY <4>1, <3>1, <1>1
      <4> HIDE DEF at
      <4> QED
        BY <4>2, <4>3 DEF InOrder
    <3> QED
      BY <3>7, <3>9, <3>10, <3>11, <3>12, <3>13
  <2> QED
    BY <2>1, <2>2
<1>4. AddPresence(r, n + 1) = Newest(s)
  BY DEF AddPresence
<1> HIDE DEF kept, superseded, k
<1>5. s = kept \o <<e>> /\ IsSeq(<<e>>) /\ Len(<<e>>) = 1 /\ <<e>>[1] = e
  BY <1>3, Appended
<1>6. IsSeq(s) /\ Range(s) = Range(kept) \cup {e}
  BY <1>3, AppendedHold
<1>7. InOrder(s, n + 1)
  <2>1. \A i \in 1 .. Len(<<e>>) : <<e>>[i].seq = n + i
    BY <1>5
  <2>2. InOrder(kept \o <<e>>, n + Len(<<e>>))
    BY <2>1, <1>3, <1>5, JoinedInOrder
  <2> QED
    BY <2>2, <1>5
<1>8. /\ Range(Newest(s)) \subseteq Range(s)
      /\ Len(Newest(s)) <= RingSize
      /\ \A x \in Range(s) : Remembers(Newest(s), x)
      /\ s # <<>> => Newest(s) # <<>> /\ s[1].seq <= Newest(s)[1].seq
  <2>1. n + 1 \in Nat
    OBVIOUS
  <2> HIDE DEF s
  <2> QED
    BY <2>1, <1>6, <1>7, NewestHolds
<1>9. r # <<>> => s # <<>> /\ r[1].seq <= s[1].seq
  <2> SUFFICES ASSUME r # <<>> PROVE s # <<>> /\ r[1].seq <= s[1].seq
    OBVIOUS
  <2>1. 1 \in 1 .. Len(r)
    BY <1>1, EmptySeq DEF IsSeq
  <2>2. r[1].seq \in 1 .. n
    BY <2>1, <1>2
  <2>3. /\ Len(kept) \in Nat /\ Len(s) = Len(kept) + 1
        /\ \A i \in 1 .. Len(kept) : s[i] = kept[i]
        /\ s[Len(kept) + 1] = e
    <3>1. /\ Len(kept) \in Nat /\ Len(kept \o <<e>>) = Len(kept) + Len(<<e>>)
          /\ \A i \in 1 .. Len(kept) : (kept \o <<e>>)[i] = kept[i]
          /\ \A i \in 1 .. Len(<<e>>) : (kept \o <<e>>)[Len(kept) + i] = <<e>>[i]
      BY <1>3, <1>5, Joined
    <3> QED
      BY <3>1, <1>5
  <2>4. s # <<>>
    BY <2>3, EmptyHolds
  <2>5. CASE kept = <<>>
    <3>1. s[1] = e
      BY <2>3, <2>5, EmptyHolds
    <3> QED
      BY <2>2, <2>4, <3>1
  <2>6. CASE kept # <<>>
    <3>1. 1 \in 1 .. Len(kept)
      BY <2>3, <2>6, <1>3, EmptySeq DEF IsSeq
    <3> QED
      BY <2>3, <2>4, <2>6, <3>1, <1>3
  <2> QED
    BY <2>5, <2>6
<1>10. \A i \in 1 .. Len(s) : s[i].seq \in Nat
  BY <1>7 DEF InOrder
<1>11. ASSUME r # <<>> PROVE Newest(s) # <<>> /\ r[1].seq <= Newest(s)[1].seq
  <2>1. s # <<>> /\ r[1].seq <= s[1].seq /\ s[1].seq <= Newest(s)[1].seq /\ Newest(s) # <<>>
    BY <1>8, <1>9, <1>11
  <2>2. r[1].seq \in Nat
    BY <1>1, <1>2, <1>11, EmptySeq DEF IsSeq
  <2>3. s[1].seq \in Nat
    BY <1>6, <1>10, <2>1, EmptySeq DEF IsSeq
  <2>4. Newest(s)[1].seq \in Nat
    <3>1. IsSeq(Newest(s)) /\ InOrder(Newest(s), n + 1)
      <4>1. n + 1 \in Nat
        OBVIOUS
      <4> HIDE DEF s
      <4> QED
        BY <4>1, <1>6, <1>7, NewestInOrder
    <3>2. 1 \in 1 .. Len(Newest(s))
      BY <2>1, <3>1, EmptySeq DEF IsSeq
    <3> QED
      BY <3>1, <3>2 DEF InOrder
  <2> HIDE DEF s
  <2> QED
    BY <2>1, <2>2, <2>3, <2>4
<1> HIDE DEF s
<1> QED
  BY <1>3, <1>4, <1>6, <1>8, <1>11

-----------------------------------------------------------------------------
(* Types. *)

\* A frame of each kind has what that kind has.
LEMMA FrameTyping ==
    ASSUME NEW f \in Frame
    PROVE  /\ f.kind = "event" => f.seq \in 1 .. MaxSeq /\ f.event \in Event
           /\ f.kind = "reply" => f.snapshot \in ControllerSnapshot
           /\ f.kind = "replay-truncated" => f.latestSeq \in 1 .. MaxSeq
           /\ f.kind = "control-replay-batch" => f.toSeq \in 0 .. MaxSeq /\ f.events \in Seq(Entry)
           /\ f.kind = "state-bootstrap" => f.instance \in 1 .. MaxInstance /\ f.lists \subseteq List
           /\ f.kind \in {"event", "reply", "replay-truncated", "control-replay-batch",
                          "state-bootstrap"}
<1>1. CASE f \in [kind : {"event"}, seq : 1 .. MaxSeq, event : Event]
  BY <1>1
<1>2. CASE f \in [kind : {"reply"}, snapshot : ControllerSnapshot]
  BY <1>2
<1>3. CASE f \in [kind : {"replay-truncated"}, latestSeq : 1 .. MaxSeq]
  BY <1>3
<1>4. CASE f \in [kind : {"control-replay-batch"}, toSeq : 0 .. MaxSeq, events : Seq(Entry)]
  BY <1>4
<1>5. CASE f \in [kind : {"state-bootstrap"}, instance : 1 .. MaxInstance, lists : SUBSET List]
  BY <1>5
<1> QED
  BY <1>1, <1>2, <1>3, <1>4, <1>5 DEF Frame

\* The frames the server makes have their types.
LEMMA FrameMade ==
    /\ \A n \in 1 .. MaxSeq : \A e \in Event : EventFrame(n, e) \in Frame
    /\ \A p \in ControllerSnapshot : ReplyFrame(p) \in Frame
    /\ seq \in 1 .. MaxSeq => TruncatedFrame \in Frame
    /\ seq \in 0 .. MaxSeq /\ Window \in Seq(Entry) => BatchFrame \in Frame
    /\ instance \in 1 .. MaxInstance =>
          \A lists \in SUBSET List : BootstrapFrame(lists) \in Frame
<1>1. \A n \in 1 .. MaxSeq : \A e \in Event : EventFrame(n, e) \in Frame
  BY DEF Frame, EventFrame
<1>2. \A p \in ControllerSnapshot : ReplyFrame(p) \in Frame
  BY DEF Frame, ReplyFrame
<1>3. seq \in 1 .. MaxSeq => TruncatedFrame \in Frame
  BY DEF Frame, TruncatedFrame
<1>4. seq \in 0 .. MaxSeq /\ Window \in Seq(Entry) => BatchFrame \in Frame
  BY DEF Frame, BatchFrame
<1>5. instance \in 1 .. MaxInstance =>
          \A lists \in SUBSET List : BootstrapFrame(lists) \in Frame
  BY DEF Frame, BootstrapFrame
<1> QED
  BY <1>1, <1>2, <1>3, <1>4, <1>5

\* An event is about a controller or one of two others.
LEMMA EventTyping ==
    /\ \A e \in Event : e.topic = "controller" => e.snapshot \in ControllerSnapshot
    /\ \A p \in ControllerSnapshot : /\ ControllerEvent(p) \in Event
                                     /\ ControllerEvent(p).topic = "controller"
                                     /\ ControllerEvent(p).snapshot = p
    /\ Presence \in Event /\ Presence.topic # "controller"
    /\ Lifecycle \in Event /\ Lifecycle.topic # "controller"
<1>1. \A e \in Event : e.topic = "controller" => e.snapshot \in ControllerSnapshot
  BY DEF Event, Presence, Lifecycle
<1>2. \A p \in ControllerSnapshot : /\ ControllerEvent(p) \in Event
                                    /\ ControllerEvent(p).topic = "controller"
                                    /\ ControllerEvent(p).snapshot = p
  BY DEF Event, ControllerEvent
<1> QED
  BY <1>1, <1>2 DEF Event, Presence, Lifecycle

\* An entry's number and event.
LEMMA EntryTyping ==
    /\ \A e \in Entry : e.seq \in 1 .. MaxSeq /\ e.event \in Event
    /\ \A n \in 1 .. MaxSeq : \A e \in Event : [seq |-> n, event |-> e] \in Entry
  BY DEF Entry

\* What a broadcast adds to the ring and to the micro-batch.
LEMMA BroadcastHolds ==
    ASSUME IInv, NEW events, IsSeq(events), Broadcasts(events)
    PROVE  /\ seq \in Nat /\ Len(events) \in Nat /\ seq' = seq + Len(events) /\ seq' <= MaxSeq
           /\ IsSeq(ring') /\ IsSeq(queued') /\ Len(ring') <= RingSize
           /\ Range(ring') \subseteq
                 Range(ring) \cup {[seq |-> seq + i, event |-> events[i]] : i \in 1 .. Len(events)}
           /\ \A e \in Range(ring) : Remembers(ring', e)
           /\ \A i \in 1 .. Len(events) : Remembers(ring', [seq |-> seq + i, event |-> events[i]])
           /\ ring # <<>> => ring' # <<>> /\ ring[1].seq <= ring'[1].seq
           /\ Range(queued') = Range(queued) \cup
                 (IF connected THEN {EventFrame(seq + i, events[i]) : i \in 1 .. Len(events)} ELSE {})
<1>1. Len(events) \in Nat /\ DOMAIN events = 1 .. Len(events)
  BY DEF IsSeq
<1>2. seq \in Nat /\ seq' = seq + Len(events) /\ seq' <= MaxSeq
  BY DEF Broadcasts, IInv
<1> DEFINE entries == [i \in 1 .. Len(events) |-> [seq |-> seq + i, event |-> events[i]]]
           frames == [i \in 1 .. Len(events) |-> EventFrame(seq + i, events[i])]
<1>3. IsSeq(entries) /\ Len(entries) = Len(events)
  <2>1. entries \in [1 .. Len(events) -> {entries[i] : i \in 1 .. Len(events)}]
    OBVIOUS
  <2> HIDE DEF entries
  <2> QED
    BY <2>1, <1>1, Tabled
<1>4. IsSeq(frames) /\ Len(frames) = Len(events)
  <2>1. frames \in [1 .. Len(events) -> {frames[i] : i \in 1 .. Len(events)}]
    OBVIOUS
  <2> HIDE DEF frames
  <2> QED
    BY <2>1, <1>1, Tabled
<1>5. \A i \in 1 .. Len(entries) : entries[i].seq = seq + i
  BY <1>3
<1>6. Range(entries) = {[seq |-> seq + i, event |-> events[i]] : i \in 1 .. Len(events)}
  BY DEF Range
<1>7. Range(frames) = {EventFrame(seq + i, events[i]) : i \in 1 .. Len(events)}
  BY DEF Range
<1>8. ring' = Newest(ring \o entries) /\ queued' = IF connected THEN queued \o frames ELSE queued
  BY <1>1 DEF Broadcasts
<1> HIDE DEF entries, frames
<1>9. IsSeq(ring) /\ InOrder(ring, seq) /\ IsSeq(queued)
  BY DEF IInv
<1>10. /\ IsSeq(ring \o entries) /\ InOrder(ring \o entries, seq')
       /\ Range(ring \o entries) = Range(ring) \cup Range(entries)
  <2>1. IsSeq(ring \o entries) /\ InOrder(ring \o entries, seq + Len(entries))
    BY <1>2, <1>3, <1>5, <1>9, JoinedInOrder
  <2>2. Range(ring \o entries) = Range(ring) \cup Range(entries)
    BY <1>3, <1>9, JoinedHold
  <2> QED
    BY <2>1, <2>2, <1>2, <1>3
<1>11. /\ IsSeq(ring') /\ InOrder(ring', seq')
       /\ Range(ring') \subseteq Range(ring \o entries) /\ Len(ring') <= RingSize
       /\ \A e \in Range(ring \o entries) : Remembers(ring', e)
       /\ ring \o entries # <<>> => ring' # <<>> /\ (ring \o entries)[1].seq <= ring'[1].seq
  <2>1. seq' \in Nat
    BY <1>1, <1>2
  <2> QED
    BY <2>1, <1>8, <1>10, NewestInOrder, NewestHolds
<1>12. ring # <<>> => ring \o entries # <<>> /\ (ring \o entries)[1] = ring[1]
  BY <1>3, <1>9, TailJoined, TailIs
<1>13. Range(queued') = Range(queued) \cup (IF connected THEN Range(frames) ELSE {})
       /\ IsSeq(queued')
  <2>1. Range(queued \o frames) = Range(queued) \cup Range(frames) /\ IsSeq(queued \o frames)
    BY <1>4, <1>9, JoinedHold, Joined
  <2> QED
    BY <2>1, <1>8, <1>9
<1> QED
  BY <1>1, <1>2, <1>6, <1>7, <1>10, <1>11, <1>12, <1>13

-----------------------------------------------------------------------------
(* What the server does to what the renderer will hear. *)

\* The ring forgets no controller without a trace.
RingKeeps ==
    /\ seq \in Nat /\ seq' \in Nat /\ seq <= seq'
    /\ \A e \in Range(ring) : e.event.topic = "controller" => Remembers(ring', e)
    /\ ring # <<>> => ring' # <<>> /\ ring[1].seq <= ring'[1].seq

\* What the server does to task t: it keeps its holder and tells no lies about it...
Kept(N, M, t) ==
    /\ Held(store, t)
    /\ store'.lease[t].clientId = store.lease[t].clientId
    /\ store'.lease[t].action = store.lease[t].action
    /\ \A p \in N : p.taskId = t => Right(p, store'.lease[t])
    /\ \A l \in M :
          /\ Listed(l, t)
          /\ \A p \in l.snapshots :
                p.taskId = t => store.version <= p.version /\ Right(p, store'.lease[t])

\* ...or gives it a new one and broadcasts that.
Regranted(N, M, t) ==
    /\ store.version < store'.version
    /\ M = {}
    /\ \A p \in N : p.taskId = t /\ p.version >= store'.version => Right(p, store'.lease[t])
    /\ \E n : Recoverable(n, t, store.version)' /\ (connected => Comes(n, t, store.version)')

\* A step of the server that makes the snapshots N and the lists M.
Serves(N, M) ==
    /\ StoreStep(store, store')
    /\ RingKeeps
    /\ Frames \subseteq Frames' /\ Range(wire) \subseteq Range(wire')
    /\ \A x \in Range(wire') : x \in Range(wire) \/ x.kind # "replay-truncated"
    /\ \A p : Circulates(p)' => Circulates(p) \/ p \in N
    /\ \A l : Outstanding(l)' => Outstanding(l) \/ l \in M
    /\ \A p \in N : Named(p) /\ p.version <= store'.version
    /\ \A l \in M : WellListed(l) /\ l.version <= store'.version
    /\ UNCHANGED <<instance, connected, view, seen, top, lastSeq, known, foreign, owed, anchored>>

\* What could be replayed still can.
LEMMA RecoverableKeeps ==
    ASSUME RingKeeps, foreign' = foreign, lastSeq' = lastSeq, NEW n, NEW t, NEW g,
           IsSeq(ring), InOrder(ring, seq), IsSeq(ring'), InOrder(ring', seq'),
           Recoverable(n, t, g)
    PROVE  Recoverable(n, t, g)'
<1>1. n \in 1 .. seq' /\ (foreign' \/ n > lastSeq')
  BY DEF Recoverable, RingKeeps
<1>2. ASSUME NEW e \in Range(ring), e.seq = n, IsNews(e.event, t, g)
      PROVE  \/ \E x \in Range(ring') : x.seq = n /\ IsNews(x.event, t, g)
             \/ ring' # <<>> /\ n < ring'[1].seq
  <2>1. Remembers(ring', e)
    BY <1>2 DEF RingKeeps, IsNews
  <2> QED
    BY <2>1, <1>2 DEF Remembers
<1>3. ASSUME ring # <<>>, n < ring[1].seq
      PROVE  ring' # <<>> /\ n < ring'[1].seq
  <2>1. ring' # <<>> /\ ring[1].seq <= ring'[1].seq
    BY <1>3 DEF RingKeeps
  <2>2. ring[1].seq \in Nat
    <3>1. 1 \in 1 .. Len(ring)
      BY <1>3, EmptySeq DEF IsSeq
    <3> QED
      BY <3>1 DEF InOrder
  <2>3. ring'[1].seq \in Nat
    <3>1. 1 \in 1 .. Len(ring')
      BY <2>1, EmptySeq DEF IsSeq
    <3>2. \A i \in 1 .. Len(ring') : ring'[i].seq \in 1 .. seq'
      BY DEF InOrder
    <3> QED
      BY <3>1, <3>2
  <2>4. n \in Nat
    BY <1>1 DEF RingKeeps
  <2> QED
    BY <2>1, <2>2, <2>3, <2>4, <1>3
<1>4. \/ \E e \in Range(ring') : e.seq = n /\ IsNews(e.event, t, g)
      \/ ring' # <<>> /\ n < ring'[1].seq
  <2>1. \/ \E e \in Range(ring) : e.seq = n /\ IsNews(e.event, t, g)
        \/ ring # <<>> /\ n < ring[1].seq
    BY DEF Recoverable
  <2> QED
    BY <2>1, <1>2, <1>3
<1> QED
  BY <1>1, <1>4 DEF Recoverable, IsNews

\* What is on its way stays on its way when the server sends.
LEMMA ComesKeeps ==
    ASSUME NEW n, NEW t, NEW g, Comes(n, t, g), Frames \subseteq Frames',
           \A x \in Range(wire') : x \in Range(wire) \/ x.kind # "replay-truncated"
    PROVE  Comes(n, t, g)'
<1>1. PICK f \in Frames :
        \/ f.kind = "event" /\ f.seq = n /\ IsNews(f.event, t, g)
        \/ /\ f.kind = "control-replay-batch"
           /\ \E e \in Range(f.events) : e.seq = n /\ IsNews(e.event, t, g)
           /\ \A x \in Range(wire) : x.kind # "replay-truncated"
  BY DEF Comes
<1>2. f \in Frames'
  BY <1>1
<1>3. (\A x \in Range(wire) : x.kind # "replay-truncated") =>
         \A x \in Range(wire') : x.kind # "replay-truncated"
  OBVIOUS
<1> QED
  BY <1>1, <1>2, <1>3 DEF Comes, IsNews

\* The table's version is a number, and so are those of what tells the truth.
LEMMA Versions ==
    ASSUME LInv
    PROVE  /\ store \in Store /\ store.version \in Nat /\ Current(store)
           /\ \A p : Circulates(p) => p \in ControllerSnapshot /\ p.version \in Nat
                                      /\ p.version <= store.version
           /\ \A l : Outstanding(l) => l \in List /\ l.version \in Nat /\ l.version <= store.version
           /\ \A t \in Tasks : seen[t] \in Nat \cup {-1} /\ seen[t] <= top
           /\ top \in Nat /\ owed \in Nat
<1>1. store \in Store /\ Current(store) /\ store.version \in Nat
  BY DEF LInv, Typed, TypeOK, Store
<1>2. \A p \in ControllerSnapshot : p.version \in Nat
  BY DEF ControllerSnapshot
<1>3. \A p : Circulates(p) => p \in ControllerSnapshot /\ p.version <= store.version
  BY DEF LInv, Truthful, Named
<1>4. \A l \in List : l.version \in Nat
  BY DEF List
<1>5. \A l : Outstanding(l) => l \in List /\ l.version <= store.version
  BY DEF LInv, Truthful, WellListed
<1>6. top \in Nat /\ owed \in Nat /\ seen \in [Tasks -> Nat \cup {-1}]
  BY DEF LInv, Typed, TypeOK
<1>7. \A t \in Tasks : seen[t] <= top
  BY DEF LInv, Tracked
<1> QED
  BY <1>1, <1>2, <1>3, <1>4, <1>5, <1>6, <1>7

\* A step of the server keeps what it makes truthful.
LEMMA ServesTruth ==
    ASSUME LInv, NEW N, NEW M, Serves(N, M)
    PROVE  Truthful' /\ Tracked' /\ store' \in Store /\ Current(store')
           /\ store'.version \in Nat /\ store.version <= store'.version
<1>1. store' \in Store /\ Current(store') /\ store.version <= store'.version
  BY DEF Serves, StoreStep
<1>2. store.version \in Nat /\ store'.version \in Nat
  BY <1>1, Versions DEF Store
<1>3. ASSUME NEW p, Circulates(p)' PROVE Named(p) /\ p.version <= store'.version
  <2>1. CASE Circulates(p)
    <3>1. Named(p) /\ p.version <= store.version /\ p.version \in Nat
      BY <2>1, Versions DEF LInv, Truthful
    <3> QED
      BY <3>1, <1>1, <1>2
  <2>2. CASE p \in N
    BY <2>2 DEF Serves
  <2> QED
    BY <2>1, <2>2, <1>3 DEF Serves
<1>4. ASSUME NEW l, Outstanding(l)' PROVE WellListed(l) /\ l.version <= store'.version
  <2>1. CASE Outstanding(l)
    <3>1. WellListed(l) /\ l.version <= store.version /\ l.version \in Nat
      BY <2>1, Versions DEF LInv, Truthful
    <3> QED
      BY <3>1, <1>1, <1>2
  <2>2. CASE l \in M
    BY <2>2 DEF Serves
  <2> QED
    BY <2>1, <2>2, <1>4 DEF Serves
<1>5. Truthful'
  BY <1>3, <1>4 DEF Truthful
<1>6. Tracked'
  <2>1. /\ seen' = seen /\ top' = top /\ known' = known /\ instance' = instance
        /\ anchored' = anchored /\ top \in Nat
    BY Versions DEF Serves
  <2>2. Tracked
    BY DEF LInv
  <2> QED
    BY <2>1, <2>2, <1>1, <1>2 DEF Tracked
<1> QED
  BY <1>1, <1>2, <1>5, <1>6

\* A step of the server keeps the promise for a task whose holder it keeps.
LEMMA KeptInformed ==
    ASSUME LInv, IInv', NEW N, NEW M, Serves(N, M), NEW t \in Tasks, Kept(N, M, t),
           NEW g \in 1 .. store.version, Told(store.lease[t], t, g), Informed(t, g)
    PROVE  g \in 1 .. store'.version /\ Told(store.lease[t], t, g)' /\ Informed(t, g)'
<1> DEFINE lease == store'.lease[t]
<1>1. /\ store.version \in Nat /\ store'.version \in Nat /\ store.version <= store'.version
      /\ g \in Nat /\ g <= store.version
  BY Versions, ServesTruth
<1>2. g \in 1 .. store'.version
  BY <1>1
<1>3. \A p : Right(p, store.lease[t]) <=> Right(p, lease)
  BY DEF Kept, Right
<1>4. /\ instance' = instance /\ connected' = connected /\ view' = view /\ seen' = seen
      /\ top' = top /\ lastSeq' = lastSeq /\ known' = known /\ foreign' = foreign
      /\ owed' = owed
  BY DEF Serves
<1> HIDE DEF lease
<1>5. ASSUME NEW p, Circulates(p)', p.taskId = t, p.version >= g PROVE Right(p, lease)
  <2>1. CASE Circulates(p)
    BY <2>1, <1>3, <1>5 DEF Told
  <2>2. CASE p \in N
    BY <2>2, <1>5 DEF Kept, lease
  <2> QED
    BY <2>1, <2>2, <1>5 DEF Serves
<1>6. ASSUME NEW l, Outstanding(l)' PROVE ListRight(l, lease, t, g)
  <2>1. CASE Outstanding(l)
    BY <2>1, <1>3 DEF Told, ListRight
  <2>2. CASE l \in M
    <3>1. \A p \in l.snapshots : p.version \in Nat
      BY <2>2 DEF Serves, WellListed, Named, ControllerSnapshot
    <3>2. \A p \in l.snapshots : p.taskId = t => store.version <= p.version /\ Right(p, lease)
      BY <2>2 DEF Kept, lease
    <3>3. \A p \in l.snapshots : p.taskId = t => p.version >= g /\ Right(p, lease)
      BY <3>1, <3>2, <1>1
    <3> QED
      BY <2>2, <3>3 DEF Kept, ListRight
  <2> QED
    BY <2>1, <2>2, <1>6 DEF Serves
<1>7. known' \in {0, instance'} => Fits(Projection', lease, t, g)
  <2>1. known \in {0, instance} => Fits(Projection, store.lease[t], t, g)
    BY DEF Told
  <2>2. Projection'.seen = Projection.seen /\ Projection'.view = Projection.view
    BY <1>4 DEF Projection
  <2> QED
    BY <2>1, <2>2, <1>3, <1>4 DEF Fits
<1>8. Told(store.lease[t], t, g)'
  BY <1>5, <1>6, <1>7 DEF Told, Right, ListRight, Listed, Fits, lease
<1>9. Informed(t, g)'
  <2>1. IsSeq(ring) /\ InOrder(ring, seq) /\ IsSeq(ring') /\ InOrder(ring', seq')
    BY DEF LInv, IInv
  <2>2. \A n : Recoverable(n, t, g) => Recoverable(n, t, g)'
    BY <2>1, <1>4, RecoverableKeeps DEF Serves
  <2>3. \A n : Comes(n, t, g) => Comes(n, t, g)'
    BY ComesKeeps DEF Serves
  <2>4. CASE known = instance
    BY <2>2, <2>3, <2>4, <1>4 DEF Informed
  <2>5. CASE known # instance
    <3>1. SUFFICES ASSUME connected
                   PROVE  \E f \in Range(wire') :
            /\ f.kind = "state-bootstrap"
            /\ \/ known' = 0 /\ seen'[t] >= g
               \/ \A l \in f.lists : l.version >= g /\ (known' = 0 => top' <= l.version)
               \/ /\ \A l \in f.lists : l.version < g
                  /\ \E n : Recoverable(n, t, g)' /\ Comes(n, t, g)'
      BY <2>5, <1>4 DEF Informed
    <3>2. PICK f \in Range(wire) :
            /\ f.kind = "state-bootstrap"
            /\ \/ known = 0 /\ seen[t] >= g
               \/ \A l \in f.lists : l.version >= g /\ (known = 0 => top <= l.version)
               \/ /\ \A l \in f.lists : l.version < g
                  /\ \E n : Recoverable(n, t, g) /\ Comes(n, t, g)
      BY <2>5, <3>1 DEF Informed
    <3>3. f \in Range(wire')
      BY <3>2 DEF Serves
    <3> QED
      BY <3>2, <3>3, <2>2, <2>3, <1>4
  <2> QED
    BY <2>4, <2>5
<1> QED
  BY <1>2, <1>8, <1>9 DEF lease

\* A step of the server makes the promise for a task it gives a new holder.
LEMMA RegrantedInformed ==
    ASSUME LInv, NEW N, NEW M, Serves(N, M), NEW t \in Tasks, Regranted(N, M, t), anchored
    PROVE  /\ store'.version \in 1 .. store'.version
           /\ Told(store.lease[t], t, store.version)' /\ Informed(t, store.version)'
<1> DEFINE g == store'.version
           lease == store'.lease[t]
<1>1. /\ store.version \in Nat /\ g \in Nat /\ store.version < g
  BY Versions, ServesTruth DEF Regranted
<1>2. g \in 1 .. g
  BY <1>1
<1>3. /\ instance' = instance /\ connected' = connected /\ view' = view /\ seen' = seen
      /\ top' = top /\ lastSeq' = lastSeq /\ known' = known /\ foreign' = foreign
      /\ owed' = owed
  BY DEF Serves
<1> HIDE DEF g, lease
<1>4. ASSUME NEW p, Circulates(p)', p.taskId = t, p.version >= g PROVE Right(p, lease)
  <2>1. ~Circulates(p)
    BY <1>1, <1>4, Versions
  <2> QED
    BY <2>1, <1>4 DEF Serves, Regranted, g, lease
<1>5. ASSUME NEW l, Outstanding(l)' PROVE l.version \in Nat /\ l.version < g
  <2>1. Outstanding(l)
    BY <1>5 DEF Serves, Regranted
  <2> QED
    BY <2>1, <1>1, Versions
<1>6. \A l : Outstanding(l)' => ListRight(l, lease, t, g)
  <2>1. \A v \in Nat : v < g => ~(v >= g)
    BY <1>1
  <2> QED
    BY <2>1, <1>5 DEF ListRight
<1>7. known' \in {0, instance'} => Fits(Projection', lease, t, g)
  <2>1. ASSUME known \in {0, instance} PROVE ~(seen[t] >= g)
    <3>1. top <= store.version
      BY <2>1 DEF LInv, Tracked
    <3> QED
      BY <3>1, <1>1, Versions
  <2>2. Projection'.seen = seen
    BY <1>3 DEF Projection
  <2> QED
    BY <2>1, <2>2, <1>3 DEF Fits
<1>8. Told(store.lease[t], t, store.version)'
  BY <1>4, <1>6, <1>7 DEF Told, Right, ListRight, Listed, Fits, g, lease
<1>9. PICK n : Recoverable(n, t, store.version)' /\ (connected => Comes(n, t, store.version)')
  BY DEF Regranted
<1>10. Informed(t, store.version)'
  <2>1. CASE known = instance
    BY <2>1, <1>3, <1>9 DEF Informed
  <2>2. CASE known # instance
    <3>1. SUFFICES ASSUME connected
                   PROVE  \E f \in Range(wire') :
            /\ f.kind = "state-bootstrap"
            /\ \A l \in f.lists : l.version < g
            /\ \E m : Recoverable(m, t, store.version)' /\ Comes(m, t, store.version)'
      BY <2>2, <1>3 DEF Informed, g
    <3>2. PICK f \in Range(wire) : f.kind = "state-bootstrap"
      BY <2>2, <3>1 DEF LInv, Greeted
    <3>3. f \in Range(wire')
      BY <3>2 DEF Serves
    <3>4. \A l \in f.lists : Outstanding(l)'
      BY <3>2, <3>3 DEF Outstanding
    <3> QED
      BY <3>1, <3>2, <3>3, <3>4, <1>5, <1>9
  <2> QED
    BY <2>1, <2>2
<1> QED
  BY <1>2, <1>8, <1>10 DEF g

\* A step of the server keeps the promise if it keeps or renews every holder.
LEMMA ServesPromise ==
    ASSUME LInv, IInv', NEW N, NEW M, Serves(N, M),
           anchored => \A t \in Tasks : Held(store', t) => Kept(N, M, t) \/ Regranted(N, M, t)
    PROVE  Promised'
<1> SUFFICES ASSUME anchored', NEW t \in Tasks, Held(store', t)
             PROVE  \E g \in 1 .. store'.version :
                        Told(store.lease[t], t, g)' /\ Informed(t, g)'
  BY DEF Promised, Held
<1>1. anchored
  BY DEF Serves
<1>2. CASE Kept(N, M, t)
  <2>1. PICK g \in 1 .. store.version : Told(store.lease[t], t, g) /\ Informed(t, g)
    BY <1>1, <1>2 DEF LInv, Promised, Kept
  <2>2. g \in 1 .. store'.version /\ Told(store.lease[t], t, g)' /\ Informed(t, g)'
    BY <1>2, <2>1, KeptInformed
  <2> QED
    BY <2>2
<1>3. CASE Regranted(N, M, t)
  <2>1. /\ store'.version \in 1 .. store'.version
        /\ Told(store.lease[t], t, store.version)' /\ Informed(t, store.version)'
    BY <1>1, <1>3, RegrantedInformed
  <2> QED
    BY <2>1
<1> QED
  BY <1>1, <1>2, <1>3

-----------------------------------------------------------------------------
(* A broadcast, with or without an answer to the renderer. *)

\* What changes when the server broadcasts events.
Publishes(events, N) ==
    /\ IsSeq(events) /\ Broadcasts(events)
    /\ StoreStep(store, store')
    /\ \/ wire' = wire
       \/ connected /\ \E p \in N : wire' = Append(wire, ReplyFrame(p))
    /\ \A p \in N : Named(p) /\ p.version <= store'.version
    /\ \A i \in 1 .. Len(events) : \A p : Tells(events[i], p) => p \in N
    /\ UNCHANGED <<instance, connected, fetches, client>>

\* The wire after it.
LEMMA PublishedWire ==
    ASSUME IInv, NEW events, NEW N, Publishes(events, N)
    PROVE  /\ IsSeq(wire') /\ Range(wire) \subseteq Range(wire')
           /\ \A x \in Range(wire') : x \in Range(wire) \/ \E p \in N : x = ReplyFrame(p)
           /\ Handshake(wire) => Handshake(wire')
<1>1. IsSeq(wire) /\ Len(wire) \in Nat
  BY DEF IInv, IsSeq
<1>2. CASE wire' = wire
  BY <1>1, <1>2
<1>3. CASE \E p \in N : wire' = Append(wire, ReplyFrame(p))
  <2>1. PICK p \in N : wire' = Append(wire, ReplyFrame(p))
    BY <1>3
  <2> DEFINE f == ReplyFrame(p)
  <2>2. f.kind = "reply"
    BY DEF ReplyFrame
  <2>3. f = ReplyFrame(p)
    OBVIOUS
  <2> HIDE DEF f
  <2>4. IsSeq(wire') /\ Range(wire') = Range(wire) \cup {f}
    BY <1>1, <2>1, <2>3, AppendedHold
  <2>5. /\ Len(wire') = Len(wire) + 1
        /\ \A i \in 1 .. Len(wire) : wire'[i] = wire[i]
        /\ wire'[Len(wire) + 1] = f
    <3>1. Append(wire, f) = wire \o <<f>> /\ IsSeq(<<f>>) /\ Len(<<f>>) = 1 /\ <<f>>[1] = f
      BY <1>1, Appended
    <3>2. /\ Len(wire \o <<f>>) = Len(wire) + Len(<<f>>)
          /\ \A i \in 1 .. Len(wire) : (wire \o <<f>>)[i] = wire[i]
          /\ \A i \in 1 .. Len(<<f>>) : (wire \o <<f>>)[Len(wire) + i] = <<f>>[i]
      BY <1>1, <3>1, Joined
    <3> QED
      BY <2>1, <2>3, <3>1, <3>2
  <2>6. ASSUME Handshake(wire) PROVE Handshake(wire')
    <3> SUFFICES ASSUME NEW i \in 1 .. Len(wire'), NEW j \in 1 .. Len(wire'), i < j
                 PROVE  /\ wire'[j].kind = "state-bootstrap" =>
                             /\ wire'[i].kind \notin {"reply", "state-bootstrap"}
                             /\ \A l \in wire'[j].lists : \A q : Carries(wire'[i], q) => q.version <= l.version
                        /\ wire'[j].kind = "control-replay-batch" => wire'[i].kind = "replay-truncated"
      BY DEF Handshake
    <3>1. CASE j = Len(wire) + 1
      BY <3>1, <2>2, <2>5
    <3>2. CASE j # Len(wire) + 1
      <4>1. i \in 1 .. Len(wire) /\ j \in 1 .. Len(wire)
        BY <3>2, <2>5, <1>1
      <4>2. wire'[i] = wire[i] /\ wire'[j] = wire[j]
        BY <4>1, <2>5
      <4> QED
        BY <4>1, <4>2, <2>6 DEF Handshake
    <3> QED
      BY <3>1, <3>2
  <2> QED
    BY <2>1, <2>3, <2>4, <2>6
<1> QED
  BY <1>2, <1>3 DEF Publishes

\* Broadcasting is a step of the server, and what it broadcasts will be heard.
LEMMA PublishServes ==
    ASSUME LInv, NEW events, NEW N, Publishes(events, N)
    PROVE  /\ Serves(N, {})
           /\ \A i \in 1 .. Len(events) : \A t, g : IsNews(events[i], t, g) =>
                 \E n : /\ n \in 1 .. seq' /\ (foreign' \/ n > seq)
                        /\ \/ \E e \in Range(ring') : e.seq = n /\ IsNews(e.event, t, g)
                           \/ ring' # <<>> /\ n < ring'[1].seq
                        /\ connected => Comes(n, t, g)'
<1>1. IInv
  BY DEF LInv
<1>2. /\ seq \in Nat /\ Len(events) \in Nat /\ seq' = seq + Len(events)
      /\ Range(ring') \subseteq
            Range(ring) \cup {[seq |-> seq + i, event |-> events[i]] : i \in 1 .. Len(events)}
      /\ \A e \in Range(ring) : Remembers(ring', e)
      /\ \A i \in 1 .. Len(events) : Remembers(ring', [seq |-> seq + i, event |-> events[i]])
      /\ ring # <<>> => ring' # <<>> /\ ring[1].seq <= ring'[1].seq
      /\ Range(queued') = Range(queued) \cup
            (IF connected THEN {EventFrame(seq + i, events[i]) : i \in 1 .. Len(events)} ELSE {})
  BY <1>1, BroadcastHolds DEF Publishes
<1>3. /\ Range(wire) \subseteq Range(wire')
      /\ \A x \in Range(wire') : x \in Range(wire) \/ \E p \in N : x = ReplyFrame(p)
  BY <1>1, PublishedWire
<1>4. RingKeeps
  BY <1>2 DEF RingKeeps
<1>5. Frames \subseteq Frames'
  BY <1>2, <1>3 DEF Frames
<1>6. \A p : ReplyFrame(p).kind = "reply" /\ ReplyFrame(p).snapshot = p
  BY DEF ReplyFrame
<1>7. ASSUME NEW p, Circulates(p)' PROVE Circulates(p) \/ p \in N
  <2>1. CASE \E e \in Range(ring') : Tells(e.event, p)
    <3>1. PICK e \in Range(ring') : Tells(e.event, p)
      BY <2>1
    <3>2. CASE e \in Range(ring)
      BY <3>1, <3>2 DEF Circulates
    <3>3. CASE e \notin Range(ring)
      <4>1. PICK i \in 1 .. Len(events) : e = [seq |-> seq + i, event |-> events[i]]
        BY <3>3, <1>2
      <4>2. Tells(events[i], p)
        BY <3>1, <4>1
      <4> QED
        BY <4>2 DEF Publishes
    <3> QED
      BY <3>2, <3>3
  <2>2. CASE \E f \in Frames' : Carries(f, p)
    <3>1. PICK f \in Frames' : Carries(f, p)
      BY <2>2
    <3>2. CASE f \in Frames
      BY <3>1, <3>2 DEF Circulates
    <3>3. CASE f \in Range(wire') /\ f \notin Frames
      <4>1. PICK q \in N : f = ReplyFrame(q)
        BY <3>3, <1>3 DEF Frames
      <4> QED
        BY <3>1, <4>1, <1>6 DEF Carries
    <3>4. CASE f \in Range(queued') /\ f \notin Frames
      <4>1. PICK i \in 1 .. Len(events) : f = EventFrame(seq + i, events[i])
        BY <3>4, <1>2 DEF Frames
      <4>2. f.kind = "event" /\ f.event = events[i]
        BY <4>1 DEF EventFrame
      <4>3. Tells(events[i], p)
        BY <3>1, <4>2 DEF Carries
      <4> QED
        BY <4>3 DEF Publishes
    <3> QED
      BY <3>1, <3>2, <3>3, <3>4 DEF Frames
  <2> QED
    BY <2>1, <2>2, <1>7 DEF Circulates, Carries, Tells, Frames
<1>8. ASSUME NEW l, Outstanding(l)' PROVE Outstanding(l)
  <2>1. fetches' = fetches /\ instance' = instance /\ restore' = restore
    BY DEF Publishes, client
  <2>2. \A x \in Range(wire') : x.kind = "state-bootstrap" => x \in Range(wire)
    BY <1>3, <1>6
  <2> QED
    BY <1>8, <2>1, <2>2 DEF Outstanding
<1>9. Serves(N, {})
  <2>1. \A x \in Range(wire') : x \in Range(wire) \/ x.kind # "replay-truncated"
    BY <1>3, <1>6
  <2>2. UNCHANGED <<instance, connected, view, seen, top, lastSeq, known, foreign, owed, anchored>>
    BY DEF Publishes, client, projection, history
  <2>3. /\ StoreStep(store, store')
        /\ \A p \in N : Named(p) /\ p.version <= store'.version
    BY DEF Publishes
  <2> QED
    BY <1>3, <1>4, <1>5, <1>7, <1>8, <2>1, <2>2, <2>3 DEF Serves
<1>10. ASSUME NEW i \in 1 .. Len(events), NEW t, NEW g, IsNews(events[i], t, g)
       PROVE  \E n : /\ n \in 1 .. seq' /\ (foreign' \/ n > seq)
                     /\ \/ \E e \in Range(ring') : e.seq = n /\ IsNews(e.event, t, g)
                        \/ ring' # <<>> /\ n < ring'[1].seq
                     /\ connected => Comes(n, t, g)'
  <2>1. PICK n : n = seq + i
    OBVIOUS
  <2>2. n \in 1 .. seq' /\ n > seq
    BY <2>1, <1>2
  <2>3. \/ \E e \in Range(ring') : e.seq = n /\ IsNews(e.event, t, g)
        \/ ring' # <<>> /\ n < ring'[1].seq
    <3> DEFINE e == [seq |-> seq + i, event |-> events[i]]
    <3>1. Remembers(ring', e)
      BY <1>2
    <3>2. e.seq = n /\ e.event = events[i]
      BY <2>1
    <3> HIDE DEF e
    <3> QED
      BY <3>1, <3>2, <1>10 DEF Remembers
  <2>4. ASSUME connected PROVE Comes(n, t, g)'
    <3> DEFINE f == EventFrame(seq + i, events[i])
    <3>1. f \in Range(queued')
      BY <1>2, <2>4
    <3>2. f.kind = "event" /\ f.seq = n /\ f.event = events[i]
      BY <2>1 DEF EventFrame
    <3> HIDE DEF f
    <3> QED
      BY <3>1, <3>2, <1>10 DEF Comes, Frames, IsNews
  <2> QED
    BY <2>2, <2>3, <2>4
<1> QED
  BY <1>9, <1>10

\* Who does not know the instance of the server still is about to.
LEMMA PublishGreets ==
    ASSUME LInv, NEW events, NEW N, Publishes(events, N)
    PROVE  Greeted'
<1>1. IInv /\ Greeted
  BY DEF LInv
<1>2. /\ Range(wire) \subseteq Range(wire')
      /\ \A x \in Range(wire') : x \in Range(wire) \/ \E p \in N : x = ReplyFrame(p)
      /\ Handshake(wire) => Handshake(wire')
  BY <1>1, PublishedWire
<1>3. Range(queued') = Range(queued) \cup
            (IF connected THEN {EventFrame(seq + i, events[i]) : i \in 1 .. Len(events)} ELSE {})
  BY <1>1, BroadcastHolds DEF Publishes
<1>4. \A n, e : EventFrame(n, e).kind = "event"
  BY DEF EventFrame
<1>5. \A f \in Range(queued') : f.kind = "event"
  BY <1>1, <1>3, <1>4 DEF Greeted
<1>6. \A p : ReplyFrame(p).kind = "reply"
  BY DEF ReplyFrame
<1>7. known' = known /\ instance' = instance /\ connected' = connected
  BY DEF Publishes, client
<1>8. Handshake(wire')
  BY <1>1, <1>2 DEF Greeted
<1>9. \A f \in Range(wire') : f.kind = "state-bootstrap" =>
         f.instance = instance /\ (known # instance => f.lists # {})
  BY <1>1, <1>2, <1>6 DEF Greeted
<1>10. connected /\ known # instance => \E f \in Range(wire') : f.kind = "state-bootstrap"
  BY <1>1, <1>2 DEF Greeted
<1> QED
  BY <1>5, <1>7, <1>8, <1>9, <1>10 DEF Greeted, Handshake, Carries, Tells

\* New events have new numbers.
LEMMA PublishHeard ==
    ASSUME LInv, NEW events, NEW N, Publishes(events, N)
    PROVE  Heard'
<1>1. IInv /\ Heard
  BY DEF LInv
<1>2. /\ seq \in Nat /\ Len(events) \in Nat /\ seq' = seq + Len(events)
      /\ Range(queued') = Range(queued) \cup
            (IF connected THEN {EventFrame(seq + i, events[i]) : i \in 1 .. Len(events)} ELSE {})
  BY <1>1, BroadcastHolds DEF Publishes
<1>3. /\ Range(wire) \subseteq Range(wire')
      /\ \A x \in Range(wire') : x \in Range(wire) \/ \E p \in N : x = ReplyFrame(p)
  BY <1>1, PublishedWire
<1>4. /\ lastSeq' = lastSeq /\ foreign' = foreign /\ fresh' = fresh /\ anchored' = anchored
      /\ connected' = connected
  BY DEF Publishes, client, history
<1>5. lastSeq \in Nat /\ (foreign \/ lastSeq <= seq)
  BY <1>1 DEF IInv, Heard
<1>6. foreign' \/ lastSeq' <= seq'
  BY <1>2, <1>4, <1>5
<1>7. ASSUME connected, NEW f \in Frames'
      PROVE  \/ f \in Frames
             \/ ~Counted(f) /\ f.kind # "event"
             \/ f.kind = "event" /\ f.seq > seq /\ f.seq \in Nat
  <2>1. CASE f \in Range(wire')
    BY <2>1, <1>3 DEF Frames, ReplyFrame, Counted
  <2>2. CASE f \in Range(queued')
    <3>1. \/ f \in Frames
          \/ \E i \in 1 .. Len(events) : f = EventFrame(seq + i, events[i])
      BY <2>2, <1>2 DEF Frames
    <3>2. ASSUME NEW i \in 1 .. Len(events), f = EventFrame(seq + i, events[i])
          PROVE  f.kind = "event" /\ f.seq > seq /\ f.seq \in Nat
      <4>1. f.kind = "event" /\ f.seq = seq + i
        BY <3>2 DEF EventFrame
      <4> QED
        BY <4>1, <1>2
    <3> QED
      BY <3>1, <3>2
  <2> QED
    BY <2>1, <2>2 DEF Frames
<1>8. Frames \subseteq Frames'
  BY <1>2, <1>3 DEF Frames
<1>9. ASSUME anchored, connected
      PROVE  \/ lastSeq <= seq' /\ \A f \in Frames' : f.kind = "event" => f.seq > lastSeq
             \/ /\ fresh /\ foreign
                /\ \E e \in Frames' : e.kind = "event"
                /\ \A f \in Frames' : Counted(f) =>
                      /\ f.kind = "event"
                      /\ f.event.topic = "controller" =>
                            \E e \in Frames' : e.kind = "event" /\ e.seq < f.seq
  <2>1. CASE lastSeq <= seq /\ \A f \in Frames : f.kind = "event" => f.seq > lastSeq
    <3>1. \A m \in Nat : m > seq => m > lastSeq
      BY <2>1, <1>2, <1>5
    <3>2. \A f \in Frames' : f.kind = "event" => f.seq > lastSeq
      BY <2>1, <3>1, <1>7, <1>9
    <3>3. lastSeq <= seq'
      BY <2>1, <1>2, <1>5
    <3> QED
      BY <3>2, <3>3
  <2>2. CASE /\ fresh /\ foreign
             /\ \E e \in Frames : e.kind = "event"
             /\ \A f \in Frames : Counted(f) =>
                   /\ f.kind = "event"
                   /\ f.event.topic = "controller" =>
                         \E e \in Frames : e.kind = "event" /\ e.seq < f.seq
    <3>1. PICK e \in Frames : e.kind = "event"
      BY <2>2
    <3>2. e.seq \in 0 .. seq
      <4>1. IsSeq(wire) /\ IsSeq(queued) /\ Stream(wire \o queued, lastSeq, seq)
        BY <1>1, <1>9 DEF IInv
      <4>2. IsSeq(wire \o queued) /\ Range(wire \o queued) = Frames
        BY <4>1, JoinedHold, Joined DEF Frames
      <4>3. PICK i \in 1 .. Len(wire \o queued) : e = (wire \o queued)[i]
        BY <3>1, <4>2, HeldAt
      <4>4. Counted(e) /\ Reach(e) = e.seq
        BY <3>1 DEF Counted, Reach
      <4> QED
        BY <4>1, <4>3, <4>4 DEF Stream
    <3>3. \A m \in Nat : m > seq => e.seq < m
      BY <3>2, <1>2
    <3>4. ASSUME NEW f \in Frames', Counted(f)
          PROVE  /\ f.kind = "event"
                 /\ f.event.topic = "controller" =>
                       \E x \in Frames' : x.kind = "event" /\ x.seq < f.seq
      <4>1. CASE f \in Frames
        BY <4>1, <2>2, <3>4, <1>8
      <4>2. CASE f.kind = "event" /\ f.seq > seq /\ f.seq \in Nat
        BY <4>2, <3>1, <3>3, <1>8
      <4> QED
        BY <4>1, <4>2, <3>4, <1>7, <1>9
    <3> QED
      BY <2>2, <3>1, <3>4, <1>8
  <2> QED
    BY <2>1, <2>2, <1>1, <1>9 DEF Heard
<1> QED
  BY <1>4, <1>6, <1>9 DEF Heard, Counted

-----------------------------------------------------------------------------
(* What the table's operations do to the holder of a task. *)

SameHolder(s, r, t) ==
    Held(r, t) =>
        /\ Held(s, t)
        /\ r.lease[t].clientId = s.lease[t].clientId
        /\ r.lease[t].action = s.lease[t].action

\* The same through two steps.
LEMMA SameTwice ==
    ASSUME NEW s, NEW r, NEW q, NEW t, SameHolder(s, r, t), SameHolder(r, q, t)
    PROVE  SameHolder(s, q, t)
  BY DEF SameHolder

\* A snapshot of the table names the action of the controller, and tells the truth
\* about a task that is held.
LEMMA SnapshotRight ==
    ASSUME NEW s \in Store, NEW t \in Tasks, NEW v \in Nat
    PROVE  /\ Named(SnapshotAt(s, t, v))
           /\ SnapshotAt(s, t, v).taskId = t /\ SnapshotAt(s, t, v).version = v
           /\ Held(s, t) => Right(SnapshotAt(s, t, v), s.lease[t])
<1>1. /\ SnapshotAt(s, t, v) \in ControllerSnapshot
      /\ SnapshotAt(s, t, v).taskId = t /\ SnapshotAt(s, t, v).version = v
  BY SnapshotTyping
<1>2. s.lease[t] # None => s.lease[t].action \in Actions
  BY LeaseTyping DEF Lease
<1>3. None \notin Actions
  BY LeaseAssumption
<1>4. Named(SnapshotAt(s, t, v))
  BY <1>1, <1>2, <1>3 DEF Named, SnapshotAt
<1>5. Held(s, t) => Right(SnapshotAt(s, t, v), s.lease[t])
  BY DEF Held, Right, SnapshotAt
<1> QED
  BY <1>1, <1>4, <1>5

\* Deleting a lease changes no other holder.
LEMMA DeleteSame ==
    ASSUME NEW s \in Store, NEW t \in Tasks, Current(s)
    PROVE  \A u \in Tasks : SameHolder(s, Delete(s, t), u)
<1>1. Delete(s, t).lease = [s.lease EXCEPT ![t] = None]
  BY DeleteStep
<1>2. \A u \in Tasks : Delete(s, t).lease[u] = IF u = t THEN None ELSE s.lease[u]
  BY <1>1 DEF Store
<1> QED
  BY <1>2 DEF SameHolder, Held

\* Deleting an expired lease, clearing what has expired, and time, make no new holder.
LEMMA ActiveSame ==
    ASSUME NEW s \in Store, NEW t \in Tasks, Current(s)
    PROVE  \A u \in Tasks : SameHolder(s, Active(s, t), u)
<1>1. \A u \in Tasks : Active(s, t).lease[u] =
            IF u = t /\ Expired(s, t) THEN None ELSE s.lease[u]
  BY ActiveStep
<1> QED
  BY <1>1 DEF SameHolder, Held

\* A sweep deletes expired leases only.
LEMMA DeleteAllSame ==
    ASSUME NEW s \in Store, NEW order \in KeyOrders, Current(s)
    PROVE  \A u \in Tasks : SameHolder(s, DeleteAll(s, ExpiredTasks(s)), u)
<1>1. /\ ExpiredTasks(s) \in SUBSET Tasks /\ \A t \in ExpiredTasks(s) : s.lease[t] # None
  BY PruneStep
<1>2. \A u \in Tasks : DeleteAll(s, ExpiredTasks(s)).lease[u] =
            IF u \in ExpiredTasks(s) THEN None ELSE s.lease[u]
  BY <1>1, DeleteAllStep
<1> QED
  BY <1>2 DEF SameHolder, Held

\* Time gives no lease away.
LEMMA ElapseSame ==
    ASSUME NEW s \in Store
    PROVE  \A u \in Tasks : SameHolder(s, Elapse(s), u)
<1> SUFFICES ASSUME NEW u \in Tasks, Held(Elapse(s), u)
             PROVE  /\ Held(s, u)
                    /\ Elapse(s).lease[u].clientId = s.lease[u].clientId
                    /\ Elapse(s).lease[u].action = s.lease[u].action
  BY DEF SameHolder
<1>1. Elapse(s).lease[u] = IF Held(s, u) THEN [s.lease[u] EXCEPT !.ttl = @ - 1] ELSE s.lease[u]
  BY DEF Elapse
<1>2. CASE Held(s, u)
  <2>1. s.lease[u] \in Lease
    BY <1>2, LeaseTyping DEF Held
  <2> QED
    BY <1>1, <1>2, <2>1 DEF Lease
<1>3. CASE ~Held(s, u)
  BY <1>1, <1>3 DEF Held
<1> QED
  BY <1>2, <1>3

\* Extending the time of a lease.
LEMMA RenewSame ==
    ASSUME NEW s \in Store, NEW t \in Tasks, NEW c, NEW o, Current(s)
    PROVE  \A u \in Tasks : SameHolder(s, Renew(s, t, c, o, None).store, u)
<1> DEFINE q == Active(s, t)
<1>1. q \in Store /\ Current(q) /\ (q.lease[t] # None => Held(s, t) /\ q = s)
  BY ActiveStep DEF StoreStep
<1>2. \A u \in Tasks : SameHolder(s, q, u)
  BY ActiveSame
<1>3. CASE ~Matches(q.lease[t], c, o, None)
  <2>1. Renew(s, t, c, o, None).store = q
    BY <1>3 DEF Renew
  <2> QED
    BY <2>1, <1>2
<1>4. CASE Matches(q.lease[t], c, o, None)
  <2>1. Renew(s, t, c, o, None).store = Extend(s, t) /\ Held(s, t)
    BY <1>1, <1>4 DEF Renew, Matches
  <2>2. s.lease[t] \in Lease /\ s.lease \in [Tasks -> Lease \cup {None}]
    BY <2>1, LeaseTyping DEF Held, Store
  <2>3. \A u \in Tasks : Extend(s, t).lease[u] =
           IF u = t THEN [s.lease[t] EXCEPT !.ttl = LeaseMs] ELSE s.lease[u]
    BY <2>2 DEF Extend
  <2>4. /\ [s.lease[t] EXCEPT !.ttl = LeaseMs].clientId = s.lease[t].clientId
        /\ [s.lease[t] EXCEPT !.ttl = LeaseMs].action = s.lease[t].action
    BY <2>2 DEF Lease
  <2>5. ASSUME NEW u \in Tasks PROVE SameHolder(s, Extend(s, t), u)
    BY <2>1, <2>3, <2>4 DEF SameHolder, Held
  <2> QED
    BY <2>1, <2>5
<1> QED
  BY <1>3, <1>4

\* A release ends the lease of the task it is for, or changes nothing.
LEMMA ReleaseSame ==
    ASSUME NEW s \in Store, NEW t \in Tasks, NEW c, NEW o, Current(s)
    PROVE  LET result == Release(s, t, c, o, None) IN
           /\ \A u \in Tasks : SameHolder(s, result.store, u)
           /\ result.changed => result.store.lease[t] = None
<1> DEFINE q == Active(s, t)
<1>1. q \in Store /\ Current(q)
  BY ActiveStep DEF StoreStep
<1>2. \A u \in Tasks : SameHolder(s, q, u) /\ SameHolder(q, Delete(q, t), u)
  BY <1>1, ActiveSame, DeleteSame
<1>3. Delete(q, t).lease[t] = None
  <2>1. Delete(q, t).lease = [q.lease EXCEPT ![t] = None] /\ q.lease \in [Tasks -> Lease \cup {None}]
    BY <1>1, DeleteStep DEF Store
  <2> QED
    BY <2>1
<1>4. CASE ~Matches(q.lease[t], c, o, None)
  <2>1. Release(s, t, c, o, None).store = q /\ ~Release(s, t, c, o, None).changed
    BY <1>4 DEF Release
  <2> QED
    BY <2>1, <1>2
<1>5. CASE Matches(q.lease[t], c, o, None)
  <2>1. Release(s, t, c, o, None).store = Delete(q, t)
    BY <1>5 DEF Release
  <2> HIDE DEF q
  <2> QED
    BY <2>1, <1>2, <1>3, SameTwice
<1> QED
  BY <1>4, <1>5

\* Granting a lease leaves the other tasks alone; for its own it keeps the holder or
\* is a change with a version of its own.
LEMMA AcquireSame ==
    ASSUME NEW s \in Store, NEW t \in Tasks, NEW c \in Clients, NEW o \in Owners,
           NEW a \in Actions, NEW takeover, Current(s)
    PROVE  LET result == Acquire(s, t, c, o, a, takeover) IN
           /\ \A u \in Tasks \ {t} : SameHolder(s, result.store, u)
           /\ ~result.changed => SameHolder(s, result.store, t)
           /\ result.changed => s.version < result.store.version
           /\ s.lease[t] = None => result.changed
<1> DEFINE q == Active(s, t)
           result == Acquire(s, t, c, o, a, takeover)
<1>1. /\ q \in Store /\ Current(q) /\ s.version <= q.version /\ s.version \in Nat
      /\ q.version \in Nat
      /\ s.lease[t] = None => q.lease[t] = None
      /\ q.lease[t] # None => Held(s, t) /\ q = s
  BY ActiveStep DEF StoreStep, Store
<1>2. \A u \in Tasks : SameHolder(s, q, u)
  BY ActiveSame
<1>3. CASE Refused(q.lease[t], c, takeover)
  <2>1. result.store = q /\ ~result.changed /\ q.lease[t] # None
    BY <1>3 DEF Acquire, Refused
  <2> QED
    BY <2>1, <1>1, <1>2
<1>4. CASE ~Refused(q.lease[t], c, takeover)
  <2>1. /\ result.changed = ControllerChanged(q.lease[t], c, a)
        /\ result.store.version = IF ControllerChanged(q.lease[t], c, a)
                                  THEN q.version + 1 ELSE q.version
    BY <1>4 DEF Acquire
  <2> DEFINE lease == [action |-> a, clientId |-> c, ttl |-> LeaseMs,
                       leaseGeneration |-> NextGeneration(q, t), ownerId |-> o]
  <2>2. result.store.lease = [q.lease EXCEPT ![t] = lease]
    BY <1>4 DEF Acquire
  <2>3. lease.clientId = c /\ lease.action = a /\ q.lease \in [Tasks -> Lease \cup {None}]
    BY <1>1 DEF Store
  <2> HIDE DEF lease
  <2>4. \A u \in Tasks \ {t} : SameHolder(s, result.store, u)
    <3>1. \A u \in Tasks \ {t} : result.store.lease[u] = q.lease[u]
      BY <2>2, <2>3
    <3> QED
      BY <3>1, <1>2 DEF SameHolder, Held
  <2>7. result.store.lease[t] = lease
    BY <2>2, <2>3
  <2>5. ASSUME ~ControllerChanged(q.lease[t], c, a) PROVE SameHolder(s, result.store, t)
    <3>1. q.lease[t] # None /\ q.lease[t].clientId = c /\ q.lease[t].action = a
      BY <2>5 DEF ControllerChanged
    <3>2. Held(s, t) /\ s.lease[t].clientId = c /\ s.lease[t].action = a
      BY <3>1, <1>1
    <3> QED
      BY <3>2, <2>3, <2>7 DEF SameHolder
  <2>6. q.lease[t] = None => ControllerChanged(q.lease[t], c, a)
    BY DEF ControllerChanged
  <2> HIDE DEF q, result
  <2> QED
    BY <2>1, <2>4, <2>5, <2>6, <1>1 DEF result
<1> QED
  BY <1>3, <1>4

-----------------------------------------------------------------------------
(* The types of a broadcast. *)

ServerTyped ==
    /\ store \in Store
    /\ seq \in 0 .. MaxSeq
    /\ ring \in Seq(Entry) /\ Len(ring) <= RingSize
    /\ instance \in 1 .. MaxInstance
    /\ connected \in BOOLEAN

NetworkTyped ==
    /\ queued \in Seq(Frame)
    /\ wire \in Seq(Frame)
    /\ fetches \subseteq Fetch

ShownTyped ==
    /\ view \in [Tasks -> Controller \cup {None}]
    /\ seen \in [Tasks -> Nat \cup {-1}]
    /\ top \in Nat

CountTyped ==
    /\ lastSeq \in 0 .. MaxSeq
    /\ fresh \in BOOLEAN
    /\ known \in 0 .. MaxInstance
    /\ {foreign, anchored} \subseteq BOOLEAN
    /\ owed \in Nat

RestoreTyped ==
    /\ \/ restore \in {Cold, Idle, Awaiting, [step |-> "status"], [step |-> "snapshot"]}
       \/ restore \in [step : {"version"}, version : Nat]
       \/ restore \in [step : {"list"}, list : List]
    /\ touched \in BOOLEAN /\ (touched => Restoring(restore))
    /\ required \in BOOLEAN /\ (restore.step \in {"snapshot", "list"} => required)

\* The type invariant, part by part.
LEMMA TypedParts ==
    TypeOK <=> ServerTyped /\ NetworkTyped /\ ShownTyped /\ CountTyped /\ RestoreTyped
  BY DEF TypeOK, ServerTyped, NetworkTyped, ShownTyped, CountTyped, RestoreTyped

\* The same in the next state.
LEMMA TypedPartsNext ==
    TypeOK' <=> ServerTyped' /\ NetworkTyped' /\ ShownTyped' /\ CountTyped' /\ RestoreTyped'
  BY DEF TypeOK, ServerTyped, NetworkTyped, ShownTyped, CountTyped, RestoreTyped

\* What the renderer keeps to itself.
LEMMA ClientTyped ==
    ASSUME TypeOK, UNCHANGED client
    PROVE  ShownTyped' /\ CountTyped' /\ RestoreTyped'
<1>1. ShownTyped /\ CountTyped /\ RestoreTyped
  BY TypedParts
<1>2. /\ view' = view /\ seen' = seen /\ top' = top /\ touched' = touched /\ lastSeq' = lastSeq
      /\ fresh' = fresh /\ known' = known /\ restore' = restore /\ required' = required
      /\ foreign' = foreign /\ owed' = owed /\ anchored' = anchored
  BY DEF client, projection, history
<1>3. ShownTyped' /\ CountTyped'
  BY <1>1, <1>2 DEF ShownTyped, CountTyped
<1>4. RestoreTyped'
  BY <1>1, <1>2 DEF RestoreTyped, Restoring
<1> QED
  BY <1>3, <1>4

\* A broadcast of events is well typed.
LEMMA PublishTypes ==
    ASSUME LInv, NEW events, NEW N, Publishes(events, N),
           \A i \in 1 .. Len(events) : events[i] \in Event
    PROVE  Typed'
<1>1. IInv /\ Typed /\ TypeOK
  BY DEF LInv, Typed
<1>2. /\ seq \in Nat /\ Len(events) \in Nat /\ seq' = seq + Len(events) /\ seq' <= MaxSeq
      /\ IsSeq(ring') /\ IsSeq(queued') /\ Len(ring') <= RingSize
      /\ Range(ring') \subseteq
            Range(ring) \cup {[seq |-> seq + i, event |-> events[i]] : i \in 1 .. Len(events)}
      /\ Range(queued') = Range(queued) \cup
            (IF connected THEN {EventFrame(seq + i, events[i]) : i \in 1 .. Len(events)} ELSE {})
  BY <1>1, BroadcastHolds DEF Publishes
<1>3. /\ IsSeq(wire')
      /\ \A x \in Range(wire') : x \in Range(wire) \/ \E p \in N : x = ReplyFrame(p)
  BY <1>1, PublishedWire
<1>4. /\ ServerTyped /\ NetworkTyped
  BY <1>1, TypedParts
<1>5. /\ ring \in Seq(Entry) /\ queued \in Seq(Frame) /\ wire \in Seq(Frame)
      /\ Range(ring) \subseteq Entry /\ Range(queued) \subseteq Frame /\ Range(wire) \subseteq Frame
  BY <1>4, SeqHolds DEF ServerTyped, NetworkTyped
<1>6. MaxSeq \in Nat
  BY ProjectionAssumption
<1>7. \A i \in 1 .. Len(events) : seq + i \in 1 .. MaxSeq
  BY <1>2, <1>6
<1>8. ring' \in Seq(Entry)
  <2>1. \A i \in 1 .. Len(events) : [seq |-> seq + i, event |-> events[i]] \in Entry
    BY <1>7, EntryTyping
  <2> QED
    BY <2>1, <1>2, <1>5, SeqHolds
<1>9. queued' \in Seq(Frame)
  <2>1. \A i \in 1 .. Len(events) : EventFrame(seq + i, events[i]) \in Frame
    BY <1>7, FrameMade
  <2> QED
    BY <2>1, <1>2, <1>5, SeqHolds
<1>10. wire' \in Seq(Frame)
  <2>1. \A p \in N : ReplyFrame(p) \in Frame
    BY FrameMade DEF Publishes, Named
  <2> QED
    BY <2>1, <1>3, <1>5, SeqHolds
<1>11. store' \in Store /\ Current(store')
  BY DEF Publishes, StoreStep
<1>12. UNCHANGED <<instance, connected, fetches>> /\ UNCHANGED client
  BY DEF Publishes
<1>13. ServerTyped' /\ NetworkTyped'
  <2>1. seq' \in 0 .. MaxSeq
    BY <1>2, <1>6
  <2> QED
    BY <2>1, <1>2, <1>4, <1>8, <1>9, <1>10, <1>11, <1>12 DEF ServerTyped, NetworkTyped
<1>14. TypeOK'
  BY <1>1, <1>12, <1>13, ClientTyped, TypedPartsNext
<1>15. known' = known /\ restore' = restore
  BY <1>12 DEF client
<1> QED
  BY <1>1, <1>11, <1>12, <1>14, <1>15 DEF Typed, Cold, Idle

\* A broadcast keeps everything if it keeps or renews every holder.
LEMMA PublishKeeps ==
    ASSUME LInv, IInv', NEW events, NEW N, Publishes(events, N),
           \A i \in 1 .. Len(events) : events[i] \in Event,
           anchored => \A t \in Tasks : Held(store', t) =>
              \/ SameHolder(store, store', t)
                 /\ \A p \in N : p.taskId = t => Right(p, store'.lease[t])
              \/ /\ store.version < store'.version
                 /\ \A p \in N : p.taskId = t /\ p.version >= store'.version => Right(p, store'.lease[t])
                 /\ \E i \in 1 .. Len(events) : IsNews(events[i], t, store'.version)
    PROVE  LInv'
<1>1. Serves(N, {})
  BY PublishServes
<1>2. Truthful' /\ Tracked'
  BY <1>1, ServesTruth
<1>3. Greeted' /\ Heard' /\ Typed'
  BY PublishGreets, PublishHeard, PublishTypes
<1>4. ASSUME anchored, NEW t \in Tasks, Held(store', t)
      PROVE  Kept(N, {}, t) \/ Regranted(N, {}, t)
  <2>1. CASE /\ SameHolder(store, store', t)
             /\ \A p \in N : p.taskId = t => Right(p, store'.lease[t])
    BY <2>1, <1>4 DEF SameHolder, Kept
  <2>2. CASE /\ store.version < store'.version
             /\ \A p \in N : p.taskId = t /\ p.version >= store'.version => Right(p, store'.lease[t])
             /\ \E i \in 1 .. Len(events) : IsNews(events[i], t, store'.version)
    <3>1. PICK g : g = store'.version
      OBVIOUS
    <3>2. \E i \in 1 .. Len(events) : IsNews(events[i], t, g)
      BY <2>2, <3>1
    <3>3. PICK n : /\ n \in 1 .. seq' /\ (foreign' \/ n > seq)
                   /\ \/ \E e \in Range(ring') : e.seq = n /\ IsNews(e.event, t, g)
                      \/ ring' # <<>> /\ n < ring'[1].seq
                   /\ connected => Comes(n, t, g)'
      BY <3>2, PublishServes
    <3>4. foreign' \/ n > lastSeq'
      <4>1. /\ foreign \/ lastSeq <= seq
            /\ foreign' = foreign /\ lastSeq' = lastSeq /\ lastSeq \in Nat /\ seq \in Nat
            /\ seq' \in Nat
        BY <1>1 DEF LInv, Heard, IInv, Serves
      <4> QED
        BY <4>1, <3>3
    <3>5. Recoverable(n, t, store.version)'
      BY <3>1, <3>3, <3>4 DEF Recoverable, IsNews
    <3>6. connected => Comes(n, t, store.version)'
      BY <3>1, <3>3 DEF Comes, IsNews
    <3> QED
      BY <2>2, <3>5, <3>6 DEF Regranted
  <2> QED
    BY <2>1, <2>2, <1>4
<1>5. Promised'
  BY <1>1, <1>4, ServesPromise
<1> QED
  BY <1>2, <1>3, <1>5 DEF LInv

-----------------------------------------------------------------------------
(* The requests about leases. *)

\* None, one or two events.
LEMMA FewEvents ==
    ASSUME NEW x, NEW y
    PROVE  /\ IsSeq(<<>>) /\ Len(<<>>) = 0
           /\ IsSeq(<<x>>) /\ Len(<<x>>) = 1 /\ <<x>>[1] = x
           /\ IsSeq(<<x, y>>) /\ Len(<<x, y>>) = 2 /\ <<x, y>>[1] = x /\ <<x, y>>[2] = y
<1>1. <<x>> \in Seq({x, y}) /\ <<>> \in Seq({x, y}) /\ <<x, y>> \in Seq({x, y})
  OBVIOUS
<1>2. IsSeq(<<>>) /\ IsSeq(<<x>>) /\ IsSeq(<<x, y>>)
  BY <1>1, SeqIs
<1> QED
  BY <1>2

\* An event about a controller tells its snapshot and nothing else.
LEMMA TellsOne ==
    /\ \A p, q : Tells(ControllerEvent(p), q) => q = p
    /\ \A p, t, g : p.taskId = t /\ p.version >= g => IsNews(ControllerEvent(p), t, g)
    /\ \A q : ~Tells(Lifecycle, q) /\ ~Tells(Presence, q)
  BY DEF Tells, IsNews, ControllerEvent, Lifecycle, Presence

\* Serving a request publishes its events and its answer.
LEMMA ServePublishes ==
    ASSUME NEW c, NEW result, NEW events, NEW N, IsSeq(events), Serve(c, result, events),
           StoreStep(store, result.store), result.snapshot \in N,
           \A p \in N : Named(p) /\ p.version <= result.store.version,
           \A i \in 1 .. Len(events) : \A p : Tells(events[i], p) => p \in N
    PROVE  Publishes(events, N) /\ store' = result.store
<1>1. /\ store' = result.store /\ Broadcasts(events)
      /\ UNCHANGED <<instance, connected, fetches, client>>
      /\ c = Self => connected
      /\ wire' = IF c = Self THEN Append(wire, ReplyFrame(result.snapshot)) ELSE wire
  BY DEF Serve
<1> QED
  BY <1>1 DEF Publishes

\* A grant is told to everybody; a refusal, or a confirmation, leaves the holder as it was.
LEMMA AcquireKeeps ==
    ASSUME LInv, IInv', NEW t \in Tasks, NEW c \in Clients, NEW o \in Owners, NEW a \in Actions,
           NEW takeover, AcquireTaskCommandLease(t, c, o, a, takeover)
    PROVE  LInv'
<1> DEFINE result == Acquire(store, t, c, o, a, takeover)
           snapshot == Snapshot(result.store, t)
           N == {snapshot}
           events == Changes(result)
<1>1. Serve(c, result, events)
  BY DEF AcquireTaskCommandLease
<1>2. store \in Store /\ Current(store)
  BY Versions
<1>3. StoreStep(store, result.store) /\ result.snapshot = snapshot
  BY <1>2, AcquireStep
<1>4. /\ \A u \in Tasks \ {t} : SameHolder(store, result.store, u)
      /\ ~result.changed => SameHolder(store, result.store, t)
      /\ result.changed => store.version < result.store.version
  BY <1>2, AcquireSame
<1>5. events = IF result.changed THEN <<ControllerEvent(snapshot)>> ELSE <<>>
  BY <1>3 DEF Changes
<1> HIDE DEF result, events
<1>6. result.store \in Store /\ result.store.version \in Nat
  BY <1>3 DEF StoreStep, Store
<1>7. /\ Named(snapshot) /\ snapshot.taskId = t /\ snapshot.version = result.store.version
      /\ Held(result.store, t) => Right(snapshot, result.store.lease[t])
      /\ snapshot \in ControllerSnapshot
  BY <1>6, SnapshotRight DEF Snapshot, Named
<1> HIDE DEF snapshot
<1>8. /\ IsSeq(events) /\ Len(events) \in Nat
      /\ \A i \in 1 .. Len(events) : events[i] = ControllerEvent(snapshot)
      /\ result.changed => 1 \in 1 .. Len(events)
  <2>1. PICK e : e = ControllerEvent(snapshot)
    OBVIOUS
  <2>2. IsSeq(<<>>) /\ Len(<<>>) = 0 /\ IsSeq(<<e>>) /\ Len(<<e>>) = 1 /\ <<e>>[1] = e
    BY FewEvents
  <2>3. events = IF result.changed THEN <<e>> ELSE <<>>
    BY <2>1, <1>5
  <2>4. CASE result.changed
    BY <2>1, <2>2, <2>3, <2>4
  <2>5. CASE ~result.changed
    BY <2>1, <2>2, <2>3, <2>5
  <2> QED
    BY <2>4, <2>5
<1>9. \A i \in 1 .. Len(events) : events[i] \in Event /\ \A p : Tells(events[i], p) => p \in N
  BY <1>7, <1>8, TellsOne, EventTyping
<1>10. Publishes(events, N) /\ store' = result.store
  <2>1. \A p \in N : Named(p) /\ p.version <= result.store.version
    BY <1>6, <1>7
  <2>2. result.snapshot \in N
    BY <1>3
  <2> HIDE DEF N
  <2> QED
    BY <2>1, <2>2, <1>1, <1>3, <1>8, <1>9, ServePublishes
<1>11. ASSUME NEW u \in Tasks, Held(store', u)
       PROVE  \/ SameHolder(store, store', u)
                 /\ \A p \in N : p.taskId = u => Right(p, store'.lease[u])
              \/ /\ store.version < store'.version
                 /\ \A p \in N : p.taskId = u /\ p.version >= store'.version => Right(p, store'.lease[u])
                 /\ \E i \in 1 .. Len(events) : IsNews(events[i], u, store'.version)
  <2>1. CASE u # t
    BY <2>1, <1>4, <1>7, <1>10
  <2>2. CASE u = t /\ ~result.changed
    BY <2>2, <1>4, <1>7, <1>10, <1>11
  <2>3. CASE u = t /\ result.changed
    <3>1. snapshot.version >= store'.version
      BY <1>6, <1>7, <1>10
    <3>2. IsNews(events[1], u, store'.version)
      BY <2>3, <3>1, <1>7, <1>8, TellsOne
    <3> QED
      BY <2>3, <3>2, <1>4, <1>7, <1>8, <1>10, <1>11
  <2> QED
    BY <2>1, <2>2, <2>3
<1> HIDE DEF N
<1> QED
  BY <1>9, <1>10, <1>11, PublishKeeps

\* A request that changes no holder to another answers with the table's snapshot, and
\* broadcasts it if at all.
LEMMA QuietlyKeeps ==
    ASSUME LInv, IInv', NEW t \in Tasks, NEW c, NEW result, NEW events, Serve(c, result, events),
           events \in {<<>>, <<ControllerEvent(result.snapshot)>>},
           StoreStep(store, result.store), result.snapshot = Snapshot(result.store, t),
           \A u \in Tasks : SameHolder(store, result.store, u)
    PROVE  LInv'
<1> DEFINE snapshot == Snapshot(result.store, t)
           N == {snapshot}
<1>1. result.store \in Store /\ result.store.version \in Nat
  BY DEF StoreStep, Store
<1>2. /\ Named(snapshot) /\ snapshot.taskId = t /\ snapshot.version = result.store.version
      /\ Held(result.store, t) => Right(snapshot, result.store.lease[t])
      /\ snapshot \in ControllerSnapshot
  BY <1>1, SnapshotRight DEF Snapshot, Named
<1>3. result.snapshot = snapshot
  OBVIOUS
<1> HIDE DEF snapshot
<1>4. /\ IsSeq(events) /\ Len(events) \in Nat
      /\ \A i \in 1 .. Len(events) : events[i] = ControllerEvent(snapshot)
  <2>1. PICK e : e = ControllerEvent(snapshot)
    OBVIOUS
  <2>2. IsSeq(<<>>) /\ Len(<<>>) = 0 /\ IsSeq(<<e>>) /\ Len(<<e>>) = 1 /\ <<e>>[1] = e
    BY FewEvents
  <2>3. CASE events = <<e>>
    BY <2>1, <2>2, <2>3
  <2>4. CASE events = <<>>
    BY <2>1, <2>2, <2>4
  <2> QED
    BY <2>1, <2>3, <2>4, <1>3
<1>5. \A i \in 1 .. Len(events) : events[i] \in Event /\ \A p : Tells(events[i], p) => p \in N
  BY <1>2, <1>4, TellsOne, EventTyping
<1>6. Publishes(events, N) /\ store' = result.store
  <2>1. \A p \in N : Named(p) /\ p.version <= result.store.version
    BY <1>1, <1>2
  <2>2. result.snapshot \in N
    BY <1>3
  <2> HIDE DEF N
  <2> QED
    BY <2>1, <2>2, <1>4, <1>5, ServePublishes
<1>7. ASSUME NEW u \in Tasks, Held(store', u)
      PROVE  SameHolder(store, store', u) /\ \A p \in N : p.taskId = u => Right(p, store'.lease[u])
  BY <1>2, <1>6, <1>7
<1> HIDE DEF N
<1> QED
  BY <1>5, <1>6, <1>7, PublishKeeps

\* A renewal is told to nobody, and names the same holder.
LEMMA RenewKeeps ==
    ASSUME LInv, IInv', NEW t \in Tasks, NEW c, NEW o, RenewTaskCommandLease(t, c, o)
    PROVE  LInv'
<1> DEFINE result == Renew(store, t, c, o, None)
<1>1. Serve(c, result, <<>>)
  BY DEF RenewTaskCommandLease
<1>2. store \in Store /\ Current(store)
  BY Versions
<1>3. StoreStep(store, result.store) /\ result.snapshot = Snapshot(result.store, t)
  BY <1>2, RenewStep
<1>4. \A u \in Tasks : SameHolder(store, result.store, u)
  BY <1>2, RenewSame
<1> HIDE DEF result
<1> QED
  BY <1>1, <1>3, <1>4, QuietlyKeeps

\* A release promises nothing of its own task, and leaves the others alone.
LEMMA ReleaseKeeps ==
    ASSUME LInv, IInv', NEW t \in Tasks, NEW c, NEW o, ReleaseTaskCommandLease(t, c, o)
    PROVE  LInv'
<1> DEFINE result == Release(store, t, c, o, None)
<1>1. Serve(c, result, Changes(result))
  BY DEF ReleaseTaskCommandLease
<1>2. store \in Store /\ Current(store)
  BY Versions
<1>3. StoreStep(store, result.store) /\ result.snapshot = Snapshot(result.store, t)
  BY <1>2, ReleaseStep
<1>4. \A u \in Tasks : SameHolder(store, result.store, u)
  BY <1>2, ReleaseSame
<1> HIDE DEF result
<1>5. Changes(result) \in {<<>>, <<ControllerEvent(result.snapshot)>>}
  BY DEF Changes
<1> QED
  BY <1>1, <1>3, <1>4, <1>5, QuietlyKeeps

\* A takeover is a table step.
LEMMA TakeoverStep ==
    ASSUME NEW s \in Store, NEW t \in Tasks, NEW c \in Clients, NEW o \in Owners,
           NEW a \in Actions, Current(s)
    PROVE  LET result == Acquire(s, t, c, o, a, TRUE) IN
           StoreStep(s, result.store) /\ result.snapshot = Snapshot(result.store, t)
<1>1. \A takeover : LET result == Acquire(s, t, c, o, a, takeover) IN
         StoreStep(s, result.store) /\ result.snapshot = Snapshot(result.store, t)
  BY AcquireStep
<1> QED
  BY <1>1

\* The lease that is released and granted at once has a new holder.
LEMMA HandoverKeeps ==
    ASSUME LInv, IInv', NEW t \in Tasks, NEW c \in Clients, NEW o \in Owners, NEW d \in Clients,
           NEW a \in Actions, ReleaseToRequester(t, c, o, d, a)
    PROVE  LInv'
<1> DEFINE released == Release(store, t, c, o, None)
           granted == Acquire(released.store, t, d, o, a, TRUE)
           first == granted.snapshot
           second == released.snapshot
           result == [released EXCEPT !.store = granted.store]
           N == {first, second}
           events == <<ControllerEvent(first), ControllerEvent(second)>>
<1>1. Serve(c, result, events) /\ released.changed
  BY DEF ReleaseToRequester
<1>2. store \in Store /\ Current(store)
  BY Versions
<1>3. /\ StoreStep(store, released.store) /\ second = Snapshot(released.store, t)
      /\ \A u \in Tasks : SameHolder(store, released.store, u)
      /\ released.store.lease[t] = None
  BY <1>1, <1>2, ReleaseStep, ReleaseSame
<1>4. result.store = granted.store /\ result.snapshot = second
  BY DEF Release
<1> HIDE DEF released, result
<1>5. released.store \in Store /\ Current(released.store)
  BY <1>3 DEF StoreStep
<1>6. /\ StoreStep(released.store, granted.store) /\ first = Snapshot(granted.store, t)
      /\ \A u \in Tasks \ {t} : SameHolder(released.store, granted.store, u)
      /\ released.store.version < granted.store.version
  <2> DEFINE s == released.store
  <2>1. s \in Store /\ Current(s) /\ s.lease[t] = None
    BY <1>3, <1>5
  <2>2. granted = Acquire(s, t, d, o, a, TRUE)
    OBVIOUS
  <2>3. first = granted.snapshot
    OBVIOUS
  <2> HIDE DEF s, granted, first
  <2>4. StoreStep(s, granted.store) /\ granted.snapshot = Snapshot(granted.store, t)
    BY <2>1, <2>2, TakeoverStep
  <2>5. /\ \A u \in Tasks \ {t} : SameHolder(s, granted.store, u)
        /\ s.version < granted.store.version
    BY <2>1, <2>2, AcquireSame
  <2> QED
    BY <2>3, <2>4, <2>5 DEF s
<1> HIDE DEF granted, first, second
<1>7. StoreStep(store, granted.store)
  BY <1>2, <1>3, <1>6, StepsCompose
<1>8. /\ released.store.version \in Nat /\ store.version \in Nat
      /\ store.version <= released.store.version
      /\ granted.store \in Store /\ granted.store.version \in Nat
  BY <1>2, <1>3, <1>6 DEF StoreStep, Store
<1>9. /\ Named(first) /\ first.taskId = t /\ first.version = granted.store.version
      /\ Held(granted.store, t) => Right(first, granted.store.lease[t])
      /\ first \in ControllerSnapshot
  BY <1>6, <1>8, SnapshotRight DEF Snapshot, Named
<1>10. /\ Named(second) /\ second.taskId = t /\ second.version = released.store.version
       /\ second \in ControllerSnapshot
  BY <1>3, <1>5, <1>8, SnapshotRight DEF Snapshot, Named
<1>11. /\ IsSeq(events) /\ Len(events) = 2
       /\ events[1] = ControllerEvent(first) /\ events[2] = ControllerEvent(second)
  BY FewEvents
<1> HIDE DEF events
<1>12. \A i \in 1 .. Len(events) : events[i] \in Event /\ \A p : Tells(events[i], p) => p \in N
  <2>1. \A i \in 1 .. Len(events) : i = 1 \/ i = 2
    BY <1>11
  <2> QED
    BY <2>1, <1>9, <1>10, <1>11, TellsOne, EventTyping
<1>13. Publishes(events, N) /\ store' = granted.store
  <2>1. \A p \in N : Named(p) /\ p.version <= result.store.version
    BY <1>4, <1>6, <1>8, <1>9, <1>10
  <2>2. result.snapshot \in N /\ StoreStep(store, result.store)
    BY <1>4, <1>7
  <2> HIDE DEF N
  <2>3. Publishes(events, N) /\ store' = result.store
    BY <2>1, <2>2, <1>1, <1>11, <1>12, ServePublishes
  <2> QED
    BY <2>3, <1>4
<1>14. ASSUME NEW u \in Tasks, Held(store', u)
       PROVE  \/ SameHolder(store, store', u)
                 /\ \A p \in N : p.taskId = u => Right(p, store'.lease[u])
              \/ /\ store.version < store'.version
                 /\ \A p \in N : p.taskId = u /\ p.version >= store'.version => Right(p, store'.lease[u])
                 /\ \E i \in 1 .. Len(events) : IsNews(events[i], u, store'.version)
  <2>1. CASE u # t
    <3>1. SameHolder(store, granted.store, u)
      BY <2>1, <1>3, <1>6, SameTwice
    <3> QED
      BY <2>1, <3>1, <1>9, <1>10, <1>13
  <2>2. CASE u = t
    <3>1. ~(second.version >= granted.store.version) /\ store.version < granted.store.version
      BY <1>6, <1>8, <1>10
    <3>2. first.version >= granted.store.version
      BY <1>8, <1>9
    <3>3. IsNews(events[1], u, granted.store.version) /\ 1 \in 1 .. Len(events)
      BY <2>2, <3>2, <1>9, <1>11, TellsOne
    <3> QED
      BY <2>2, <3>1, <3>3, <1>9, <1>13, <1>14
  <2> QED
    BY <2>1, <2>2
<1> HIDE DEF N
<1> QED
  BY <1>12, <1>13, <1>14, PublishKeeps

\* A sweep tells of the leases it deletes.
LEMMA PruneKeeps ==
    ASSUME LInv, IInv', NEW order \in KeyOrders, PruneExpiredTaskCommandLeases(order)
    PROVE  LInv'
<1> DEFINE X == ExpiredTasks(store)
           next == DeleteAll(store, X)
           N == Prune(store, order).snapshots
           make(walk) == [i \in DOMAIN walk |-> ControllerEvent(walk[i])]
<1>1. store \in Store /\ Current(store)
  BY Versions
<1>2. X \in SUBSET Tasks /\ \A t \in X : store.lease[t] # None
  BY <1>1, PruneStep
<1>3. /\ StoreStep(store, next) /\ Cardinality(X) \in Nat
      /\ next.version = store.version + Cardinality(X)
      /\ \A t \in Tasks : next.lease[t] = IF t \in X THEN None ELSE store.lease[t]
  BY <1>1, <1>2, DeleteAllStep
<1>4. \A u \in Tasks : SameHolder(store, next, u)
  BY <1>1, DeleteAllSame
<1>5. store' = next
  BY DEF PruneExpiredTaskCommandLeases, Prune
<1>6. N = {SnapshotAt(next, t, WalkVersion(store, X, order, t)) : t \in X}
  BY DEF Prune, ReleasedSnapshots
<1>7. PICK walk \in [1 .. Cardinality(N) -> N] : Broadcasts(make(walk))
  BY DEF PruneExpiredTaskCommandLeases
<1>8. UNCHANGED <<instance, connected, wire, fetches, client>>
  BY DEF PruneExpiredTaskCommandLeases
<1> HIDE DEF X, next, N
<1>9. next \in Store
  BY <1>3 DEF StoreStep
<1>10. \A p \in N : /\ p.taskId \in X /\ Named(p) /\ p \in ControllerSnapshot
                    /\ p.version <= next.version
  <2> SUFFICES ASSUME NEW t \in X, NEW p, p = SnapshotAt(next, t, WalkVersion(store, X, order, t))
               PROVE  /\ p.taskId \in X /\ Named(p) /\ p \in ControllerSnapshot
                      /\ p.version <= next.version
    BY <1>6
  <2>1. /\ WalkVersion(store, X, order, t) \in Nat
        /\ WalkVersion(store, X, order, t) <= store.version + Cardinality(X)
    BY <1>1, <1>2, WalkVersions
  <2>2. Named(p) /\ p.taskId = t /\ p.version = WalkVersion(store, X, order, t)
    BY <2>1, <1>2, <1>9, SnapshotRight
  <2> QED
    BY <2>1, <2>2, <1>3 DEF Named
<1>11. Cardinality(N) \in Nat
  <2>1. IsFiniteSet(X)
    BY <1>2, LeaseAssumption, FS_Subset
  <2> DEFINE snap == [t \in X |-> SnapshotAt(next, t, WalkVersion(store, X, order, t))]
             Y == {snap[t] : t \in X}
  <2>2. N = Y
    BY <1>6
  <2>3. snap \in Surjection(X, Y)
    BY DEF Surjection
  <2> HIDE DEF snap, Y
  <2>4. IsFiniteSet(Y)
    BY <2>1, <2>3, FS_Surjection
  <2> QED
    BY <2>2, <2>4, FS_CardinalityType
<1> DEFINE events == make(walk)
<1>12. /\ IsSeq(events) /\ Len(events) = Cardinality(N)
       /\ \A i \in 1 .. Len(events) : events[i] = ControllerEvent(walk[i]) /\ walk[i] \in N
  <2>1. events \in [1 .. Cardinality(N) -> {ControllerEvent(p) : p \in N}]
    BY <1>7
  <2>2. \A i \in 1 .. Cardinality(N) : events[i] = ControllerEvent(walk[i]) /\ walk[i] \in N
    BY <1>7
  <2> HIDE DEF events
  <2> QED
    BY <2>1, <2>2, <1>11, Tabled
<1>13. Broadcasts(events)
  BY <1>7
<1> HIDE DEF events, make
<1>14. \A i \in 1 .. Len(events) : events[i] \in Event /\ \A p : Tells(events[i], p) => p \in N
  BY <1>10, <1>12, TellsOne, EventTyping
<1>15. Publishes(events, N)
  BY <1>3, <1>5, <1>8, <1>10, <1>12, <1>13, <1>14 DEF Publishes
<1>16. ASSUME NEW u \in Tasks, Held(store', u)
       PROVE  SameHolder(store, store', u) /\ \A p \in N : p.taskId = u => Right(p, store'.lease[u])
  <2>1. u \notin X
    BY <1>3, <1>5, <1>16 DEF Held
  <2> QED
    BY <2>1, <1>4, <1>5, <1>10
<1> QED
  BY <1>14, <1>15, <1>16, PublishKeeps

\* Any other event tells nothing of leases.
LEMMA OtherKeeps ==
    ASSUME LInv, IInv', BroadcastOther
    PROVE  LInv'
<1> DEFINE events == <<Lifecycle>>
<1>1. /\ Broadcasts(events) /\ store' = store
      /\ UNCHANGED <<instance, connected, wire, fetches, client>>
  BY DEF BroadcastOther
<1>2. IsSeq(events) /\ Len(events) = 1 /\ events[1] = Lifecycle
  BY FewEvents
<1> HIDE DEF events
<1>3. \A i \in 1 .. Len(events) : events[i] \in Event /\ \A p : ~Tells(events[i], p)
  <2>1. \A i \in 1 .. Len(events) : events[i] = Lifecycle
    BY <1>2
  <2> QED
    BY <2>1, EventTyping, TellsOne
<1>4. StoreStep(store, store')
  BY <1>1, Versions, StutterStep
<1>5. Publishes(events, {})
  BY <1>1, <1>2, <1>3, <1>4 DEF Publishes
<1>6. \A u \in Tasks : Held(store', u) => SameHolder(store, store', u)
  BY <1>1 DEF SameHolder
<1> QED
  BY <1>3, <1>5, <1>6, PublishKeeps

-----------------------------------------------------------------------------
(* The server's other steps. *)

\* The list of the controllers tells the truth, as of the version it has.
LEMMA ControllersRight ==
    ASSUME NEW s \in Store, NEW order \in KeyOrders, Current(s)
    PROVE  LET list == Controllers(s, order)
               l == [version |-> list.version, snapshots |-> list.snapshots]
           IN  /\ StoreStep(s, list.store) /\ WellListed(l) /\ l.version = list.store.version
               /\ \A u \in Tasks : Held(list.store, u) =>
                     /\ SameHolder(s, list.store, u) /\ Listed(l, u)
                     /\ \A p \in l.snapshots :
                           p.taskId = u => s.version <= p.version /\ Right(p, list.store.lease[u])
<1> DEFINE X == ExpiredTasks(s)
           next == DeleteAll(s, X)
           V(t) == WalkVersion(s, X, order, t)
           l == [version |-> Controllers(s, order).version,
                 snapshots |-> Controllers(s, order).snapshots]
<1>1. X \in SUBSET Tasks /\ \A t \in X : s.lease[t] # None
  BY PruneStep
<1>2. /\ StoreStep(s, next) /\ Cardinality(X) \in Nat
      /\ next.version = s.version + Cardinality(X)
      /\ \A t \in Tasks : next.lease[t] = IF t \in X THEN None ELSE s.lease[t]
  BY <1>1, DeleteAllStep
<1>3. \A u \in Tasks : SameHolder(s, next, u)
  BY DeleteAllSame
<1>4. /\ Controllers(s, order).store = next /\ Controllers(s, order).version = next.version
      /\ Controllers(s, order).snapshots = {SnapshotAt(s, t, V(t)) : t \in {u \in Tasks : Held(s, u)}}
  BY DEF Controllers
<1>5. l.version = next.version /\ l.snapshots = {SnapshotAt(s, t, V(t)) : t \in {u \in Tasks : Held(s, u)}}
  BY <1>4
<1>6. \A t \in Tasks : V(t) \in Nat /\ s.version <= V(t) /\ V(t) <= next.version
  BY <1>1, <1>2, WalkVersions
<1>7. l \in [version : {next.version}, snapshots : {l.snapshots}]
  BY <1>4
<1> HIDE DEF X, next, V, l
<1>8. ASSUME NEW p \in l.snapshots
      PROVE  /\ Named(p) /\ p \in ControllerSnapshot /\ s.version <= p.version
             /\ p.version <= next.version
             /\ Held(s, p.taskId) /\ Right(p, s.lease[p.taskId])
  <2>1. PICK t \in Tasks : Held(s, t) /\ p = SnapshotAt(s, t, V(t))
    BY <1>5
  <2>2. Named(p) /\ p.taskId = t /\ p.version = V(t) /\ Right(p, s.lease[t])
    BY <2>1, <1>6, SnapshotRight
  <2> QED
    BY <2>1, <2>2, <1>6 DEF Named
<1>9. WellListed(l)
  <2>1. next.version \in Nat
    BY <1>2 DEF StoreStep, Store
  <2>2. l \in List
    BY <2>1, <1>7, <1>8 DEF List
  <2> QED
    BY <2>2, <1>5, <1>8 DEF WellListed
<1>10. ASSUME NEW u \in Tasks, Held(next, u)
       PROVE  /\ Listed(l, u)
              /\ \A p \in l.snapshots :
                    p.taskId = u => s.version <= p.version /\ Right(p, next.lease[u])
  <2>1. Held(s, u) /\ next.lease[u] = s.lease[u]
    BY <1>2, <1>3, <1>10 DEF SameHolder, Held
  <2>2. SnapshotAt(s, u, V(u)) \in l.snapshots /\ SnapshotAt(s, u, V(u)).taskId = u
    BY <2>1, <1>5, <1>6, SnapshotRight
  <2> QED
    BY <2>1, <2>2, <1>8 DEF Listed
<1> QED
  BY <1>2, <1>3, <1>4, <1>5, <1>9, <1>10 DEF l

\* A step of the server that the renderer does not see.
LEMMA SilentKeeps ==
    ASSUME LInv, IInv', NEW M, StoreStep(store, store'),
           UNCHANGED <<seq, ring, instance, connected, queued, wire, view, seen, top, lastSeq,
                       fresh, known, history>>,
           NetworkTyped', RestoreTyped', ~connected => restore' \in {Cold, Idle},
           \A l : Outstanding(l)' => Outstanding(l) \/ l \in M,
           \A l \in M : WellListed(l) /\ l.version = store'.version,
           \A u \in Tasks : Held(store', u) =>
              /\ SameHolder(store, store', u)
              /\ \A l \in M :
                    /\ Listed(l, u)
                    /\ \A p \in l.snapshots :
                          p.taskId = u => store.version <= p.version /\ Right(p, store'.lease[u])
    PROVE  LInv'
<1>1. /\ view' = view /\ seen' = seen /\ top' = top /\ foreign' = foreign /\ owed' = owed
      /\ anchored' = anchored /\ seq' = seq /\ ring' = ring /\ instance' = instance
      /\ connected' = connected /\ queued' = queued /\ wire' = wire /\ lastSeq' = lastSeq
      /\ fresh' = fresh /\ known' = known
  BY DEF history
<1>2. Frames' = Frames
  BY <1>1 DEF Frames
<1>3. RingKeeps
  <2>1. seq \in Nat /\ seq <= seq' /\ seq' \in Nat
    BY <1>1 DEF LInv, IInv
  <2>2. \A e \in Range(ring) : Remembers(ring', e)
    BY <1>1 DEF Remembers
  <2>3. ring # <<>> => ring' # <<>> /\ ring[1].seq <= ring'[1].seq
    <3> SUFFICES ASSUME ring # <<>> PROVE ring[1].seq <= ring[1].seq
      BY <1>1
    <3>1. IsSeq(ring) /\ InOrder(ring, seq)
      BY DEF LInv, IInv
    <3>2. 1 \in 1 .. Len(ring)
      BY <3>1, EmptySeq DEF IsSeq
    <3>3. ring[1].seq \in 1 .. seq
      BY <3>1, <3>2 DEF InOrder
    <3> QED
      BY <3>3
  <2> QED
    BY <2>1, <2>2, <2>3 DEF RingKeeps
<1>4. \A p : Circulates(p)' => Circulates(p)
  BY <1>1, <1>2 DEF Circulates, Carries, Tells
<1>5. store'.version \in Nat
  BY DEF StoreStep, Store
<1>6. \A l \in M : WellListed(l) /\ l.version <= store'.version
  BY <1>5
<1>7. Serves({}, M)
  BY <1>1, <1>2, <1>3, <1>4, <1>6 DEF Serves
<1>8. Truthful' /\ Tracked' /\ store' \in Store /\ Current(store')
  BY <1>7, ServesTruth
<1>9. \A t \in Tasks : Held(store', t) => Kept({}, M, t)
  BY DEF Kept, SameHolder
<1>10. Promised'
  BY <1>7, <1>9, ServesPromise
<1>11. Greeted' /\ Heard'
  <2>1. Greeted /\ Heard
    BY DEF LInv
  <2>2. Greeted'
    BY <2>1, <1>1 DEF Greeted, Handshake, Carries, Tells
  <2>3. Heard'
    BY <2>1, <1>1, <1>2 DEF Heard, Counted
  <2> QED
    BY <2>2, <2>3
<1>12. Typed'
  <2>1. Typed /\ ServerTyped /\ ShownTyped /\ CountTyped
    BY TypedParts DEF LInv, Typed
  <2>2. ServerTyped' /\ ShownTyped' /\ CountTyped'
    BY <2>1, <1>1, <1>8 DEF ServerTyped, ShownTyped, CountTyped
  <2>3. TypeOK'
    BY <2>2, TypedPartsNext
  <2> QED
    BY <2>1, <2>3, <1>1, <1>8 DEF Typed, Cold, Idle
<1> QED
  BY <1>8, <1>10, <1>11, <1>12 DEF LInv

\* Those that touch the table alone.
LEMMA TableKeeps ==
    ASSUME LInv, IInv', (\E t \in Tasks : ReadTaskCommandLease(t)) \/ Tick
    PROVE  LInv'
<1>1. store \in Store /\ Current(store)
  BY Versions
<1>2. UNCHANGED <<seq, ring, instance, network, client>>
  BY DEF ReadTaskCommandLease, Tick
<1>3. StoreStep(store, store') /\ \A u \in Tasks : SameHolder(store, store', u)
  <2>1. ASSUME NEW t \in Tasks, ReadTaskCommandLease(t)
        PROVE  StoreStep(store, store') /\ \A u \in Tasks : SameHolder(store, store', u)
    BY <2>1, <1>1, ActiveStep, ActiveSame DEF ReadTaskCommandLease
  <2>2. ASSUME Tick
        PROVE  StoreStep(store, store') /\ \A u \in Tasks : SameHolder(store, store', u)
    BY <2>2, <1>1, ElapseStep, ElapseSame DEF Tick
  <2> QED
    BY <2>1, <2>2
<1>4. /\ UNCHANGED <<seq, ring, instance, connected, queued, wire, view, seen, top, lastSeq,
                     fresh, known, history>>
      /\ fetches' = fetches /\ restore' = restore /\ touched' = touched /\ required' = required
  BY <1>2 DEF network, client, projection
<1>5. NetworkTyped' /\ RestoreTyped'
  <2>1. TypeOK /\ NetworkTyped
    BY TypedParts DEF LInv, Typed
  <2> QED
    BY <2>1, <1>2, <1>4, ClientTyped DEF NetworkTyped
<1>6. \A l : Outstanding(l)' => Outstanding(l)
  BY <1>4 DEF Outstanding
<1>7. ~connected => restore' \in {Cold, Idle}
  BY <1>4 DEF LInv, Typed
<1> DEFINE M == {}
<1>8. \A l \in M : FALSE
  OBVIOUS
<1> HIDE DEF M
<1> QED
  BY <1>3, <1>4, <1>5, <1>6, <1>7, <1>8, SilentKeeps

\* Those that answer with a list over HTTP.
LEMMA ListingKeeps ==
    ASSUME LInv, IInv', NEW order \in KeyOrders,
           GetTaskCommandControllers(order) \/ AnswerSnapshot(order)
    PROVE  LInv'
<1> DEFINE list == Controllers(store, order)
           l == [version |-> list.version, snapshots |-> list.snapshots]
           M == {l}
<1>1. store \in Store /\ Current(store)
  BY Versions
<1>2. /\ StoreStep(store, list.store) /\ WellListed(l) /\ l.version = list.store.version
      /\ \A u \in Tasks : Held(list.store, u) =>
            /\ SameHolder(store, list.store, u) /\ Listed(l, u)
            /\ \A p \in l.snapshots :
                  p.taskId = u => store.version <= p.version /\ Right(p, list.store.lease[u])
  BY <1>1, ControllersRight
<1>3. store' = list.store
  BY DEF GetTaskCommandControllers, AnswerSnapshot
<1>4. /\ UNCHANGED <<seq, ring, instance, connected, queued, wire, view, seen, top, lastSeq,
                     fresh, known, history, required, touched>>
      /\ \/ /\ fetches' = fetches \cup {[instance |-> instance, list |-> l]}
            /\ restore' = restore
         \/ fetches' = fetches /\ restore.step = "snapshot" /\ restore' = [step |-> "list", list |-> l]
  BY DEF GetTaskCommandControllers, AnswerSnapshot, client, network, projection
<1>5. l \in List
  BY <1>2 DEF WellListed
<1> HIDE DEF list, l
<1>6. /\ NetworkTyped /\ RestoreTyped /\ (~connected => restore \in {Cold, Idle})
  BY TypedParts DEF LInv, Typed
<1>7. touched' = touched /\ required' = required
  BY <1>4
<1>8. NetworkTyped'
  <2>1. [instance |-> instance, list |-> l] \in Fetch
    BY <1>5, TypedParts DEF LInv, Typed, ServerTyped, Fetch
  <2> QED
    BY <2>1, <1>4, <1>6 DEF NetworkTyped
<1>9. RestoreTyped'
  <2>1. CASE restore' = restore
    BY <2>1, <1>6, <1>7 DEF RestoreTyped, Restoring
  <2>2. CASE restore.step = "snapshot" /\ restore' = [step |-> "list", list |-> l]
    <3>1. restore' \in [step : {"list"}, list : List] /\ restore'.step = "list"
      BY <2>2, <1>5
    <3>2. required
      BY <2>2, <1>6 DEF RestoreTyped
    <3> QED
      BY <3>1, <3>2, <1>6, <1>7 DEF RestoreTyped, Restoring
  <2> QED
    BY <2>1, <2>2, <1>4
<1>10. ~connected => restore' \in {Cold, Idle}
  BY <1>4, <1>6 DEF Cold, Idle
<1>11. \A m : Outstanding(m)' => Outstanding(m) \/ m \in M
  BY <1>4 DEF Outstanding
<1>12. /\ \A m \in M : WellListed(m) /\ m.version = store'.version
       /\ \A u \in Tasks : Held(store', u) =>
              /\ SameHolder(store, store', u)
              /\ \A m \in M :
                    /\ Listed(m, u)
                    /\ \A p \in m.snapshots :
                          p.taskId = u => store.version <= p.version /\ Right(p, store'.lease[u])
  BY <1>2, <1>3
<1> HIDE DEF M
<1> QED
  BY <1>2, <1>3, <1>4, <1>8, <1>9, <1>10, <1>11, <1>12, SilentKeeps

\* Those of the restore, but for the list it ends with, and a list that is lost.
LEMMA RestoringKeeps ==
    ASSUME LInv, IInv',
           AnswerStatus \/ CheckStatus \/ RestoreFails \/ (\E fetch \in fetches : LoseList(fetch))
    PROVE  LInv'
<1>1. store \in Store /\ Current(store) /\ store.version \in Nat
  BY Versions
<1>2. /\ UNCHANGED <<seq, ring, instance, connected, queued, wire, view, seen, top, lastSeq,
                     fresh, known, history>>
      /\ store' = store
  BY DEF AnswerStatus, CheckStatus, RestoreFails, LoseList, server, network, projection, client
<1>3. StoreStep(store, store')
  BY <1>1, <1>2, StutterStep
<1>4. TypeOK /\ NetworkTyped /\ RestoreTyped /\ (~connected => restore \in {Cold, Idle})
  BY TypedParts DEF LInv, Typed
<1>5. \/ fetches' \subseteq fetches /\ restore' = restore /\ touched' = touched /\ required' = required
      \/ /\ fetches' = fetches /\ Restoring(restore)
         /\ \/ restore' = [step |-> "version", version |-> store.version]
            \/ restore' = [step |-> "snapshot"] /\ required'
            \/ restore' = Idle
         /\ touched' = (touched /\ Restoring(restore'))
         /\ required' \in BOOLEAN
  <2>1. CASE AnswerStatus
    <3>1. Restoring(restore')
      BY <2>1 DEF AnswerStatus, Restoring
    <3> QED
      BY <2>1, <3>1, <1>4 DEF AnswerStatus, Restoring, network, projection, RestoreTyped
  <2>2. CASE CheckStatus
    <3>1. [step |-> "snapshot"] # Idle
      BY DEF Idle
    <3> QED
      BY <2>2, <3>1 DEF CheckStatus, Restoring, network
  <2>3. CASE RestoreFails
    BY <2>3 DEF RestoreFails, network
  <2>4. ASSUME NEW fetch \in fetches, LoseList(fetch)
        PROVE  /\ fetches' \subseteq fetches /\ restore' = restore /\ touched' = touched
               /\ required' = required
    BY <2>4 DEF LoseList, client, projection
  <2> QED
    BY <2>1, <2>2, <2>3, <2>4
<1>6. NetworkTyped'
  BY <1>2, <1>4, <1>5 DEF NetworkTyped
<1>7. ~connected => restore' \in {Cold, Idle}
  BY <1>4, <1>5 DEF Restoring, Cold, Idle
<1>8. RestoreTyped'
  <2>1. CASE restore' = restore /\ touched' = touched /\ required' = required
    BY <2>1, <1>4 DEF RestoreTyped, Restoring
  <2>2. CASE /\ Restoring(restore)
             /\ \/ restore' = [step |-> "version", version |-> store.version]
                \/ restore' = [step |-> "snapshot"] /\ required'
                \/ restore' = Idle
             /\ touched' = (touched /\ Restoring(restore'))
             /\ required' \in BOOLEAN
    <3>1. /\ restore' \in {Cold, Idle, Awaiting, [step |-> "status"], [step |-> "snapshot"]}
             \/ restore' \in [step : {"version"}, version : Nat]
          /\ restore'.step \in {"snapshot", "list"} => required'
      BY <2>2, <1>1 DEF Idle
    <3>2. touched' \in BOOLEAN /\ (touched' => Restoring(restore'))
      BY <2>2, <1>4 DEF RestoreTyped
    <3> QED
      BY <2>2, <3>1, <3>2 DEF RestoreTyped, Restoring
  <2> QED
    BY <2>1, <2>2, <1>5
<1>9. \A l : Outstanding(l)' => Outstanding(l)
  <2>1. restore'.step = "list" => restore' = restore
    BY <1>5 DEF Idle
  <2> QED
    BY <2>1, <1>2, <1>5 DEF Outstanding
<1>10. \A u \in Tasks : Held(store', u) => SameHolder(store, store', u)
  BY <1>2 DEF SameHolder
<1> DEFINE M == {}
<1>11. \A l \in M : FALSE
  OBVIOUS
<1> HIDE DEF M
<1> QED
  BY <1>2, <1>3, <1>6, <1>7, <1>8, <1>9, <1>10, <1>11, SilentKeeps

-----------------------------------------------------------------------------
(* The connection. *)

\* A holder that stays, and about whom nothing new is said, stays well told of.
LEMMA ToldStays ==
    ASSUME NEW t, NEW g, Told(store.lease[t], t, g),
           store'.lease[t].clientId = store.lease[t].clientId,
           store'.lease[t].action = store.lease[t].action,
           \A p : Circulates(p)' => Circulates(p),
           \A l : Outstanding(l)' => Outstanding(l) \/ ListRight(l, store.lease[t], t, g),
           known' \in {0, instance'} => Fits(Projection', store.lease[t], t, g)
    PROVE  Told(store.lease[t], t, g)'
<1> DEFINE lease == store'.lease[t]
<1>1. \A p : Right(p, store.lease[t]) <=> Right(p, lease)
  BY DEF Right
<1> HIDE DEF lease
<1>2. \A p : Circulates(p)' /\ p.taskId = t /\ p.version >= g => Right(p, lease)
  BY <1>1 DEF Told
<1>3. \A l : Outstanding(l)' => ListRight(l, lease, t, g)
  BY <1>1 DEF Told, ListRight
<1>4. known' \in {0, instance'} => Fits(Projection', lease, t, g)
  BY <1>1 DEF Fits
<1> QED
  BY <1>2, <1>3, <1>4 DEF Told, Right, ListRight, Listed, Fits, lease

\* A presence event takes nothing of the controllers from the ring.
LEMMA PresenceRing ==
    ASSUME LInv, IInv', seq < MaxSeq, seq' = seq + 1, ring' = AddPresence(ring, seq + 1)
    PROVE  /\ RingKeeps
           /\ seq' \in 0 .. MaxSeq /\ ring' \in Seq(Entry) /\ Len(ring') <= RingSize
           /\ \A e \in Range(ring') : e \in Range(ring) \/ e.event = Presence
<1>1. /\ seq \in Nat /\ IsSeq(ring) /\ InOrder(ring, seq) /\ IsSeq(ring')
      /\ seq \in 0 .. MaxSeq /\ ring \in Seq(Entry) /\ MaxSeq \in Nat
  BY ProjectionAssumption DEF LInv, IInv, Typed, TypeOK
<1> DEFINE e == [seq |-> seq + 1, event |-> Presence]
<1>2. /\ Range(ring') \subseteq Range(ring) \cup {e}
      /\ Len(ring') <= RingSize
      /\ \A x \in Range(ring) : x.event # Presence => Remembers(ring', x)
      /\ ring # <<>> => ring' # <<>> /\ ring[1].seq <= ring'[1].seq
  BY <1>1, PresenceHolds
<1>3. e \in Entry /\ e.event = Presence
  <2>1. seq + 1 \in 1 .. MaxSeq
    BY <1>1
  <2> QED
    BY <2>1, EntryTyping, EventTyping
<1> HIDE DEF e
<1>4. ring' \in Seq(Entry)
  BY <1>1, <1>2, <1>3, SeqHolds
<1>5. \A x \in Range(ring) : x.event.topic = "controller" => Remembers(ring', x)
  BY <1>2, EventTyping
<1>6. RingKeeps
  <2>1. seq \in Nat /\ seq' \in Nat /\ seq <= seq'
    BY <1>1
  <2> QED
    BY <2>1, <1>2, <1>5 DEF RingKeeps
<1>7. seq' \in 0 .. MaxSeq
  BY <1>1
<1> QED
  BY <1>2, <1>3, <1>4, <1>6, <1>7

\* A connection that is lost takes nothing with it that could not be replayed.
LEMMA DisconnectKeeps ==
    ASSUME LInv, IInv', Disconnect
    PROVE  LInv'
<1>1. /\ connected' = FALSE /\ wire' = <<>> /\ queued' = <<>> /\ seq < MaxSeq /\ seq' = seq + 1
      /\ ring' = AddPresence(ring, seq + 1) /\ restore' = Idle /\ touched' = FALSE
      /\ store' = store /\ instance' = instance /\ fetches' = fetches /\ view' = view
      /\ seen' = seen /\ top' = top /\ lastSeq' = lastSeq /\ fresh' = fresh /\ known' = known
      /\ required' = required /\ foreign' = foreign /\ owed' = owed /\ anchored' = anchored
  BY DEF Disconnect, history
<1>2. /\ RingKeeps /\ seq' \in 0 .. MaxSeq /\ ring' \in Seq(Entry) /\ Len(ring') <= RingSize
      /\ \A e \in Range(ring') : e \in Range(ring) \/ e.event = Presence
  BY <1>1, PresenceRing
<1>3. Range(<<>>) = {}
  BY EmptyHolds
<1>4. Frames' = {}
  BY <1>1, <1>3 DEF Frames
<1>5. \A p : Circulates(p)' => Circulates(p)
  <2>1. \A p : Circulates(p)' => \E e \in Range(ring') : Tells(e.event, p)
    BY <1>4 DEF Circulates, Tells
  <2>2. \A p : ~Tells(Presence, p)
    BY EventTyping DEF Tells
  <2>3. \A p : Circulates(p)' => \E e \in Range(ring) : Tells(e.event, p)
    BY <2>1, <2>2, <1>2
  <2> QED
    BY <2>3 DEF Circulates
<1>6. \A l : Outstanding(l)' => Outstanding(l)
  BY <1>1, <1>3 DEF Outstanding, Idle
<1>7. Typed /\ Truthful /\ Tracked /\ Heard /\ Promised /\ IInv
  BY DEF LInv
<1>8. Typed'
  <2>1. /\ ServerTyped /\ NetworkTyped /\ ShownTyped /\ CountTyped /\ RestoreTyped
    BY <1>7, TypedParts DEF Typed
  <2>2. <<>> \in Seq(Frame)
    OBVIOUS
  <2>3. ServerTyped' /\ NetworkTyped' /\ ShownTyped' /\ CountTyped'
    BY <2>1, <2>2, <1>1, <1>2 DEF ServerTyped, NetworkTyped, ShownTyped, CountTyped
  <2>4. RestoreTyped'
    BY <2>1, <1>1 DEF RestoreTyped, Idle
  <2>5. TypeOK'
    BY <2>3, <2>4, TypedPartsNext
  <2> QED
    BY <2>5, <1>1, <1>7 DEF Typed
<1>9. Truthful' /\ Tracked'
  BY <1>1, <1>5, <1>6, <1>7 DEF Truthful, Tracked
<1>10. Greeted' /\ Heard'
  <2>1. Len(<<>>) = 0
    OBVIOUS
  <2>2. Handshake(wire')
    BY <1>1, <2>1 DEF Handshake
  <2>3. Greeted'
    BY <2>2, <1>1, <1>3 DEF Greeted, Handshake, Carries, Tells
  <2>4. lastSeq \in Nat /\ seq \in Nat
    BY <1>7 DEF IInv
  <2>5. Heard'
    BY <2>4, <1>1, <1>7 DEF Heard
  <2> QED
    BY <2>3, <2>5
<1>11. Promised'
  <2> SUFFICES ASSUME anchored', NEW t \in Tasks, Held(store', t)
               PROVE  \E g \in 1 .. store'.version :
                          Told(store.lease[t], t, g)' /\ Informed(t, g)'
    BY DEF Promised, Held
  <2>1. PICK g \in 1 .. store.version : Told(store.lease[t], t, g) /\ Informed(t, g)
    BY <1>1, <1>7 DEF Promised
  <2>2. known' \in {0, instance'} => Fits(Projection', store.lease[t], t, g)
    <3>1. Projection'.seen = Projection.seen /\ Projection'.view = Projection.view
      BY <1>1 DEF Projection
    <3> QED
      BY <2>1, <3>1, <1>1 DEF Told, Fits
  <2>3. Told(store.lease[t], t, g)'
    BY <2>1, <2>2, <1>1, <1>5, <1>6, ToldStays
  <2>4. Informed(t, g)'
    <3>1. IsSeq(ring) /\ InOrder(ring, seq) /\ IsSeq(ring') /\ InOrder(ring', seq')
      BY <1>7 DEF IInv
    <3>2. \A n : Recoverable(n, t, g) => Recoverable(n, t, g)'
      BY <3>1, <1>1, <1>2, RecoverableKeeps
    <3> QED
      BY <2>1, <3>2, <1>1 DEF Informed
  <2> QED
    BY <2>3, <2>4, <1>1
<1> QED
  BY <1>8, <1>9, <1>10, <1>11 DEF LInv

\* A server that starts again holds no lease, and no promise.
LEMMA RestartKeeps ==
    ASSUME LInv, Fetched, IInv', Restart
    PROVE  LInv'
<1>1. /\ connected' = FALSE /\ wire' = <<>> /\ queued' = <<>> /\ seq' = 0 /\ ring' = <<>>
      /\ instance < MaxInstance /\ instance' = instance + 1 /\ store' = EmptyStore
      /\ fetches' = fetches /\ restore' = (IF connected THEN Idle ELSE restore) /\ touched' = FALSE
      /\ foreign' = (lastSeq # 0) /\ owed' = 0 /\ anchored' = (anchored /\ (known = 0 => top = 0))
      /\ view' = view /\ seen' = seen /\ top' = top /\ lastSeq' = lastSeq /\ fresh' = fresh
      /\ known' = known /\ required' = required
  BY DEF Restart
<1>2. Typed /\ Tracked /\ IInv
  BY DEF LInv
<1>3. Range(<<>>) = {} /\ Len(<<>>) = 0
  BY EmptyHolds
<1>4. /\ instance \in Nat /\ known \in Nat /\ known <= instance /\ top \in Nat
      /\ instance + 1 \in 1 .. MaxInstance /\ MaxInstance \in Nat
  BY <1>1, <1>2, ProjectionAssumption DEF Typed, TypeOK
<1>5. restore' \in {Cold, Idle}
  BY <1>1, <1>2 DEF Typed
<1>6. \A p : ~Circulates(p)'
  BY <1>1, <1>3 DEF Circulates, Frames
<1>7. \A l : ~Outstanding(l)'
  <2>1. \A f \in fetches : f.instance \in Nat /\ f.instance <= instance
    BY <1>2, <1>4 DEF Typed, TypeOK, Fetch, Fetched
  <2>2. \A f \in fetches' : f.instance # instance'
    BY <2>1, <1>1, <1>4
  <2> QED
    BY <2>2, <1>1, <1>3, <1>5 DEF Outstanding, Cold, Idle
<1>8. EmptyStore \in Store /\ Current(EmptyStore) /\ EmptyStore.version = 0
      /\ \A t \in Tasks : ~Held(EmptyStore, t)
  <2>1. EmptyStore \in Store
    BY DEF EmptyStore, Store
  <2>2. \A t \in Tasks : EmptyStore.lease[t] = None
    BY DEF EmptyStore
  <2> QED
    BY <2>1, <2>2 DEF Current, Held, EmptyStore
<1>9. Typed'
  <2>1. /\ ServerTyped /\ NetworkTyped /\ ShownTyped /\ CountTyped /\ RestoreTyped
    BY <1>2, TypedParts DEF Typed
  <2>2. <<>> \in Seq(Frame) /\ <<>> \in Seq(Entry) /\ Len(<<>>) <= RingSize
    BY <1>3, ProjectionAssumption
  <2>3. 0 \in 0 .. MaxSeq
    BY ProjectionAssumption
  <2>4. ServerTyped' /\ NetworkTyped' /\ ShownTyped' /\ CountTyped'
    BY <2>1, <2>2, <2>3, <1>1, <1>4, <1>8 DEF ServerTyped, NetworkTyped, ShownTyped, CountTyped
  <2>5. RestoreTyped'
    BY <2>1, <1>1, <1>5 DEF RestoreTyped, Cold, Idle
  <2>6. TypeOK'
    BY <2>4, <2>5, TypedPartsNext
  <2> QED
    BY <2>6, <1>1, <1>4, <1>5, <1>8 DEF Typed
<1>10. Truthful'
  BY <1>6, <1>7 DEF Truthful
<1>11. Tracked'
  <2>1. known' \in {0, instance'} => known = 0
    BY <1>1, <1>4
  <2>2. anchored' => (known = 0 => top = 0)
    BY <1>1, Zenon
  <2>3. anchored' /\ known' \in {0, instance'} => top' <= store'.version
    BY <2>1, <2>2, <1>1, <1>8
  <2>4. \A t \in Tasks : seen'[t] <= top'
    BY <1>1, <1>2 DEF Tracked
  <2> QED
    BY <2>3, <2>4 DEF Tracked
<1>12. Greeted' /\ Heard'
  <2>1. Handshake(wire')
    BY <1>1, <1>3 DEF Handshake
  <2>2. Greeted'
    BY <2>1, <1>1, <1>3 DEF Greeted, Handshake, Carries, Tells
  <2>3. foreign' \/ lastSeq' = 0
    BY <1>1, Zenon
  <2>4. Heard'
    BY <2>3, <1>1 DEF Heard
  <2> QED
    BY <2>2, <2>4
<1>13. Promised'
  BY <1>1, <1>8 DEF Promised, Held
<1> QED
  BY <1>9, <1>10, <1>11, <1>12, <1>13 DEF LInv

\* The micro-batch is events, and goes to the end of the wire.
LEMMA FlushKeeps ==
    ASSUME LInv, IInv', FlushClientBatch
    PROVE  LInv'
<1>1. /\ wire' = wire \o queued /\ queued' = <<>> /\ connected' = connected /\ fetches' = fetches
      /\ seq' = seq /\ ring' = ring /\ store' = store /\ instance' = instance
  BY DEF FlushClientBatch, server
<1>2. /\ view' = view /\ seen' = seen /\ top' = top /\ touched' = touched /\ lastSeq' = lastSeq
      /\ fresh' = fresh /\ known' = known /\ restore' = restore /\ required' = required
      /\ foreign' = foreign /\ owed' = owed /\ anchored' = anchored
  BY DEF FlushClientBatch, client, projection, history
<1>3. IInv /\ Typed /\ Greeted /\ Heard /\ IsSeq(wire) /\ IsSeq(queued)
  BY DEF LInv, IInv
<1>4. Range(wire') = Range(wire) \cup Range(queued) /\ Range(queued') = {} /\ Frames' = Frames
  BY <1>1, <1>3, JoinedHold, EmptyHolds DEF Frames
<1>5. \A f \in Range(queued) : f.kind = "event"
  BY <1>3 DEF Greeted
<1>6. \A p : Circulates(p)' => Circulates(p)
  BY <1>1, <1>4 DEF Circulates, Carries, Tells
<1>7. \A l : Outstanding(l)' => Outstanding(l)
  <2>1. \A f \in Range(wire') : f.kind = "state-bootstrap" => f \in Range(wire)
    BY <1>4, <1>5
  <2> QED
    BY <2>1, <1>1, <1>2 DEF Outstanding
<1>8. RingKeeps
  <2>1. seq \in Nat /\ seq <= seq /\ IsSeq(ring) /\ InOrder(ring, seq)
    BY <1>3 DEF IInv
  <2>2. ring # <<>> => ring[1].seq <= ring[1].seq
    <3> SUFFICES ASSUME ring # <<>> PROVE ring[1].seq <= ring[1].seq
      OBVIOUS
    <3>1. 1 \in 1 .. Len(ring)
      BY <2>1, EmptySeq DEF IsSeq
    <3>2. ring[1].seq \in 1 .. seq
      BY <2>1, <3>1 DEF InOrder
    <3> QED
      BY <3>2
  <2> QED
    BY <2>1, <2>2, <1>1 DEF RingKeeps, Remembers
<1>9. StoreStep(store, store')
  BY <1>1, Versions, StutterStep
<1>10. Serves({}, {})
  BY <1>1, <1>2, <1>4, <1>5, <1>6, <1>7, <1>8, <1>9 DEF Serves
<1>11. Truthful' /\ Tracked'
  BY <1>10, ServesTruth
<1>12. Promised'
  <2>1. \A t \in Tasks : Held(store', t) => Kept({}, {}, t)
    BY <1>1 DEF Kept
  <2> QED
    BY <2>1, <1>10, ServesPromise
<1>13. Heard'
  BY <1>1, <1>2, <1>3, <1>4 DEF Heard, Counted
<1>14. Greeted'
  <2>1. /\ IsSeq(wire') /\ Len(wire) \in Nat /\ Len(queued) \in Nat
        /\ Len(wire') = Len(wire) + Len(queued)
        /\ \A i \in 1 .. Len(wire) : wire'[i] = wire[i]
        /\ \A i \in 1 .. Len(queued) : wire'[Len(wire) + i] = queued[i]
    BY <1>1, <1>3, Joined
  <2>2. \A j \in 1 .. Len(wire') : j \in 1 .. Len(wire) \/ wire'[j].kind = "event"
    <3> SUFFICES ASSUME NEW j \in 1 .. Len(wire'), j \notin 1 .. Len(wire)
                 PROVE  wire'[j].kind = "event"
      OBVIOUS
    <3>1. j - Len(wire) \in 1 .. Len(queued) /\ Len(wire) + (j - Len(wire)) = j
      BY <2>1
    <3>2. wire'[j] = queued[j - Len(wire)]
      BY <3>1, <2>1
    <3> QED
      BY <3>1, <3>2, <1>3, <1>5, HeldAt
  <2>3. Handshake(wire')
    <3> SUFFICES ASSUME NEW i \in 1 .. Len(wire'), NEW j \in 1 .. Len(wire'), i < j
                 PROVE  /\ wire'[j].kind = "state-bootstrap" =>
                              /\ wire'[i].kind \notin {"reply", "state-bootstrap"}
                              /\ \A l \in wire'[j].lists : \A p : Carries(wire'[i], p) => p.version <= l.version
                        /\ wire'[j].kind = "control-replay-batch" => wire'[i].kind = "replay-truncated"
      BY DEF Handshake
    <3>1. CASE j \in 1 .. Len(wire)
      <4>1. i \in 1 .. Len(wire)
        BY <3>1, <2>1
      <4>2. wire'[i] = wire[i] /\ wire'[j] = wire[j]
        BY <4>1, <3>1, <2>1
      <4> QED
        BY <4>1, <4>2, <3>1, <1>3 DEF Greeted, Handshake
    <3>2. CASE wire'[j].kind = "event"
      BY <3>2
    <3> QED
      BY <3>1, <3>2, <2>2
  <2>4. \A f \in Range(wire') : f.kind = "state-bootstrap" => f \in Range(wire)
    BY <1>4, <1>5
  <2> QED
    BY <2>3, <2>4, <1>1, <1>2, <1>3, <1>4 DEF Greeted, Handshake, Carries, Tells
<1>15. Typed'
  <2>1. ServerTyped /\ NetworkTyped
    BY <1>3, TypedParts DEF Typed
  <2>2. wire' \in Seq(Frame) /\ queued' \in Seq(Frame)
    BY <2>1, <1>1 DEF NetworkTyped
  <2>3. ServerTyped' /\ NetworkTyped'
    BY <2>1, <2>2, <1>1 DEF ServerTyped, NetworkTyped
  <2>4. UNCHANGED client
    BY DEF FlushClientBatch
  <2>5. TypeOK'
    BY <2>3, <2>4, <1>3, ClientTyped, TypedPartsNext DEF Typed
  <2> QED
    BY <2>5, <1>1, <1>2, <1>3 DEF Typed, Cold, Idle
<1> QED
  BY <1>11, <1>12, <1>13, <1>14, <1>15 DEF LInv

\* What a replay consists of.
LEMMA ReplayHolds ==
    ASSUME IInv
    PROVE  /\ \A e \in Range(ring) : e.seq > lastSeq <=> e \in Range(Window)
           /\ IsSeq(Window) /\ Range(Window) \subseteq Range(ring)
           /\ IsSeq(ReplayFrames)
           /\ \A x \in Range(ReplayFrames) :
                 \/ x = TruncatedFrame /\ seq > lastSeq /\ (Resync => ReplayTruncated)
                 \/ Resync /\ x = BatchFrame
                 \/ ~Resync /\ \E e \in Range(Window) : x = EventFrame(e.seq, e.event)
           /\ Resync => BatchFrame \in Range(ReplayFrames)
           /\ \A i, j \in 1 .. Len(ReplayFrames) : i < j /\ ReplayFrames[j] = BatchFrame =>
                 ReplayFrames[i] = TruncatedFrame
           /\ ~Resync /\ seq <= lastSeq => Range(ReplayFrames) = {}
<1>1. seq \in Nat /\ lastSeq \in Nat /\ IsSeq(ring) /\ InOrder(ring, seq)
  BY DEF IInv
<1>2. /\ IsSeq(Window) /\ InOrder(Window, seq)
      /\ \A i \in 1 .. Len(Window) : Window[i].seq > lastSeq
  BY <1>1, WindowIs
<1>3. Len(Window) \in Nat /\ DOMAIN Window = 1 .. Len(Window) /\ Len(ring) \in Nat
      /\ DOMAIN ring = 1 .. Len(ring)
  BY <1>1, <1>2 DEF IsSeq
<1>4. /\ Range(Window) \subseteq Range(ring)
      /\ \A e \in Range(ring) : e.seq > lastSeq <=> e \in Range(Window)
  <2> DEFINE Splits(k) == \A i \in DOMAIN ring : i <= k <=> ring[i].seq <= lastSeq
             old == CHOOSE k \in 0 .. Len(ring) : Splits(k)
  <2>1. \E k \in 0 .. Len(ring) : Splits(k)
    BY <1>1, RingSplits
  <2>2. old \in 0 .. Len(ring) /\ Splits(old)
    <3> HIDE DEF Splits
    <3> QED
      BY <2>1
  <2>3. Window = SubSeq(ring, old + 1, Len(ring))
    BY DEF Window
  <2> HIDE DEF old
  <2>4. Range(Window) = {ring[i] : i \in old + 1 .. Len(ring)}
    BY <2>2, <2>3, <1>1, RestHolds
  <2>5. \A i \in 1 .. Len(ring) : i \in old + 1 .. Len(ring) <=> ~(i <= old)
    BY <2>2, <1>3
  <2>6. \A i \in old + 1 .. Len(ring) : i \in 1 .. Len(ring)
    BY <2>2, <1>3
  <2>7. \A i \in 1 .. Len(ring) : ring[i].seq \in Nat
    BY <1>1 DEF InOrder
  <2>8. Range(Window) \subseteq Range(ring)
    BY <2>4, <2>6, <1>3 DEF Range
  <2>9. ASSUME NEW e \in Range(ring), e.seq > lastSeq PROVE e \in Range(Window)
    <3>1. PICK i \in 1 .. Len(ring) : e = ring[i]
      BY <1>1, HeldAt
    <3>2. ~(ring[i].seq <= lastSeq)
      BY <2>7, <2>9, <3>1, <1>1
    <3>3. ~(i <= old)
      BY <2>2, <3>2, <1>3
    <3> QED
      BY <2>4, <2>5, <3>1, <3>3
  <2>10. \A e \in Range(Window) : e.seq > lastSeq
    BY <1>2, <1>3 DEF Range
  <2> QED
    BY <2>8, <2>9, <2>10
<1> DEFINE truncation == IF ReplayTruncated THEN <<TruncatedFrame>> ELSE <<>>
           frames == [i \in 1 .. Len(Window) |-> EventFrame(Window[i].seq, Window[i].event)]
<1>5. IsSeq(<<TruncatedFrame>>) /\ Len(<<TruncatedFrame>>) = 1 /\ <<TruncatedFrame>>[1] = TruncatedFrame
      /\ Range(<<TruncatedFrame>>) = {TruncatedFrame}
  <2>1. IsSeq(<<TruncatedFrame>>) /\ Len(<<TruncatedFrame>>) = 1 /\ <<TruncatedFrame>>[1] = TruncatedFrame
    BY FewEvents
  <2>2. DOMAIN <<TruncatedFrame>> = 1 .. 1
    BY <2>1 DEF IsSeq
  <2> QED
    BY <2>1, <2>2 DEF Range
<1>6. IsSeq(truncation) /\ Range(truncation) = (IF ReplayTruncated THEN {TruncatedFrame} ELSE {})
      /\ Len(truncation) \in {0, 1} /\ (Len(truncation) = 1 => truncation[1] = TruncatedFrame)
  BY <1>5, EmptyHolds
<1>7. IsSeq(frames) /\ Len(frames) = Len(Window)
      /\ \A x \in Range(frames) : \E e \in Range(Window) : x = EventFrame(e.seq, e.event)
  <2>1. frames \in [1 .. Len(Window) -> {frames[i] : i \in 1 .. Len(Window)}]
    OBVIOUS
  <2>2. \A i \in 1 .. Len(Window) : frames[i] = EventFrame(Window[i].seq, Window[i].event)
    OBVIOUS
  <2> HIDE DEF frames
  <2>3. IsSeq(frames) /\ Len(frames) = Len(Window)
    BY <2>1, <1>3, Tabled
  <2>4. \A i \in 1 .. Len(Window) : Window[i] \in Range(Window)
    BY <1>3 DEF Range
  <2> QED
    BY <2>2, <2>3, <2>4, HeldAt
<1>8. ReplayTruncated => seq > lastSeq
  BY DEF ReplayTruncated
<1>9. CASE Resync
  <2> DEFINE s == Append(truncation, BatchFrame)
  <2>1. ReplayFrames = truncation \o <<BatchFrame>>
    BY <1>9 DEF ReplayFrames
  <2>2. /\ s = truncation \o <<BatchFrame>> /\ IsSeq(<<BatchFrame>>) /\ Len(<<BatchFrame>>) = 1
        /\ <<BatchFrame>>[1] = BatchFrame
    BY <1>6, Appended
  <2> HIDE DEF truncation
  <2>3. Range(s) = Range(truncation) \cup {BatchFrame} /\ IsSeq(s)
    BY <1>6, AppendedHold
  <2>4. /\ Len(s) = Len(truncation) + 1
        /\ \A i \in 1 .. Len(truncation) : s[i] = truncation[i]
    BY <1>6, <2>2, Joined
  <2> HIDE DEF s
  <2>5. ReplayFrames = s
    BY <2>1, <2>2
  <2>6. ASSUME NEW i \in 1 .. Len(s), NEW j \in 1 .. Len(s), i < j PROVE s[i] = TruncatedFrame
    <3>1. i = 1 /\ Len(truncation) = 1
      BY <2>4, <2>6, <1>6
    <3> QED
      BY <3>1, <2>4, <1>6
  <2> QED
    BY <2>3, <2>5, <2>6, <1>2, <1>4, <1>6, <1>8, <1>9
<1>10. CASE ~Resync /\ ~WindowPerEventReplayable
  <2>1. ReplayFrames = <<TruncatedFrame>>
    BY <1>10 DEF ReplayFrames
  <2>2. seq > lastSeq
    BY <1>1, <1>10 DEF WindowPerEventReplayable
  <2>3. \A i, j \in 1 .. 1 : ~(i < j)
    OBVIOUS
  <2> QED
    BY <2>1, <2>2, <2>3, <1>1, <1>2, <1>4, <1>5, <1>10
<1>11. CASE ~Resync /\ WindowPerEventReplayable
  <2> DEFINE s == truncation \o frames
  <2>1. ReplayFrames = s
    BY <1>3, <1>11 DEF ReplayFrames
  <2> HIDE DEF truncation, frames
  <2>2. IsSeq(s) /\ Range(s) = Range(truncation) \cup Range(frames)
    BY <1>6, <1>7, JoinedHold, Joined
  <2> HIDE DEF s
  <2>3. \A x \in Range(s) : x.kind # "control-replay-batch"
    BY <2>2, <1>6, <1>7 DEF TruncatedFrame, EventFrame
  <2>4. \A j \in 1 .. Len(s) : s[j] # BatchFrame
    BY <2>2, <2>3, HeldAt DEF BatchFrame
  <2>5. seq <= lastSeq => Range(s) = {}
    <3> SUFFICES ASSUME seq <= lastSeq PROVE Range(s) = {}
      OBVIOUS
    <3>1. Len(Window) = 0
      <4> SUFFICES ASSUME Len(Window) # 0 PROVE FALSE
        OBVIOUS
      <4>1. 1 \in 1 .. Len(Window)
        BY <1>3
      <4>2. Window[1].seq \in 1 .. seq /\ Window[1].seq > lastSeq
        BY <4>1, <1>2 DEF InOrder
      <4> QED
        BY <4>2, <1>1
    <3>2. Range(frames) = {}
      <4>1. DOMAIN frames = 1 .. 0
        BY <3>1, <1>7 DEF IsSeq
      <4> QED
        BY <4>1 DEF Range
    <3>3. ~ReplayTruncated
      BY <1>1, <1>8
    <3> QED
      BY <2>2, <3>2, <3>3, <1>6
  <2> QED
    BY <2>1, <2>2, <2>4, <2>5, <1>2, <1>4, <1>6, <1>7, <1>8, <1>11
<1> QED
  BY <1>9, <1>10, <1>11

\* What is on a new connection.
LEMMA ConnectHolds ==
    ASSUME LInv, NEW order \in KeyOrders, Connect(order)
    PROVE  \E lists :
           /\ wire' = Append(ReplayFrames, BootstrapFrame(lists))
           /\ Range(wire') = Range(ReplayFrames) \cup {BootstrapFrame(lists)}
           /\ Range(queued') = {EventFrame(seq + 1, Presence)} /\ IsSeq(queued')
           /\ StoreStep(store, store')
           /\ known # instance => lists # {}
           /\ \A l \in lists : WellListed(l) /\ l.version = store'.version
           /\ \A u \in Tasks : Held(store', u) =>
                 /\ SameHolder(store, store', u)
                 /\ \A l \in lists :
                       /\ Listed(l, u)
                       /\ \A p \in l.snapshots :
                             p.taskId = u => store.version <= p.version /\ Right(p, store'.lease[u])
<1> DEFINE list == Controllers(store, order)
           l == [version |-> list.version, snapshots |-> list.snapshots]
           lists == IF CategoryStale THEN {l} ELSE {}
           f == EventFrame(seq + 1, Presence)
<1>1. store \in Store /\ Current(store) /\ IInv
  BY Versions DEF LInv
<1>2. /\ StoreStep(store, list.store) /\ WellListed(l) /\ l.version = list.store.version
      /\ \A u \in Tasks : Held(list.store, u) =>
            /\ SameHolder(store, list.store, u) /\ Listed(l, u)
            /\ \A p \in l.snapshots :
                  p.taskId = u => store.version <= p.version /\ Right(p, list.store.lease[u])
  BY <1>1, ControllersRight
<1>3. /\ store' = IF CategoryStale THEN list.store ELSE store
      /\ wire' = Append(ReplayFrames, BootstrapFrame(lists))
      /\ queued' = <<f>>
  BY DEF Connect
<1>4. known # instance => CategoryStale
  BY DEF CategoryStale, Resync
<1>5. known # instance => lists # {}
  BY <1>4
<1>6. StoreStep(store, store')
  BY <1>1, <1>2, <1>3, StutterStep
<1>7. \A m \in lists : m = l /\ CategoryStale
  OBVIOUS
<1> HIDE DEF list, l, lists, f
<1>8. \A m \in lists : WellListed(m) /\ m.version = store'.version
  BY <1>2, <1>3, <1>7
<1>9. ASSUME NEW u \in Tasks, Held(store', u)
      PROVE  /\ SameHolder(store, store', u)
             /\ \A m \in lists :
                   /\ Listed(m, u)
                   /\ \A p \in m.snapshots :
                         p.taskId = u => store.version <= p.version /\ Right(p, store'.lease[u])
  <2>1. CASE CategoryStale
    BY <2>1, <1>2, <1>3, <1>7, <1>9
  <2>2. CASE ~CategoryStale
    BY <2>2, <1>3, <1>7, <1>9 DEF SameHolder
  <2> QED
    BY <2>1, <2>2
<1>10. Range(wire') = Range(ReplayFrames) \cup {BootstrapFrame(lists)}
  BY <1>1, <1>3, ReplayHolds, AppendedHold
<1>11. Range(queued') = {f} /\ IsSeq(queued')
  <2>1. IsSeq(<<f>>) /\ Len(<<f>>) = 1 /\ <<f>>[1] = f
    BY FewEvents
  <2>2. DOMAIN <<f>> = 1 .. 1
    BY <2>1 DEF IsSeq
  <2> QED
    BY <2>1, <2>2, <1>3 DEF Range
<1> QED
  BY <1>3, <1>5, <1>6, <1>8, <1>9, <1>10, <1>11 DEF f

\* A new connection keeps the promise: what was missed is replayed, or a list owed, and
\* who does not know the instance gets the list.
LEMMA ConnectKeeps ==
    ASSUME LInv, IInv', NEW order \in KeyOrders, Connect(order)
    PROVE  LInv'
<1>1. PICK lists :
           /\ wire' = Append(ReplayFrames, BootstrapFrame(lists))
           /\ Range(wire') = Range(ReplayFrames) \cup {BootstrapFrame(lists)}
           /\ Range(queued') = {EventFrame(seq + 1, Presence)} /\ IsSeq(queued')
           /\ StoreStep(store, store')
           /\ known # instance => lists # {}
           /\ \A l \in lists : WellListed(l) /\ l.version = store'.version
           /\ \A u \in Tasks : Held(store', u) =>
                 /\ SameHolder(store, store', u)
                 /\ \A l \in lists :
                       /\ Listed(l, u)
                       /\ \A p \in l.snapshots :
                             p.taskId = u => store.version <= p.version /\ Right(p, store'.lease[u])
  BY ConnectHolds
<1> DEFINE boot == BootstrapFrame(lists)
           news == EventFrame(seq + 1, Presence)
<1>2. /\ ~connected /\ connected' = TRUE /\ seq < MaxSeq /\ seq' = seq + 1
      /\ ring' = AddPresence(ring, seq + 1) /\ fresh' = TRUE
      /\ restore' \in {Cold, Awaiting} /\ (restore = Cold => restore' = Cold)
      /\ owed' = (IF ReplayTruncated THEN store.version ELSE owed)
      /\ anchored' = (anchored /\ ~(Resync /\ foreign))
      /\ instance' = instance /\ fetches' = fetches /\ view' = view /\ seen' = seen /\ top' = top
      /\ touched' = touched /\ lastSeq' = lastSeq /\ known' = known /\ required' = required
      /\ foreign' = foreign
  BY DEF Connect, projection
<1>3. IInv /\ Typed /\ Truthful /\ Tracked /\ Greeted /\ Heard /\ Promised
  BY DEF LInv
<1>4. /\ RingKeeps
      /\ seq' \in 0 .. MaxSeq /\ ring' \in Seq(Entry) /\ Len(ring') <= RingSize
      /\ \A e \in Range(ring') : e \in Range(ring) \/ e.event = Presence
  BY <1>2, PresenceRing
<1>5. /\ \A e \in Range(ring) : e.seq > lastSeq <=> e \in Range(Window)
      /\ IsSeq(Window) /\ Range(Window) \subseteq Range(ring)
      /\ IsSeq(ReplayFrames)
      /\ \A x \in Range(ReplayFrames) :
            \/ x = TruncatedFrame /\ seq > lastSeq /\ (Resync => ReplayTruncated)
            \/ Resync /\ x = BatchFrame
            \/ ~Resync /\ \E e \in Range(Window) : x = EventFrame(e.seq, e.event)
      /\ Resync => BatchFrame \in Range(ReplayFrames)
      /\ \A i, j \in 1 .. Len(ReplayFrames) : i < j /\ ReplayFrames[j] = BatchFrame =>
            ReplayFrames[i] = TruncatedFrame
      /\ ~Resync /\ seq <= lastSeq => Range(ReplayFrames) = {}
  BY <1>3, ReplayHolds
<1>6. /\ boot.kind = "state-bootstrap" /\ boot.lists = lists /\ boot.instance = instance
      /\ news.kind = "event" /\ news.seq = seq + 1 /\ news.event = Presence
      /\ TruncatedFrame.kind = "replay-truncated"
      /\ BatchFrame.kind = "control-replay-batch" /\ BatchFrame.events = Window
      /\ \A n, e : /\ EventFrame(n, e).kind = "event" /\ EventFrame(n, e).seq = n
                   /\ EventFrame(n, e).event = e
  BY DEF BootstrapFrame, EventFrame, TruncatedFrame, BatchFrame
<1>7. /\ Range(wire') = Range(ReplayFrames) \cup {boot} /\ Range(queued') = {news}
  BY <1>1
<1> HIDE DEF boot, news
<1>8. Frames' = Range(ReplayFrames) \cup {boot, news}
  BY <1>7 DEF Frames
<1>9. /\ store \in Store /\ store' \in Store /\ Current(store') /\ store.version \in Nat
      /\ store'.version \in Nat /\ store.version <= store'.version
      /\ lastSeq \in Nat /\ seq \in Nat /\ top \in Nat /\ owed \in Nat
  BY <1>1, <1>3, Versions DEF StoreStep, Store, IInv
<1>10. anchored' => anchored /\ ~(Resync /\ foreign)
  BY <1>2, Zenon
<1>11. \A p : ~Tells(Presence, p)
  BY EventTyping DEF Tells
<1>12. \A p : \A x \in Range(ReplayFrames) : Carries(x, p) => \E e \in Range(ring) : Tells(e.event, p)
  <2> SUFFICES ASSUME NEW p, NEW x \in Range(ReplayFrames), Carries(x, p)
               PROVE  \E e \in Range(ring) : Tells(e.event, p)
    OBVIOUS
  <2>1. x # TruncatedFrame
    BY <1>6 DEF Carries
  <2>2. CASE x = BatchFrame
    <3>1. \E e \in Range(Window) : Tells(e.event, p)
      BY <2>2, <1>6 DEF Carries
    <3> QED
      BY <3>1, <1>5
  <2>3. CASE \E e \in Range(Window) : x = EventFrame(e.seq, e.event)
    <3>1. \E e \in Range(Window) : Tells(e.event, p)
      BY <2>3, <1>6 DEF Carries
    <3> QED
      BY <3>1, <1>5
  <2> QED
    BY <2>1, <2>2, <2>3, <1>5
<1>13. \A p : Circulates(p)' => Circulates(p)
  <2> SUFFICES ASSUME NEW p, Circulates(p)' PROVE Circulates(p)
    OBVIOUS
  <2>1. (\E x \in Frames' : Carries(x, p)) \/ \E e \in Range(ring') : Tells(e.event, p)
    BY DEF Circulates, Carries, Tells
  <2>2. ~Carries(boot, p) /\ ~Carries(news, p)
    BY <1>6, <1>11 DEF Carries
  <2>3. \E e \in Range(ring) : Tells(e.event, p)
    BY <2>1, <2>2, <1>4, <1>8, <1>11, <1>12
  <2> QED
    BY <2>3 DEF Circulates
<1>14. \A l : Outstanding(l)' => Outstanding(l) \/ l \in lists
  <2> SUFFICES ASSUME NEW l, Outstanding(l)' PROVE Outstanding(l) \/ l \in lists
    OBVIOUS
  <2>1. \A x \in Range(ReplayFrames) : x.kind # "state-bootstrap"
    BY <1>5, <1>6
  <2>2. \/ \E x \in fetches : x.instance = instance /\ x.list = l
        \/ \E x \in Range(wire') : x.kind = "state-bootstrap" /\ l \in x.lists
    BY <1>2 DEF Outstanding, Cold, Awaiting
  <2> QED
    BY <2>1, <2>2, <1>2, <1>6, <1>7 DEF Outstanding
<1>15. Truthful'
  <2>1. \A p : Circulates(p) => p.version \in Nat /\ p.version <= store.version /\ Named(p)
    BY <1>3, Versions DEF Truthful
  <2>2. \A p : Circulates(p)' => Named(p) /\ p.version <= store'.version
    BY <2>1, <1>9, <1>13
  <2>3. \A l : Outstanding(l) => l.version \in Nat /\ l.version <= store.version /\ WellListed(l)
    BY <1>3, Versions DEF Truthful
  <2>4. \A l : Outstanding(l)' => WellListed(l) /\ l.version <= store'.version
    BY <2>3, <1>1, <1>9, <1>14
  <2> QED
    BY <2>2, <2>4 DEF Truthful
<1>16. Tracked'
  BY <1>2, <1>3, <1>9, <1>10 DEF Tracked
<1>17. Greeted'
  <2>1. Handshake(wire')
    <3>1. /\ IsSeq(<<boot>>) /\ Len(<<boot>>) = 1 /\ <<boot>>[1] = boot
          /\ wire' = ReplayFrames \o <<boot>>
      BY <1>1, <1>5, Appended DEF boot
    <3>2. /\ Len(ReplayFrames) \in Nat /\ Len(wire') = Len(ReplayFrames) + 1
          /\ \A i \in 1 .. Len(ReplayFrames) : wire'[i] = ReplayFrames[i]
          /\ wire'[Len(ReplayFrames) + 1] = boot
      BY <3>1, <1>5, Joined
    <3>3. \A i \in 1 .. Len(ReplayFrames) : wire'[i] \in Range(ReplayFrames)
      BY <3>2, <1>5, HeldAt
    <3> SUFFICES ASSUME NEW i \in 1 .. Len(wire'), NEW j \in 1 .. Len(wire'), i < j
                 PROVE  /\ wire'[j].kind = "state-bootstrap" =>
                              /\ wire'[i].kind \notin {"reply", "state-bootstrap"}
                              /\ \A l \in wire'[j].lists : \A p : Carries(wire'[i], p) => p.version <= l.version
                        /\ wire'[j].kind = "control-replay-batch" => wire'[i].kind = "replay-truncated"
      BY DEF Handshake
    <3>4. i \in 1 .. Len(ReplayFrames)
      BY <3>2
    <3>5. wire'[i].kind \notin {"reply", "state-bootstrap"}
      BY <3>3, <3>4, <1>5, <1>6
    <3>6. CASE j = Len(ReplayFrames) + 1
      <4>1. \A p : Carries(wire'[i], p) => Circulates(p)
        BY <3>3, <3>4, <1>12 DEF Circulates
      <4>2. \A p : Carries(wire'[i], p) => p.version \in Nat /\ p.version <= store.version
        BY <4>1, Versions
      <4>3. \A l \in lists : \A p : Carries(wire'[i], p) => p.version <= l.version
        BY <4>2, <1>1, <1>9
      <4> QED
        BY <4>3, <3>2, <3>5, <3>6, <1>6
    <3>7. CASE j \in 1 .. Len(ReplayFrames)
      <4>1. wire'[j] = ReplayFrames[j] /\ wire'[i] = ReplayFrames[i] /\ wire'[j] \in Range(ReplayFrames)
        BY <3>2, <3>3, <3>4, <3>7
      <4>2. wire'[j].kind # "state-bootstrap"
        BY <4>1, <1>5, <1>6
      <4>3. wire'[j].kind = "control-replay-batch" => wire'[j] = BatchFrame
        BY <4>1, <1>5, <1>6
      <4> QED
        BY <4>1, <4>2, <4>3, <3>4, <3>7, <1>5, <1>6
    <3> QED
      BY <3>2, <3>6, <3>7
  <2>2. \A f \in Range(wire') : f.kind = "state-bootstrap" => f = boot
    BY <1>5, <1>6, <1>7
  <2>3. \A f \in Range(queued') : f.kind = "event"
    BY <1>6, <1>7
  <2>4. boot \in Range(wire')
    BY <1>7
  <2> QED
    BY <2>1, <2>2, <2>3, <2>4, <1>1, <1>2, <1>6 DEF Greeted, Handshake, Carries, Tells
<1>18. Heard'
  <2>1. foreign' \/ lastSeq' <= seq'
    BY <1>2, <1>3, <1>9 DEF Heard
  <2>2. \A e \in Range(Window) : e.seq > lastSeq
    BY <1>5
  <2>3. CASE lastSeq <= seq
    <3>1. \A x \in Range(ReplayFrames) : x.kind = "event" => x.seq > lastSeq
      BY <2>2, <1>5, <1>6
    <3>2. \A x \in Frames' : x.kind = "event" => x.seq > lastSeq
      BY <2>3, <3>1, <1>6, <1>8, <1>9
    <3>3. lastSeq' <= seq'
      BY <2>3, <1>2, <1>9
    <3> QED
      BY <2>1, <3>2, <3>3, <1>2 DEF Heard
  <2>4. CASE ~(lastSeq <= seq)
    <3>1. foreign
      BY <2>4, <1>3 DEF Heard
    <3>2. anchored' => ~Resync
      BY <3>1, <1>10
    <3>3. seq <= lastSeq
      BY <2>4, <1>9
    <3>4. anchored' => Frames' = {boot, news}
      BY <3>2, <3>3, <1>5, <1>8
    <3>5. ~Counted(boot) /\ news.event.topic # "controller"
      BY <1>6, EventTyping DEF Counted
    <3>6. anchored' => /\ \E e \in Frames' : e.kind = "event"
                       /\ \A f \in Frames' : Counted(f) =>
                             f.kind = "event" /\ f.event.topic # "controller"
      BY <3>4, <3>5, <1>6
    <3> QED
      BY <2>1, <3>1, <3>6, <1>2 DEF Heard, Counted
  <2> QED
    BY <2>3, <2>4
<1>19. Typed'
  <2>1. ServerTyped /\ NetworkTyped /\ ShownTyped /\ CountTyped /\ RestoreTyped
    BY <1>3, TypedParts DEF Typed
  <2>2. ServerTyped'
    BY <2>1, <1>2, <1>4, <1>9 DEF ServerTyped
  <2>3. MaxSeq \in Nat /\ seq + 1 \in 1 .. MaxSeq /\ seq \in 0 .. MaxSeq
    BY <1>2, <1>9, ProjectionAssumption
  <2>4. /\ Range(ring) \subseteq Entry /\ Range(Window) \subseteq Entry /\ Window \in Seq(Entry)
    BY <2>1, <1>5, SeqHolds DEF ServerTyped
  <2>5. news \in Frame
    BY <2>3, FrameMade, EventTyping DEF news
  <2>6. boot \in Frame
    <3>1. lists \subseteq List
      BY <1>1 DEF WellListed
    <3> QED
      BY <3>1, <2>1, FrameMade DEF boot, ServerTyped
  <2>7. \A x \in Range(ReplayFrames) : x \in Frame
    <3>1. BatchFrame \in Frame
      BY <2>3, <2>4, FrameMade
    <3>2. seq > lastSeq => TruncatedFrame \in Frame
      <4>1. seq > lastSeq => seq \in 1 .. MaxSeq
        BY <2>3, <1>9
      <4> QED
        BY <4>1, FrameMade
    <3>3. \A e \in Entry : EventFrame(e.seq, e.event) \in Frame
      BY FrameMade, EntryTyping
    <3> QED
      BY <3>1, <3>2, <3>3, <2>4, <1>5
  <2>8. wire' \in Seq(Frame) /\ queued' \in Seq(Frame)
    <3>1. IsSeq(wire') /\ IsSeq(queued')
      BY <1>1, <1>5, AppendedHold
    <3> QED
      BY <3>1, <2>5, <2>6, <2>7, <1>7, SeqHolds
  <2>9. NetworkTyped'
    BY <2>1, <2>8, <1>2 DEF NetworkTyped
  <2>10. ShownTyped'
    BY <2>1, <1>2 DEF ShownTyped
  <2>11. CountTyped'
    <3>1. anchored' \in BOOLEAN
      BY <1>2, Zenon
    <3>2. owed' \in Nat
      BY <1>2, <1>9
    <3> QED
      BY <3>1, <3>2, <2>1, <1>2 DEF CountTyped
  <2>12. RestoreTyped'
    <3>1. restore \in {Cold, Idle}
      BY <1>2, <1>3 DEF Typed
    <3>2. ~Restoring(restore) /\ ~touched
      BY <3>1, <2>1 DEF Restoring, Cold, Idle, RestoreTyped
    <3> QED
      BY <3>2, <2>1, <1>2 DEF RestoreTyped, Restoring, Cold, Awaiting
  <2>13. TypeOK'
    BY <2>2, <2>9, <2>10, <2>11, <2>12, TypedPartsNext
  <2> QED
    BY <2>13, <1>2, <1>3, <1>9 DEF Typed
<1>20. Promised'
  <2> SUFFICES ASSUME anchored', NEW t \in Tasks, Held(store', t)
               PROVE  \E g \in 1 .. store'.version :
                          Told(store.lease[t], t, g)' /\ Informed(t, g)'
    BY DEF Promised, Held
  <2>1. anchored /\ ~(Resync /\ foreign)
    BY <1>10
  <2>2. /\ SameHolder(store, store', t)
        /\ \A l \in lists :
              /\ Listed(l, t)
              /\ \A p \in l.snapshots :
                    p.taskId = t => store.version <= p.version /\ Right(p, store'.lease[t])
    BY <1>1
  <2>3. /\ Held(store, t) /\ store'.lease[t].clientId = store.lease[t].clientId
        /\ store'.lease[t].action = store.lease[t].action
    BY <2>2 DEF SameHolder
  <2>4. PICK g \in 1 .. store.version : Told(store.lease[t], t, g) /\ Informed(t, g)
    BY <2>1, <2>3, <1>3 DEF Promised
  <2>5. g \in Nat /\ g <= store.version /\ g \in 1 .. store'.version
    BY <1>9
  <2>6. \A l \in lists : ListRight(l, store.lease[t], t, g)
    <3> SUFFICES ASSUME NEW l \in lists, NEW p \in l.snapshots, p.taskId = t
                 PROVE  p.version >= g /\ Right(p, store.lease[t])
      BY <2>2 DEF ListRight
    <3>1. p.version \in Nat
      BY <1>1 DEF WellListed, Named, ControllerSnapshot
    <3> QED
      BY <3>1, <2>2, <2>3, <2>5, <1>9 DEF Right
  <2>7. known' \in {0, instance'} => Fits(Projection', store.lease[t], t, g)
    <3>1. Projection'.seen = Projection.seen /\ Projection'.view = Projection.view
      BY <1>2 DEF Projection
    <3> QED
      BY <2>4, <3>1, <1>2 DEF Told, Fits
  <2>8. Told(store.lease[t], t, g)'
    BY <2>3, <2>4, <2>6, <2>7, <1>13, <1>14, ToldStays
  <2>9. CASE known # instance
    <3>1. \A l \in lists : l.version >= g /\ (known = 0 => top <= l.version)
      BY <2>1, <2>5, <1>1, <1>3, <1>9 DEF Tracked
    <3> QED
      BY <2>5, <2>8, <2>9, <3>1, <1>2, <1>6, <1>7 DEF Informed
  <2>10. CASE known = instance
    <3>1. Resync /\ ~foreign
      BY <2>1, <2>10 DEF Resync
    <3>2. CASE seen[t] >= g
      BY <2>5, <2>8, <2>10, <3>2, <1>2 DEF Informed
    <3>3. CASE owed >= g \/ ReplayTruncated
      <4>1. owed' >= g
        BY <3>3, <2>5, <1>2, <1>9
      <4> QED
        BY <2>5, <2>8, <2>10, <4>1, <1>2 DEF Informed
    <3>4. ASSUME NEW n, Recoverable(n, t, g), ~ReplayTruncated
          PROVE  Informed(t, g)'
      <4>1. /\ n \in 1 .. seq /\ n > lastSeq
            /\ \/ \E e \in Range(ring) : e.seq = n /\ IsNews(e.event, t, g)
               \/ ring # <<>> /\ n < ring[1].seq
        BY <3>1, <3>4 DEF Recoverable
      <4>2. ~(ring # <<>> /\ n < ring[1].seq)
        <5> SUFFICES ASSUME ring # <<>>, n < ring[1].seq PROVE FALSE
          OBVIOUS
        <5>1. IsSeq(ring) /\ InOrder(ring, seq)
          BY <1>3 DEF IInv
        <5>2. 1 \in 1 .. Len(ring)
          BY <5>1, EmptySeq DEF IsSeq
        <5>3. ring[1].seq \in 1 .. seq
          BY <5>1, <5>2 DEF InOrder
        <5>4. seq > lastSeq /\ lastSeq < ring[1].seq - 1
          BY <5>3, <4>1, <1>9
        <5> QED
          BY <5>4, <3>4 DEF ReplayTruncated
      <4>3. PICK e \in Range(ring) : e.seq = n /\ IsNews(e.event, t, g)
        BY <4>1, <4>2
      <4>4. e \in Range(Window)
        BY <4>1, <4>3, <1>5
      <4>5. \A x \in Range(wire') : x.kind # "replay-truncated"
        BY <3>1, <3>4, <1>5, <1>6, <1>7
      <4>6. BatchFrame \in Frames'
        BY <3>1, <1>5, <1>8
      <4>7. Comes(n, t, g)'
        BY <4>3, <4>4, <4>5, <4>6, <1>6 DEF Comes, IsNews
      <4>8. Recoverable(n, t, g)'
        <5>1. IsSeq(ring) /\ InOrder(ring, seq) /\ IsSeq(ring') /\ InOrder(ring', seq')
          BY <1>3 DEF IInv
        <5> QED
          BY <3>4, <5>1, <1>2, <1>4, RecoverableKeeps
      <4> QED
        BY <2>10, <4>7, <4>8, <1>2 DEF Informed
    <3> QED
      BY <2>4, <2>5, <2>8, <2>10, <3>2, <3>3, <3>4 DEF Informed
  <2> QED
    BY <2>9, <2>10
<1> QED
  BY <1>15, <1>16, <1>17, <1>18, <1>19, <1>20 DEF LInv

-----------------------------------------------------------------------------
(* What the renderer makes of what it is told. *)

Shown == [view : [Tasks -> Controller \cup {None}], seen : [Tasks -> Nat \cup {-1}],
          top : Nat, touched : BOOLEAN]

Sound(p) == p \in Shown /\ \A t \in Tasks : p.seen[t] <= p.top

\* What is left of projection p when the snapshots S have been applied to it is q.
Gains(p, q, S) ==
    /\ Sound(q)
    /\ p.top <= q.top
    /\ q.top = p.top \/ \E s \in S : q.top = s.version
    /\ \A s \in S : s.version <= q.seen[s.taskId]
    /\ \A t \in Tasks :
          /\ p.seen[t] <= q.seen[t]
          /\ \/ q.seen[t] = p.seen[t] /\ q.view[t] = p.view[t]
             \/ \E s \in S :
                   s.taskId = t /\ q.seen[t] = s.version /\ q.view[t] = ToController(s)

\* The snapshots an event tells.
News(event) == IF event.topic = "controller" THEN {event.snapshot} ELSE {}

\* A snapshot names a controller or none.
LEMMA ToControllerTyping ==
    ASSUME NEW s, Named(s)
    PROVE  /\ s.taskId \in Tasks /\ s.version \in Nat
           /\ ToController(s) \in Controller \cup {None}
           /\ s.controllerId # None =>
                 /\ ToController(s) # None
                 /\ ToController(s).controllerId = s.controllerId
                 /\ ToController(s).action = s.action
<1>1. s \in ControllerSnapshot /\ (s.controllerId # None => s.action # None)
  BY DEF Named
<1>2. /\ s.taskId \in Tasks /\ s.version \in Nat
      /\ s.action \in Actions \cup {None} /\ s.controllerId \in Clients \cup {None}
  BY <1>1 DEF ControllerSnapshot
<1>3. s.controllerId # None => ToController(s) \in Controller
  BY <1>1, <1>2 DEF ToController, Controller
<1>4. None \notin Controller
  BY ProjectionAssumption DEF Controller
<1> QED
  BY <1>2, <1>3, <1>4 DEF ToController

\* A projection that nothing is applied to.
LEMMA GainsNothing ==
    ASSUME NEW p, Sound(p)
    PROVE  Gains(p, p, {})
<1>1. p.top \in Nat /\ \A t \in Tasks : p.seen[t] \in Nat \cup {-1}
  BY DEF Sound, Shown
<1>2. p.top <= p.top /\ \A t \in Tasks : p.seen[t] <= p.seen[t]
  BY <1>1
<1> QED
  BY <1>2 DEF Gains

\* Applying some snapshots and then some others.
LEMMA GainsMore ==
    ASSUME NEW p, NEW q, NEW r, NEW S, NEW T, Sound(p), Gains(p, q, S), Gains(q, r, T),
           \A s \in S \cup T : Named(s)
    PROVE  Gains(p, r, S \cup T)
<1>1. Sound(q) /\ Sound(r)
  BY DEF Gains
<1>2. /\ p.top \in Nat /\ q.top \in Nat /\ r.top \in Nat
      /\ \A t \in Tasks : /\ p.seen[t] \in Nat \cup {-1} /\ q.seen[t] \in Nat \cup {-1}
                          /\ r.seen[t] \in Nat \cup {-1}
  BY <1>1 DEF Sound, Shown
<1>3. \A s \in S \cup T : s.taskId \in Tasks /\ s.version \in Nat
  BY ToControllerTyping
<1>4. p.top <= r.top
  <2>1. p.top <= q.top /\ q.top <= r.top
    BY DEF Gains
  <2> QED
    BY <2>1, <1>2
<1>5. r.top = p.top \/ \E s \in S \cup T : r.top = s.version
  BY DEF Gains
<1>6. ASSUME NEW s \in S \cup T PROVE s.version <= r.seen[s.taskId]
  <2>1. CASE s \in T
    BY <2>1 DEF Gains
  <2>2. CASE s \in S
    <3>1. s.version <= q.seen[s.taskId] /\ q.seen[s.taskId] <= r.seen[s.taskId]
      BY <2>2, <1>3 DEF Gains
    <3> QED
      BY <3>1, <1>2, <1>3
  <2> QED
    BY <2>1, <2>2
<1>7. ASSUME NEW t \in Tasks
      PROVE  /\ p.seen[t] <= r.seen[t]
             /\ \/ r.seen[t] = p.seen[t] /\ r.view[t] = p.view[t]
                \/ \E s \in S \cup T :
                      s.taskId = t /\ r.seen[t] = s.version /\ r.view[t] = ToController(s)
  <2>1. p.seen[t] <= q.seen[t] /\ q.seen[t] <= r.seen[t]
    BY DEF Gains
  <2>2. p.seen[t] <= r.seen[t]
    BY <2>1, <1>2
  <2>3. \/ q.seen[t] = p.seen[t] /\ q.view[t] = p.view[t]
        \/ \E s \in S : s.taskId = t /\ q.seen[t] = s.version /\ q.view[t] = ToController(s)
    BY DEF Gains
  <2>4. \/ r.seen[t] = q.seen[t] /\ r.view[t] = q.view[t]
        \/ \E s \in T : s.taskId = t /\ r.seen[t] = s.version /\ r.view[t] = ToController(s)
    BY DEF Gains
  <2> QED
    BY <2>2, <2>3, <2>4
<1> QED
  BY <1>1, <1>4, <1>5, <1>6, <1>7 DEF Gains

\* One snapshot is applied, or something as new was before.
LEMMA ApplyOne ==
    ASSUME NEW p, Sound(p), NEW s, Named(s)
    PROVE  Gains(p, ApplyChanged(p, s), {s})
<1> DEFINE q == ApplyChanged(p, s)
<1>1. /\ p.top \in Nat /\ p.seen \in [Tasks -> Nat \cup {-1}] /\ p.touched \in BOOLEAN
      /\ p.view \in [Tasks -> Controller \cup {None}] /\ \A t \in Tasks : p.seen[t] <= p.top
  BY DEF Sound, Shown
<1>2. s.taskId \in Tasks /\ s.version \in Nat /\ ToController(s) \in Controller \cup {None}
  BY ToControllerTyping
<1>3. CASE ~ShouldApply(p, s)
  <2>1. q = p /\ s.version <= p.seen[s.taskId]
    BY <1>1, <1>2, <1>3 DEF ApplyChanged, ShouldApply
  <2>2. Gains(p, p, {})
    BY GainsNothing
  <2> QED
    BY <2>1, <2>2 DEF Gains
<1>4. CASE ShouldApply(p, s)
  <2>1. /\ q = [view |-> [p.view EXCEPT ![s.taskId] = ToController(s)],
                seen |-> [p.seen EXCEPT ![s.taskId] = s.version],
                top |-> IF s.version > p.top THEN s.version ELSE p.top,
                touched |-> TRUE]
        /\ p.seen[s.taskId] <= s.version
    BY <1>1, <1>2, <1>4 DEF ApplyChanged, ShouldApply
  <2> HIDE DEF q
  <2>2. /\ q.view = [p.view EXCEPT ![s.taskId] = ToController(s)]
        /\ q.seen = [p.seen EXCEPT ![s.taskId] = s.version]
        /\ q.top = IF s.version > p.top THEN s.version ELSE p.top
        /\ q.touched = TRUE
    BY <2>1
  <2>3. q.top \in Nat /\ p.top <= q.top /\ s.version <= q.top /\ q.top \in {p.top, s.version}
    BY <2>2, <1>1, <1>2
  <2>4. \A t \in Tasks : /\ q.seen[t] = IF t = s.taskId THEN s.version ELSE p.seen[t]
                         /\ q.view[t] = IF t = s.taskId THEN ToController(s) ELSE p.view[t]
    BY <2>2, <1>1
  <2>5. q.view \in [Tasks -> Controller \cup {None}] /\ q.seen \in [Tasks -> Nat \cup {-1}]
    BY <2>2, <1>1, <1>2
  <2>6. q \in Shown
    <3>1. q = [view |-> q.view, seen |-> q.seen, top |-> q.top, touched |-> q.touched]
      BY <2>1
    <3>2. q.touched \in BOOLEAN
      BY <2>2
    <3> QED
      BY <3>1, <3>2, <2>3, <2>5 DEF Shown
  <2>7. \A t \in Tasks : q.seen[t] <= q.top /\ p.seen[t] <= q.seen[t]
    <3> SUFFICES ASSUME NEW t \in Tasks PROVE q.seen[t] <= q.top /\ p.seen[t] <= q.seen[t]
      OBVIOUS
    <3>1. p.seen[t] \in Nat \cup {-1} /\ p.seen[t] <= p.top
      BY <1>1
    <3> QED
      BY <3>1, <2>1, <2>3, <2>4, <1>1, <1>2
  <2>8. s.version <= q.seen[s.taskId]
    BY <2>4, <1>2
  <2>9. \A t \in Tasks : \/ q.seen[t] = p.seen[t] /\ q.view[t] = p.view[t]
                         \/ s.taskId = t /\ q.seen[t] = s.version /\ q.view[t] = ToController(s)
    BY <2>4
  <2> QED
    BY <2>3, <2>6, <2>7, <2>8, <2>9 DEF Gains, Sound, q
<1> QED
  BY <1>3, <1>4

\* An event applies the snapshot it tells of, if any.
LEMMA ApplyGains ==
    ASSUME NEW p, Sound(p), NEW event, \A s \in News(event) : Named(s)
    PROVE  Gains(p, Apply(p, event), News(event))
<1>1. CASE event.topic = "controller"
  BY <1>1, ApplyOne DEF Apply, News
<1>2. CASE event.topic # "controller"
  BY <1>2, GainsNothing DEF Apply, News
<1> QED
  BY <1>1, <1>2

\* The events of a batch, one after the other.
LEMMA ApplyAllGains ==
    ASSUME NEW p, Sound(p), NEW entries, IsSeq(entries),
           \A e \in Range(entries) : \A s \in News(e.event) : Named(s)
    PROVE  Gains(p, ApplyAll(p, entries), UNION {News(e.event) : e \in Range(entries)})
<1> DEFINE N == Len(entries)
           step(f) == [n \in 0 .. Len(entries) |->
                          IF n = 0 THEN p ELSE Apply(f[n - 1], entries[n].event)]
           applied == CHOOSE f : f = step(f)
           D == {q \in Shown : Sound(q)}
           F == [i \in 1 .. N |-> [q \in D |-> Apply(q, entries[i].event)]]
           Upto(n) == UNION {News(entries[i].event) : i \in 1 .. n}
<1>1. N \in Nat /\ \A i \in 1 .. N : entries[i] \in Range(entries)
  BY HeldAt
<1>2. \A i \in 1 .. N : \A s \in News(entries[i].event) : Named(s)
  BY <1>1
<1>3. \A i \in 1 .. N : \A q : Sound(q) => Gains(q, Apply(q, entries[i].event), News(entries[i].event))
  BY <1>2, ApplyGains
<1>4. p \in D
  BY DEF Sound
<1>5. F \in [1 .. N -> [D -> D]]
  <2>1. \A i \in 1 .. N : \A q \in D : Apply(q, entries[i].event) \in D
    BY <1>3 DEF Gains, Sound
  <2> HIDE DEF D
  <2> QED
    BY <2>1
<1>6. ApplyAll(p, entries) = applied[N]
  BY DEF ApplyAll
<1>7. \E f : f = step(f)
  <2>1. PICK g \in [0 .. N -> D] : g[0] = p /\ \A i \in 1 .. N : g[i] = F[i][g[i - 1]]
    <3> HIDE DEF D, F, N, step, applied, Upto
    <3>1. N \in Nat /\ F \in [1 .. N -> [D -> D]] /\ p \in D
      BY <1>1, <1>4, <1>5
    <3>2. Rows(F, D, p, N) # {}
      BY <3>1, IterateAlong
    <3> QED
      BY <3>2 DEF Rows
  <2>2. ASSUME NEW i \in 0 .. N, i # 0 PROVE g[i] = Apply(g[i - 1], entries[i].event)
    <3>1. i \in 1 .. N /\ i - 1 \in 0 .. N
      BY <2>2, <1>1
    <3>2. g[i - 1] \in D
      BY <2>1, <3>1
    <3> HIDE DEF D
    <3> QED
      BY <2>1, <3>1, <3>2
  <2>3. g = step(g)
    <3> HIDE DEF D, F
    <3> QED
      BY <2>1, <2>2
  <2> QED
    BY <2>3
<1>8. applied = step(applied)
  <2> HIDE DEF step
  <2> QED
    BY <1>7
<1> HIDE DEF applied
<1>9. /\ applied[0] = p
      /\ \A n \in 0 .. N : n # 0 => applied[n] = Apply(applied[n - 1], entries[n].event)
  <2>1. 0 \in 0 .. N
    BY <1>1
  <2> QED
    BY <2>1, <1>8
<1> DEFINE S == {n \in Nat : n <= N => Gains(p, applied[n], Upto(n))}
<1>10. 0 \in S
  <2>1. Upto(0) = {}
    OBVIOUS
  <2>2. Gains(p, applied[0], {})
    BY <1>9, GainsNothing
  <2> QED
    BY <2>1, <2>2
<1>11. ASSUME NEW n \in Nat, n \in S PROVE n + 1 \in S
  <2> SUFFICES ASSUME n + 1 <= N PROVE Gains(p, applied[n + 1], Upto(n + 1))
    OBVIOUS
  <2>1. n + 1 \in 1 .. N /\ n + 1 \in 0 .. N /\ n + 1 # 0 /\ (n + 1) - 1 = n /\ n <= N
    BY <1>1
  <2>2. Gains(p, applied[n], Upto(n))
    BY <1>11, <2>1
  <2>3. applied[n + 1] = Apply(applied[n], entries[n + 1].event)
    BY <1>9, <2>1
  <2>4. Gains(applied[n], applied[n + 1], News(entries[n + 1].event))
    <3>1. Sound(applied[n])
      BY <2>2 DEF Gains
    <3> QED
      BY <3>1, <2>1, <2>3, <1>3
  <2>5. Upto(n + 1) = Upto(n) \cup News(entries[n + 1].event)
    <3>1. 1 .. n + 1 = (1 .. n) \cup {n + 1}
      OBVIOUS
    <3> QED
      BY <3>1
  <2>6. \A s \in Upto(n) \cup News(entries[n + 1].event) : Named(s)
    <3>1. \A i \in 1 .. n : i \in 1 .. N
      BY <2>1, <1>1
    <3> QED
      BY <3>1, <2>1, <1>2
  <2> HIDE DEF Upto
  <2>7. Gains(p, applied[n + 1], Upto(n) \cup News(entries[n + 1].event))
    BY <2>2, <2>4, <2>6, GainsMore
  <2> QED
    BY <2>5, <2>7
<1> HIDE DEF S
<1>12. N \in S
  BY <1>1, <1>10, <1>11, NaturalsByStep
<1>13. Gains(p, applied[N], Upto(N))
  BY <1>1, <1>12 DEF S
<1>14. Upto(N) = UNION {News(e.event) : e \in Range(entries)}
  <2>1. \A e \in Range(entries) : \E i \in 1 .. N : e = entries[i]
    BY HeldAt
  <2> HIDE DEF N
  <2> QED
    BY <2>1, <1>1
<1> QED
  BY <1>6, <1>13, <1>14

\* A lease's client is a client.
LEMMA HolderNamed ==
    ASSUME LInv, NEW t \in Tasks, Held(store, t)
    PROVE  store.lease[t].clientId # None
<1>1. store.lease[t] \in Lease
  BY Versions, LeaseTyping DEF Held
<1> QED
  BY <1>1, LeaseAssumption DEF Lease

\* A true snapshot shows its controller.
LEMMA RightShown ==
    ASSUME NEW s, Named(s), NEW lease, lease.clientId # None, Right(s, lease)
    PROVE  ToController(s) # None /\ Right(ToController(s), lease)
<1>1. s.controllerId # None
  BY DEF Right
<1> QED
  BY <1>1, ToControllerTyping DEF Right

\* What the renderer has of a task stays right if what it is told is.
LEMMA GainsFits ==
    ASSUME NEW p, NEW q, NEW S, Gains(p, q, S), \A s \in S : Named(s),
           NEW t \in Tasks, NEW g, NEW lease, lease.clientId # None, Fits(p, lease, t, g),
           \A s \in S : s.taskId = t /\ s.version >= g => Right(s, lease)
    PROVE  Fits(q, lease, t, g)
<1> SUFFICES ASSUME q.seen[t] >= g PROVE q.view[t] # None /\ Right(q.view[t], lease)
  BY DEF Fits
<1>1. CASE q.seen[t] = p.seen[t] /\ q.view[t] = p.view[t]
  BY <1>1 DEF Fits
<1>2. ASSUME NEW s \in S, s.taskId = t, q.seen[t] = s.version, q.view[t] = ToController(s)
      PROVE  q.view[t] # None /\ Right(q.view[t], lease)
  BY <1>2, RightShown
<1> QED
  BY <1>1, <1>2 DEF Gains

\* A list replaces what the renderer has if it is as new.
LEMMA ReplaceHolds ==
    ASSUME NEW p, Sound(p), NEW l, WellListed(l)
    PROVE  /\ Sound(Replace(p, l))
           /\ Replace(p, l).top \in {p.top, l.version}
           /\ Replaces(p, l) => Replace(p, l).top = l.version
<1> DEFINE q == Replace(p, l)
           listed(t) == ListedSnapshot(l, t)
<1>1. /\ p.top \in Nat /\ p.seen \in [Tasks -> Nat \cup {-1}] /\ p.touched \in BOOLEAN
      /\ p.view \in [Tasks -> Controller \cup {None}] /\ \A t \in Tasks : p.seen[t] <= p.top
  BY DEF Sound, Shown
<1>2. l.version \in Nat /\ \A s \in l.snapshots : Named(s) /\ s.version <= l.version
  BY DEF WellListed, List
<1>3. CASE ~Replaces(p, l)
  <2>1. q = p
    BY <1>3 DEF Replace
  <2> QED
    BY <2>1, <1>3
<1>4. CASE Replaces(p, l)
  <2>1. q = [view |-> [t \in Tasks |-> IF Listed(l, t) THEN ToController(listed(t))
                                       ELSE p.view[t]],
             seen |-> [t \in Tasks |-> IF Listed(l, t) THEN listed(t).version
                                       ELSE IF p.view[t] # None THEN l.version ELSE p.seen[t]],
             top |-> l.version, touched |-> p.touched]
    BY <1>4 DEF Replace
  <2>2. \A t \in Tasks : Listed(l, t) => listed(t) \in l.snapshots /\ listed(t).taskId = t
    BY DEF Listed, ListedSnapshot
  <2> HIDE DEF q, listed
  <2>3. \A t \in Tasks : Listed(l, t) =>
           /\ listed(t).version \in Nat /\ listed(t).version <= l.version
           /\ ToController(listed(t)) \in Controller \cup {None}
    BY <2>2, <1>2, ToControllerTyping
  <2>4. q.view \in [Tasks -> Controller \cup {None}]
    BY <2>1, <2>3, <1>1
  <2>5. q.seen \in [Tasks -> Nat \cup {-1}]
    <3>1. \A t \in Tasks : (IF Listed(l, t) THEN listed(t).version
                            ELSE IF p.view[t] # None THEN l.version ELSE p.seen[t]) \in Nat \cup {-1}
      BY <2>3, <1>1, <1>2
    <3> QED
      BY <2>1, <3>1
  <2>6. q.top = l.version /\ q.touched = p.touched
    BY <2>1
  <2>7. ASSUME NEW t \in Tasks PROVE q.seen[t] <= q.top
    <3>1. q.seen[t] = IF Listed(l, t) THEN listed(t).version
                      ELSE IF p.view[t] # None THEN l.version ELSE p.seen[t]
      BY <2>1
    <3>2. p.top <= l.version /\ p.seen[t] <= p.top /\ p.seen[t] \in Nat \cup {-1}
      BY <1>1, <1>2, <1>4 DEF Replaces
    <3>3. p.seen[t] <= l.version
      BY <3>2, <1>1, <1>2
    <3> QED
      BY <3>1, <3>3, <2>3, <2>6, <1>2
  <2>8. q \in Shown
    <3>1. q = [view |-> q.view, seen |-> q.seen, top |-> q.top, touched |-> q.touched]
      BY <2>1
    <3> QED
      BY <3>1, <2>4, <2>5, <2>6, <1>1, <1>2 DEF Shown
  <2> QED
    BY <2>6, <2>7, <2>8 DEF Sound, q
<1> QED
  BY <1>3, <1>4

\* A list that is right about a task leaves the renderer right about it, and as new.
LEMMA ReplaceRight ==
    ASSUME NEW p, Sound(p), NEW l, WellListed(l), NEW t \in Tasks, NEW g \in Nat, NEW lease,
           lease.clientId # None, ListRight(l, lease, t, g), Fits(p, lease, t, g)
    PROVE  /\ Fits(Replace(p, l), lease, t, g)
           /\ p.seen[t] >= g => Replace(p, l).seen[t] >= g
           /\ Replaces(p, l) /\ l.version >= g => Replace(p, l).seen[t] >= g
<1> DEFINE q == Replace(p, l)
           listed == ListedSnapshot(l, t)
<1>1. /\ p.top \in Nat /\ p.seen[t] \in Nat \cup {-1} /\ p.seen[t] <= p.top
      /\ l.version \in Nat /\ \A s \in l.snapshots : Named(s) /\ s.version <= l.version
  BY DEF Sound, Shown, WellListed, List
<1>2. CASE ~Replaces(p, l)
  <2>1. q = p
    BY <1>2 DEF Replace
  <2> QED
    BY <2>1, <1>2
<1>3. CASE Replaces(p, l)
  <2>1. /\ q.view[t] = IF Listed(l, t) THEN ToController(listed) ELSE p.view[t]
        /\ q.seen[t] = IF Listed(l, t) THEN listed.version
                       ELSE IF p.view[t] # None THEN l.version ELSE p.seen[t]
    BY <1>3 DEF Replace
  <2>2. Listed(l, t) => listed \in l.snapshots /\ listed.taskId = t
    BY DEF Listed, ListedSnapshot
  <2> HIDE DEF q, listed
  <2>3. Listed(l, t) => Named(listed) /\ listed.version <= l.version /\ listed.version \in Nat
    BY <2>2, <1>1 DEF Named, ControllerSnapshot
  <2>4. p.seen[t] >= g => l.version >= g
    <3>1. p.top <= l.version
      BY <1>1, <1>3 DEF Replaces
    <3> QED
      BY <3>1, <1>1
  <2>5. ASSUME l.version >= g
        PROVE  Listed(l, t) /\ listed.version >= g /\ Right(listed, lease)
    BY <2>2, <2>5 DEF ListRight
  <2>6. l.version >= g => q.seen[t] >= g /\ q.view[t] # None /\ Right(q.view[t], lease)
    BY <2>1, <2>3, <2>5, RightShown
  <2>7. ASSUME q.seen[t] >= g PROVE q.view[t] # None /\ Right(q.view[t], lease)
    <3>1. CASE l.version >= g
      BY <3>1, <2>6
    <3>2. CASE ~(l.version >= g)
      <4>1. ~Listed(l, t)
        BY <3>2, <2>1, <2>3, <2>7, <1>1
      <4>2. q.seen[t] = p.seen[t]
        BY <4>1, <3>2, <2>1, <2>7
      <4> QED
        BY <4>2, <3>2, <2>4, <2>7
    <3> QED
      BY <3>1, <3>2
  <2> QED
    BY <2>4, <2>6, <2>7 DEF Fits, q
<1> QED
  BY <1>2, <1>3

\* The renderer's projection is sound.
LEMMA ProjectionSound ==
    ASSUME LInv
    PROVE  /\ Sound(Projection) /\ Projection.view = view /\ Projection.seen = seen
           /\ Projection.top = top /\ Projection.touched = touched
<1>1. /\ view \in [Tasks -> Controller \cup {None}] /\ seen \in [Tasks -> Nat \cup {-1}]
      /\ top \in Nat /\ touched \in BOOLEAN
  BY DEF LInv, Typed, TypeOK
<1>2. \A t \in Tasks : seen[t] <= top
  BY DEF LInv, Tracked
<1> QED
  BY <1>1, <1>2 DEF Sound, Shown, Projection

-----------------------------------------------------------------------------
(* Taking the first frame off the wire. *)

\* The rest of the wire stays as it was.
LEMMA Taken ==
    ASSUME LInv, NEW kind, Receive(kind),
           restore' \in {restore, [step |-> "status"], [step |-> "snapshot"]}
    PROVE  LET f == Head(wire) IN
           /\ f.kind = kind /\ f \in Frame /\ connected /\ connected' = connected
           /\ f \in Range(wire) /\ Range(wire) = Range(wire') \cup {f}
           /\ queued' = queued /\ Frames = Frames' \cup {f}
           /\ store' = store /\ seq' = seq /\ ring' = ring /\ instance' = instance
           /\ fetches' = fetches /\ wire' \in Seq(Frame)
           /\ Handshake(wire')
           /\ \A x \in Range(wire') :
                 /\ x.kind = "state-bootstrap" =>
                       /\ kind \notin {"reply", "state-bootstrap"}
                       /\ \A l \in x.lists : \A p : Carries(f, p) => p.version <= l.version
                 /\ x.kind = "control-replay-batch" => kind = "replay-truncated"
           /\ \A p : Circulates(p)' => Circulates(p)
           /\ \A p : Carries(f, p) => Circulates(p)
           /\ \A l : Outstanding(l)' => Outstanding(l)
           /\ Truthful'
<1> DEFINE f == Head(wire)
<1>1. /\ wire # <<>> /\ f.kind = kind /\ wire' = Tail(wire)
      /\ store' = store /\ seq' = seq /\ ring' = ring /\ instance' = instance
      /\ connected' = connected /\ queued' = queued /\ fetches' = fetches
  BY DEF Receive, server
<1>2. IInv /\ Typed /\ Truthful /\ Greeted /\ IsSeq(wire)
  BY DEF LInv, IInv
<1>3. connected
  BY <1>1, <1>2 DEF IInv
<1>4. /\ Range(wire) = Range(wire') \cup {f}
      /\ \A x \in Range(wire') : \E j \in 1 .. Len(wire) : 1 < j /\ x = wire[j]
  BY <1>1, <1>2, TailHolds
<1>5. /\ IsSeq(wire') /\ Len(wire) \in Nat \ {0} /\ Len(wire') = Len(wire) - 1
      /\ \A i \in 1 .. Len(wire) - 1 : wire'[i] = wire[i + 1]
      /\ f = wire[1]
  BY <1>1, <1>2, TailIs
<1> HIDE DEF f
<1>6. f \in Range(wire) /\ Frames = Frames' \cup {f}
  BY <1>1, <1>4 DEF Frames
<1>7. wire \in Seq(Frame) /\ Range(wire) \subseteq Frame
  BY <1>2, SeqHolds DEF Typed, TypeOK
<1>8. wire' \in Seq(Frame) /\ f \in Frame
  BY <1>4, <1>5, <1>6, <1>7, SeqHolds
<1>9. Handshake(wire)
  BY <1>2 DEF Greeted
<1>10. Handshake(wire')
  <2> SUFFICES ASSUME NEW i \in 1 .. Len(wire'), NEW j \in 1 .. Len(wire'), i < j
               PROVE  /\ wire'[j].kind = "state-bootstrap" =>
                            /\ wire'[i].kind \notin {"reply", "state-bootstrap"}
                            /\ \A l \in wire'[j].lists : \A p : Carries(wire'[i], p) => p.version <= l.version
                      /\ wire'[j].kind = "control-replay-batch" => wire'[i].kind = "replay-truncated"
    BY DEF Handshake
  <2>1. /\ i + 1 \in 1 .. Len(wire) /\ j + 1 \in 1 .. Len(wire) /\ i + 1 < j + 1
        /\ wire'[i] = wire[i + 1] /\ wire'[j] = wire[j + 1]
    BY <1>5
  <2> QED
    BY <2>1, <1>9 DEF Handshake
<1>11. \A x \in Range(wire') :
         /\ x.kind = "state-bootstrap" =>
               /\ kind \notin {"reply", "state-bootstrap"}
               /\ \A l \in x.lists : \A p : Carries(f, p) => p.version <= l.version
         /\ x.kind = "control-replay-batch" => kind = "replay-truncated"
  <2> SUFFICES ASSUME NEW j \in 1 .. Len(wire), 1 < j
               PROVE  /\ wire[j].kind = "state-bootstrap" =>
                            /\ kind \notin {"reply", "state-bootstrap"}
                            /\ \A l \in wire[j].lists : \A p : Carries(f, p) => p.version <= l.version
                      /\ wire[j].kind = "control-replay-batch" => kind = "replay-truncated"
    BY <1>4
  <2>1. 1 \in 1 .. Len(wire)
    BY <1>5
  <2> QED
    BY <2>1, <1>1, <1>5, <1>9 DEF Handshake
<1>12. \A p : Circulates(p)' => Circulates(p)
  BY <1>1, <1>6 DEF Circulates, Carries, Tells
<1>13. \A p : Carries(f, p) => Circulates(p)
  BY <1>6 DEF Circulates
<1>14. \A l : Outstanding(l)' => Outstanding(l)
  BY <1>1, <1>4 DEF Outstanding
<1>15. Truthful'
  BY <1>1, <1>2, <1>12, <1>14 DEF Truthful
<1> QED
  BY <1>1, <1>3, <1>4, <1>6, <1>8, <1>10, <1>11, <1>12, <1>13, <1>14, <1>15 DEF f

\* Who is not greeted yet will still be by what is left.
LEMMA TakenGreets ==
    ASSUME LInv, NEW kind, Receive(kind), kind # "state-bootstrap", known' = known,
           restore' \in {restore, [step |-> "status"], [step |-> "snapshot"]}
    PROVE  Greeted'
<1> DEFINE f == Head(wire)
<1>1. /\ f.kind = kind /\ connected' = connected /\ Range(wire) = Range(wire') \cup {f}
      /\ queued' = queued /\ instance' = instance /\ Handshake(wire')
  BY Taken
<1>2. Greeted
  BY DEF LInv
<1> QED
  BY <1>1, <1>2 DEF Greeted, Handshake, Carries, Tells

\* The start of a restore is well typed.
LEMMA StartsTyped ==
    ASSUME LInv, NEW b, StartRestore(b), touched' \in BOOLEAN, touched' => Restoring(restore')
    PROVE  RestoreTyped' /\ restore' \in {restore, [step |-> "status"], [step |-> "snapshot"]}
<1>1. RestoreTyped
  BY TypedParts DEF LInv, Typed
<1>2. /\ restore' = IF restore # Awaiting THEN restore
                    ELSE [step |-> IF b /\ ~required THEN "status" ELSE "snapshot"]
      /\ required' = (required \/ restore'.step = "snapshot")
  BY DEF StartRestore
<1>3. restore' \in {restore, [step |-> "status"], [step |-> "snapshot"]}
  BY <1>2
<1>4. required' \in BOOLEAN /\ (restore'.step \in {"snapshot", "list"} => required')
  <2>1. required' \in BOOLEAN
    BY <1>2, Zenon
  <2>2. restore'.step = "snapshot" => required'
    BY <1>2, Zenon
  <2>3. required => required'
    BY <1>2, Zenon
  <2>4. restore'.step = "list" => restore' = restore
    BY <1>3
  <2> QED
    BY <2>1, <2>2, <2>3, <2>4, <1>1 DEF RestoreTyped
<1> QED
  BY <1>1, <1>3, <1>4 DEF RestoreTyped, Restoring

\* What the renderer has is well typed after it.
LEMMA TakenTyped ==
    ASSUME LInv, NEW kind, Receive(kind), RestoreTyped', NEW q, Sound(q),
           restore' \in {restore, [step |-> "status"], [step |-> "snapshot"]},
           view' = q.view, seen' = q.seen, top' = q.top,
           known' \in {known, instance}, owed' \in {owed, 0}, anchored' = anchored,
           fresh' \in BOOLEAN, foreign' \in BOOLEAN, lastSeq' \in 0 .. MaxSeq
    PROVE  Typed'
<1>1. /\ connected /\ connected' = connected /\ queued' = queued
      /\ store' = store /\ seq' = seq /\ ring' = ring /\ instance' = instance
      /\ fetches' = fetches /\ wire' \in Seq(Frame)
  BY Taken
<1>2. Typed /\ ServerTyped /\ NetworkTyped /\ ShownTyped /\ CountTyped
  BY TypedParts DEF LInv, Typed
<1>3. ServerTyped' /\ NetworkTyped'
  BY <1>1, <1>2 DEF ServerTyped, NetworkTyped
<1>4. ShownTyped'
  BY DEF ShownTyped, Sound, Shown
<1>5. instance \in 0 .. MaxInstance /\ instance \in Nat
  BY <1>2, ProjectionAssumption DEF ServerTyped
<1>6. CountTyped'
  BY <1>2, <1>5 DEF CountTyped
<1>7. TypeOK'
  BY <1>3, <1>4, <1>6, TypedPartsNext
<1>8. known' <= instance'
  BY <1>1, <1>2, <1>5 DEF Typed
<1> QED
  BY <1>1, <1>2, <1>7, <1>8 DEF Typed

\* The first frame counts to no more than the server has, and less than the events behind it.
LEMMA StreamHead ==
    ASSUME LInv, NEW kind, Receive(kind)
    PROVE  LET f == Head(wire) IN
           /\ seq \in Nat /\ lastSeq \in Nat /\ seq <= MaxSeq
           /\ Counted(f) => Reach(f) \in 0 .. seq
           /\ f.kind = "event" => f.seq \in 1 .. seq
           /\ \A x \in Frames' : x.kind = "event" =>
                 x.seq \in Nat /\ (Counted(f) => Reach(f) < x.seq)
<1> DEFINE f == Head(wire)
           s == wire \o queued
<1>1. wire # <<>> /\ wire' = Tail(wire) /\ queued' = queued
  BY DEF Receive
<1>2. IInv /\ IsSeq(wire) /\ IsSeq(queued) /\ seq \in Nat /\ lastSeq \in Nat
  BY DEF LInv, IInv
<1>3. Stream(s, lastSeq, seq)
  BY <1>1, <1>2 DEF IInv
<1>4. seq <= MaxSeq
  BY ProjectionAssumption DEF LInv, Typed, TypeOK
<1>5. /\ Tail(wire) \o queued = Tail(s) /\ s # <<>> /\ s[1] = f /\ IsSeq(s) /\ IsSeq(Tail(wire))
  BY <1>1, <1>2, TailJoined
<1>6. Frames' = Range(Tail(s))
  <2>1. Range(Tail(wire) \o queued) = Range(Tail(wire)) \cup Range(queued)
    BY <1>2, <1>5, JoinedHold
  <2> QED
    BY <2>1, <1>1, <1>5 DEF Frames
<1> HIDE DEF s, f
<1>7. Len(s) \in Nat \ {0} /\ 1 \in 1 .. Len(s)
  BY <1>5, TailIs
<1>8. Counted(f) => Reach(f) \in 0 .. seq
  BY <1>3, <1>5, <1>7 DEF Stream
<1>9. f.kind = "event" => f.seq \in 1 .. seq
  <2> SUFFICES ASSUME f.kind = "event" PROVE f.seq \in 1 .. seq
    OBVIOUS
  <2>1. Counted(f) /\ Reach(f) = f.seq
    BY DEF Counted, Reach
  <2>2. f.seq > 0
    BY <1>3, <1>5, <1>7 DEF Stream
  <2> QED
    BY <2>1, <2>2, <1>2, <1>8
<1>10. ASSUME NEW x \in Frames', x.kind = "event"
       PROVE  x.seq \in Nat /\ (Counted(f) => Reach(f) < x.seq)
  <2>1. PICK j \in 1 .. Len(s) : 1 < j /\ x = s[j]
    BY <1>5, <1>6, TailHolds
  <2>2. Counted(x) /\ Reach(x) = x.seq
    BY <1>10 DEF Counted, Reach
  <2>3. x.seq \in 0 .. seq
    BY <2>1, <2>2, <1>3 DEF Stream
  <2>4. Counted(f) => Reach(f) < Reach(x)
    BY <2>1, <2>2, <1>3, <1>5, <1>7, <1>10 DEF Stream
  <2> QED
    BY <2>2, <2>3, <2>4
<1> QED
  BY <1>2, <1>4, <1>8, <1>9, <1>10 DEF f

\* A frame that does not count changes nothing in what will count.
LEMMA UncountedHeard ==
    ASSUME LInv, NEW kind, Receive(kind), kind \in {"reply", "state-bootstrap"},
           restore' \in {restore, [step |-> "status"], [step |-> "snapshot"]},
           UNCHANGED <<lastSeq, fresh, foreign, anchored>>
    PROVE  Heard'
<1> DEFINE f == Head(wire)
<1>1. f.kind = kind /\ connected' = connected /\ seq' = seq /\ Frames = Frames' \cup {f}
  BY Taken
<1>2. Heard
  BY DEF LInv
<1> HIDE DEF f
<1>3. f.kind # "event"
  BY <1>1
<1>4. \A e \in Frames : e.kind = "event" => e \in Frames'
  BY <1>1, <1>3
<1> QED
  BY <1>1, <1>2, <1>4 DEF Heard, Counted

\* One that counts at once is behind whatever counts after it.
LEMMA AdoptedHeard ==
    ASSUME LInv, NEW kind, Receive(kind), kind \in {"replay-truncated", "control-replay-batch"},
           restore' \in {restore, [step |-> "status"], [step |-> "snapshot"]},
           AdoptSeq(Reach(Head(wire))), anchored' = anchored
    PROVE  Heard' /\ lastSeq' \in 0 .. MaxSeq /\ foreign' \in BOOLEAN
<1> DEFINE f == Head(wire)
           n == Reach(f)
<1>1. /\ f.kind = kind /\ connected /\ connected' = connected /\ seq' = seq
      /\ Frames = Frames' \cup {f} /\ f \in Frames
  BY Taken
<1>2. Counted(f) /\ f.kind # "event"
  BY <1>1 DEF Counted
<1>3. /\ seq \in Nat /\ lastSeq \in Nat /\ seq <= MaxSeq /\ MaxSeq \in Nat
      /\ n \in 0 .. seq
      /\ \A x \in Frames' : x.kind = "event" => x.seq \in Nat /\ n < x.seq
  BY <1>2, StreamHead, ProjectionAssumption
<1>4. lastSeq' = (IF n > lastSeq THEN n ELSE lastSeq) /\ foreign' = (foreign /\ n <= lastSeq)
  BY DEF AdoptSeq
<1> HIDE DEF f, n
<1>5. Heard /\ lastSeq \in 0 .. MaxSeq
  BY DEF LInv, Typed, TypeOK
<1>6. lastSeq' \in 0 .. MaxSeq
  BY <1>3, <1>4, <1>5
<1>7. foreign' \in BOOLEAN /\ (foreign /\ n <= lastSeq => foreign')
  BY <1>4, Zenon
<1>8. foreign' \/ lastSeq' <= seq'
  <2>1. CASE n > lastSeq
    BY <2>1, <1>1, <1>3, <1>4
  <2>2. CASE ~(n > lastSeq)
    <3>1. n <= lastSeq
      BY <2>2, <1>3
    <3>2. foreign \/ lastSeq <= seq
      BY <1>5 DEF Heard
    <3> QED
      BY <3>1, <3>2, <2>2, <1>1, <1>4, <1>7
  <2> QED
    BY <2>1, <2>2
<1>9. ASSUME anchored
      PROVE  lastSeq' <= seq' /\ \A x \in Frames' : x.kind = "event" => x.seq > lastSeq'
  <2>1. lastSeq <= seq /\ \A x \in Frames : x.kind = "event" => x.seq > lastSeq
    BY <1>1, <1>2, <1>5, <1>9 DEF Heard
  <2>2. \A x \in Frames' : x.kind = "event" => x.seq \in Nat /\ n < x.seq /\ x.seq > lastSeq
    BY <2>1, <1>1, <1>3
  <2> QED
    BY <2>1, <2>2, <1>1, <1>3, <1>4
<1> QED
  BY <1>6, <1>7, <1>8, <1>9 DEF Heard

\* An event is processed unless it is older, and then it is not about a controller.
LEMMA EventHeard ==
    ASSUME LInv, DeliverEvent,
           restore' \in {restore, [step |-> "status"], [step |-> "snapshot"]}
    PROVE  LET f == Head(wire) IN
           /\ Heard' /\ lastSeq' \in 0 .. MaxSeq /\ foreign' \in BOOLEAN
           /\ anchored /\ f.seq <= LastSeqFor(f.seq) => f.event.topic # "controller"
<1> DEFINE f == Head(wire)
<1>1. Receive("event") /\ anchored' = anchored
  BY DEF DeliverEvent
<1>2. /\ f.kind = "event" /\ connected /\ connected' = connected /\ seq' = seq
      /\ Frames = Frames' \cup {f} /\ f \in Frames
  BY <1>1, Taken
<1>3. Counted(f) /\ Reach(f) = f.seq
  BY <1>2 DEF Counted, Reach
<1>4. /\ seq \in Nat /\ lastSeq \in Nat /\ seq <= MaxSeq /\ MaxSeq \in Nat
      /\ f.seq \in 1 .. seq
      /\ \A x \in Frames' : x.kind = "event" => x.seq \in Nat /\ f.seq < x.seq
  BY <1>1, <1>2, <1>3, StreamHead, ProjectionAssumption
<1>5. Heard /\ lastSeq \in 0 .. MaxSeq /\ foreign \in BOOLEAN
  BY DEF LInv, Typed, TypeOK
<1>6. CASE ~(f.seq <= LastSeqFor(f.seq))
  <2>1. lastSeq' = f.seq /\ foreign' = FALSE
    BY <1>6 DEF DeliverEvent
  <2>2. lastSeq' \in 0 .. MaxSeq /\ lastSeq' <= seq'
    BY <2>1, <1>2, <1>4
  <2>3. \A x \in Frames' : x.kind = "event" => x.seq > lastSeq'
    BY <2>1, <1>4
  <2> QED
    BY <2>1, <2>2, <2>3, <1>6 DEF Heard
<1>7. CASE f.seq <= LastSeqFor(f.seq)
  <2>1. lastSeq' = lastSeq /\ foreign' = foreign /\ fresh' = fresh
    BY <1>7 DEF DeliverEvent
  <2>2. ~(fresh /\ f.seq < lastSeq) /\ f.seq <= lastSeq
    BY <1>4, <1>7 DEF LastSeqFor
  <2>3. foreign' \/ lastSeq' <= seq'
    BY <2>1, <1>2, <1>5 DEF Heard
  <2>4. ASSUME anchored
        PROVE  /\ lastSeq <= seq /\ \A x \in Frames' : x.kind = "event" => x.seq > lastSeq
               /\ f.event.topic # "controller"
    <3>1. ~(f.seq > lastSeq)
      BY <2>2, <1>4
    <3>2. /\ fresh /\ foreign
          /\ \A x \in Frames : Counted(x) /\ x.event.topic = "controller" =>
                \E e \in Frames : e.kind = "event" /\ e.seq < x.seq
      BY <3>1, <2>4, <1>2, <1>5 DEF Heard
    <3>3. f.seq = lastSeq
      BY <2>2, <3>2, <1>4
    <3>4. \A e \in Frames : e.kind = "event" => ~(e.seq < f.seq)
      BY <1>2, <1>4
    <3> QED
      BY <3>2, <3>3, <3>4, <1>2, <1>3, <1>4
  <2> QED
    BY <2>1, <2>3, <2>4, <1>1, <1>2, <1>5 DEF Heard
<1> QED
  BY <1>6, <1>7 DEF f

\* News that was on its way still is, unless it was the frame that was taken.
LEMMA TakenComes ==
    ASSUME LInv, NEW kind, Receive(kind), anchored, anchored' = anchored, Heard',
           restore' \in {restore, [step |-> "status"], [step |-> "snapshot"]},
           NEW n, NEW t, NEW g, Recoverable(n, t, g), Comes(n, t, g)
    PROVE  \/ (\E p : Carries(Head(wire), p) /\ p.taskId = t /\ p.version >= g)
           \/ Recoverable(n, t, g)' /\ Comes(n, t, g)'
<1> DEFINE f == Head(wire)
<1>1. /\ f.kind = kind /\ connected /\ connected' = connected /\ f \in Range(wire)
      /\ Range(wire) = Range(wire') \cup {f} /\ queued' = queued /\ Frames = Frames' \cup {f}
      /\ seq' = seq /\ ring' = ring
      /\ \A x \in Range(wire') : x.kind = "control-replay-batch" => kind = "replay-truncated"
  BY Taken
<1> HIDE DEF f
<1>2. PICK x \in Frames :
        \/ x.kind = "event" /\ x.seq = n /\ IsNews(x.event, t, g)
        \/ /\ x.kind = "control-replay-batch"
           /\ \E e \in Range(x.events) : e.seq = n /\ IsNews(e.event, t, g)
           /\ \A y \in Range(wire) : y.kind # "replay-truncated"
  BY DEF Comes
<1>3. CASE x = f
  <2>1. CASE x.kind = "event" /\ IsNews(x.event, t, g)
    <3>1. Carries(f, x.event.snapshot) /\ x.event.snapshot.taskId = t /\ x.event.snapshot.version >= g
      BY <2>1, <1>3 DEF Carries, Tells, IsNews
    <3> QED
      BY <3>1 DEF f
  <2>2. CASE /\ x.kind = "control-replay-batch"
             /\ \E e \in Range(x.events) : e.seq = n /\ IsNews(e.event, t, g)
    <3>1. PICK e \in Range(x.events) : IsNews(e.event, t, g)
      BY <2>2
    <3>2. Carries(f, e.event.snapshot) /\ e.event.snapshot.taskId = t /\ e.event.snapshot.version >= g
      BY <3>1, <2>2, <1>3 DEF Carries, Tells, IsNews
    <3> QED
      BY <3>2 DEF f
  <2> QED
    BY <2>1, <2>2, <1>2
<1>4. CASE x # f
  <2>1. x \in Frames'
    BY <1>1, <1>4
  <2>2. x.kind = "event" /\ x.seq = n /\ IsNews(x.event, t, g)
    <3> SUFFICES ASSUME x.kind = "control-replay-batch",
                        \A y \in Range(wire) : y.kind # "replay-truncated"
                 PROVE  FALSE
      BY <1>2
    <3>1. \A y \in Range(queued) : y.kind = "event"
      BY DEF LInv, Greeted
    <3>2. x \in Range(wire')
      BY <3>1, <2>1, <1>1 DEF Frames
    <3> QED
      BY <3>2, <1>1
  <2>3. Comes(n, t, g)'
    BY <2>1, <2>2 DEF Comes, IsNews
  <2>4. foreign' \/ n > lastSeq'
    BY <2>1, <2>2, <1>1 DEF Heard
  <2>5. Recoverable(n, t, g)'
    BY <2>4, <1>1 DEF Recoverable, IsNews
  <2> QED
    BY <2>3, <2>5
<1> QED
  BY <1>3, <1>4

\* What the renderer takes and applies keeps the promise.
LEMMA TakenKeeps ==
    ASSUME LInv, IInv', NEW kind, Receive(kind), kind # "state-bootstrap",
           restore' \in {restore, [step |-> "status"], [step |-> "snapshot"]}, RestoreTyped',
           fresh' \in BOOLEAN, foreign' \in BOOLEAN, lastSeq' \in 0 .. MaxSeq, Heard',
           known' = known, owed' = owed, anchored' = anchored,
           NEW q, view' = q.view, seen' = q.seen, top' = q.top,
           NEW S, \A s \in S : Carries(Head(wire), s), Gains(Projection, q, S),
           anchored => \A s : Carries(Head(wire), s) => s \in S
    PROVE  LInv'
<1> DEFINE f == Head(wire)
<1>1. /\ f.kind = kind /\ connected /\ connected' = connected /\ f \in Range(wire)
      /\ Range(wire) = Range(wire') \cup {f} /\ store' = store /\ instance' = instance
      /\ \A x \in Range(wire') : x.kind = "state-bootstrap" =>
            \A l \in x.lists : \A p : Carries(f, p) => p.version <= l.version
      /\ \A p : Circulates(p)' => Circulates(p)
      /\ \A p : Carries(f, p) => Circulates(p)
      /\ \A l : Outstanding(l)' => Outstanding(l)
      /\ Truthful'
  BY Taken
<1>2. /\ Sound(Projection) /\ Projection.view = view /\ Projection.seen = seen
      /\ Projection.top = top
  BY ProjectionSound
<1>3. Sound(q)
  BY DEF Gains
<1>4. Typed'
  BY <1>3, TakenTyped
<1>5. Greeted'
  BY TakenGreets
<1>6. Truthful /\ Tracked /\ Greeted /\ Promised /\ store.version \in Nat
  BY Versions DEF LInv
<1>7. \A s \in S : Carries(f, s)
  OBVIOUS
<1>8. anchored => \A s : Carries(f, s) => s \in S
  OBVIOUS
<1> HIDE DEF f
<1>9. \A s \in S : Circulates(s) /\ Named(s) /\ s.version <= store.version
  BY <1>1, <1>6, <1>7 DEF Truthful
<1>10. Tracked'
  <2>1. \A t \in Tasks : seen'[t] <= top'
    BY <1>3 DEF Sound
  <2>2. top' = top \/ \E s \in S : top' = s.version
    BY <1>2 DEF Gains
  <2>3. anchored' /\ known' \in {0, instance'} => top' <= store'.version
    BY <2>2, <1>1, <1>6, <1>9 DEF Tracked
  <2> QED
    BY <2>1, <2>3 DEF Tracked
<1>11. ASSUME anchored', NEW t \in Tasks, Held(store', t)
       PROVE  \E g \in 1 .. store'.version : Told(store.lease[t], t, g)' /\ Informed(t, g)'
  <2>1. PICK g \in 1 .. store.version : Told(store.lease[t], t, g) /\ Informed(t, g)
    BY <1>1, <1>6, <1>11 DEF Promised
  <2>2. store.lease[t].clientId # None
    BY <1>1, <1>11, HolderNamed
  <2>3. \A s \in S : s.taskId = t /\ s.version >= g => Right(s, store.lease[t])
    BY <2>1, <1>9 DEF Told
  <2>4. known' \in {0, instance'} => Fits(Projection', store.lease[t], t, g)
    <3> SUFFICES ASSUME known \in {0, instance} PROVE Fits(Projection', store.lease[t], t, g)
      BY <1>1
    <3>1. Fits(Projection, store.lease[t], t, g)
      BY <2>1 DEF Told
    <3>2. Fits(q, store.lease[t], t, g)
      BY <3>1, <2>2, <2>3, <1>9, GainsFits
    <3>3. Projection'.seen = q.seen /\ Projection'.view = q.view
      BY DEF Projection
    <3> QED
      BY <3>2, <3>3 DEF Fits
  <2>5. Told(store.lease[t], t, g)'
    BY <2>1, <2>4, <1>1, ToldStays
  <2>6. /\ g \in Nat /\ seen[t] \in Nat \cup {-1} /\ seen'[t] \in Nat \cup {-1}
        /\ seen[t] <= seen'[t] /\ top \in Nat /\ top' \in Nat
    BY <1>2, <1>3, <1>6 DEF Gains, Sound, Shown
  <2>7. seen[t] >= g => seen'[t] >= g
    BY <2>6
  <2>8. ASSUME NEW n, Recoverable(n, t, g), Comes(n, t, g)
        PROVE  \/ \E p : Carries(f, p) /\ p.taskId = t /\ p.version >= g
               \/ Recoverable(n, t, g)' /\ Comes(n, t, g)'
    BY <2>8, <1>11, TakenComes DEF f
  <2>9. ASSUME NEW p, Carries(f, p), p.taskId = t, p.version >= g
        PROVE  seen'[t] >= g
    <3>1. p \in S
      BY <2>9, <1>8, <1>11
    <3>2. p.version <= seen'[t] /\ p.version \in Nat
      BY <3>1, <2>9, <1>9 DEF Gains, Named, ControllerSnapshot
    <3> QED
      BY <3>2, <2>6, <2>9
  <2>10. Informed(t, g)'
    <3>1. CASE known = instance
      <4> SUFFICES \/ seen'[t] >= g
                   \/ owed' >= g
                   \/ \E n : Recoverable(n, t, g)' /\ Comes(n, t, g)'
        BY <3>1, <1>1 DEF Informed
      <4>1. \/ seen[t] >= g
            \/ owed >= g
            \/ \E n : Recoverable(n, t, g) /\ Comes(n, t, g)
        BY <2>1, <3>1, <1>1 DEF Informed
      <4> QED
        BY <4>1, <2>7, <2>8, <2>9
    <3>2. CASE known # instance
      <4>1. PICK b \in Range(wire) :
              /\ b.kind = "state-bootstrap"
              /\ \/ known = 0 /\ seen[t] >= g
                 \/ \A l \in b.lists : l.version >= g /\ (known = 0 => top <= l.version)
                 \/ /\ \A l \in b.lists : l.version < g
                    /\ \E n : Recoverable(n, t, g) /\ Comes(n, t, g)
        BY <2>1, <3>2, <1>1 DEF Informed
      <4>2. b \in Range(wire') /\ b.lists # {}
        BY <4>1, <3>2, <1>1, <1>6 DEF Greeted
      <4>3. \A l \in b.lists : l.version \in Nat
        <5>1. \A l \in b.lists : Outstanding(l)
          BY <4>1 DEF Outstanding
        <5> QED
          BY <5>1, <1>6 DEF Truthful, WellListed, List
      <4> SUFFICES \/ known' = 0 /\ seen'[t] >= g
                   \/ \A l \in b.lists : l.version >= g /\ (known' = 0 => top' <= l.version)
                   \/ /\ \A l \in b.lists : l.version < g
                      /\ \E n : Recoverable(n, t, g)' /\ Comes(n, t, g)'
        BY <4>1, <4>2, <3>2, <1>1 DEF Informed
      <4>4. CASE known = 0 /\ seen[t] >= g
        BY <4>4, <2>7
      <4>5. CASE \A l \in b.lists : l.version >= g /\ (known = 0 => top <= l.version)
        <5>1. top' = top \/ \E s \in S : top' = s.version
          BY <1>2 DEF Gains
        <5>2. \A l \in b.lists : \A s \in S : s.version <= l.version
          BY <4>1, <4>2, <1>1, <1>7
        <5>3. \A l \in b.lists : known = 0 => top' <= l.version
          BY <5>1, <5>2, <4>5
        <5> QED
          BY <5>3, <4>5
      <4>6. CASE /\ \A l \in b.lists : l.version < g
                 /\ \E n : Recoverable(n, t, g) /\ Comes(n, t, g)
        <5>1. PICK n : Recoverable(n, t, g) /\ Comes(n, t, g)
          BY <4>6
        <5>2. ~ \E p : Carries(f, p) /\ p.taskId = t /\ p.version >= g
          <6> SUFFICES ASSUME NEW p, Carries(f, p), p.version >= g PROVE FALSE
            OBVIOUS
          <6>1. PICK l \in b.lists : l.version < g /\ l.version \in Nat /\ p.version <= l.version
            BY <4>1, <4>2, <4>3, <4>6, <1>1
          <6>2. p.version \in Nat
            BY <1>1, <1>6 DEF Truthful, Named, ControllerSnapshot
          <6> QED
            BY <6>1, <6>2, <2>6
        <5>3. Recoverable(n, t, g)' /\ Comes(n, t, g)'
          BY <5>1, <5>2, <2>8
        <5> QED
          BY <5>3, <4>6
      <4> QED
        BY <4>1, <4>4, <4>5, <4>6
    <3> QED
      BY <3>1, <3>2
  <2> QED
    BY <2>5, <2>10, <1>1
<1>12. Promised'
  <2>1. \A t \in Tasks : Held(store, t) => store'.lease[t] = store.lease[t]
    BY <1>1
  <2> QED
    BY <1>11, <1>1 DEF Promised, Held
<1> QED
  BY <1>1, <1>4, <1>5, <1>10, <1>12 DEF LInv

\* The restore is well typed once the projection is shown.
LEMMA ShownTypes ==
    ASSUME LInv, NEW q, Sound(q), Show(q),
           UNCHANGED <<restore, required>> \/ \E b \in BOOLEAN : StartRestore(b)
    PROVE  RestoreTyped' /\ restore' \in {restore, [step |-> "status"], [step |-> "snapshot"]}
<1>1. q.touched \in BOOLEAN
  BY DEF Sound, Shown
<1>2. touched' = (q.touched /\ Restoring(restore'))
  BY DEF Show
<1>3. touched' \in BOOLEAN /\ (touched' => Restoring(restore'))
  BY <1>1, <1>2, Zenon
<1>4. CASE UNCHANGED <<restore, required>>
  <2>1. RestoreTyped
    BY TypedParts DEF LInv, Typed
  <2> QED
    BY <2>1, <1>3, <1>4 DEF RestoreTyped, Restoring
<1>5. ASSUME NEW b \in BOOLEAN, StartRestore(b)
      PROVE  RestoreTyped' /\ restore' \in {restore, [step |-> "status"], [step |-> "snapshot"]}
  BY <1>3, <1>5, StartsTyped
<1> QED
  BY <1>4, <1>5

\* What the first frame tells is well formed.
LEMMA CarriedNamed ==
    ASSUME LInv, NEW kind, Receive(kind)
    PROVE  Head(wire) \in Frame /\ \A s : Carries(Head(wire), s) => Named(s)
<1>1. wire # <<>> /\ IsSeq(wire) /\ wire \in Seq(Frame) /\ Truthful
  BY DEF Receive, LInv, IInv, Typed, TypeOK
<1>2. Head(wire) \in Range(wire) /\ Range(wire) \subseteq Frame
  BY <1>1, TailHolds, SeqHolds
<1> QED
  BY <1>1, <1>2 DEF Truthful, Circulates, Frames

\* A frame that the renderer applies nothing of.
LEMMA NothingTaken ==
    ASSUME LInv
    PROVE  Gains(Projection, Projection, {})
  BY ProjectionSound, GainsNothing

\* The answer to a request of the renderer's own.
LEMMA DeliverReplyKeeps ==
    ASSUME LInv, IInv', DeliverReply
    PROVE  LInv'
<1> DEFINE f == Head(wire)
           q == ApplyChanged(Projection, f.snapshot)
<1>1. /\ Receive("reply") /\ Show(q) /\ lastSeq' = lastSeq /\ fresh' = fresh
      /\ known' = known /\ restore' = restore /\ required' = required
      /\ foreign' = foreign /\ owed' = owed /\ anchored' = anchored
  BY DEF DeliverReply, history
<1>2. Sound(Projection)
  BY ProjectionSound
<1>3. f.kind = "reply"
  BY <1>1 DEF Receive
<1>4. \A s : Carries(f, s) <=> s = f.snapshot
  BY <1>3 DEF Carries
<1>5. Named(f.snapshot)
  BY <1>1, <1>4, CarriedNamed
<1>6. Gains(Projection, q, {f.snapshot})
  BY <1>2, <1>5, ApplyOne
<1>7. Sound(q)
  BY <1>6 DEF Gains
<1>8. view' = q.view /\ seen' = q.seen /\ top' = q.top
  BY <1>1 DEF Show
<1>9. fresh \in BOOLEAN /\ foreign \in BOOLEAN /\ lastSeq \in 0 .. MaxSeq
  BY TypedParts DEF LInv, Typed, CountTyped
<1> HIDE DEF q
<1>10. RestoreTyped'
  BY <1>1, <1>7, ShownTypes
<1>11. Heard'
  BY <1>1, UncountedHeard
<1> DEFINE S == {f.snapshot}
<1>12. (\A s \in S : Carries(f, s)) /\ \A s : Carries(f, s) => s \in S
  BY <1>4
<1>13. Gains(Projection, q, S)
  BY <1>6
<1> HIDE DEF S
<1> QED
  BY <1>1, <1>8, <1>9, <1>10, <1>11, <1>12, <1>13, TakenKeeps

\* A truncation moves the number and nothing else.
LEMMA DeliverTruncatedKeeps ==
    ASSUME LInv, IInv', DeliverReplayTruncated
    PROVE  LInv'
<1> DEFINE f == Head(wire)
<1>1. /\ Receive("replay-truncated") /\ AdoptSeq(f.latestSeq) /\ StartRestore(FALSE)
      /\ view' = view /\ seen' = seen /\ top' = top /\ touched' = touched /\ fresh' = fresh
      /\ known' = known /\ owed' = owed /\ anchored' = anchored
  BY DEF DeliverReplayTruncated, projection
<1>2. f.kind = "replay-truncated" /\ Reach(f) = f.latestSeq
  BY <1>1 DEF Receive, Reach
<1>3. \A s : ~Carries(f, s)
  BY <1>2 DEF Carries
<1>4. RestoreTyped /\ fresh \in BOOLEAN
  BY TypedParts DEF LInv, Typed, CountTyped
<1>5. touched' \in BOOLEAN /\ (touched' => Restoring(restore'))
  <2>1. restore # Awaiting => restore' = restore
    BY <1>1 DEF StartRestore
  <2>2. ~Restoring(Awaiting)
    BY DEF Restoring, Awaiting
  <2> QED
    BY <2>1, <2>2, <1>1, <1>4 DEF RestoreTyped
<1>6. RestoreTyped' /\ restore' \in {restore, [step |-> "status"], [step |-> "snapshot"]}
  BY <1>1, <1>5, StartsTyped
<1>7. Heard' /\ lastSeq' \in 0 .. MaxSeq /\ foreign' \in BOOLEAN
  BY <1>1, <1>2, <1>6, AdoptedHeard
<1>8. /\ Gains(Projection, Projection, {})
      /\ view' = Projection.view /\ seen' = Projection.seen /\ top' = Projection.top
  BY <1>1, NothingTaken, ProjectionSound
<1> QED
  BY <1>1, <1>3, <1>4, <1>6, <1>7, <1>8, TakenKeeps

\* A batch moves the number and applies its events.
LEMMA DeliverBatchKeeps ==
    ASSUME LInv, IInv', DeliverReplayBatch
    PROVE  LInv'
<1> DEFINE f == Head(wire)
           q == ApplyAll(Projection, f.events)
           S == UNION {News(e.event) : e \in Range(f.events)}
<1>1. /\ Receive("control-replay-batch") /\ AdoptSeq(f.toSeq) /\ fresh' = FALSE /\ Show(q)
      /\ UNCHANGED <<restore, required>> \/ StartRestore(TRUE)
      /\ known' = known /\ owed' = owed /\ anchored' = anchored
  BY DEF DeliverReplayBatch
<1>2. f.kind = "control-replay-batch" /\ Reach(f) = f.toSeq
  BY <1>1 DEF Receive, Reach
<1>3. \A s : Carries(f, s) <=> s \in S
  <2>1. \A s : \A e : s \in News(e.event) <=> Tells(e.event, s)
    BY DEF News, Tells
  <2> QED
    BY <2>1, <1>2 DEF Carries
<1>4. f \in Frame /\ \A s \in S : Named(s)
  BY <1>1, <1>3, CarriedNamed
<1>5. IsSeq(f.events)
  BY <1>2, <1>4, FrameTyping, SeqHolds
<1>6. \A e \in Range(f.events) : \A s \in News(e.event) : Named(s)
  BY <1>4
<1>7. Gains(Projection, q, S)
  BY <1>5, <1>6, ProjectionSound, ApplyAllGains
<1>8. Sound(q)
  BY <1>7 DEF Gains
<1>9. view' = q.view /\ seen' = q.seen /\ top' = q.top
  BY <1>1 DEF Show
<1> HIDE DEF q, S
<1>10. RestoreTyped' /\ restore' \in {restore, [step |-> "status"], [step |-> "snapshot"]}
  BY <1>1, <1>8, ShownTypes
<1>11. Heard' /\ lastSeq' \in 0 .. MaxSeq /\ foreign' \in BOOLEAN
  BY <1>1, <1>2, <1>10, AdoptedHeard
<1> QED
  BY <1>1, <1>3, <1>7, <1>9, <1>10, <1>11, TakenKeeps

\* An event is applied, or was applied before.
LEMMA DeliverEventKeeps ==
    ASSUME LInv, IInv', DeliverEvent
    PROVE  LInv'
<1> DEFINE f == Head(wire)
<1>1. Receive("event") /\ known' = known /\ owed' = owed /\ anchored' = anchored
  BY DEF DeliverEvent
<1>2. f.kind = "event"
  BY <1>1 DEF Receive
<1>3. \A s : Carries(f, s) <=> s \in News(f.event)
  BY <1>2 DEF Carries, Tells, News
<1>4. \A s \in News(f.event) : Named(s)
  BY <1>1, <1>3, CarriedNamed
<1>5. /\ Sound(Projection) /\ Projection.view = view /\ Projection.seen = seen
      /\ Projection.top = top
  BY ProjectionSound
<1>6. RestoreTyped /\ fresh \in BOOLEAN
  BY TypedParts DEF LInv, Typed, CountTyped
<1>7. CASE f.seq <= LastSeqFor(f.seq)
  <2>1. /\ view' = view /\ seen' = seen /\ top' = top /\ touched' = touched /\ fresh' = fresh
        /\ restore' = restore /\ required' = required
    BY <1>7 DEF DeliverEvent, projection
  <2>2. RestoreTyped'
    BY <2>1, <1>6 DEF RestoreTyped, Restoring
  <2>3. /\ Heard' /\ lastSeq' \in 0 .. MaxSeq /\ foreign' \in BOOLEAN
        /\ anchored => f.event.topic # "controller"
    BY <2>1, <1>7, EventHeard
  <2>4. anchored => \A s : Carries(f, s) => s \in {}
    BY <2>3, <1>3 DEF News
  <2>5. Gains(Projection, Projection, {})
    BY NothingTaken
  <2> QED
    BY <2>1, <2>2, <2>3, <2>4, <2>5, <1>1, <1>5, <1>6, TakenKeeps
<1>8. CASE ~(f.seq <= LastSeqFor(f.seq))
  <2> DEFINE q == Apply(Projection, f.event)
             S == News(f.event)
  <2>1. fresh' = FALSE /\ StartRestore(TRUE) /\ Show(q)
    BY <1>8 DEF DeliverEvent
  <2>2. Gains(Projection, q, S)
    BY <1>4, <1>5, ApplyGains
  <2>3. Sound(q)
    BY <2>2 DEF Gains
  <2>4. view' = q.view /\ seen' = q.seen /\ top' = q.top
    BY <2>1 DEF Show
  <2>5. \A s : Carries(f, s) <=> s \in S
    BY <1>3
  <2> HIDE DEF q, S
  <2>6. RestoreTyped' /\ restore' \in {restore, [step |-> "status"], [step |-> "snapshot"]}
    BY <2>1, <2>3, ShownTypes
  <2>7. Heard' /\ lastSeq' \in 0 .. MaxSeq /\ foreign' \in BOOLEAN
    BY <2>6, EventHeard
  <2> QED
    BY <2>1, <2>2, <2>4, <2>5, <2>6, <2>7, <1>1, TakenKeeps
<1> QED
  BY <1>7, <1>8

-----------------------------------------------------------------------------
(* Lists. *)

\* A list that arrives makes the renderer no worse off, and as new as itself.
LEMMA ListShown ==
    ASSUME LInv, IInv', NEW list, Outstanding(list), ShowList(Projection, list),
           UNCHANGED <<server, connected, queued, wire, lastSeq, fresh, known, foreign, anchored>>,
           fetches' \subseteq fetches, restore' \in {restore, Idle}, RestoreTyped'
    PROVE  LInv'
<1> DEFINE q == Replace(Projection, list)
<1>1. /\ store' = store /\ seq' = seq /\ ring' = ring /\ instance' = instance
      /\ connected' = connected /\ queued' = queued /\ wire' = wire /\ lastSeq' = lastSeq
      /\ fresh' = fresh /\ known' = known /\ foreign' = foreign /\ anchored' = anchored
  BY DEF server
<1>2. /\ view' = q.view /\ seen' = q.seen /\ top' = q.top
      /\ owed' = owed \/ (owed' = 0 /\ Replaces(Projection, list) /\ list.version >= owed)
  BY DEF ShowList, Show
<1>3. /\ Sound(Projection) /\ Projection.view = view /\ Projection.seen = seen
      /\ Projection.top = top
  BY ProjectionSound
<1>4. /\ IInv /\ Typed /\ Truthful /\ Tracked /\ Greeted /\ Heard /\ Promised
      /\ store.version \in Nat
  BY Versions DEF LInv
<1>5. WellListed(list) /\ list.version <= store.version /\ list.version \in Nat
  BY <1>4 DEF Truthful, WellListed, List
<1>6. /\ Sound(q) /\ q.top \in {Projection.top, list.version}
      /\ Replaces(Projection, list) => q.top = list.version
  BY <1>3, <1>5, ReplaceHolds
<1> HIDE DEF q
<1>7. Frames' = Frames
  BY <1>1 DEF Frames
<1>8. \A p : Circulates(p)' => Circulates(p)
  BY <1>1, <1>7 DEF Circulates, Carries, Tells
<1>9. \A l : Outstanding(l)' => Outstanding(l)
  BY <1>1 DEF Outstanding, Idle
<1>10. Typed'
  <2>1. /\ ServerTyped /\ NetworkTyped /\ ShownTyped /\ CountTyped /\ RestoreTyped
    BY <1>4, TypedParts DEF Typed
  <2>2. ServerTyped' /\ NetworkTyped' /\ CountTyped'
    BY <2>1, <1>1, <1>2 DEF ServerTyped, NetworkTyped, CountTyped
  <2>3. ShownTyped'
    BY <1>2, <1>6 DEF ShownTyped, Sound, Shown
  <2>4. TypeOK'
    BY <2>2, <2>3, TypedPartsNext
  <2> QED
    BY <2>4, <1>1, <1>4 DEF Typed
<1>11. Truthful'
  BY <1>1, <1>4, <1>8, <1>9 DEF Truthful
<1>12. Tracked'
  <2>1. \A t \in Tasks : seen'[t] <= top'
    BY <1>2, <1>6 DEF Sound
  <2>2. anchored' /\ known' \in {0, instance'} => top' <= store'.version
    BY <1>1, <1>2, <1>3, <1>4, <1>5, <1>6 DEF Tracked
  <2> QED
    BY <2>1, <2>2 DEF Tracked
<1>13. Greeted'
  BY <1>1, <1>4 DEF Greeted, Handshake, Carries, Tells
<1>14. Heard'
  BY <1>1, <1>4, <1>7 DEF Heard, Counted
<1>15. ASSUME anchored', NEW t \in Tasks, Held(store', t)
       PROVE  \E g \in 1 .. store'.version : Told(store.lease[t], t, g)' /\ Informed(t, g)'
  <2>1. PICK g \in 1 .. store.version : Told(store.lease[t], t, g) /\ Informed(t, g)
    BY <1>1, <1>4, <1>15 DEF Promised
  <2>2. store.lease[t].clientId # None
    BY <1>1, <1>15, HolderNamed
  <2>3. ListRight(list, store.lease[t], t, g) /\ g \in Nat
    BY <2>1 DEF Told
  <2>4. ASSUME known \in {0, instance}
        PROVE  /\ Fits(q, store.lease[t], t, g)
               /\ seen[t] >= g => seen'[t] >= g
               /\ Replaces(Projection, list) /\ list.version >= g => seen'[t] >= g
    <3>1. Fits(Projection, store.lease[t], t, g)
      BY <2>1, <2>4 DEF Told
    <3>2. /\ Fits(q, store.lease[t], t, g)
          /\ Projection.seen[t] >= g => q.seen[t] >= g
          /\ Replaces(Projection, list) /\ list.version >= g => q.seen[t] >= g
      BY <3>1, <2>2, <2>3, <1>3, <1>5, ReplaceRight DEF q
    <3> QED
      BY <3>2, <1>2, <1>3
  <2>5. known' \in {0, instance'} => Fits(Projection', store.lease[t], t, g)
    <3>1. Projection'.seen = q.seen /\ Projection'.view = q.view
      BY <1>2 DEF Projection
    <3> QED
      BY <3>1, <2>4, <1>1 DEF Fits
  <2>6. Told(store.lease[t], t, g)'
    BY <2>1, <2>5, <1>1, <1>8, <1>9, ToldStays
  <2>7. \A n : (Recoverable(n, t, g)' <=> Recoverable(n, t, g)) /\ (Comes(n, t, g)' <=> Comes(n, t, g))
    BY <1>1, <1>7 DEF Recoverable, Comes, IsNews
  <2>8. /\ owed \in Nat /\ top \in Nat
    BY <1>4 DEF Typed, TypeOK
  <2>9. Informed(t, g)'
    <3>1. CASE known = instance
      <4> SUFFICES \/ seen'[t] >= g
                   \/ owed' >= g
                   \/ \E n : Recoverable(n, t, g)' /\ (connected' => Comes(n, t, g)')
        BY <3>1, <1>1 DEF Informed
      <4>1. \/ seen[t] >= g
            \/ owed >= g
            \/ \E n : Recoverable(n, t, g) /\ (connected => Comes(n, t, g))
        BY <2>1, <3>1 DEF Informed
      <4>2. CASE seen[t] >= g
        BY <4>2, <3>1, <2>4
      <4>3. CASE owed >= g
        <5>1. owed' >= g \/ (Replaces(Projection, list) /\ list.version >= g)
          BY <4>3, <1>2, <1>5, <2>3, <2>8
        <5> QED
          BY <5>1, <3>1, <2>4
      <4>4. CASE \E n : Recoverable(n, t, g) /\ (connected => Comes(n, t, g))
        BY <4>4, <2>7, <1>1
      <4> QED
        BY <4>1, <4>2, <4>3, <4>4
    <3>2. CASE known # instance
      <4> SUFFICES ASSUME connected
                   PROVE  \E b \in Range(wire) :
                            /\ b.kind = "state-bootstrap"
                            /\ \/ known = 0 /\ seen'[t] >= g
                               \/ \A l \in b.lists : l.version >= g /\ (known = 0 => top' <= l.version)
                               \/ /\ \A l \in b.lists : l.version < g
                                  /\ \E n : Recoverable(n, t, g)' /\ Comes(n, t, g)'
        BY <3>2, <1>1 DEF Informed
      <4>1. PICK b \in Range(wire) :
              /\ b.kind = "state-bootstrap"
              /\ \/ known = 0 /\ seen[t] >= g
                 \/ \A l \in b.lists : l.version >= g /\ (known = 0 => top <= l.version)
                 \/ /\ \A l \in b.lists : l.version < g
                    /\ \E n : Recoverable(n, t, g) /\ Comes(n, t, g)
        BY <2>1, <3>2 DEF Informed
      <4>2. CASE known = 0 /\ seen[t] >= g
        BY <4>1, <4>2, <2>4
      <4>3. CASE \A l \in b.lists : l.version >= g /\ (known = 0 => top <= l.version)
        <5>1. CASE known # 0
          BY <5>1, <4>1, <4>3
        <5>2. CASE known = 0 /\ top' = top
          BY <5>2, <4>1, <4>3
        <5>3. CASE known = 0 /\ top' # top
          <6>1. Replaces(Projection, list) /\ top' = list.version
            <7>1. ~Replaces(Projection, list) => q = Projection
              BY DEF Replace, q
            <7> QED
              BY <7>1, <5>3, <1>2, <1>3, <1>6
          <6>2. CASE list.version >= g
            BY <6>1, <6>2, <5>3, <4>1, <2>4
          <6>3. CASE ~(list.version >= g)
            <7>1. \A l \in b.lists : Outstanding(l)
              BY <4>1 DEF Outstanding
            <7>2. \A l \in b.lists : l.version \in Nat
              BY <7>1, <1>4 DEF Truthful, WellListed, List
            <7>3. \A l \in b.lists : top' <= l.version
              BY <7>2, <6>1, <6>3, <4>3, <2>3, <1>5
            <7> QED
              BY <7>3, <4>1, <4>3
          <6> QED
            BY <6>2, <6>3
        <5> QED
          BY <5>1, <5>2, <5>3
      <4>4. CASE /\ \A l \in b.lists : l.version < g
                 /\ \E n : Recoverable(n, t, g) /\ Comes(n, t, g)
        BY <4>1, <4>4, <2>7
      <4> QED
        BY <4>1, <4>2, <4>3, <4>4
    <3> QED
      BY <3>1, <3>2
  <2> QED
    BY <2>6, <2>9, <1>1
<1>16. Promised'
  <2>1. \A t \in Tasks : Held(store, t) => store'.lease[t] = store.lease[t]
    BY <1>1
  <2> QED
    BY <1>15, <1>1 DEF Promised, Held
<1> QED
  BY <1>10, <1>11, <1>12, <1>13, <1>14, <1>16 DEF LInv

\* A list changes only what is shown.
LEMMA ListTyped ==
    ASSUME LInv, NEW q, Sound(q), Show(q), restore' \in {restore, Idle}, required' \in BOOLEAN,
           restore' = restore => required' = required
    PROVE  RestoreTyped'
<1>1. q.touched \in BOOLEAN /\ RestoreTyped
  BY TypedParts DEF Sound, Shown, LInv, Typed
<1>2. touched' = (q.touched /\ Restoring(restore'))
  BY DEF Show
<1>3. touched' \in BOOLEAN /\ (touched' => Restoring(restore'))
  BY <1>1, <1>2, Zenon
<1> QED
  BY <1>1, <1>3 DEF RestoreTyped, Idle

\* A list of a dead instance gets something stuck, unless the renderer rejects it or is
\* still to reset its tracking.
LEMMA DeadListShown ==
    ASSUME LInv, IInv', NEW list, WellListed(list), Show(Replace(Projection, list)),
           UNCHANGED <<server, connected, queued, wire, lastSeq, fresh, known, foreign, owed>>,
           fetches' \subseteq fetches, restore' = restore, RestoreTyped',
           anchored' = (anchored /\ (Replaces(Projection, list) => known \notin {0, instance}))
    PROVE  LInv'
<1> DEFINE q == Replace(Projection, list)
<1>1. /\ store' = store /\ seq' = seq /\ ring' = ring /\ instance' = instance
      /\ connected' = connected /\ queued' = queued /\ wire' = wire /\ lastSeq' = lastSeq
      /\ fresh' = fresh /\ known' = known /\ foreign' = foreign /\ owed' = owed
  BY DEF server
<1>2. view' = q.view /\ seen' = q.seen /\ top' = q.top
  BY DEF Show
<1>3. /\ Sound(Projection) /\ Projection.view = view /\ Projection.seen = seen
      /\ Projection.top = top
  BY ProjectionSound
<1>4. IInv /\ Typed /\ Truthful /\ Tracked /\ Greeted /\ Heard /\ Promised
  BY DEF LInv
<1>5. Sound(q)
  BY <1>3, ReplaceHolds
<1>6. ~Replaces(Projection, list) => q = Projection
  BY DEF Replace
<1> HIDE DEF q
<1>7. anchored' => anchored /\ (known \in {0, instance} => q = Projection)
  BY <1>6, Zenon
<1>8. Frames' = Frames
  BY <1>1 DEF Frames
<1>9. \A p : Circulates(p)' => Circulates(p)
  BY <1>1, <1>8 DEF Circulates, Carries, Tells
<1>10. \A l : Outstanding(l)' => Outstanding(l)
  BY <1>1 DEF Outstanding
<1>11. Typed'
  <2>1. /\ ServerTyped /\ NetworkTyped /\ ShownTyped /\ CountTyped
    BY <1>4, TypedParts DEF Typed
  <2>2. anchored' \in BOOLEAN
    OBVIOUS
  <2>3. ServerTyped' /\ NetworkTyped' /\ CountTyped'
    BY <2>1, <2>2, <1>1 DEF ServerTyped, NetworkTyped, CountTyped
  <2>4. ShownTyped'
    BY <1>2, <1>5 DEF ShownTyped, Sound, Shown
  <2>5. TypeOK'
    BY <2>3, <2>4, TypedPartsNext
  <2> QED
    BY <2>5, <1>1, <1>4 DEF Typed
<1>12. Truthful'
  BY <1>1, <1>4, <1>9, <1>10 DEF Truthful
<1>13. Tracked'
  BY <1>1, <1>2, <1>3, <1>4, <1>5, <1>7 DEF Tracked, Sound
<1>14. Greeted'
  BY <1>1, <1>4 DEF Greeted, Handshake, Carries, Tells
<1>15. Heard'
  BY <1>1, <1>4, <1>7, <1>8 DEF Heard, Counted
<1>16. ASSUME anchored', NEW t \in Tasks, Held(store', t)
       PROVE  \E g \in 1 .. store'.version : Told(store.lease[t], t, g)' /\ Informed(t, g)'
  <2>1. PICK g \in 1 .. store.version : Told(store.lease[t], t, g) /\ Informed(t, g)
    BY <1>1, <1>4, <1>7, <1>16 DEF Promised
  <2>2. known \in {0, instance} => view' = view /\ seen' = seen /\ top' = top
    BY <1>2, <1>3, <1>7, <1>16
  <2>3. known' \in {0, instance'} => Fits(Projection', store.lease[t], t, g)
    BY <2>1, <2>2, <1>1, <1>3 DEF Told, Fits, Projection
  <2>4. Told(store.lease[t], t, g)'
    BY <2>1, <2>3, <1>1, <1>9, <1>10, ToldStays
  <2>5. \A n : (Recoverable(n, t, g)' <=> Recoverable(n, t, g)) /\ (Comes(n, t, g)' <=> Comes(n, t, g))
    BY <1>1, <1>8 DEF Recoverable, Comes, IsNews
  <2>6. Informed(t, g)'
    BY <2>1, <2>2, <2>5, <1>1 DEF Informed
  <2> QED
    BY <2>4, <2>6, <1>1
<1>17. Promised'
  <2>1. \A t \in Tasks : Held(store, t) => store'.lease[t] = store.lease[t]
    BY <1>1
  <2> QED
    BY <1>16, <1>1 DEF Promised, Held
<1> QED
  BY <1>11, <1>12, <1>13, <1>14, <1>15, <1>17 DEF LInv

\* A list that was fetched.
LEMMA DeliverListKeeps ==
    ASSUME LInv, Fetched, IInv', NEW fetch \in fetches, DeliverList(fetch)
    PROVE  LInv'
<1> DEFINE list == fetch.list
           q == Replace(Projection, list)
<1>1. /\ Show(q) /\ fetches' \subseteq fetches
      /\ UNCHANGED <<server, connected, queued, wire, lastSeq, fresh, known, foreign>>
      /\ restore' = restore /\ required' = required
  BY DEF DeliverList
<1>2. IF fetch.instance = instance
      THEN ShowList(Projection, list) /\ anchored' = anchored
      ELSE /\ owed' = owed
           /\ anchored' = (anchored /\ (Replaces(Projection, list) => known \notin {0, instance}))
  <2>1. anchored \in BOOLEAN
    BY DEF LInv, Typed, TypeOK
  <2> QED
    BY <2>1 DEF DeliverList, ShowList
<1>3. WellListed(list)
  BY DEF Fetched
<1>4. Sound(q)
  BY <1>3, ProjectionSound, ReplaceHolds
<1> HIDE DEF q
<1>5. required \in BOOLEAN
  BY DEF LInv, Typed, TypeOK
<1>6. RestoreTyped'
  BY <1>1, <1>4, <1>5, ListTyped
<1>7. fetch.instance = instance => Outstanding(list)
  BY DEF Outstanding
<1> HIDE DEF list
<1>8. CASE fetch.instance = instance
  BY <1>1, <1>2, <1>6, <1>7, <1>8, ListShown
<1>9. CASE fetch.instance # instance
  BY <1>1, <1>2, <1>3, <1>6, <1>9, DeadListShown DEF q
<1> QED
  BY <1>8, <1>9

\* The list a restore ends with, unless an update overtook it.
LEMMA RestoreListKeeps ==
    ASSUME LInv, IInv', RestoreList
    PROVE  LInv'
<1>1. /\ restore.step = "list" /\ restore' = Idle /\ required' \in BOOLEAN
      /\ UNCHANGED <<server, network, lastSeq, fresh, known, foreign, anchored>>
      /\ connected' = connected /\ queued' = queued /\ wire' = wire /\ fetches' = fetches
  BY DEF RestoreList, network
<1>2. Outstanding(restore.list)
  BY <1>1 DEF Outstanding
<1>3. WellListed(restore.list)
  BY <1>2 DEF LInv, Truthful
<1>4. RestoreTyped
  BY TypedParts DEF LInv, Typed
<1>5. restore' = restore => required' = required
  BY <1>1 DEF Idle
<1>6. CASE ~touched
  <2> DEFINE q == Replace(Projection, restore.list)
  <2>1. ShowList(Projection, restore.list) /\ Show(q)
    BY <1>6 DEF RestoreList, ShowList
  <2>2. Sound(q)
    BY <1>3, ProjectionSound, ReplaceHolds
  <2> HIDE DEF q
  <2>3. RestoreTyped'
    BY <2>1, <2>2, <1>1, <1>5, ListTyped
  <2> QED
    BY <2>1, <2>3, <1>1, <1>2, ListShown
<1>7. CASE touched
  <2>1. Show(Projection) /\ owed' = owed
    BY <1>7 DEF RestoreList
  <2>2. RestoreTyped'
    BY <2>1, <1>1, <1>5, ProjectionSound, ListTyped
  <2>3. view' = view /\ seen' = seen /\ top' = top
    BY <2>1, ProjectionSound DEF Show
  <2>4. NetworkTyped'
    BY <1>1, TypedParts DEF LInv, Typed, NetworkTyped
  <2>5. \A l : Outstanding(l)' => Outstanding(l)
    BY <1>1 DEF Outstanding, Idle, server
  <2>6. store' = store /\ StoreStep(store, store')
    BY <1>1, Versions, StutterStep DEF server
  <2>7. \A u \in Tasks : Held(store', u) => SameHolder(store, store', u)
    BY <2>6 DEF SameHolder
  <2>8. UNCHANGED <<seq, ring, instance, connected, queued, wire, view, seen, top, lastSeq,
                    fresh, known, history>>
    BY <2>1, <2>3, <1>1 DEF server, history
  <2> DEFINE M == {}
  <2>9. \A l \in M : FALSE
    OBVIOUS
  <2> HIDE DEF M
  <2> QED
    BY <2>2, <2>4, <2>5, <2>6, <2>7, <2>8, <2>9, <1>1, SilentKeeps
<1> QED
  BY <1>6, <1>7

\* What is left of the projection of another instance is sound.
LEMMA TrackingHolds ==
    ASSUME LInv
    PROVE  LET p == Tracking(instance) IN
           /\ Sound(p)
           /\ known \in {0, instance} => p = Projection
           /\ known \notin {0, instance} => p.top = 0 /\ \A t \in Tasks : p.seen[t] = -1
<1> DEFINE p == Tracking(instance)
<1>1. Sound(Projection)
  BY ProjectionSound
<1>2. CASE known \in {0, instance}
  BY <1>1, <1>2 DEF Tracking
<1>3. CASE known \notin {0, instance}
  <2>1. p = [Projection EXCEPT !.seen = [t \in Tasks |-> -1], !.top = 0]
    BY <1>3 DEF Tracking
  <2>2. /\ Projection \in Shown
        /\ Projection.view \in [Tasks -> Controller \cup {None}] /\ Projection.touched \in BOOLEAN
    BY <1>1 DEF Sound, Shown
  <2>3. p = [view |-> Projection.view, seen |-> [t \in Tasks |-> -1], top |-> 0,
             touched |-> Projection.touched]
    BY <2>1 DEF Projection
  <2> HIDE DEF p
  <2>4. [t \in Tasks |-> -1] \in [Tasks -> Nat \cup {-1}]
    OBVIOUS
  <2>5. p \in Shown
    BY <2>2, <2>3, <2>4 DEF Shown
  <2>6. p.top = 0 /\ \A t \in Tasks : p.seen[t] = -1
    BY <2>3
  <2>7. Sound(p)
    BY <2>5, <2>6 DEF Sound
  <2> QED
    BY <2>6, <2>7, <1>3 DEF p
<1> QED
  BY <1>2, <1>3

\* The bootstrap tells the renderer of the instance, and makes it as new as its list.
LEMMA DeliverBootstrapKeeps ==
    ASSUME LInv, IInv', DeliverBootstrap
    PROVE  LInv'
<1> DEFINE f == Head(wire)
           p == Tracking(instance)
<1>1. /\ Receive("state-bootstrap") /\ known' = f.instance /\ StartRestore(~fresh)
      /\ lastSeq' = lastSeq /\ fresh' = fresh /\ foreign' = foreign /\ anchored' = anchored
      /\ \/ f.lists = {} /\ Show(Tracking(f.instance)) /\ owed' = owed
         \/ f.lists # {} /\ \E list \in f.lists : ShowList(Tracking(f.instance), list)
  BY DEF DeliverBootstrap
<1>2. /\ IInv /\ Typed /\ Truthful /\ Tracked /\ Greeted /\ Heard /\ Promised
      /\ store.version \in Nat
  BY Versions DEF LInv
<1>3. f.kind = "state-bootstrap" /\ f \in Range(wire)
  <2>1. wire # <<>> /\ IsSeq(wire)
    BY <1>1, <1>2 DEF Receive, IInv
  <2> QED
    BY <2>1, <1>1, TailHolds DEF Receive
<1>4. f.instance = instance /\ (known # instance => f.lists # {})
  BY <1>2, <1>3 DEF Greeted
<1>5. \A l \in f.lists : Outstanding(l)
  BY <1>3 DEF Outstanding
<1>6. \A l \in f.lists : WellListed(l) /\ l.version <= store.version /\ l.version \in Nat
  BY <1>2, <1>5 DEF Truthful, WellListed, List
<1>7. /\ Sound(p)
      /\ known \in {0, instance} => p = Projection
      /\ known \notin {0, instance} => p.top = 0 /\ \A t \in Tasks : p.seen[t] = -1
  BY TrackingHolds
<1>8. /\ Sound(Projection) /\ Projection.view = view /\ Projection.seen = seen
      /\ Projection.top = top
  BY ProjectionSound
<1>9. PICK q :
        /\ Show(q)
        /\ \/ f.lists = {} /\ q = p /\ owed' = owed
           \/ \E l \in f.lists :
                 /\ q = Replace(p, l)
                 /\ owed' = IF Replaces(p, l) /\ l.version >= owed THEN 0 ELSE owed
  BY <1>1, <1>4 DEF ShowList
<1> HIDE DEF p, f
<1>10. Sound(q)
  BY <1>6, <1>7, <1>9, ReplaceHolds
<1>11. view' = q.view /\ seen' = q.seen /\ top' = q.top
  BY <1>9 DEF Show
<1>12. RestoreTyped' /\ restore' \in {restore, [step |-> "status"], [step |-> "snapshot"]}
  BY <1>1, <1>9, <1>10, ShownTypes
<1>13. /\ connected /\ connected' = connected /\ Range(wire) = Range(wire') \cup {f}
       /\ queued' = queued /\ store' = store /\ instance' = instance
       /\ Handshake(wire') /\ (\A x \in Range(wire') : x.kind # "state-bootstrap")
       /\ \A s : Circulates(s)' => Circulates(s)
       /\ \A l : Outstanding(l)' => Outstanding(l)
       /\ Truthful'
  BY <1>1, <1>12, Taken DEF f
<1>14. known' = instance /\ known' = instance'
  BY <1>1, <1>4, <1>13
<1>15. owed' \in {owed, 0}
  BY <1>9
<1>16. Typed'
  <2>1. fresh \in BOOLEAN /\ foreign \in BOOLEAN /\ lastSeq \in 0 .. MaxSeq
    BY <1>2, TypedParts DEF Typed, CountTyped
  <2> QED
    BY <2>1, <1>1, <1>10, <1>11, <1>12, <1>14, <1>15, TakenTyped
<1>17. Greeted'
  BY <1>2, <1>13, <1>14 DEF Greeted, Handshake, Carries, Tells
<1>18. Heard'
  BY <1>1, <1>12, UncountedHeard
<1>19. Tracked'
  <2>1. \A t \in Tasks : seen'[t] <= top'
    BY <1>10, <1>11 DEF Sound
  <2>2. top' = p.top \/ \E l \in f.lists : top' = l.version
    BY <1>6, <1>7, <1>9, <1>11, ReplaceHolds
  <2>3. anchored => p.top <= store.version
    <3>1. CASE known \in {0, instance}
      BY <3>1, <1>2, <1>7, <1>8 DEF Tracked
    <3>2. CASE known \notin {0, instance}
      BY <3>2, <1>2, <1>7
    <3> QED
      BY <3>1, <3>2
  <2> QED
    BY <2>1, <2>2, <2>3, <1>1, <1>6, <1>13 DEF Tracked
<1>20. ASSUME anchored', NEW t \in Tasks, Held(store', t)
       PROVE  \E g \in 1 .. store'.version : Told(store.lease[t], t, g)' /\ Informed(t, g)'
  <2>1. PICK g \in 1 .. store.version : Told(store.lease[t], t, g) /\ Informed(t, g)
    BY <1>1, <1>2, <1>13, <1>20 DEF Promised
  <2>2. store.lease[t].clientId # None /\ g \in Nat /\ g # 0 /\ owed \in Nat
    BY <1>2, <1>13, <1>20, HolderNamed DEF Typed, TypeOK
  <2>3. Fits(p, store.lease[t], t, g)
    <3>1. CASE known \in {0, instance}
      BY <3>1, <2>1, <1>7 DEF Told
    <3>2. CASE known \notin {0, instance}
      BY <3>2, <2>2, <1>7 DEF Fits
    <3> QED
      BY <3>1, <3>2
  <2>4. \A l \in f.lists : ListRight(l, store.lease[t], t, g)
    BY <2>1, <1>5 DEF Told
  <2>5. \A l \in f.lists :
           /\ Fits(Replace(p, l), store.lease[t], t, g)
           /\ p.seen[t] >= g => Replace(p, l).seen[t] >= g
           /\ Replaces(p, l) /\ l.version >= g => Replace(p, l).seen[t] >= g
    BY <2>2, <2>3, <2>4, <1>6, <1>7, ReplaceRight
  <2>6. Fits(q, store.lease[t], t, g) /\ (p.seen[t] >= g => seen'[t] >= g)
    BY <2>3, <2>5, <1>9, <1>11
  <2>7. known' \in {0, instance'} => Fits(Projection', store.lease[t], t, g)
    <3>1. Projection'.seen = q.seen /\ Projection'.view = q.view
      BY <1>11 DEF Projection
    <3> QED
      BY <3>1, <2>6 DEF Fits
  <2>8. Told(store.lease[t], t, g)'
    BY <2>1, <2>7, <1>13, ToldStays
  <2>9. known \in {0, instance} /\ seen[t] >= g => seen'[t] >= g
    BY <2>6, <1>7, <1>8
  <2>10. ASSUME NEW n, Recoverable(n, t, g), Comes(n, t, g)
         PROVE  Recoverable(n, t, g)' /\ Comes(n, t, g)'
    <3>1. ~ \E s : Carries(f, s) /\ s.taskId = t /\ s.version >= g
      BY <1>3 DEF Carries
    <3> QED
      BY <3>1, <2>10, <1>1, <1>12, <1>18, <1>20, TakenComes DEF f
  <2> SUFFICES \/ seen'[t] >= g
               \/ owed' >= g
               \/ \E n : Recoverable(n, t, g)' /\ Comes(n, t, g)'
    BY <2>1, <2>8, <1>13, <1>14 DEF Informed
  <2>11. CASE known = instance
    <3>1. \/ seen[t] >= g
          \/ owed >= g
          \/ \E n : Recoverable(n, t, g) /\ Comes(n, t, g)
      BY <2>1, <2>11, <1>13 DEF Informed
    <3>2. CASE owed >= g
      <4>1. owed' = owed \/ \E l \in f.lists : q = Replace(p, l) /\ Replaces(p, l) /\ l.version >= owed
        BY <1>9
      <4>2. ASSUME NEW l \in f.lists, q = Replace(p, l), Replaces(p, l), l.version >= owed
            PROVE  seen'[t] >= g
        <5>1. l.version >= g
          BY <4>2, <3>2, <2>2, <1>6
        <5> QED
          BY <5>1, <4>2, <2>5, <1>11
      <4> QED
        BY <4>1, <4>2, <3>2
    <3> QED
      BY <3>1, <3>2, <2>9, <2>10, <2>11
  <2>12. CASE known # instance
    <3>1. PICK b \in Range(wire) :
            /\ b.kind = "state-bootstrap"
            /\ \/ known = 0 /\ seen[t] >= g
               \/ \A l \in b.lists : l.version >= g /\ (known = 0 => top <= l.version)
               \/ /\ \A l \in b.lists : l.version < g
                  /\ \E n : Recoverable(n, t, g) /\ Comes(n, t, g)
      BY <2>1, <2>12, <1>13 DEF Informed
    <3>2. b = f
      BY <3>1, <1>13
    <3>3. PICK l \in f.lists : q = Replace(p, l)
      BY <2>12, <1>4, <1>9
    <3>4. CASE \A x \in b.lists : x.version >= g /\ (known = 0 => top <= x.version)
      <4>1. l.version >= g /\ (known = 0 => top <= l.version)
        BY <3>2, <3>3, <3>4
      <4>2. Replaces(p, l)
        <5>1. CASE known = 0
          <6>1. p.top <= l.version /\ p.top \in Nat
            BY <5>1, <4>1, <1>7, <1>8 DEF Sound, Shown
          <6> QED
            BY <6>1, <3>3, <1>6 DEF Replaces
        <5>2. CASE known # 0
          BY <5>2, <2>12, <3>3, <1>6, <1>7 DEF Replaces
        <5> QED
          BY <5>1, <5>2
      <4> QED
        BY <4>1, <4>2, <3>3, <2>5, <1>11
    <3> QED
      BY <3>1, <3>4, <2>9, <2>10
  <2> QED
    BY <2>11, <2>12
<1>21. Promised'
  <2>1. \A t \in Tasks : Held(store, t) => store'.lease[t] = store.lease[t]
    BY <1>13
  <2> QED
    BY <1>20, <1>13 DEF Promised, Held
<1> QED
  BY <1>13, <1>16, <1>17, <1>18, <1>19, <1>21 DEF LInv

-----------------------------------------------------------------------------
(* The promise. *)

\* Nothing is promised of an empty table.
LEMMA InitPromises == Init => LInv
<1> SUFFICES ASSUME Init PROVE LInv
  OBVIOUS
<1>1. /\ store = EmptyStore /\ seq = 0 /\ ring = <<>> /\ instance = 1 /\ connected = FALSE
      /\ queued = <<>> /\ wire = <<>> /\ fetches = {} /\ view = [t \in Tasks |-> None]
      /\ seen = [t \in Tasks |-> -1] /\ top = 0 /\ lastSeq = 0 /\ fresh = TRUE /\ known = 0
      /\ restore = Cold /\ required = FALSE /\ touched = FALSE /\ foreign = FALSE /\ owed = 0
      /\ anchored = TRUE
  BY DEF Init
<1>2. Range(<<>>) = {} /\ Len(<<>>) = 0
  BY EmptyHolds
<1>3. EmptyStore \in Store /\ Current(EmptyStore) /\ EmptyStore.version = 0
      /\ \A t \in Tasks : ~Held(EmptyStore, t)
  <2>1. EmptyStore \in Store
    BY DEF EmptyStore, Store
  <2>2. \A t \in Tasks : EmptyStore.lease[t] = None
    BY DEF EmptyStore
  <2> QED
    BY <2>1, <2>2 DEF Current, Held, EmptyStore
<1>4. Typed
  <2>1. <<>> \in Seq(Frame) /\ <<>> \in Seq(Entry) /\ Len(<<>>) <= RingSize
    BY <1>2, ProjectionAssumption
  <2>2. 0 \in 0 .. MaxSeq /\ 1 \in 1 .. MaxInstance /\ 0 \in 0 .. MaxInstance
    BY ProjectionAssumption
  <2>3. ServerTyped /\ NetworkTyped
    BY <2>1, <2>2, <1>1, <1>3 DEF ServerTyped, NetworkTyped
  <2>4. ShownTyped /\ CountTyped
    BY <2>2, <1>1 DEF ShownTyped, CountTyped
  <2>5. RestoreTyped
    BY <1>1 DEF RestoreTyped, Cold
  <2> QED
    BY <2>3, <2>4, <2>5, <1>1, <1>3, TypedParts DEF Typed
<1>5. \A p : ~Circulates(p)
  BY <1>1, <1>2 DEF Circulates, Frames
<1>6. \A l : ~Outstanding(l)
  BY <1>1, <1>2 DEF Outstanding, Cold
<1>7. Truthful /\ Tracked
  BY <1>1, <1>3, <1>5, <1>6 DEF Truthful, Tracked
<1>8. Greeted /\ Heard
  <2>1. Handshake(wire)
    BY <1>1, <1>2 DEF Handshake
  <2> QED
    BY <2>1, <1>1, <1>2 DEF Greeted, Heard
<1>9. Promised
  BY <1>1, <1>3 DEF Promised
<1> QED
  BY <1>4, <1>7, <1>8, <1>9, InitHolds DEF LInv

\* Every step keeps what was promised.
LEMMA NextKeeps == LInv /\ Fetched /\ [Next]_vars => LInv'
<1> SUFFICES ASSUME LInv, Fetched, [Next]_vars PROVE LInv'
  OBVIOUS
<1>1. IInv'
  BY StepKeeps DEF LInv
<1>2. CASE UNCHANGED vars
  <2>1. /\ UNCHANGED <<seq, ring, instance, connected, queued, wire, view, seen, top, lastSeq,
                       fresh, known, history>>
        /\ store' = store /\ fetches' = fetches /\ restore' = restore
        /\ touched' = touched /\ required' = required
    BY <1>2 DEF vars, server, network, projection, client
  <2>2. StoreStep(store, store')
    BY <2>1, Versions, StutterStep
  <2>3. NetworkTyped /\ RestoreTyped /\ (~connected => restore \in {Cold, Idle})
    BY TypedParts DEF LInv, Typed
  <2>4. NetworkTyped' /\ RestoreTyped' /\ (~connected => restore' \in {Cold, Idle})
    BY <2>1, <2>3 DEF NetworkTyped, RestoreTyped, Restoring
  <2>5. \A l : Outstanding(l)' => Outstanding(l)
    BY <2>1 DEF Outstanding
  <2>6. \A u \in Tasks : Held(store', u) => SameHolder(store, store', u)
    BY <2>1 DEF SameHolder
  <2> DEFINE M == {}
  <2>7. \A l \in M : FALSE
    OBVIOUS
  <2> HIDE DEF M
  <2> QED
    BY <1>1, <2>1, <2>2, <2>4, <2>5, <2>6, <2>7, SilentKeeps
<1>3. CASE Deliver
  BY <1>1, <1>3, DeliverEventKeeps, DeliverBatchKeeps, DeliverTruncatedKeeps,
     DeliverBootstrapKeeps, DeliverReplyKeeps DEF Deliver
<1>4. CASE Restore
  BY <1>1, <1>4, RestoringKeeps, ListingKeeps, RestoreListKeeps DEF Restore
<1>5. ASSUME NEW fetch \in fetches, DeliverList(fetch) \/ LoseList(fetch) PROVE LInv'
  BY <1>1, <1>5, DeliverListKeeps, RestoringKeeps
<1>6. ASSUME NEW t \in Tasks, NEW c \in Clients, NEW o \in Owners,
             \/ \E a \in Actions, takeover \in BOOLEAN :
                   AcquireTaskCommandLease(t, c, o, a, takeover)
             \/ RenewTaskCommandLease(t, c, o)
             \/ ReleaseTaskCommandLease(t, c, o)
             \/ \E d \in Clients, a \in Actions : ReleaseToRequester(t, c, o, d, a)
      PROVE  LInv'
  BY <1>1, <1>6, AcquireKeeps, RenewKeeps, ReleaseKeeps, HandoverKeeps
<1>7. ASSUME NEW order \in KeyOrders,
             PruneExpiredTaskCommandLeases(order) \/ GetTaskCommandControllers(order) \/ Connect(order)
      PROVE  LInv'
  BY <1>1, <1>7, PruneKeeps, ListingKeeps, ConnectKeeps
<1>8. CASE (\E t \in Tasks : ReadTaskCommandLease(t)) \/ BroadcastOther \/ Tick
             \/ FlushClientBatch \/ Disconnect \/ Restart
  BY <1>1, <1>8, TableKeeps, OtherKeeps, FlushKeeps, DisconnectKeeps, RestartKeeps
<1> QED
  BY <1>2, <1>3, <1>4, <1>5, <1>6, <1>7, <1>8 DEF Next

\* A list is as new as the table it is taken from, which only grows older with it.
LEMMA FetchedKeeps == LInv /\ Fetched /\ [Next]_vars => Fetched'
<1> SUFFICES ASSUME LInv, Fetched, [Next]_vars PROVE Fetched'
  OBVIOUS
<1>1. instance \in Nat
  BY ProjectionAssumption DEF LInv, Typed, TypeOK
<1>2. ASSUME NEW order \in KeyOrders, GetTaskCommandControllers(order) PROVE Fetched'
  <2> DEFINE list == Controllers(store, order)
             l == [version |-> list.version, snapshots |-> list.snapshots]
  <2>1. WellListed(l)
    BY Versions, ControllersRight
  <2>2. instance' = instance /\ fetches' = fetches \cup {[instance |-> instance, list |-> l]}
    BY <1>2 DEF GetTaskCommandControllers
  <2> HIDE DEF l
  <2> QED
    BY <2>1, <2>2, <1>1 DEF Fetched, WellListed, Named
<1>3. CASE Restart
  <2>1. instance' = instance + 1 /\ fetches' = fetches
    BY <1>3 DEF Restart
  <2>2. \A f \in fetches : f.instance \in Nat
    BY ProjectionAssumption DEF LInv, Typed, TypeOK, Fetch
  <2> QED
    BY <2>1, <2>2, <1>1 DEF Fetched, WellListed, Named
<1>4. CASE instance' = instance /\ fetches' \subseteq fetches
  BY <1>4 DEF Fetched, WellListed, Named
<1>5. CASE Deliver
  BY <1>4, <1>5 DEF Deliver, DeliverEvent, DeliverReplayBatch, DeliverReplayTruncated,
     DeliverBootstrap, DeliverReply, Receive, server
<1>6. CASE Restore
  BY <1>4, <1>6 DEF Restore, AnswerStatus, CheckStatus, AnswerSnapshot, RestoreList, RestoreFails,
     server, network
<1>7. ASSUME NEW fetch \in fetches, DeliverList(fetch) \/ LoseList(fetch) PROVE Fetched'
  BY <1>4, <1>7 DEF DeliverList, LoseList, server
<1>8. ASSUME NEW t \in Tasks, NEW c \in Clients, NEW o \in Owners,
             \/ \E a \in Actions, takeover \in BOOLEAN :
                   AcquireTaskCommandLease(t, c, o, a, takeover)
             \/ RenewTaskCommandLease(t, c, o)
             \/ ReleaseTaskCommandLease(t, c, o)
             \/ \E d \in Clients, a \in Actions : ReleaseToRequester(t, c, o, d, a)
      PROVE  Fetched'
  BY <1>4, <1>8 DEF AcquireTaskCommandLease, RenewTaskCommandLease, ReleaseTaskCommandLease,
     ReleaseToRequester, Serve
<1>9. ASSUME NEW order \in KeyOrders, PruneExpiredTaskCommandLeases(order) \/ Connect(order)
      PROVE  Fetched'
  BY <1>4, <1>9 DEF PruneExpiredTaskCommandLeases, Connect
<1>10. CASE \/ \E t \in Tasks : ReadTaskCommandLease(t)
            \/ BroadcastOther \/ Tick \/ FlushClientBatch \/ Disconnect
  BY <1>4, <1>10 DEF ReadTaskCommandLease, BroadcastOther, Tick, FlushClientBatch, Disconnect,
     server, network
<1>11. CASE UNCHANGED vars
  BY <1>4, <1>11 DEF vars, server, network
<1> QED
  BY <1>2, <1>3, <1>5, <1>6, <1>7, <1>8, <1>9, <1>10, <1>11 DEF Next

\* The promise is kept: for every live lease there is a version from which on everything
\* of this instance on its way tells of its holder, and which the renderer has reached or
\* will.  A list of a dead instance on its way is well-formed, and breaks the promise only
\* where anchored says so.
THEOREM PromiseKept == Spec => [](LInv /\ Fetched)
<1>1. Init => Fetched
  BY DEF Init, Fetched
<1> QED
  BY <1>1, InitPromises, NextKeeps, FetchedKeeps, PTL DEF Spec

\* Every variable of the control stream and of the projection keeps its type.
THEOREM TypeCorrect == Spec => []TypeOK
<1>1. LInv => TypeOK
  BY DEF LInv, Typed
<1> QED
  BY <1>1, PromiseKept, PTL

\* A renderer that has received everything shows the holder of every live lease
\* (task-command-controllers.ts), whatever order events, replies, bootstraps, fetched and
\* restored lists came in, and whatever was lost with a connection or with the server.
THEOREM ControllersKnown == Spec => []LiveControllerKnown
<1>1. LInv => LiveControllerKnown
  <2> SUFFICES ASSUME LInv, Quiet, owed = 0, anchored, NEW t \in Tasks, Held(store, t)
               PROVE  Shows(t)
    BY DEF LiveControllerKnown, LiveControllersShown
  <2>1. connected /\ Frames = {} /\ Range(wire) = {}
    BY EmptyHolds DEF Quiet, Frames
  <2>2. known = instance
    BY <2>1 DEF LInv, Greeted
  <2>3. PICK g \in 1 .. store.version : Told(store.lease[t], t, g) /\ Informed(t, g)
    BY DEF LInv, Promised
  <2>4. g \in Nat \ {0}
    BY Versions
  <2>5. seen[t] >= g
    BY <2>1, <2>2, <2>3, <2>4 DEF Informed, Comes
  <2>6. Fits(Projection, store.lease[t], t, g)
    BY <2>2, <2>3 DEF Told
  <2> QED
    BY <2>5, <2>6, ProjectionSound DEF Fits, Right, Shows
<1> QED
  BY <1>1, PromiseKept, PTL

===============================================================================
