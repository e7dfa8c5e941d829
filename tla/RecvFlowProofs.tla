--------------------------- MODULE RecvFlowProofs ---------------------------
(***************************************************************************)
(* Proofs about RecvFlow for every set of streams, every configuration and *)
(* any number of frames under way.                                         *)
(*                                                                         *)
(* The inductive invariant is RecvInv.  ConWindowMatches is its part for   *)
(* the connection; a stream needs more, because its window moves when the  *)
(* SETTINGS frame and its acknowledgment pass the frames under way:        *)
(* Balanced says what the window of the peer is at each moment of that     *)
(* exchange, FitsIn that each DATA frame fits into the window it will find *)
(* when it arrives, behind the acknowledgment or ahead of it.  The other   *)
(* parts give the order of the frames these two rest on (headers first, the*)
(* last DATA frame last, one SETTINGS frame, one acknowledgment).          *)
(*                                                                         *)
(* Sums over queues and over streams are recursive functions; the lemmas   *)
(* on them take the least index at which a claim fails.                    *)
(***************************************************************************)
EXTENDS RecvFlow, FiniteSetTheorems, SequenceTheorems, WellFoundedInduction, TLAPS

USE RecvFlowAssumption

InFrame ==
    [kind : {"headers"}, id : Streams]
        \union [kind : {"ack"}, id : {Con}]
        \union {f \in [kind : {"data"}, id : Streams, len : Nat, pad : Nat, eof : BOOLEAN] : f.pad <= f.len}

OutFrame ==
    [kind : {"headers", "rst"}, id : Streams]
        \union [kind : {"settings"}, id : {Con}]
        \union [kind : {"update"}, id : Streams \union {Con}, inc : Nat]

Frames == InFrame \union OutFrame

\* the frame is of this kind and for this stream
Is(f, kind, id) == f.kind = kind /\ f.id = id

\* such a frame is under way
Has(q, kind, id) == \E k \in 1 .. Len(q) : Is(q[k], kind, id)

\* the last DATA frame of the stream is under way
HasEof(q, id) == \E k \in 1 .. Len(q) : Is(q[k], "data", id) /\ q[k].eof

\* the headers of a stream are under way once, ahead of its frames of this kind
HeadersFirst(q, kind) ==
    \A j, k \in 1 .. Len(q) :
        q[j].kind \in {"headers", kind} /\ Is(q[k], "headers", q[j].id) => k <= j

\* no DATA frame follows the last one
EofLast(q) ==
    \A j, k \in 1 .. Len(q) :
        q[k].kind = "data" /\ q[k].eof /\ Is(q[j], "data", q[k].id) => j <= k

\* the settings are the first frame, until the peer applies them
SettingsFirst(q, applied) ==
    /\ ~applied => q # <<>> /\ q[1].kind = "settings"
    /\ \A k \in 1 .. Len(q) : q[k].kind = "settings" => k = 1 /\ ~applied

\* one acknowledgment is under way, or none
AckUnderWay(q, pending) ==
    /\ pending <=> \E k \in 1 .. Len(q) : q[k].kind = "ack"
    /\ \A j, k \in 1 .. Len(q) : q[j].kind = "ack" /\ q[k].kind = "ack" => j = k

\* the acknowledgment is ahead of the k-th frame
AckAhead(q, k) == \E j \in 1 .. k - 1 : q[j].kind = "ack"

\* every DATA frame fits into the window when it arrives: the window is base,
\* and the acknowledgment adds delta to it
FitsIn(q, s, base, delta) ==
    \A k \in 1 .. Len(q) :
        Is(q[k], "data", s) /\ q[k].len > 0 =>
            Running(q, "data", {s})[k] <= base + (IF AckAhead(q, k) THEN delta ELSE 0)

Delta == Window - Default

\* the window that a stream has, or gets when its headers arrive
Base(s) == IF half[s] = "idle" THEN NewWindow ELSE recv_window[s]

\* the window of the peer follows the settings and the local one does not
Behind(s) == ~acked \/ s \in failing

StateOK ==
    /\ config \in Configs
    /\ half \in [Streams -> {"idle", "open", "closed", "gone"}]
    /\ recv_window \in [Streams -> Int]
    /\ recv_size \in [Streams -> Nat]
    /\ con_window \in Nat /\ con_size \in Int
    /\ acked \in BOOLEAN /\ peer_applied \in BOOLEAN /\ exceeded \in BOOLEAN
    /\ peer_window \in [Streams -> Int] /\ peer_con \in Nat
    /\ peer_open \subseteq Streams /\ failing \subseteq Streams
    /\ sent \in Nat
    /\ in \in Seq(InFrame) /\ out \in Seq(OutFrame)

\* g is the sum of the first numbers of a
IsSum(g, a, n) ==
    /\ g \in [0 .. n -> Nat]
    /\ g[0] = 0
    /\ \A k \in 1 .. n : g[k] = g[k - 1] + a[k]

\* the streams in some order
Order == CHOOSE e \in [1 .. Cardinality(Streams) -> Streams] :
            /\ \A s \in Streams : \E k \in 1 .. Cardinality(Streams) : e[k] = s
            /\ \A j, k \in 1 .. Cardinality(Streams) : e[j] = e[k] => j = k

\* the sum of the numbers f of the streams
Sum(f) == CHOOSE g : IsSum(g, [k \in 1 .. Cardinality(Streams) |-> f[Order[k]]], Cardinality(Streams))
Held(f) == Sum(f)[Cardinality(Streams)]

\* the window of the connection, and the data that the application holds
ConInv ==
    /\ con_size = Held(recv_size)
    /\ ConWindowMatches
    /\ con_size + con_window <= Default \/ con_size + con_window <= ConnWindow
    /\ ConnWindow > 0 => con_size + con_window > 0

\* the exchange of the settings
SettingsInv ==
    /\ SettingsFirst(out, peer_applied)
    /\ acked => peer_applied
    /\ AckUnderWay(in, peer_applied /\ ~acked)
    /\ failing # {} => acked

\* the frames to the peer
OutOrder ==
    /\ HeadersFirst(out, "update")
    /\ \A s \in Streams : Has(out, "headers", s) =>
          ~server /\ s \notin peer_open /\ half[s] \in {"open", "gone"} /\ ~Has(in, "data", s)

\* the frames from the peer
InOrder ==
    /\ HeadersFirst(in, "data") /\ EofLast(in)
    /\ \A s \in Streams :
          /\ Has(in, "headers", s) => server /\ half[s] = "idle"
          /\ HasEof(in, s) => s \notin peer_open

\* the state of a stream agrees with the frames under way
HalfInv ==
    \A s \in Streams :
        /\ half[s] = "idle" =>
              /\ ~Has(out, "update", s) /\ s \notin failing
              /\ recv_size[s] = 0
              /\ s \in peer_open \/ Has(in, "data", s) => Has(in, "headers", s)
        /\ half[s] = "closed" => s \notin peer_open /\ ~Has(in, "data", s)

\* the window of a stream is what the peer knows and what is under way
Balanced(s) ==
    /\ s \in peer_open =>
          Base(s) + (IF peer_applied /\ Behind(s) THEN Delta ELSE 0) =
              peer_window[s] + Total(out, "update", {s}) + Total(in, "data", {s})
    /\ Has(out, "headers", s) =>
          recv_window[s] + (IF Behind(s) THEN Delta ELSE 0) = Window + Total(out, "update", {s})

\* the window of an open stream and the data the application holds
SizeInv(s) ==
    /\ Window > 0 => recv_window[s] + recv_size[s] > 0
    /\ ~acked => recv_window[s] + recv_size[s] <= Default \/ recv_window[s] + recv_size[s] <= Window

WindowInv ==
    \A s \in Streams :
        /\ half[s] \in {"idle", "open"} => Balanced(s)
        /\ half[s] \in {"idle", "open"} /\ s \notin failing => FitsIn(in, s, Base(s), Delta)
        /\ half[s] = "open" => SizeInv(s)
        /\ s \in failing => Delta > 0

RecvInv ==
    /\ StateOK /\ ConInv /\ SettingsInv
    /\ OutOrder /\ InOrder /\ HalfInv /\ WindowInv
    /\ PeerNotFailed

-----------------------------------------------------------------------------
(* Sums over a queue. *)

\* What a frame stands for is a number of bytes.
LEMMA AmountType ==
    ASSUME NEW f \in Frames, NEW kind \in {"data", "update"}, NEW ids
    PROVE  Amount(f, kind, ids) \in Nat
BY DEF Amount, Frames, InFrame, OutFrame

\* A set of natural numbers that is not empty has a least element.
LEMMA Least ==
    ASSUME NEW S \in SUBSET Nat, S # {}
    PROVE  \E k \in S : \A j \in S : k <= j
<1> DEFINE Less == {p \in Nat \X Nat : p[1] < p[2]}
<1>1. \A n, m \in Nat : <<n, m>> \in Less <=> n < m
  OBVIOUS
<1>2. OpToRel(<, Nat) = Less
  BY DEF OpToRel
<1> HIDE DEF Less
<1>3. IsWellFoundedOn(Less, Nat)
  BY <1>2, NatLessThanWellFounded
<1>4. PICK x \in S : \A y \in S : ~(<<y, x>> \in Less)
  BY <1>3, WFMin
<1>5. ASSUME NEW y \in S
      PROVE  x <= y
  <2>1. x \in Nat /\ y \in Nat
    OBVIOUS
  <2>2. ~(y < x)
    BY <1>1, <1>4, <2>1
  <2> QED
    BY <2>1, <2>2
<1> QED
  BY <1>5

\* Numbers have a sum.
LEMMA SumExists ==
    ASSUME NEW n \in Nat, NEW a \in [1 .. n -> Nat]
    PROVE  \E g : IsSum(g, a, n)
<1> DEFINE Bad == {m \in 0 .. n : ~\E g : IsSum(g, a, m)}
<1>1. SUFFICES ASSUME Bad # {} PROVE FALSE
  BY SMTT(30)
<1>2. Bad \in SUBSET Nat
  OBVIOUS
<1>3. PICK m \in Bad : \A j \in Bad : m <= j
  <2> HIDE DEF Bad
  <2> QED
    BY <1>1, <1>2, Least
<1>4. m \in 0 .. n /\ ~\E g : IsSum(g, a, m)
  OBVIOUS
<1>5. m # 0
  <2>1. IsSum([k \in 0 .. 0 |-> 0], a, 0)
    BY DEF IsSum
  <2> QED
    BY <1>4, <2>1
<1>6. PICK g : IsSum(g, a, m - 1)
  <2>1. m - 1 \in 0 .. n /\ ~(m <= m - 1)
    BY <1>4, <1>5
  <2>2. m - 1 \notin Bad
    BY <1>3, <2>1
  <2> QED
    BY <2>1, <2>2
<1> DEFINE h == [k \in 0 .. m |-> IF k = m THEN g[m - 1] + a[m] ELSE g[k]]
<1>7. IsSum(h, a, m)
  <2>1. g \in [0 .. m - 1 -> Nat] /\ g[0] = 0 /\ \A k \in 1 .. m - 1 : g[k] = g[k - 1] + a[k]
    BY <1>6 DEF IsSum
  <2>2. m \in 1 .. n /\ a[m] \in Nat /\ g[m - 1] \in Nat
    BY <1>4, <1>5, <2>1
  <2>3. h \in [0 .. m -> Nat] /\ h[0] = 0
    BY <1>4, <1>5, <2>1, <2>2
  <2>4. ASSUME NEW k \in 1 .. m
        PROVE  h[k] = h[k - 1] + a[k]
    BY SMTT(30), <1>4, <1>5, <2>1, <2>2
  <2> HIDE DEF h
  <2> QED
    BY <2>3, <2>4 DEF IsSum
<1> QED
  BY <1>4, <1>7

\* The partial sums of a queue.
LEMMA RunningSum ==
    ASSUME NEW q \in Seq(Frames), NEW kind \in {"data", "update"}, NEW ids
    PROVE  /\ Running(q, kind, ids) \in [0 .. Len(q) -> Nat]
           /\ Running(q, kind, ids)[0] = 0
           /\ \A k \in 1 .. Len(q) :
                 Running(q, kind, ids)[k] = Running(q, kind, ids)[k - 1] + Amount(q[k], kind, ids)
<1> DEFINE n == Len(q)
           a == [k \in 1 .. n |-> Amount(q[k], kind, ids)]
           Fcn(g) == g = [k \in 0 .. n |-> IF k = 0 THEN 0 ELSE g[k - 1] + Amount(q[k], kind, ids)]
<1>1. n \in Nat /\ a \in [1 .. n -> Nat]
  BY AmountType
<1>2. PICK g : IsSum(g, a, n)
  <2> HIDE DEF n, a
  <2> QED
    BY <1>1, SumExists
<1>3. /\ g \in [0 .. n -> Nat]
      /\ \A k \in 0 .. n : g[k] = IF k = 0 THEN 0 ELSE g[k - 1] + Amount(q[k], kind, ids)
  BY <1>1, <1>2 DEF IsSum
<1>4. Fcn(g)
  BY <1>3
<1>5. Fcn(Running(q, kind, ids))
  BY <1>4 DEF Running
<1>6. \A x : Fcn(x) => x = g
  <2> SUFFICES ASSUME NEW x, Fcn(x) PROVE x = g
    OBVIOUS
  <2>1. DOMAIN x = 0 .. n /\ \A k \in 0 .. n : x[k] = IF k = 0 THEN 0 ELSE x[k - 1] + Amount(q[k], kind, ids)
    OBVIOUS
  <2> DEFINE Bad == {k \in 0 .. n : x[k] # g[k]}
  <2>2. Bad = {}
    <3> SUFFICES ASSUME Bad # {} PROVE FALSE
      OBVIOUS
    <3>1. Bad \in SUBSET Nat
      OBVIOUS
    <3>2. PICK m \in Bad : \A j \in Bad : m <= j
      <4> HIDE DEF Bad
      <4> QED
        BY <3>1, Least
    <3>3. m \in 0 .. n /\ x[m] # g[m]
      OBVIOUS
    <3>4. m # 0
      BY <2>1, <1>3, <3>3
    <3>5. m - 1 \in 0 .. n /\ m - 1 \notin Bad
      BY <1>1, <3>2, <3>3, <3>4
    <3>6. x[m - 1] = g[m - 1]
      BY <3>5
    <3> QED
      BY <2>1, <1>3, <3>3, <3>4, <3>6
  <2>3. \A k \in 0 .. n : x[k] = g[k]
    BY <2>2
  <2>4. x = [k \in 0 .. n |-> x[k]]
    BY <2>1
  <2>5. g = [k \in 0 .. n |-> g[k]]
    BY <1>3
  <2> QED
    BY <2>3, <2>4, <2>5
<1>7. Running(q, kind, ids) = g
  <2> HIDE DEF Fcn
  <2> QED
    BY <1>5, <1>6
<1> QED
  BY <1>1, <1>3, <1>7

\* Two functions that start alike and grow alike are equal.
LEMMA SameSteps ==
    ASSUME NEW n \in Nat, NEW f \in [0 .. n -> Int], NEW g \in [0 .. n -> Int],
           f[0] = g[0], \A k \in 1 .. n : f[k] - f[k - 1] = g[k] - g[k - 1]
    PROVE  \A k \in 0 .. n : f[k] = g[k]
<1> DEFINE Bad == {k \in 0 .. n : f[k] # g[k]}
<1> SUFFICES ASSUME Bad # {} PROVE FALSE
  OBVIOUS
<1>1. Bad \in SUBSET Nat
  OBVIOUS
<1>2. PICK m \in Bad : \A j \in Bad : m <= j
  <2> HIDE DEF Bad
  <2> QED
    BY <1>1, Least
<1>3. m \in 0 .. n /\ f[m] # g[m] /\ m # 0
  OBVIOUS
<1>4. m - 1 \in 0 .. n /\ m - 1 \notin Bad
  BY <1>2, <1>3
<1>5. f[m - 1] = g[m - 1] /\ f[m] - f[m - 1] = g[m] - g[m - 1]
  BY <1>3, <1>4
<1> QED
  BY <1>3, <1>4, <1>5

\* A sum is a number of bytes.
LEMMA TotalType ==
    ASSUME NEW q \in Seq(Frames), NEW kind \in {"data", "update"}, NEW ids
    PROVE  Total(q, kind, ids) \in Nat
<1>1. Len(q) \in 0 .. Len(q)
  OBVIOUS
<1> QED
  BY <1>1, RunningSum DEF Total

\* A frame that is written adds to the sum.
LEMMA SumAppend ==
    ASSUME NEW q \in Seq(Frames), NEW e \in Frames, NEW kind \in {"data", "update"}, NEW ids
    PROVE  /\ \A k \in 0 .. Len(q) :
                 Running(Append(q, e), kind, ids)[k] = Running(q, kind, ids)[k]
           /\ Total(Append(q, e), kind, ids) = Total(q, kind, ids) + Amount(e, kind, ids)
<1> DEFINE n == Len(q)
           r == Running(q, kind, ids)
           t == Running(Append(q, e), kind, ids)
           f == [k \in 0 .. n |-> t[k]]
<1>1. n \in Nat /\ Append(q, e) \in Seq(Frames) /\ Len(Append(q, e)) = n + 1
      /\ Append(q, e)[n + 1] = e /\ \A k \in 1 .. n : Append(q, e)[k] = q[k]
  OBVIOUS
<1>2. /\ r \in [0 .. n -> Nat] /\ r[0] = 0
      /\ \A k \in 1 .. n : r[k] = r[k - 1] + Amount(q[k], kind, ids)
  BY RunningSum
<1>3. /\ t \in [0 .. n + 1 -> Nat] /\ t[0] = 0
      /\ \A k \in 1 .. n + 1 : t[k] = t[k - 1] + Amount(Append(q, e)[k], kind, ids)
  <2> DEFINE x == Append(q, e)
  <2>1. x \in Seq(Frames) /\ Len(x) = n + 1
    BY <1>1
  <2> HIDE DEF x, n
  <2>2. /\ Running(x, kind, ids) \in [0 .. n + 1 -> Nat] /\ Running(x, kind, ids)[0] = 0
        /\ \A k \in 1 .. n + 1 : Running(x, kind, ids)[k] = Running(x, kind, ids)[k - 1] + Amount(x[k], kind, ids)
    BY <2>1, RunningSum
  <2> QED
    BY <2>2 DEF x
<1>4. \A k \in 1 .. n : t[k] = t[k - 1] + Amount(q[k], kind, ids)
  BY <1>1, <1>3
<1>5. \A k \in 1 .. n : Amount(q[k], kind, ids) \in Nat
  BY AmountType
<1> HIDE DEF n, r, t
<1>6. f \in [0 .. n -> Int] /\ r \in [0 .. n -> Int] /\ f[0] = r[0]
  BY <1>1, <1>2, <1>3
<1>7. ASSUME NEW k \in 1 .. n
      PROVE  f[k] - f[k - 1] = r[k] - r[k - 1]
  <2>1. k \in 0 .. n /\ k - 1 \in 0 .. n /\ k \in 0 .. n + 1 /\ k - 1 \in 0 .. n + 1
    BY <1>1
  <2>2. r[k - 1] \in Nat /\ t[k - 1] \in Nat /\ Amount(q[k], kind, ids) \in Nat
    BY <1>2, <1>3, <1>5, <2>1
  <2>3. f[k] = t[k] /\ f[k - 1] = t[k - 1]
    BY <2>1
  <2> HIDE DEF f
  <2> QED
    BY <1>2, <1>4, <2>2, <2>3
<1>8. \A k \in 0 .. n : t[k] = r[k]
  BY <1>1, <1>6, <1>7, SameSteps
<1>9. t[n + 1] = r[n] + Amount(e, kind, ids)
  BY <1>1, <1>3, <1>8
<1> QED
  BY <1>1, <1>8, <1>9 DEF Total, n, r, t

\* A frame that is read is taken off the sum.
LEMMA SumTail ==
    ASSUME NEW q \in Seq(Frames), q # <<>>, NEW kind \in {"data", "update"}, NEW ids
    PROVE  /\ \A k \in 0 .. Len(q) - 1 :
                 Running(Tail(q), kind, ids)[k] = Running(q, kind, ids)[k + 1] - Amount(Head(q), kind, ids)
           /\ Total(Tail(q), kind, ids) = Total(q, kind, ids) - Amount(Head(q), kind, ids)
<1> DEFINE n == Len(q) - 1
           r == Running(q, kind, ids)
           t == Running(Tail(q), kind, ids)
           a == Amount(Head(q), kind, ids)
           f == [k \in 0 .. n |-> r[k + 1] - a]
<1>1. n \in Nat /\ Tail(q) \in Seq(Frames) /\ Len(Tail(q)) = n /\ Len(q) = n + 1
      /\ Head(q) = q[1] /\ \A k \in 1 .. n : Tail(q)[k] = q[k + 1]
  OBVIOUS
<1>2. /\ r \in [0 .. n + 1 -> Nat] /\ r[0] = 0
      /\ \A k \in 1 .. n + 1 : r[k] = r[k - 1] + Amount(q[k], kind, ids)
  BY <1>1, RunningSum
<1>3. /\ t \in [0 .. n -> Nat] /\ t[0] = 0
      /\ \A k \in 1 .. n : t[k] = t[k - 1] + Amount(Tail(q)[k], kind, ids)
  <2> DEFINE x == Tail(q)
  <2>1. x \in Seq(Frames) /\ Len(x) = n
    BY <1>1
  <2> HIDE DEF x, n
  <2>2. /\ Running(x, kind, ids) \in [0 .. n -> Nat] /\ Running(x, kind, ids)[0] = 0
        /\ \A k \in 1 .. n : Running(x, kind, ids)[k] = Running(x, kind, ids)[k - 1] + Amount(x[k], kind, ids)
    BY <2>1, RunningSum
  <2> QED
    BY <2>2 DEF x
<1>4. \A k \in 1 .. n : t[k] = t[k - 1] + Amount(q[k + 1], kind, ids)
  BY <1>1, <1>3
<1>5. \A k \in 1 .. n + 1 : Amount(q[k], kind, ids) \in Nat
  BY <1>1, AmountType
<1>6. a \in Nat /\ a = Amount(q[1], kind, ids)
  BY <1>1, <1>5
<1> HIDE DEF n, r, t, a
<1>7. f \in [0 .. n -> Int] /\ t \in [0 .. n -> Int] /\ f[0] = t[0]
  BY <1>1, <1>2, <1>3, <1>6
<1>8. ASSUME NEW k \in 1 .. n
      PROVE  f[k] - f[k - 1] = t[k] - t[k - 1]
  <2>1. k \in 0 .. n /\ k - 1 \in 0 .. n /\ k \in 0 .. n + 1 /\ k + 1 \in 1 .. n + 1 /\ (k + 1) - 1 = k /\ (k - 1) + 1 = k
    BY <1>1
  <2>2. r[k + 1] = r[k] + Amount(q[k + 1], kind, ids) /\ t[k] = t[k - 1] + Amount(q[k + 1], kind, ids)
    BY <1>2, <1>4, <2>1
  <2>3. r[k] \in Nat /\ t[k - 1] \in Nat /\ Amount(q[k + 1], kind, ids) \in Nat
    BY <1>2, <1>3, <1>5, <2>1
  <2>4. f[k] = r[k + 1] - a /\ f[k - 1] = r[k] - a
    BY <2>1
  <2> QED
    BY <1>6, <2>2, <2>3, <2>4
<1>9. \A k \in 0 .. n : t[k] = f[k]
  <2> HIDE DEF f
  <2> QED
    BY ZenonT(30), <1>1, <1>7, <1>8, SameSteps
<1>10. \A k \in 0 .. n : t[k] = r[k + 1] - a
  BY <1>9
<1> QED
  BY <1>1, <1>10 DEF Total, n, r, t, a

\* The sum of two queues.
LEMMA SumConcat ==
    ASSUME NEW q \in Seq(Frames), NEW p \in Seq(Frames), NEW kind \in {"data", "update"}, NEW ids
    PROVE  Total(q \o p, kind, ids) = Total(q, kind, ids) + Total(p, kind, ids)
<1> DEFINE n == Len(q)
           m == Len(p)
           r == Running(q, kind, ids)
           t == Running(p, kind, ids)
           c == Running(q \o p, kind, ids)
           f == [k \in 0 .. n |-> c[k]]
           g == [k \in 0 .. m |-> c[n + k] - c[n]]
<1>1. n \in Nat /\ m \in Nat /\ q \o p \in Seq(Frames) /\ Len(q \o p) = n + m
      /\ (\A k \in 1 .. n : (q \o p)[k] = q[k]) /\ (\A k \in 1 .. m : (q \o p)[n + k] = p[k])
  OBVIOUS
<1>2. /\ r \in [0 .. n -> Nat] /\ r[0] = 0
      /\ \A k \in 1 .. n : r[k] = r[k - 1] + Amount(q[k], kind, ids)
  BY RunningSum
<1>3. /\ t \in [0 .. m -> Nat] /\ t[0] = 0
      /\ \A k \in 1 .. m : t[k] = t[k - 1] + Amount(p[k], kind, ids)
  BY RunningSum
<1>4. /\ c \in [0 .. n + m -> Nat] /\ c[0] = 0
      /\ \A k \in 1 .. n + m : c[k] = c[k - 1] + Amount((q \o p)[k], kind, ids)
  <2> DEFINE x == q \o p
             l == n + m
  <2>1. x \in Seq(Frames) /\ Len(x) = l
    BY <1>1
  <2> HIDE DEF x, l
  <2>2. /\ Running(x, kind, ids) \in [0 .. l -> Nat] /\ Running(x, kind, ids)[0] = 0
        /\ \A k \in 1 .. l : Running(x, kind, ids)[k] = Running(x, kind, ids)[k - 1] + Amount(x[k], kind, ids)
    BY SMTT(30), <2>1, RunningSum
  <2> QED
    BY <2>2 DEF x, l
<1>5. \A k \in 1 .. n : c[k] = c[k - 1] + Amount(q[k], kind, ids)
  BY <1>1, <1>4
<1>6. \A k \in 1 .. m : c[n + k] = c[n + k - 1] + Amount(p[k], kind, ids)
  <2> TAKE k \in 1 .. m
  <2>1. n + k \in 1 .. n + m
    BY <1>1
  <2> QED
    BY SMTT(30), <1>1, <1>4, <2>1
<1>7. (\A k \in 1 .. n : Amount(q[k], kind, ids) \in Nat) /\ (\A k \in 1 .. m : Amount(p[k], kind, ids) \in Nat)
  BY AmountType
<1> HIDE DEF n, m, r, t, c
<1>8. \A k \in 0 .. n : f[k] = r[k]
  <2>1. f \in [0 .. n -> Int] /\ r \in [0 .. n -> Int] /\ f[0] = r[0]
    BY <1>1, <1>2, <1>4
  <2>2. ASSUME NEW k \in 1 .. n
        PROVE  f[k] - f[k - 1] = r[k] - r[k - 1]
    <3>1. k \in 0 .. n /\ k - 1 \in 0 .. n /\ k - 1 \in 0 .. n + m
      BY <1>1
    <3>2. r[k - 1] \in Nat /\ c[k - 1] \in Nat /\ Amount(q[k], kind, ids) \in Nat
      BY <1>2, <1>4, <1>7, <3>1
    <3>3. f[k] = c[k] /\ f[k - 1] = c[k - 1]
      BY <3>1
    <3> HIDE DEF f
    <3> QED
      BY <1>2, <1>5, <3>2, <3>3
  <2> HIDE DEF f
  <2> QED
    BY <1>1, <2>1, <2>2, SameSteps
<1>9. \A k \in 0 .. m : g[k] = t[k]
  <2>1. g \in [0 .. m -> Int] /\ t \in [0 .. m -> Int] /\ g[0] = t[0]
    BY <1>1, <1>3, <1>4
  <2>2. ASSUME NEW k \in 1 .. m
        PROVE  g[k] - g[k - 1] = t[k] - t[k - 1]
    <3>1. k \in 0 .. m /\ k - 1 \in 0 .. m /\ n + k \in 0 .. n + m /\ n + (k - 1) = n + k - 1 /\ n + k - 1 \in 0 .. n + m
      BY <1>1
    <3>2. g[k] = c[n + k] - c[n] /\ g[k - 1] = c[n + k - 1] - c[n]
      BY <3>1
    <3>3. c[n + k] \in Nat /\ c[n + k - 1] \in Nat /\ c[n] \in Nat /\ t[k] \in Nat /\ t[k - 1] \in Nat
      <4>1. n \in 0 .. n + m
        BY <1>1
      <4>2. \A j \in 0 .. n + m : c[j] \in Nat
        BY <1>4
      <4>3. \A j \in 0 .. m : t[j] \in Nat
        BY <1>3
      <4> HIDE DEF g, f
      <4> QED
        BY Zenon, <3>1, <4>1, <4>2, <4>3
    <3> QED
      BY SMTT(30), <1>3, <1>6, <1>7, <3>2, <3>3
  <2> HIDE DEF g
  <2> QED
    BY <1>1, <2>1, <2>2, SameSteps
<1>10. c[n] = r[n] /\ c[n + m] - c[n] = t[m]
  <2>1. n \in 0 .. n /\ m \in 0 .. m
    BY <1>1
  <2>2. f[n] = c[n] /\ g[m] = c[n + m] - c[n]
    BY <2>1
  <2>3. f[n] = r[n] /\ g[m] = t[m]
    BY Zenon, <1>8, <1>9, <2>1
  <2> HIDE DEF f, g
  <2> QED
    BY <2>2, <2>3
<1>11. c[n + m] = r[n] + t[m]
  BY <1>1, <1>2, <1>3, <1>4, <1>10
<1> QED
  BY <1>1, <1>11 DEF Total, n, m, r, t, c

\* The sum of a queue with at most one frame that counts.
LEMMA SumOne ==
    ASSUME NEW q \in Seq(Frames), NEW kind \in {"data", "update"}, NEW ids, NEW j \in 1 .. Len(q),
           \A k \in 1 .. Len(q) : k # j => Amount(q[k], kind, ids) = 0
    PROVE  Total(q, kind, ids) = Amount(q[j], kind, ids)
<1> DEFINE n == Len(q)
           r == Running(q, kind, ids)
           a == Amount(q[j], kind, ids)
           f == [k \in 0 .. n |-> IF k < j THEN 0 ELSE a]
<1>1. n \in Nat /\ a \in Nat /\ j \in 1 .. n
  BY AmountType
<1>2. /\ r \in [0 .. n -> Nat] /\ r[0] = 0
      /\ \A k \in 1 .. n : r[k] = r[k - 1] + Amount(q[k], kind, ids)
  BY RunningSum
<1>3. \A k \in 1 .. n : r[k] = r[k - 1] + IF k = j THEN a ELSE 0
  BY <1>2
<1> HIDE DEF n, r, a
<1>4. f \in [0 .. n -> Int] /\ r \in [0 .. n -> Int] /\ f[0] = r[0]
  BY <1>1, <1>2
<1>5. ASSUME NEW k \in 1 .. n
      PROVE  f[k] - f[k - 1] = r[k] - r[k - 1]
  <2>1. r[k - 1] \in Nat /\ k \in 0 .. n /\ k - 1 \in 0 .. n
    BY <1>1, <1>2
  <2>2. f[k] - f[k - 1] = IF k = j THEN a ELSE 0
    BY <1>1, <2>1
  <2> HIDE DEF f
  <2> QED
    BY <1>1, <1>3, <2>1, <2>2
<1>6. \A k \in 0 .. n : f[k] = r[k]
  <2> HIDE DEF f
  <2> QED
    BY <1>1, <1>4, <1>5, SameSteps
<1>7. r[n] = a
  BY <1>1, <1>6
<1> QED
  BY <1>7 DEF Total, n, r, a

\* The sum of a queue with no frame that counts.
LEMMA SumNone ==
    ASSUME NEW q \in Seq(Frames), NEW kind \in {"data", "update"}, NEW ids,
           \A k \in 1 .. Len(q) : Amount(q[k], kind, ids) = 0
    PROVE  Total(q, kind, ids) = 0
<1>1. CASE Len(q) = 0
  BY ZenonT(30), <1>1, RunningSum DEF Total
<1>2. CASE Len(q) # 0
  <2>1. 1 \in 1 .. Len(q)
    BY <1>2
  <2> QED
    BY <2>1, SumOne
<1> QED
  BY <1>1, <1>2

\* The order of the streams.
LEMMA OrderFacts ==
    LET n == Cardinality(Streams)
    IN  /\ n \in Nat
        /\ Order \in [1 .. n -> Streams]
        /\ \A s \in Streams : \E k \in 1 .. n : Order[k] = s
        /\ \A j, k \in 1 .. n : Order[j] = Order[k] => j = k
<1> DEFINE n == Cardinality(Streams)
<1>1. n \in Nat /\ \E f : f \in Bijection(1 .. n, Streams)
  BY FS_CardinalityType DEF ExistsBijection
<1>2. PICK f : f \in Bijection(1 .. n, Streams)
  BY <1>1
<1>3. /\ f \in [1 .. n -> Streams]
      /\ \A s \in Streams : \E k \in 1 .. n : f[k] = s
      /\ \A j, k \in 1 .. n : f[j] = f[k] => j = k
  BY <1>2 DEF Bijection, Injection, Surjection, IsInjective
<1> QED
  BY <1>1, <1>3 DEF Order

\* Numbers of the streams have a sum.
LEMMA SumFacts ==
    ASSUME NEW f \in [Streams -> Nat]
    PROVE  LET n == Cardinality(Streams)
           IN  /\ Sum(f) \in [0 .. n -> Nat]
               /\ Sum(f)[0] = 0
               /\ \A k \in 1 .. n : Sum(f)[k] = Sum(f)[k - 1] + f[Order[k]]
<1> DEFINE n == Cardinality(Streams)
           a == [k \in 1 .. n |-> f[Order[k]]]
<1>1. n \in Nat /\ a \in [1 .. n -> Nat]
  BY OrderFacts
<1>2. \E g : IsSum(g, a, n)
  <2> HIDE DEF n, a
  <2> QED
    BY <1>1, SumExists
<1>3. IsSum(Sum(f), a, n)
  BY <1>2 DEF Sum
<1> QED
  BY <1>3 DEF IsSum

\* The sum is a number of bytes.
LEMMA HeldType ==
    ASSUME NEW f \in [Streams -> Nat]
    PROVE  Held(f) \in Nat
<1>1. Cardinality(Streams) \in Nat /\ Cardinality(Streams) \in 0 .. Cardinality(Streams)
  BY OrderFacts
<1> QED
  BY <1>1, SumFacts DEF Held

\* The sum when a stream's number changes.
LEMMA HeldChange ==
    ASSUME NEW f \in [Streams -> Nat], NEW s \in Streams, NEW m \in Nat
    PROVE  /\ Held(f) \in Nat
           /\ Held([f EXCEPT ![s] = m]) = Held(f) - f[s] + m
<1> DEFINE n == Cardinality(Streams)
           h == [f EXCEPT ![s] = m]
           d == m - f[s]
           x == Sum(f)
           y == Sum(h)
<1>1. n \in Nat /\ h \in [Streams -> Nat] /\ d \in Int /\ f[s] \in Nat
  BY OrderFacts
<1>2. /\ Order \in [1 .. n -> Streams]
      /\ \A j, k \in 1 .. n : Order[j] = Order[k] => j = k
  BY OrderFacts
<1>3. PICK j \in 1 .. n : Order[j] = s
  BY OrderFacts
<1>4. x \in [0 .. n -> Nat] /\ x[0] = 0 /\ \A k \in 1 .. n : x[k] = x[k - 1] + f[Order[k]]
  BY SumFacts
<1>5. y \in [0 .. n -> Nat] /\ y[0] = 0 /\ \A k \in 1 .. n : y[k] = y[k - 1] + h[Order[k]]
  <2> HIDE DEF h
  <2> QED
    BY <1>1, SumFacts
<1>6. \A k \in 1 .. n : h[Order[k]] = f[Order[k]] + IF k = j THEN d ELSE 0
  BY <1>1, <1>2, <1>3
<1>7. \A k \in 1 .. n : f[Order[k]] \in Nat
  BY <1>2
<1> DEFINE z == [k \in 0 .. n |-> x[k] + IF k < j THEN 0 ELSE d]
<1> HIDE DEF n, h, d, x, y
<1>8. z \in [0 .. n -> Int] /\ y \in [0 .. n -> Int] /\ z[0] = y[0]
  BY SMTT(30), <1>1, <1>3, <1>4, <1>5
<1>9. ASSUME NEW k \in 1 .. n
      PROVE  z[k] - z[k - 1] = y[k] - y[k - 1]
  <2>1. k \in 0 .. n /\ k - 1 \in 0 .. n
    BY <1>1
  <2>2. x[k - 1] \in Nat /\ y[k - 1] \in Nat
    BY <1>4, <1>5, <2>1
  <2>3. z[k] - z[k - 1] = (x[k] + IF k < j THEN 0 ELSE d) - (x[k - 1] + IF k - 1 < j THEN 0 ELSE d)
    BY <2>1
  <2>4. x[k] = x[k - 1] + f[Order[k]] /\ f[Order[k]] \in Nat
    BY <1>4, <1>7
  <2>5. y[k] = y[k - 1] + (f[Order[k]] + IF k = j THEN d ELSE 0)
    BY <1>5, <1>6
  <2> HIDE DEF z
  <2> QED
    BY <1>1, <1>3, <2>2, <2>3, <2>4, <2>5
<1>10. \A k \in 0 .. n : z[k] = y[k]
  <2> HIDE DEF z
  <2> QED
    BY <1>1, <1>8, <1>9, SameSteps
<1>11. y[n] = x[n] + d /\ x[n] \in Nat
  BY <1>1, <1>3, <1>4, <1>10
<1>12. x[n] + d = x[n] - f[s] + m
  BY <1>1, <1>11 DEF d
<1> QED
  BY <1>11, <1>12 DEF Held, n, x, y, h

\* The sum of nothing.
LEMMA HeldNothing ==
    Held([s \in Streams |-> 0]) = 0
<1> DEFINE n == Cardinality(Streams)
           f == [s \in Streams |-> 0]
           x == Sum(f)
           z == [k \in 0 .. n |-> 0]
<1>1. n \in Nat /\ f \in [Streams -> Nat] /\ Order \in [1 .. n -> Streams]
  BY OrderFacts
<1>2. x \in [0 .. n -> Nat] /\ x[0] = 0 /\ \A k \in 1 .. n : x[k] = x[k - 1] + f[Order[k]]
  <2> HIDE DEF f
  <2> QED
    BY <1>1, SumFacts
<1>3. \A k \in 1 .. n : f[Order[k]] = 0
  BY <1>1
<1> HIDE DEF n, f, x
<1>4. z \in [0 .. n -> Int] /\ x \in [0 .. n -> Int] /\ z[0] = x[0]
  BY <1>1, <1>2
<1>5. \A k \in 1 .. n : z[k] - z[k - 1] = x[k] - x[k - 1]
  BY <1>1, <1>2, <1>3
<1>6. \A k \in 0 .. n : z[k] = x[k]
  <2> HIDE DEF z
  <2> QED
    BY <1>1, <1>4, <1>5, SameSteps
<1>7. x[n] = 0
  BY <1>1, <1>6
<1> QED
  BY <1>7 DEF Held, n, x, f

-----------------------------------------------------------------------------
(* Frames that the endpoint writes. *)

\* A queue in one direction is a queue of frames.
LEMMA QueueFrames ==
    /\ Seq(InFrame) \subseteq Seq(Frames)
    /\ Seq(OutFrame) \subseteq Seq(Frames)
BY DEF Frames

\* The frames of the model are frames.
LEMMA FrameTypes ==
    ASSUME NEW s \in Streams
    PROVE  /\ Frame("headers", s) \in InFrame /\ Frame("headers", s) \in OutFrame
           /\ Frame("rst", s) \in OutFrame
           /\ Frame("ack", Con) \in InFrame
           /\ \A id \in Streams \union {Con}, inc \in Nat : Update(id, inc) \in OutFrame
           /\ \A len, pad \in Nat, eof \in BOOLEAN : pad <= len => Data(s, len, pad, eof) \in InFrame
BY DEF InFrame, OutFrame, Frame, Update, Data

\* What is known of a frame to the peer.
LEMMA OutFields ==
    ASSUME NEW f \in OutFrame
    PROVE  /\ f.kind \in {"headers", "rst", "settings", "update"}
           /\ f.kind \in {"headers", "rst"} => f.id \in Streams
           /\ f.kind = "update" => f.id \in Streams \union {Con} /\ f.inc \in Nat
BY DEF OutFrame

\* What is known of a frame from the peer.
LEMMA InFields ==
    ASSUME NEW f \in InFrame
    PROVE  /\ f.kind \in {"headers", "ack", "data"}
           /\ f.kind \in {"headers", "data"} => f.id \in Streams
           /\ f.kind = "data" => f.len \in Nat /\ f.pad \in Nat /\ f.eof \in BOOLEAN /\ f.pad <= f.len
BY DEF InFrame

\* the queue p is q and then update and rst frames; the updates are for the
\* connection, c bytes, and for the streams in L, u[t] bytes for the stream t
Grows(q, p, c, u, L) ==
    /\ q \in Seq(OutFrame) /\ p \in Seq(OutFrame)
    /\ Len(q) <= Len(p)
    /\ \A k \in 1 .. Len(q) : p[k] = q[k]
    /\ \A k \in Len(q) + 1 .. Len(p) :
          /\ p[k].kind \in {"update", "rst"}
          /\ p[k].kind = "update" => p[k].id \in L \union {Con}
    /\ Total(p, "update", {Con}) = Total(q, "update", {Con}) + c
    /\ \A t \in Streams : Total(p, "update", {t}) = Total(q, "update", {t}) + u[t]

Nothing == [t \in Streams |-> 0]

\* Nothing is written.
LEMMA GrowNone ==
    ASSUME NEW q \in Seq(OutFrame), NEW L
    PROVE  Grows(q, q, 0, Nothing, L)
<1>1. q \in Seq(Frames)
  BY QueueFrames
<1>2. \A ids : Total(q, "update", ids) \in Nat
  BY <1>1, TotalType
<1>3. Total(q, "update", {Con}) = Total(q, "update", {Con}) + 0
  BY <1>2
<1>4. \A t \in Streams : Total(q, "update", {t}) = Total(q, "update", {t}) + Nothing[t]
  BY <1>2 DEF Nothing
<1>5. Len(q) \in Nat /\ Len(q) <= Len(q)
  OBVIOUS
<1>6. \A k \in Len(q) + 1 .. Len(q) : FALSE
  BY <1>5
<1> QED
  BY <1>3, <1>4, <1>5, <1>6 DEF Grows

\* the frame e adds to what the connection and the streams are given
Adds(e, c, u, d, v, L) ==
    /\ e \in OutFrame
    /\ e.kind \in {"update", "rst"}
    /\ e.kind = "update" => e.id \in L \union {Con}
    /\ d = c + Amount(e, "update", {Con})
    /\ \A t \in Streams : v[t] = u[t] + Amount(e, "update", {t})

\* One more frame is written.
LEMMA GrowAppend ==
    ASSUME NEW q, NEW p, NEW c \in Nat, NEW u \in [Streams -> Nat], NEW L, Grows(q, p, c, u, L),
           NEW e, NEW d, NEW v, Adds(e, c, u, d, v, L)
    PROVE  Grows(q, Append(p, e), d, v, L)
<1> DEFINE r == Append(p, e)
<1>1. p \in Seq(OutFrame) /\ q \in Seq(OutFrame) /\ e \in OutFrame /\ p \in Seq(Frames) /\ q \in Seq(Frames) /\ e \in Frames
  BY QueueFrames DEF Grows, Frames, Adds
<1>2. \A ids : Total(r, "update", ids) = Total(p, "update", ids) + Amount(e, "update", ids)
  BY <1>1, SumAppend
<1>3. \A ids : Total(p, "update", ids) \in Nat /\ Total(q, "update", ids) \in Nat /\ Amount(e, "update", ids) \in Nat
  BY <1>1, TotalType, AmountType
<1>4. Total(r, "update", {Con}) = Total(q, "update", {Con}) + d
  <2>1. Total(p, "update", {Con}) = Total(q, "update", {Con}) + c /\ d = c + Amount(e, "update", {Con})
    BY DEF Grows, Adds
  <2>2. Total(r, "update", {Con}) = Total(p, "update", {Con}) + Amount(e, "update", {Con})
    BY <1>2
  <2>3. Total(p, "update", {Con}) \in Nat /\ Total(q, "update", {Con}) \in Nat /\ Amount(e, "update", {Con}) \in Nat
    BY <1>3
  <2> HIDE DEF r
  <2> QED
    BY <2>1, <2>2, <2>3
<1>5. ASSUME NEW t \in Streams
      PROVE  Total(r, "update", {t}) = Total(q, "update", {t}) + v[t]
  <2>1. Total(p, "update", {t}) = Total(q, "update", {t}) + u[t] /\ v[t] = u[t] + Amount(e, "update", {t})
    BY DEF Grows, Adds
  <2>2. Total(r, "update", {t}) = Total(p, "update", {t}) + Amount(e, "update", {t})
    BY <1>2
  <2>3. Total(p, "update", {t}) \in Nat /\ Total(q, "update", {t}) \in Nat /\ Amount(e, "update", {t}) \in Nat
    BY <1>3
  <2> HIDE DEF r
  <2> QED
    BY <2>1, <2>2, <2>3
<1>6. /\ r \in Seq(OutFrame) /\ Len(r) = Len(p) + 1 /\ r[Len(p) + 1] = e
      /\ \A k \in 1 .. Len(p) : r[k] = p[k]
  BY <1>1
<1>7. Len(q) \in Nat /\ Len(p) \in Nat /\ Len(q) <= Len(p)
  BY <1>1 DEF Grows
<1>8. \A k \in 1 .. Len(q) : r[k] = q[k]
  BY <1>6, <1>7 DEF Grows
<1>9. \A k \in Len(q) + 1 .. Len(r) :
          /\ r[k].kind \in {"update", "rst"}
          /\ r[k].kind = "update" => r[k].id \in L \union {Con}
  BY <1>6, <1>7 DEF Grows, Adds
<1> HIDE DEF r
<1>10. Len(q) <= Len(r)
  BY <1>6, <1>7
<1>11. Grows(q, r, d, v, L)
  BY <1>1, <1>4, <1>5, <1>6, <1>8, <1>9, <1>10 DEF Grows
<1> QED
  BY <1>11 DEF r

\* RST_STREAM updates no window.
LEMMA GrowReset ==
    ASSUME NEW q, NEW p, NEW c \in Nat, NEW u \in [Streams -> Nat], NEW L, Grows(q, p, c, u, L),
           NEW s \in Streams
    PROVE  Grows(q, Append(p, Frame("rst", s)), c, u, L)
<1> DEFINE e == Frame("rst", s)
<1>1. e \in OutFrame /\ e.kind = "rst"
  BY FrameTypes DEF Frame
<1>2. \A ids : Amount(e, "update", ids) = 0
  BY DEF Frame, Amount
<1> HIDE DEF e
<1>3. Adds(e, c, u, c, u, L)
  BY <1>1, <1>2 DEF Adds
<1>4. Grows(q, Append(p, e), c, u, L)
  BY <1>3, GrowAppend
<1> QED
  BY <1>4 DEF e

\* WINDOW_UPDATE of the connection.
LEMMA GrowCon ==
    ASSUME NEW q, NEW p, NEW c \in Nat, NEW u \in [Streams -> Nat], NEW L, Grows(q, p, c, u, L),
           NEW inc \in Nat
    PROVE  Grows(q, Append(p, Update(Con, inc)), c + inc, u, L)
<1> DEFINE e == Update(Con, inc)
           d == c + inc
<1>1. e \in OutFrame /\ e.kind = "update" /\ e.id = Con
  BY DEF OutFrame, Update
<1>2. Amount(e, "update", {Con}) = inc /\ \A t \in Streams : Amount(e, "update", {t}) = 0
  BY DEF Update, Amount
<1> HIDE DEF e
<1>3. Adds(e, c, u, d, u, L)
  BY <1>1, <1>2 DEF Adds
<1> HIDE DEF d
<1>4. Grows(q, Append(p, e), d, u, L)
  BY <1>3, GrowAppend
<1> QED
  BY <1>4 DEF e, d

\* one stream is given more
Plus(u, s, n) == [t \in Streams |-> u[t] + IF t = s THEN n ELSE 0]

\* WINDOW_UPDATE of a stream.
LEMMA GrowStream ==
    ASSUME NEW q, NEW p, NEW c \in Nat, NEW u \in [Streams -> Nat], NEW L, Grows(q, p, c, u, L),
           NEW s \in Streams, s \in L, NEW inc \in Nat
    PROVE  Grows(q, Append(p, Update(s, inc)), c, Plus(u, s, inc), L)
<1> DEFINE e == Update(s, inc)
           v == Plus(u, s, inc)
<1>1. e \in OutFrame /\ e.kind = "update" /\ e.id = s
  BY DEF OutFrame, Update
<1>2. Amount(e, "update", {Con}) = 0 /\ \A t \in Streams : Amount(e, "update", {t}) = IF t = s THEN inc ELSE 0
  BY DEF Update, Amount
<1> HIDE DEF e
<1>3. c = c + Amount(e, "update", {Con}) /\ \A t \in Streams : v[t] = u[t] + Amount(e, "update", {t})
  BY <1>2 DEF Plus
<1> HIDE DEF v
<1>4. Adds(e, c, u, c, v, L)
  BY <1>1, <1>3 DEF Adds
<1>5. Grows(q, Append(p, e), c, v, L)
  BY <1>4, GrowAppend
<1> QED
  BY <1>5 DEF e, v

-----------------------------------------------------------------------------
(* Releasing received data. *)

\* The values of a configuration.
LEMMA ConfigFacts ==
    ASSUME config \in Configs
    PROVE  /\ Default \in Nat \ {0} /\ Window \in Nat /\ ConnWindow \in Nat /\ MaxWindow \in Nat /\ MaxData \in Nat
           /\ server \in BOOLEAN
           /\ Window <= MaxWindow /\ ConnWindow <= MaxWindow
BY DEF ConfigType, Default, Window, ConnWindow, MaxWindow, MaxData, server

\* Window::update() with a threshold that is part of the target.
LEMMA UpdateFacts ==
    ASSUME NEW w \in Int, NEW cap \in Int, NEW target \in Nat, NEW threshold \in Nat, threshold <= target
    PROVE  /\ UpdateDue(w, cap, target, threshold) =>
                 /\ Available(w, cap, target) \in Nat
                 /\ w + Available(w, cap, target) + cap = target
           /\ ~UpdateDue(w, cap, target, threshold) /\ target > 0 /\ cap >= 0 => w + cap > 0
BY DEF UpdateDue, Available

\* The thresholds.
LEMMA ThresholdFacts ==
    ASSUME config \in Configs
    PROVE  /\ Threshold \in Nat /\ Threshold <= Window
           /\ ConnThreshold \in Nat /\ ConnThreshold <= ConnWindow
<1>1. Window \in Nat /\ ConnWindow \in Nat
  BY ConfigFacts
<1>2. \A n \in Nat : n \div 3 \in Nat /\ n \div 3 <= n /\ n \div 4 \in Nat /\ n \div 4 <= n
  BY SMT
<1> QED
  BY <1>1, <1>2 DEF Threshold, ConnThreshold

\* what data_consumed() makes of the window w and the size z of the connection
ConEffect(w, z, c) ==
    /\ con_window' = w + c
    /\ con_size' = z
    /\ ConnWindow > 0 /\ z >= 0 => w + c + z > 0
    /\ c = 0 \/ w + c + z = ConnWindow

\* The window of the connection grows by what is written to the peer.
LEMMA ConReleased ==
    ASSUME StateOK, NEW w \in Nat, NEW z \in Int, NEW before, NEW after, ConRelease(w, z, before, after),
           NEW u \in [Streams -> Nat], NEW L, Grows(out, out \o before, 0, u, L),
           after = <<>> \/ \E s \in Streams : after = <<Frame("rst", s)>>
    PROVE  \E c \in Nat : Grows(out, out', c, u, L) /\ ConEffect(w, z, c)
<1> DEFINE due == UpdateDue(w, z, ConnWindow, ConnThreshold)
           inc == Available(w, z, ConnWindow)
           c == IF due THEN inc ELSE 0
           q == out \o before
           p == q \o ConUpdate(w, z)
<1>1. ConnWindow \in Nat /\ ConnThreshold \in Nat /\ ConnThreshold <= ConnWindow
  BY ConfigFacts, ThresholdFacts DEF StateOK
<1>2. c \in Nat /\ (due => w + inc + z = ConnWindow) /\ (~due /\ ConnWindow > 0 /\ z >= 0 => w + z > 0)
  BY <1>1, UpdateFacts
<1>3. con_window' = w + c /\ con_size' = z /\ out' = p \o after
  BY <1>2 DEF ConRelease, Updated
<1>4. ConEffect(w, z, c)
  <2> HIDE DEF due, inc
  <2> QED
    BY <1>1, <1>2, <1>3 DEF ConEffect
<1>5. Grows(out, p, c, u, L)
  <2>1. q \in Seq(OutFrame)
    BY DEF Grows
  <2>2. CASE due
    <3>1. ConUpdate(w, z) = <<Update(Con, inc)>> /\ inc \in Nat /\ c = 0 + inc
      BY <1>2, <2>2 DEF ConUpdate
    <3> HIDE DEF q, c, inc
    <3>2. q \o <<Update(Con, inc)>> = Append(q, Update(Con, inc))
      BY <2>1
    <3>3. Grows(out, q, 0, u, L)
      BY DEF q
    <3>4. Grows(out, Append(q, Update(Con, inc)), 0 + inc, u, L)
      BY <3>1, <3>3, GrowCon
    <3> QED
      BY <3>1, <3>2, <3>4
  <2>3. CASE ~due
    <3>1. ConUpdate(w, z) = <<>> /\ c = 0
      BY <2>3 DEF ConUpdate
    <3>2. p = q
      BY <2>1, <3>1
    <3> HIDE DEF q, p, c
    <3> QED
      BY <3>1, <3>2 DEF q
  <2> QED
    BY <2>2, <2>3
<1>6. Grows(out, out', c, u, L)
  <2> HIDE DEF p, c
  <2>1. p \in Seq(OutFrame) /\ c \in Nat
    BY <1>2, <1>5 DEF Grows, c
  <2>2. CASE after = <<>>
    BY <1>3, <1>5, <2>1, <2>2
  <2>3. ASSUME NEW s \in Streams, after = <<Frame("rst", s)>>
        PROVE  Grows(out, out', c, u, L)
    <3>1. out' = Append(p, Frame("rst", s))
      BY <1>3, <2>1, <2>3
    <3>2. Grows(out, Append(p, Frame("rst", s)), c, u, L)
      BY <1>5, <2>1, GrowReset
    <3> QED
      BY <3>1, <3>2
  <2> QED
    BY <2>2, <2>3
<1> QED
  <2> HIDE DEF c
  <2>1. c \in Nat
    BY <1>2
  <2> QED
    BY <1>4, <1>6, <2>1

\* what received_data_consumed() makes of the window w and the size z of s
StreamEffect(s, w, z, n) ==
    /\ recv_window' = [recv_window EXCEPT ![s] = w + n]
    /\ recv_size' = [recv_size EXCEPT ![s] = z]
    /\ half[s] = "open" /\ Window > 0 /\ z >= 0 => w + n + z > 0
    /\ n = 0 \/ (half[s] = "open" /\ w + n + z = Window)

\* received_data_consumed() of a stream in its state
Releases(s, w, z, more, consumed) == StreamRelease(s, w, z, half[s] = "open", more, consumed)

\* The windows grow by what is written to the peer.
LEMMA StreamReleased ==
    ASSUME StateOK, NEW s \in Streams, NEW w \in Int, NEW z \in Int,
           NEW more \in Int, NEW consumed \in Int, con_window - more \in Nat,
           Releases(s, w, z, more, consumed),
           NEW L, half[s] = "open" => s \in L
    PROVE  \E n, c \in Nat :
              /\ Grows(out, out', c, Plus(Nothing, s, n), L)
              /\ StreamEffect(s, w, z - consumed, n)
              /\ ConEffect(con_window - more, con_size + more - consumed, c)
<1> DEFINE left == z - consumed
           due == half[s] = "open" /\ UpdateDue(w, left, Window, Threshold)
           inc == Available(w, left, Window)
           n == IF due THEN inc ELSE 0
           u == Plus(Nothing, s, n)
           before == IF due THEN <<Update(s, inc)>> ELSE <<>>
<1>1. Window \in Nat /\ Threshold \in Nat /\ Threshold <= Window
  BY ConfigFacts, ThresholdFacts DEF StateOK
<1>2. /\ left \in Int /\ n \in Nat
      /\ due => w + inc + left = Window
      /\ ~due /\ half[s] = "open" /\ Window > 0 /\ left >= 0 => w + left > 0
  BY <1>1, UpdateFacts
<1>3. /\ recv_size' = [recv_size EXCEPT ![s] = left]
      /\ recv_window' = [recv_window EXCEPT ![s] = IF due THEN w + inc ELSE w]
      /\ ConRelease(con_window - more, con_size + more - consumed, before, <<>>)
  BY DEF Releases, StreamRelease
<1>4. (IF due THEN w + inc ELSE w) = w + n
  BY <1>2
<1>5. StreamEffect(s, w, left, n)
  <2> HIDE DEF inc, left
  <2> QED
    BY <1>1, <1>2, <1>3, <1>4 DEF StreamEffect
<1>6. u \in [Streams -> Nat]
  BY <1>2 DEF Plus, Nothing
<1>7. out \in Seq(OutFrame) /\ Grows(out, out, 0, Nothing, L) /\ Nothing \in [Streams -> Nat]
  BY GrowNone DEF StateOK, Nothing
<1>8. Grows(out, out \o before, 0, u, L)
  <2>1. CASE due
    <3>1. n = inc /\ inc \in Nat /\ s \in L /\ before = <<Update(s, inc)>>
      BY <1>2, <2>1
    <3> HIDE DEF n, inc, before
    <3>2. out \o before = Append(out, Update(s, inc))
      BY <1>7, <3>1
    <3>3. Grows(out, Append(out, Update(s, inc)), 0, Plus(Nothing, s, inc), L)
      BY <1>7, <3>1, GrowStream
    <3> QED
      BY <3>1, <3>2, <3>3
  <2>2. CASE ~due
    <3>1. n = 0 /\ before = <<>>
      BY <2>2
    <3>2. u = Nothing
      <4> HIDE DEF n
      <4> QED
        BY <3>1 DEF Plus, Nothing
    <3>3. out \o before = out
      BY <1>7, <3>1
    <3> HIDE DEF u, before
    <3> QED
      BY <1>7, <3>2, <3>3
  <2> QED
    BY <2>1, <2>2
<1>9. con_window - more \in Nat /\ con_size + more - consumed \in Int
  BY DEF StateOK
<1>10. \E c \in Nat : Grows(out, out', c, u, L) /\ ConEffect(con_window - more, con_size + more - consumed, c)
  <2> DEFINE a == con_window - more
             b == con_size + more - consumed
  <2>1. a \in Nat /\ b \in Int /\ ConRelease(a, b, before, <<>>)
    BY <1>3, <1>9
  <2> HIDE DEF a, b, u, before
  <2>2. \E c \in Nat : Grows(out, out', c, u, L) /\ ConEffect(a, b, c)
    BY <1>6, <1>8, <2>1, ConReleased
  <2> QED
    BY <2>2 DEF a, b
<1> QED
  <2> HIDE DEF n
  <2>1. n \in Nat
    BY <1>2
  <2> QED
    BY <1>5, <1>10, <2>1

-----------------------------------------------------------------------------
(* What the endpoint does with data. *)

Live == {t \in Streams : half[t] = "open"}

\* len bytes arrive for the connection, it gives c bytes back to the peer
ConMoves(len, c) ==
    /\ con_window' = con_window - len + c
    /\ ConnWindow > 0 /\ con_size' >= 0 /\ con_size + con_window > 0 => con_size' + con_window' > 0
    /\ \/ con_size' + con_window' <= con_size + con_window
       \/ con_size' + con_window' = ConnWindow

\* len bytes arrive for the stream s and pad bytes are released: n bytes are
\* given back to the peer for the stream, c bytes for the connection
Released(s, len, pad, n, c) ==
    /\ Grows(out, out', c, Plus(Nothing, s, n), Live)
    /\ ConMoves(len, c)
    /\ con_size' = con_size + len - pad
    /\ recv_window' = [recv_window EXCEPT ![s] = recv_window[s] - len + n]
    /\ recv_size' = [recv_size EXCEPT ![s] = recv_size[s] + len - pad]
    /\ n = 0 \/ half[s] = "open"
    /\ half[s] = "open" =>
          LET z == recv_size[s] + len - pad
              old == recv_window[s] + recv_size[s]
              new == recv_window[s] - len + n + z
          IN  /\ Window > 0 /\ z >= 0 /\ old > 0 => new > 0
              /\ new <= old \/ new = Window

\* len bytes of no stream arrive
Dropped(len, c) ==
    /\ Grows(out, out', c, Nothing, Live)
    /\ ConMoves(len, c)
    /\ UNCHANGED <<con_size, recv_window, recv_size>>

\* StreamRelease() releases.
LEMMA ReleaseEffect ==
    ASSUME StateOK, NEW s \in Streams, NEW len \in Nat, NEW pad \in Nat, len <= con_window,
           Releases(s, recv_window[s] - len, recv_size[s] + len, len, pad)
    PROVE  \E n, c \in Nat : Released(s, len, pad, n, c)
<1> DEFINE w == recv_window[s] - len
           z == recv_size[s] + len
<1>1. /\ w \in Int /\ z \in Int /\ recv_window[s] \in Int /\ recv_size[s] \in Nat
      /\ con_window \in Nat /\ con_size \in Int /\ con_window - len \in Nat
      /\ Releases(s, w, z, len, pad)
      /\ half[s] = "open" => s \in Live
  BY DEF StateOK, Live, Releases
<1>2. ConnWindow \in Nat /\ Window \in Nat
  BY ConfigFacts DEF StateOK
<1>3. \E n, c \in Nat :
              /\ Grows(out, out', c, Plus(Nothing, s, n), Live)
              /\ StreamEffect(s, w, z - pad, n)
              /\ ConEffect(con_window - len, con_size + len - pad, c)
  <2> HIDE DEF w, z
  <2> QED
    BY <1>1, StreamReleased
<1>4. PICK n \in Nat, c \in Nat :
              /\ Grows(out, out', c, Plus(Nothing, s, n), Live)
              /\ StreamEffect(s, w, z - pad, n)
              /\ ConEffect(con_window - len, con_size + len - pad, c)
  BY <1>3
<1>5. con_size' = con_size + len - pad /\ con_window' = con_window - len + c
  BY <1>4 DEF ConEffect
<1>6. ConMoves(len, c)
  BY <1>1, <1>2, <1>4, <1>5 DEF ConMoves, ConEffect
<1>7. recv_window' = [recv_window EXCEPT ![s] = recv_window[s] - len + n]
  BY <1>4 DEF StreamEffect
<1>8. recv_size' = [recv_size EXCEPT ![s] = recv_size[s] + len - pad]
  <2>1. recv_size' = [recv_size EXCEPT ![s] = z - pad]
    <3> HIDE DEF z
    <3> QED
      BY <1>4 DEF StreamEffect
  <2>2. z - pad = recv_size[s] + len - pad
    BY <1>1
  <2> HIDE DEF z
  <2> QED
    BY <2>1, <2>2
<1>9. n = 0 \/ half[s] = "open"
  BY <1>4 DEF StreamEffect
<1>10. /\ half[s] = "open" /\ Window > 0 /\ z - pad >= 0 => w + n + (z - pad) > 0
       /\ n = 0 \/ w + n + (z - pad) = Window
  BY <1>4 DEF StreamEffect
<1>11. half[s] = "open" =>
          LET y == recv_size[s] + len - pad
              old == recv_window[s] + recv_size[s]
              new == recv_window[s] - len + n + y
          IN  /\ Window > 0 /\ y >= 0 /\ old > 0 => new > 0
              /\ new <= old \/ new = Window
  BY <1>1, <1>2, <1>10
<1> QED
  BY <1>4, <1>5, <1>6, <1>7, <1>8, <1>9, <1>11 DEF Released

\* consume() releases.
LEMMA ConsumeEffect ==
    ASSUME StateOK, NEW s \in Streams, NEW m \in Nat, Consume(s, m)
    PROVE  \E n, c \in Nat : Released(s, 0, m, n, c)
<1>1. recv_window[s] \in Int /\ recv_size[s] \in Nat /\ con_window \in Nat
  BY DEF StateOK
<1>2. Releases(s, recv_window[s], recv_size[s], 0, m)
  BY DEF Consume, Releases
<1>3. recv_window[s] - 0 = recv_window[s] /\ recv_size[s] + 0 = recv_size[s]
  BY <1>1
<1>4. Releases(s, recv_window[s] - 0, recv_size[s] + 0, 0, m)
  BY <1>2, <1>3
<1> QED
  BY <1>1, <1>4, ReleaseEffect

\* Data of a stream that is gone, or that is reset for it.
LEMMA DropEffect ==
    ASSUME StateOK, NEW len \in Nat, len <= con_window, NEW after,
           after = <<>> \/ \E s \in Streams : after = <<Frame("rst", s)>>,
           ConRelease(con_window - len, con_size, <<>>, after),
           UNCHANGED <<recv_window, recv_size>>, ConInv
    PROVE  \E c \in Nat : Dropped(len, c)
<1> DEFINE w == con_window - len
<1>1. w \in Nat /\ con_size \in Int /\ con_window \in Nat /\ out \in Seq(OutFrame) /\ ConnWindow \in Nat /\ con_size >= 0
  BY ConfigFacts, HeldType DEF StateOK, ConInv
<1>2. Grows(out, out \o <<>>, 0, Nothing, Live) /\ Nothing \in [Streams -> Nat]
  <2>1. out \o <<>> = out
    BY <1>1
  <2> QED
    BY <1>1, <2>1, GrowNone DEF Nothing
<1>3. \E c \in Nat : Grows(out, out', c, Nothing, Live) /\ ConEffect(w, con_size, c)
  <2> DEFINE none == <<>>
  <2>1. ConRelease(w, con_size, none, after) /\ Grows(out, out \o none, 0, Nothing, Live)
    BY <1>2
  <2> HIDE DEF none, w
  <2> QED
    BY <1>1, <1>2, <2>1, ConReleased
<1>4. PICK c \in Nat : Grows(out, out', c, Nothing, Live) /\ ConEffect(w, con_size, c)
  BY <1>3
<1>5. con_window' = con_window - len + c /\ con_size' = con_size
  BY <1>4 DEF ConEffect
<1>6. ConMoves(len, c)
  BY <1>1, <1>4, <1>5 DEF ConMoves, ConEffect
<1> QED
  BY <1>4, <1>5, <1>6 DEF Dropped

\* a DATA frame is taken: it is delivered, or it is dropped and its stream is
\* or was reset
DataStep(s, len, pad, eof) ==
    /\ in # <<>> /\ in' = Tail(in)
    /\ Is(Head(in), "data", s) /\ Head(in).len = len /\ Head(in).eof = eof
    /\ s \in Streams /\ len \in Nat /\ pad \in Nat /\ eof \in BOOLEAN /\ pad <= len /\ len <= con_window
    /\ UNCHANGED <<acked, failing, exceeded, config, peerVars>>
    /\ \/ /\ half[s] = "open"
          /\ half' = [half EXCEPT ![s] = IF eof THEN "closed" ELSE half[s]]
          /\ \E n, c \in Nat : Released(s, len, pad, n, c)
       \/ /\ half' = [half EXCEPT ![s] = "gone"]
          /\ \E c \in Nat : Dropped(len, c)

\* The frame is within both windows, unless it is empty or its stream failed.
LEMMA DataFits ==
    ASSUME RecvInv, Received("data")
    PROVE  LET f == Head(in)
           IN  /\ f.id \in Streams /\ f.len \in Nat /\ f.pad \in Nat /\ f.eof \in BOOLEAN /\ f.pad <= f.len
               /\ f.len <= con_window
               /\ half[f.id] \in {"open", "gone"}
               /\ half[f.id] = "open" /\ f.id \notin failing /\ f.len > 0 => f.len <= recv_window[f.id]
<1> DEFINE f == Head(in)
           s == f.id
<1>1. in \in Seq(InFrame) /\ in # <<>> /\ f \in InFrame /\ f.kind = "data" /\ f = in[1] /\ 1 \in 1 .. Len(in)
  BY DEF RecvInv, StateOK, Received
<1>2. f.id \in Streams /\ f.len \in Nat /\ f.pad \in Nat /\ f.eof \in BOOLEAN /\ f.pad <= f.len
  BY <1>1, InFields
<1>3. in \in Seq(Frames) /\ out \in Seq(Frames) /\ Tail(in) \in Seq(Frames)
  BY <1>1, QueueFrames DEF RecvInv, StateOK
<1> HIDE DEF f
<1>4. f.len <= con_window
  <2>1. Amount(f, "data", Streams) = f.len
    BY <1>1, <1>2 DEF Amount
  <2>2. Total(Tail(in), "data", Streams) = Total(in, "data", Streams) - f.len
    BY <1>1, <1>3, <2>1, SumTail DEF f
  <2>3. Total(Tail(in), "data", Streams) \in Nat /\ Total(in, "data", Streams) \in Nat /\ Total(out, "update", {Con}) \in Nat
    BY <1>3, TotalType
  <2>4. con_window = peer_con + Total(out, "update", {Con}) + Total(in, "data", Streams) /\ peer_con \in Nat
    BY DEF RecvInv, ConInv, ConWindowMatches, StateOK
  <2> QED
    BY <1>2, <2>2, <2>3, <2>4
<1>5. Has(in, "data", s) /\ Is(in[1], "data", s)
  BY <1>1 DEF Has, Is
<1>6. half[s] \in {"open", "gone"}
  <2>1. half[s] # "closed"
    BY <1>2, <1>5 DEF RecvInv, HalfInv
  <2>2. ASSUME half[s] = "idle" PROVE FALSE
    <3>1. Has(in, "headers", s)
      BY <1>2, <1>5, <2>2 DEF RecvInv, HalfInv
    <3>2. PICK k \in 1 .. Len(in) : in[k].kind = "headers" /\ in[k].id = s
      BY <3>1 DEF Has, Is
    <3>3. in[1].kind \in {"headers", "data"} /\ Is(in[k], "headers", in[1].id)
      BY <1>1, <3>2 DEF Is
    <3>4. k <= 1
      BY <1>1, <3>3 DEF RecvInv, InOrder, HeadersFirst
    <3>5. k = 1
      BY <3>4
    <3> QED
      BY <1>1, <3>2, <3>5
  <2> QED
    BY <1>2, <2>1, <2>2 DEF RecvInv, StateOK
<1>7. ASSUME half[s] = "open", s \notin failing, f.len > 0
      PROVE  f.len <= recv_window[s]
  <2>1. FitsIn(in, s, Base(s), Delta)
    BY <1>2, <1>7 DEF RecvInv, WindowInv
  <2>2. Running(in, "data", {s})[1] <= Base(s) + (IF AckAhead(in, 1) THEN Delta ELSE 0)
    BY <1>1, <1>5, <1>7, <2>1 DEF FitsIn
  <2>3. ~AckAhead(in, 1)
    BY DEF AckAhead
  <2>4. Base(s) = recv_window[s] /\ recv_window[s] \in Int
    BY <1>2, <1>7 DEF Base, RecvInv, StateOK
  <2>5. Running(in, "data", {s})[1] = f.len
    <3>1. Amount(in[1], "data", {s}) = f.len
      BY <1>1 DEF Amount
    <3>2. /\ Running(in, "data", {s})[0] = 0
          /\ Running(in, "data", {s})[1] = Running(in, "data", {s})[1 - 1] + Amount(in[1], "data", {s})
      BY <1>1, <1>3, RunningSum
    <3> QED
      BY <1>2, <3>1, <3>2
  <2> QED
    BY <1>2, <2>2, <2>3, <2>4, <2>5
<1> QED
  BY <1>2, <1>4, <1>6, <1>7 DEF f

\* recv_data() is such a step.
LEMMA DataEffect ==
    ASSUME RecvInv, RecvData
    PROVE  DataStep(Head(in).id, Head(in).len, Head(in).pad, Head(in).eof)
<1> DEFINE s == Head(in).id
           len == Head(in).len
           pad == Head(in).pad
           eof == Head(in).eof
<1>0. Head(in).len = len /\ Head(in).eof = eof
  OBVIOUS
<1>1. /\ in # <<>> /\ in' = Tail(in) /\ Received("data")
      /\ Is(Head(in), "data", s)
      /\ UNCHANGED <<acked, failing, config, peerVars>>
  BY DEF RecvData, Received, Is
<1>2. /\ s \in Streams /\ len \in Nat /\ pad \in Nat /\ eof \in BOOLEAN /\ pad <= len
      /\ len <= con_window
      /\ half[s] \in {"open", "gone"}
      /\ half[s] = "open" /\ s \notin failing /\ len > 0 => len <= recv_window[s]
  BY <1>1, DataFits
<1>3. StateOK /\ ConInv /\ exceeded = FALSE
  BY DEF RecvInv, PeerNotFailed, StateOK
<1>4. /\ con_window \in Nat /\ con_size \in Int /\ recv_window[s] \in Int /\ recv_size[s] \in Nat
      /\ half \in [Streams -> {"idle", "open", "closed", "gone"}] /\ out \in Seq(OutFrame)
      /\ recv_window \in [Streams -> Int] /\ recv_size \in [Streams -> Nat]
  BY <1>2, <1>3 DEF StateOK
<1>5. ~(len > con_window)
  BY <1>2, <1>4
<1> DEFINE Gone ==
             half[s] = "gone" /\ ConRelease(con_window - len, con_size, <<>>, <<>>) /\ UNCHANGED <<half, recv_window, recv_size, exceeded>>
           Over ==
             /\ half[s] # "gone" /\ len > recv_window[s]
             /\ exceeded' = (exceeded \/ (len > 0 /\ s \notin failing))
             /\ half' = [half EXCEPT ![s] = "gone"]
             /\ ConRelease(con_window - len, con_size, <<>>, <<Frame("rst", s)>>)
             /\ UNCHANGED <<recv_window, recv_size>>
           Kept ==
             /\ pad = 0
             /\ recv_window' = [recv_window EXCEPT ![s] = recv_window[s] - len]
             /\ recv_size' = [recv_size EXCEPT ![s] = recv_size[s] + len]
             /\ con_window' = con_window - len
             /\ con_size' = con_size + len
             /\ UNCHANGED out
           Taken ==
             /\ half[s] # "gone" /\ ~(len > recv_window[s]) /\ UNCHANGED exceeded
             /\ half' = [half EXCEPT ![s] = IF eof THEN "closed" ELSE half[s]]
             /\ Kept \/ Releases(s, recv_window[s] - len, recv_size[s] + len, len, pad)
<1>6. Gone \/ Over \/ Taken
  BY <1>5 DEF RecvData, Releases
<1> SUFFICES DataStep(s, len, pad, eof)
  OBVIOUS
<1> HIDE DEF s, len, pad, eof
<1>7. CASE Gone
  <2>1. half' = [half EXCEPT ![s] = "gone"]
    BY <1>2, <1>4, <1>7
  <2>2. \E c \in Nat : Dropped(len, c)
    <3> DEFINE after == <<>>
    <3>1. ConRelease(con_window - len, con_size, <<>>, after) /\ after = <<>>
      BY <1>7
    <3> HIDE DEF after
    <3> QED
      BY <1>2, <1>3, <1>7, <3>1, DropEffect
  <2> QED
    BY <1>0, <1>1, <1>2, <1>7, <2>1, <2>2 DEF DataStep, peerVars
<1>8. CASE Over
  <2>1. ~(len > 0 /\ s \notin failing)
    BY <1>2, <1>4, <1>8
  <2>2. exceeded' = exceeded
    BY <1>3, <1>8, <2>1
  <2>3. \E c \in Nat : Dropped(len, c)
    <3> DEFINE after == <<Frame("rst", s)>>
    <3>1. ConRelease(con_window - len, con_size, <<>>, after) /\ \E t \in Streams : after = <<Frame("rst", t)>>
      BY <1>2, <1>8
    <3> HIDE DEF after
    <3> QED
      BY <1>2, <1>3, <1>8, <3>1, DropEffect
  <2> QED
    BY <1>0, <1>1, <1>2, <1>8, <2>2, <2>3 DEF DataStep, peerVars
<1>9. CASE Taken
  <2>1. half[s] = "open"
    BY <1>2, <1>9
  <2>2. \E n, c \in Nat : Released(s, len, pad, n, c)
    <3>1. CASE Releases(s, recv_window[s] - len, recv_size[s] + len, len, pad)
      BY <1>2, <1>3, <3>1, ReleaseEffect
    <3>2. CASE Kept
      <4>1. ConnWindow \in Nat /\ Window \in Nat
        BY <1>3, ConfigFacts DEF StateOK
      <4>2. con_window' = con_window - len + 0 /\ con_size' = con_size + len - pad
            /\ recv_window[s] - len = recv_window[s] - len + 0 /\ recv_size[s] + len = recv_size[s] + len - pad
            /\ con_size' + con_window' = con_size + con_window
        BY <1>2, <1>4, <3>2
      <4>3. ConMoves(len, 0)
        BY <1>2, <1>4, <4>1, <4>2 DEF ConMoves
      <4>4. /\ recv_window' = [recv_window EXCEPT ![s] = recv_window[s] - len + 0]
            /\ recv_size' = [recv_size EXCEPT ![s] = recv_size[s] + len - pad]
        BY <3>2, <4>2
      <4>5. Grows(out, out', 0, Plus(Nothing, s, 0), Live)
        <5>1. Plus(Nothing, s, 0) = Nothing
          BY DEF Plus, Nothing
        <5>2. Grows(out, out, 0, Nothing, Live)
          BY <1>4, GrowNone
        <5> QED
          BY <3>2, <5>1, <5>2
      <4>6. recv_window[s] - len + 0 + (recv_size[s] + len - pad) = recv_window[s] + recv_size[s]
        BY <1>2, <1>4, <3>2
      <4>7. LET z == recv_size[s] + len - pad
                old == recv_window[s] + recv_size[s]
                new == recv_window[s] - len + 0 + z
            IN  /\ Window > 0 /\ z >= 0 /\ old > 0 => new > 0
                /\ new <= old \/ new = Window
        BY <1>4, <4>6
      <4>8. Released(s, len, pad, 0, 0)
        BY <2>1, <4>2, <4>3, <4>4, <4>5, <4>7 DEF Released
      <4> QED
        BY <4>8
    <3> QED
      BY <1>9, <3>1, <3>2
  <2> QED
    BY <1>0, <1>1, <1>2, <1>9, <2>1, <2>2 DEF DataStep, peerVars
<1> QED
  <2> HIDE DEF Gone, Over, Taken
  <2> QED
    BY <1>6, <1>7, <1>8, <1>9

-----------------------------------------------------------------------------
(* The acknowledgment of the settings. *)

\* A sequence of the elements of a set has every element once.
LEMMA SequenceOf ==
    ASSUME NEW D \in SUBSET Streams, NEW order \in SetToSeqs(D)
    PROVE  LET n == Cardinality(D)
           IN  /\ n \in Nat
               /\ order \in [1 .. n -> D]
               /\ \A j, k \in 1 .. n : order[j] = order[k] => j = k
               /\ \A t \in D : \E k \in 1 .. n : order[k] = t
<1> DEFINE n == Cardinality(D)
<1>1. IsFiniteSet(D) /\ n \in Nat
  BY FS_Subset, FS_CardinalityType
<1>2. order \in [1 .. n -> D] /\ \A j, k \in 1 .. n : j # k => order[j] # order[k]
  BY DEF SetToSeqs
<1> HIDE DEF n
<1>3. order \in Injection(1 .. n, D)
  BY <1>2 DEF Injection, IsInjective
<1>4. IsFiniteSet(1 .. n) /\ Cardinality(1 .. n) = n
  BY <1>1, FS_Interval
<1>5. order \in Surjection(1 .. n, D)
  BY <1>1, <1>3, <1>4, FS_Injection DEF n
<1>6. \A t \in D : \E k \in 1 .. n : order[k] = t
  BY <1>5 DEF Surjection
<1> QED
  BY <1>1, <1>2, <1>6 DEF n

\* what the streams in D are given
GivenTo(D, g) == [t \in Streams |-> IF t \in D THEN g[t] ELSE 0]

\* A WINDOW_UPDATE frame for each of some streams.
LEMMA GrowAll ==
    ASSUME NEW q \in Seq(OutFrame), NEW D \in SUBSET Streams, NEW L, D \subseteq L,
           NEW g, \A t \in D : g[t] \in Nat, NEW order \in SetToSeqs(D),
           NEW w, w = [k \in DOMAIN order |-> Update(order[k], g[order[k]])]
    PROVE  Grows(q, q \o w, 0, GivenTo(D, g), L)
<1> DEFINE n == Cardinality(D)
           p == q \o w
<1>1. /\ n \in Nat
      /\ order \in [1 .. n -> D]
      /\ \A j, k \in 1 .. n : order[j] = order[k] => j = k
      /\ \A t \in D : \E k \in 1 .. n : order[k] = t
  BY SequenceOf
<1> HIDE DEF n
<1>2. \A k \in 1 .. n : order[k] \in D /\ order[k] \in Streams /\ g[order[k]] \in Nat
  BY <1>1
<1>3. w = [k \in 1 .. n |-> Update(order[k], g[order[k]])]
  BY <1>1
<1>4. \A k \in 1 .. n : w[k] = Update(order[k], g[order[k]])
  BY <1>3
<1>5. \A k \in 1 .. n : w[k] \in OutFrame
  BY <1>2, <1>4, FrameTypes
<1>6. w \in Seq(OutFrame) /\ Len(w) = n
  BY <1>1, <1>3, <1>5
<1>7. q \in Seq(Frames) /\ w \in Seq(Frames)
  BY <1>6, QueueFrames
<1>8. \A k \in 1 .. n : w[k].kind = "update" /\ w[k].id = order[k] /\ w[k].inc = g[order[k]]
  <2>1. \A id, inc : Update(id, inc).kind = "update" /\ Update(id, inc).id = id /\ Update(id, inc).inc = inc
    BY DEF Update
  <2> QED
    BY <1>4, <2>1
<1>9. Total(w, "update", {Con}) = 0
  <2>1. \A k \in 1 .. n : Amount(w[k], "update", {Con}) = 0
    BY <1>2, <1>8 DEF Amount
  <2> QED
    BY <1>6, <1>7, <2>1, SumNone
<1>10. ASSUME NEW t \in Streams
       PROVE  Total(w, "update", {t}) = IF t \in D THEN g[t] ELSE 0
  <2>1. \A k \in 1 .. n : Amount(w[k], "update", {t}) = IF order[k] = t THEN g[t] ELSE 0
    BY <1>8 DEF Amount
  <2>2. CASE t \in D
    <3>1. PICK j \in 1 .. n : order[j] = t
      BY <1>1, <2>2
    <3>2. \A k \in 1 .. n : k # j => Amount(w[k], "update", {t}) = 0
      BY <1>1, <2>1, <3>1
    <3>3. Total(w, "update", {t}) = Amount(w[j], "update", {t})
      BY <1>6, <1>7, <3>2, SumOne
    <3> QED
      BY <2>1, <2>2, <3>1, <3>3
  <2>3. CASE t \notin D
    <3>1. \A k \in 1 .. n : Amount(w[k], "update", {t}) = 0
      BY <1>2, <2>1, <2>3
    <3>2. Total(w, "update", {t}) = 0
      BY <1>6, <1>7, <3>1, SumNone
    <3> QED
      BY <2>3, <3>2
  <2> QED
    BY <2>2, <2>3
<1>11. /\ p \in Seq(OutFrame) /\ Len(p) = Len(q) + n /\ Len(q) \in Nat
       /\ \A k \in 1 .. Len(q) : p[k] = q[k]
       /\ \A k \in Len(q) + 1 .. Len(q) + n : p[k] = w[k - Len(q)]
  BY <1>1, <1>6
<1>12. \A ids : Total(p, "update", ids) = Total(q, "update", ids) + Total(w, "update", ids)
  BY <1>7, SumConcat
<1> HIDE DEF p
<1>13. Total(p, "update", {Con}) = Total(q, "update", {Con}) + 0
  <2>1. Total(p, "update", {Con}) = Total(q, "update", {Con}) + Total(w, "update", {Con})
    BY <1>12
  <2> QED
    BY <1>9, <2>1
<1>14. ASSUME NEW t \in Streams
       PROVE  Total(p, "update", {t}) = Total(q, "update", {t}) + GivenTo(D, g)[t]
  <2>1. Total(p, "update", {t}) = Total(q, "update", {t}) + Total(w, "update", {t})
    BY <1>12
  <2>2. GivenTo(D, g)[t] = Total(w, "update", {t})
    BY <1>10 DEF GivenTo
  <2> QED
    BY <2>1, <2>2
<1>15. ASSUME NEW k \in Len(q) + 1 .. Len(p)
       PROVE  /\ p[k].kind \in {"update", "rst"}
              /\ p[k].kind = "update" => p[k].id \in L \union {Con}
  <2>1. k - Len(q) \in 1 .. n /\ p[k] = w[k - Len(q)]
    BY <1>1, <1>11
  <2> QED
    BY <1>2, <1>8, <2>1
<1>16. Len(q) <= Len(p)
  BY <1>1, <1>11
<1>17. Grows(q, p, 0, GivenTo(D, g), L)
  BY <1>11, <1>13, <1>14, <1>15, <1>16 DEF Grows
<1> QED
  BY <1>17 DEF p

\* the streams whose window overflows
Over == {t \in Live : Overflows(recv_window[t], Delta, MaxWindow)}

\* the acknowledgment is taken, the stream t is given u[t] bytes
AckStep(u) ==
    /\ in # <<>> /\ in' = Tail(in) /\ Head(in).kind = "ack"
    /\ acked' = TRUE /\ failing = {}
    /\ UNCHANGED <<recv_size, con_window, con_size, exceeded, config, peerVars>>
    /\ Grows(out, out', 0, u, Live)
    /\ recv_window' \in [Streams -> Int]
    /\ \A t \in Live \ Over :
          /\ recv_window'[t] = recv_window[t] + Delta + u[t]
          /\ Window > 0 => recv_window'[t] + recv_size[t] > 0
    /\ \A t \in Streams \ (Live \ Over) : recv_window'[t] = recv_window[t] /\ u[t] = 0
    /\ failing' \subseteq Over
    /\ half' \in [Streams -> {"idle", "open", "closed", "gone"}]
    /\ \A t \in Streams : half'[t] = half[t] \/ (half'[t] = "gone" /\ t \in Over)
    /\ \A t \in Over : half'[t] = "gone" \/ t \in failing'

\* recv_settings() is such a step.
LEMMA AckEffect ==
    ASSUME RecvInv, RecvAck
    PROVE  \E u \in [Streams -> Nat] : AckStep(u)
<1> DEFINE Due == {s \in Live \ Over : Window # Default
                     /\ UpdateDue(AckedWindow(s), recv_size[s], Window, Threshold)}
           g == [t \in Streams |-> AckedUpdate(t)]
           u == GivenTo(Due, g)
           Frames1(order) == [k \in DOMAIN order |-> Update(order[k], AckedUpdate(order[k]))]
<1>1. /\ in # <<>> /\ in' = Tail(in) /\ Head(in).kind = "ack"
      /\ acked' = TRUE
      /\ recv_window' = [s \in Streams |->
            IF s \in Due THEN AckedWindow(s) + AckedUpdate(s)
            ELSE IF s \in Live \ Over THEN AckedWindow(s)
            ELSE recv_window[s]]
      /\ UNCHANGED <<recv_size, con_window, con_size, exceeded, config, peerVars>>
  BY DEF RecvAck, Received, Live, Over, Delta
<1>2. \E order \in SetToSeqs(Due) :
         \/ Over = {} /\ out' = out \o Frames1(order) /\ UNCHANGED <<half, failing>>
         \/ \E s \in Over :
               /\ failing' = Over \ {s}
               /\ half' = [half EXCEPT ![s] = "gone"]
               /\ out' = Append(out \o Frames1(order), Frame("rst", s))
  BY DEF RecvAck, Live, Over, Delta
<1>3. PICK order \in SetToSeqs(Due) :
         \/ Over = {} /\ out' = out \o Frames1(order) /\ UNCHANGED <<half, failing>>
         \/ \E s \in Over :
               /\ failing' = Over \ {s}
               /\ half' = [half EXCEPT ![s] = "gone"]
               /\ out' = Append(out \o Frames1(order), Frame("rst", s))
  BY <1>2
<1>4. /\ Window \in Nat /\ Default \in Nat /\ Delta \in Int /\ MaxWindow \in Nat
      /\ Threshold \in Nat /\ Threshold <= Window
  BY ConfigFacts, ThresholdFacts DEF RecvInv, StateOK, Delta
<1>5. /\ recv_window \in [Streams -> Int] /\ recv_size \in [Streams -> Nat]
      /\ half \in [Streams -> {"idle", "open", "closed", "gone"}] /\ out \in Seq(OutFrame)
  BY DEF RecvInv, StateOK
<1>6. \A t \in Streams : AckedWindow(t) = recv_window[t] + Delta /\ AckedWindow(t) \in Int
  BY <1>4, <1>5 DEF AckedWindow, Delta
<1>7. ASSUME NEW t \in Streams
      PROVE  /\ UpdateDue(AckedWindow(t), recv_size[t], Window, Threshold) =>
                   AckedUpdate(t) \in Nat /\ AckedWindow(t) + AckedUpdate(t) + recv_size[t] = Window
             /\ ~UpdateDue(AckedWindow(t), recv_size[t], Window, Threshold) /\ Window > 0 =>
                   AckedWindow(t) + recv_size[t] > 0
  <2> DEFINE a == AckedWindow(t)
  <2>1. a \in Int /\ recv_size[t] \in Nat /\ recv_size[t] \in Int /\ AckedUpdate(t) = Available(a, recv_size[t], Window)
    BY <1>5, <1>6 DEF AckedUpdate
  <2> HIDE DEF a
  <2>2. /\ UpdateDue(a, recv_size[t], Window, Threshold) =>
              Available(a, recv_size[t], Window) \in Nat /\ a + Available(a, recv_size[t], Window) + recv_size[t] = Window
        /\ ~UpdateDue(a, recv_size[t], Window, Threshold) /\ Window > 0 /\ recv_size[t] >= 0 => a + recv_size[t] > 0
    BY <1>4, <2>1, UpdateFacts
  <2>3. recv_size[t] >= 0
    BY <2>1
  <2> QED
    BY <2>1, <2>2, <2>3 DEF a
<1>8. /\ Live \in SUBSET Streams /\ Over \in SUBSET Live /\ Due \in SUBSET (Live \ Over) /\ Due \in SUBSET Streams
  BY DEF Live, Over
<1>9. \A t \in Due : g[t] = AckedUpdate(t) /\ AckedUpdate(t) \in Nat /\ AckedWindow(t) + AckedUpdate(t) + recv_size[t] = Window
  BY <1>7, <1>8
<1>10. u \in [Streams -> Nat]
  BY <1>9 DEF GivenTo
<1>11. Frames1(order) = [k \in DOMAIN order |-> Update(order[k], g[order[k]])]
  <2>1. \A k \in DOMAIN order : order[k] \in Streams
    BY <1>3, <1>8, SequenceOf
  <2> QED
    BY <2>1
<1>12. Grows(out, out \o Frames1(order), 0, u, Live)
  <2> DEFINE w == Frames1(order)
  <2>1. w = [k \in DOMAIN order |-> Update(order[k], g[order[k]])] /\ Due \subseteq Live /\ \A t \in Due : g[t] \in Nat
    BY <1>8, <1>9, <1>11
  <2> HIDE DEF w, Due, g
  <2>2. Grows(out, out \o w, 0, GivenTo(Due, g), Live)
    BY <1>5, <1>8, <2>1, GrowAll
  <2> QED
    BY <2>2 DEF w
<1> HIDE DEF Frames1
<1>13. Grows(out, out', 0, u, Live)
  <2>1. CASE out' = out \o Frames1(order)
    BY <1>12, <2>1
  <2>2. ASSUME NEW s \in Over, out' = Append(out \o Frames1(order), Frame("rst", s))
        PROVE  Grows(out, out', 0, u, Live)
    <3> DEFINE p == out \o Frames1(order)
    <3>1. Grows(out, p, 0, u, Live) /\ s \in Streams /\ out' = Append(p, Frame("rst", s))
      BY <1>8, <1>12, <2>2
    <3> HIDE DEF p, u
    <3> QED
      BY <1>10, <3>1, GrowReset
  <2> QED
    BY <1>3, <2>1, <2>2
<1>14. \A t \in Live \ Over :
          /\ recv_window'[t] = recv_window[t] + Delta + u[t]
          /\ Window > 0 => recv_window'[t] + recv_size[t] > 0
  <2> SUFFICES ASSUME NEW t \in Live \ Over
               PROVE  /\ recv_window'[t] = recv_window[t] + Delta + u[t]
                      /\ Window > 0 => recv_window'[t] + recv_size[t] > 0
    OBVIOUS
  <2>1. t \in Streams /\ recv_window[t] \in Int /\ recv_size[t] \in Nat
    BY <1>5, <1>8
  <2>2. CASE t \in Due
    <3>1. recv_window'[t] = AckedWindow(t) + AckedUpdate(t) /\ u[t] = AckedUpdate(t)
      BY <1>1, <1>9, <2>1, <2>2 DEF GivenTo
    <3>2. AckedUpdate(t) \in Nat /\ AckedWindow(t) + AckedUpdate(t) + recv_size[t] = Window
      BY <1>9, <2>2
    <3> QED
      BY <1>4, <1>6, <2>1, <3>1, <3>2
  <2>3. CASE t \notin Due
    <3>1. recv_window'[t] = AckedWindow(t) /\ u[t] = 0
      BY <1>1, <2>1, <2>3 DEF GivenTo
    <3>2. Window = Default \/ ~UpdateDue(AckedWindow(t), recv_size[t], Window, Threshold)
      BY <2>3
    <3>3. ASSUME Window > 0 PROVE AckedWindow(t) + recv_size[t] > 0
      <4>1. CASE ~UpdateDue(AckedWindow(t), recv_size[t], Window, Threshold)
        BY <1>7, <2>1, <3>3, <4>1
      <4>2. CASE Window = Default
        <5>1. recv_window[t] + recv_size[t] > 0
          BY <2>1, <3>3 DEF RecvInv, WindowInv, SizeInv, Live
        <5>2. Delta = 0
          BY <1>4, <4>2 DEF Delta
        <5> QED
          BY <1>6, <2>1, <5>1, <5>2
      <4> QED
        BY <3>2, <4>1, <4>2
    <3> QED
      BY <1>4, <1>6, <2>1, <3>1, <3>3
  <2> QED
    BY <2>2, <2>3
<1>15. \A t \in Streams \ (Live \ Over) : recv_window'[t] = recv_window[t] /\ u[t] = 0
  BY <1>1 DEF GivenTo
<1>16. recv_window' \in [Streams -> Int]
  <2>1. \A t \in Streams : recv_window[t] \in Int /\ AckedWindow(t) \in Int
    BY <1>5, <1>6
  <2> HIDE DEF Due
  <2>2. ASSUME NEW t \in Due PROVE AckedWindow(t) + AckedUpdate(t) \in Int
    <3>1. t \in Streams /\ AckedUpdate(t) \in Nat
      BY <1>8, <1>9
    <3> HIDE DEF g
    <3> QED
      BY <2>1, <3>1
  <2> QED
    BY <1>1, <2>1, <2>2
<1>17. failing = {}
  <2>1. 1 \in 1 .. Len(in) /\ in[1].kind = "ack"
    BY <1>1 DEF RecvInv, StateOK
  <2> QED
    BY <2>1 DEF RecvInv, SettingsInv, AckUnderWay
<1>18. /\ failing' \subseteq Over
       /\ half' \in [Streams -> {"idle", "open", "closed", "gone"}]
       /\ \A t \in Streams : half'[t] = half[t] \/ (half'[t] = "gone" /\ t \in Over)
       /\ \A t \in Over : half'[t] = "gone" \/ t \in failing'
  <2>1. CASE Over = {} /\ UNCHANGED <<half, failing>>
    BY <1>5, <1>17, <2>1
  <2>2. ASSUME NEW s \in Over, failing' = Over \ {s}, half' = [half EXCEPT ![s] = "gone"]
        PROVE  /\ failing' \subseteq Over
               /\ half' \in [Streams -> {"idle", "open", "closed", "gone"}]
               /\ \A t \in Streams : half'[t] = half[t] \/ (half'[t] = "gone" /\ t \in Over)
               /\ \A t \in Over : half'[t] = "gone" \/ t \in failing'
    BY <1>5, <1>8, <2>2
  <2> QED
    BY <1>3, <2>1, <2>2
<1> HIDE DEF u
<1>19. AckStep(u)
  BY <1>1, <1>13, <1>14, <1>15, <1>16, <1>17, <1>18 DEF AckStep
<1> QED
  BY <1>10, <1>19

-----------------------------------------------------------------------------
(* The order of the frames. *)

\* Update and rst frames follow.
LEMMA GrownOrder ==
    ASSUME NEW q, NEW p, NEW c, NEW u, NEW L, Grows(q, p, c, u, L)
    PROVE  /\ HeadersFirst(q, "update") => HeadersFirst(p, "update")
           /\ \A applied \in BOOLEAN : SettingsFirst(q, applied) => SettingsFirst(p, applied)
           /\ \A t \in Streams : Has(p, "headers", t) <=> Has(q, "headers", t)
           /\ \A t \in Streams : Has(p, "update", t) => Has(q, "update", t) \/ t \in L
<1>1. /\ q \in Seq(OutFrame) /\ p \in Seq(OutFrame) /\ Len(q) \in Nat /\ Len(p) \in Nat /\ Len(q) <= Len(p)
      /\ \A k \in 1 .. Len(q) : p[k] = q[k] /\ k \in 1 .. Len(p)
      /\ \A k \in 1 .. Len(p) : k \notin 1 .. Len(q) =>
            /\ p[k].kind \in {"update", "rst"}
            /\ p[k].kind = "update" => p[k].id \in L \union {Con}
            /\ k > Len(q)
  BY DEF Grows
<1>2. ASSUME HeadersFirst(q, "update") PROVE HeadersFirst(p, "update")
  <2> SUFFICES ASSUME NEW j \in 1 .. Len(p), NEW k \in 1 .. Len(p),
                      p[j].kind \in {"headers", "update"}, Is(p[k], "headers", p[j].id)
               PROVE  k <= j
    BY DEF HeadersFirst
  <2>1. k \in 1 .. Len(q) /\ p[k] = q[k]
    BY <1>1 DEF Is
  <2>2. CASE j \in 1 .. Len(q)
    BY <1>1, <1>2, <2>1, <2>2 DEF HeadersFirst
  <2>3. CASE j \notin 1 .. Len(q)
    BY <1>1, <2>1, <2>3
  <2> QED
    BY <2>2, <2>3
<1>3. ASSUME NEW applied \in BOOLEAN, SettingsFirst(q, applied) PROVE SettingsFirst(p, applied)
  <2>1. ~applied => p # <<>> /\ p[1].kind = "settings"
    BY <1>1, <1>3 DEF SettingsFirst
  <2>2. \A k \in 1 .. Len(p) : p[k].kind = "settings" => k = 1 /\ ~applied
    BY <1>1, <1>3 DEF SettingsFirst
  <2> QED
    BY <2>1, <2>2 DEF SettingsFirst
<1>4. ASSUME NEW t \in Streams PROVE Has(p, "headers", t) <=> Has(q, "headers", t)
  BY <1>1 DEF Has, Is
<1>5. ASSUME NEW t \in Streams PROVE Has(p, "update", t) => Has(q, "update", t) \/ t \in L
  <2> SUFFICES ASSUME NEW k \in 1 .. Len(p), p[k].kind = "update", p[k].id = t
               PROVE  Has(q, "update", t) \/ t \in L
    BY DEF Has, Is
  <2>1. CASE k \in 1 .. Len(q)
    BY <1>1, <2>1 DEF Has, Is
  <2>2. CASE k \notin 1 .. Len(q)
    BY <1>1, <2>2
  <2> QED
    BY <2>1, <2>2
<1> QED
  BY <1>2, <1>3, <1>4, <1>5

\* The frames behind the first one.
LEMMA TailIndex ==
    ASSUME NEW q \in Seq(Frames), q # <<>>
    PROVE  /\ Tail(q) \in Seq(Frames) /\ Len(Tail(q)) = Len(q) - 1 /\ Len(q) \in Nat /\ Len(q) >= 1
           /\ Head(q) = q[1] /\ Head(q) \in Frames
           /\ \A k \in 1 .. Len(q) - 1 : Tail(q)[k] = q[k + 1] /\ k + 1 \in 1 .. Len(q)
           /\ \A k \in 1 .. Len(q) : k = 1 \/ (k - 1 \in 1 .. Len(q) - 1 /\ Tail(q)[k - 1] = q[k])
OBVIOUS

\* A frame is read.
LEMMA TailHas ==
    ASSUME NEW q \in Seq(Frames), q # <<>>
    PROVE  /\ \A kind, id : Has(q, kind, id) <=> Is(Head(q), kind, id) \/ Has(Tail(q), kind, id)
           /\ \A id : HasEof(Tail(q), id) => HasEof(q, id)
<1> DEFINE p == Tail(q)
           n == Len(q)
<1>1. /\ Len(p) = n - 1 /\ n \in Nat /\ n >= 1
      /\ Head(q) = q[1]
      /\ \A k \in 1 .. n - 1 : p[k] = q[k + 1] /\ k + 1 \in 1 .. n
      /\ \A k \in 1 .. n : k = 1 \/ (k - 1 \in 1 .. n - 1 /\ p[k - 1] = q[k])
  BY TailIndex
<1> HIDE DEF p, n
<1>2. ASSUME NEW kind, NEW id PROVE Has(q, kind, id) <=> Is(Head(q), kind, id) \/ Has(p, kind, id)
  <2>1. ASSUME NEW k \in 1 .. n, Is(q[k], kind, id) PROVE Is(Head(q), kind, id) \/ Has(p, kind, id)
    BY <1>1, <2>1 DEF Has
  <2>2. ASSUME NEW k \in 1 .. n - 1, Is(p[k], kind, id) PROVE Has(q, kind, id)
    BY <1>1, <2>2 DEF Has, n
  <2>3. Is(Head(q), kind, id) => Has(q, kind, id)
    BY <1>1 DEF Has, n
  <2> QED
    BY <1>1, <2>1, <2>2, <2>3 DEF Has, n
<1>3. ASSUME NEW id, HasEof(p, id) PROVE HasEof(q, id)
  <2>1. PICK k \in 1 .. n - 1 : Is(p[k], "data", id) /\ p[k].eof
    BY <1>1, <1>3 DEF HasEof
  <2> QED
    BY <1>1, <2>1 DEF HasEof, n
<1> QED
  BY <1>2, <1>3 DEF p

\* The order of the frames behind the first one.
LEMMA TailOrder ==
    ASSUME NEW q \in Seq(Frames), q # <<>>
    PROVE  /\ \A kind : HeadersFirst(q, kind) => HeadersFirst(Tail(q), kind)
           /\ \A kind, id : HeadersFirst(q, kind) /\ Is(Head(q), "headers", id) => ~Has(Tail(q), "headers", id)
           /\ EofLast(q) => EofLast(Tail(q))
           /\ \A id : EofLast(q) /\ Is(Head(q), "data", id) /\ Head(q).eof => ~Has(Tail(q), "data", id)
           /\ \A applied \in BOOLEAN : SettingsFirst(q, applied) =>
                 SettingsFirst(Tail(q), TRUE) /\ (Head(q).kind = "settings" <=> ~applied)
           /\ \A pending \in BOOLEAN : AckUnderWay(q, pending) =>
                 IF Head(q).kind = "ack" THEN AckUnderWay(Tail(q), FALSE) /\ pending
                 ELSE AckUnderWay(Tail(q), pending)
<1> DEFINE p == Tail(q)
           n == Len(q)
<1>1. /\ Len(p) = n - 1 /\ n \in Nat /\ n >= 1 /\ 1 \in 1 .. n
      /\ Head(q) = q[1]
      /\ \A k \in 1 .. n - 1 : p[k] = q[k + 1] /\ k + 1 \in 1 .. n
      /\ \A k \in 1 .. n : k = 1 \/ (k - 1 \in 1 .. n - 1 /\ p[k - 1] = q[k])
  BY TailIndex
<1> HIDE DEF p
<1>2. ASSUME NEW kind, HeadersFirst(q, kind) PROVE HeadersFirst(p, kind)
  <2> SUFFICES ASSUME NEW j \in 1 .. n - 1, NEW k \in 1 .. n - 1,
                      p[j].kind \in {"headers", kind}, Is(p[k], "headers", p[j].id)
               PROVE  k <= j
    BY <1>1 DEF HeadersFirst
  <2>1. k + 1 <= j + 1
    BY <1>1, <1>2 DEF HeadersFirst
  <2> QED
    BY <2>1
<1>3. ASSUME NEW kind, NEW id, HeadersFirst(q, kind), Is(Head(q), "headers", id), Has(p, "headers", id) PROVE FALSE
  <2>1. PICK k \in 1 .. n - 1 : Is(p[k], "headers", id)
    BY <1>1, <1>3 DEF Has
  <2>2. q[1].kind \in {"headers", kind} /\ q[1].id = id /\ Is(q[k + 1], "headers", id) /\ k + 1 \in 1 .. n
    BY <1>1, <1>3, <2>1 DEF Is
  <2>3. k + 1 <= 1
    BY <1>1, <1>3, <2>2 DEF HeadersFirst
  <2> QED
    BY <2>3
<1>4. ASSUME EofLast(q) PROVE EofLast(p)
  <2> SUFFICES ASSUME NEW j \in 1 .. n - 1, NEW k \in 1 .. n - 1,
                      p[k].kind = "data", p[k].eof, Is(p[j], "data", p[k].id)
               PROVE  j <= k
    BY <1>1 DEF EofLast
  <2>1. j + 1 <= k + 1
    BY <1>1, <1>4 DEF EofLast
  <2> QED
    BY <2>1
<1>5. ASSUME NEW id, EofLast(q), Is(Head(q), "data", id), Head(q).eof, Has(p, "data", id) PROVE FALSE
  <2>1. PICK k \in 1 .. n - 1 : Is(p[k], "data", id)
    BY <1>1, <1>5 DEF Has
  <2>2. q[1].kind = "data" /\ q[1].eof /\ q[1].id = id /\ Is(q[k + 1], "data", id) /\ k + 1 \in 1 .. n
    BY <1>1, <1>5, <2>1 DEF Is
  <2>3. k + 1 <= 1
    BY <1>1, <1>5, <2>2 DEF EofLast
  <2> QED
    BY <2>3
<1>6. ASSUME NEW applied \in BOOLEAN, SettingsFirst(q, applied)
      PROVE  SettingsFirst(p, TRUE) /\ (Head(q).kind = "settings" <=> ~applied)
  <2>1. ASSUME NEW k \in 1 .. n - 1, p[k].kind = "settings" PROVE FALSE
    <3>1. q[k + 1].kind = "settings" /\ k + 1 \in 1 .. n
      BY <1>1, <2>1
    <3>2. k + 1 = 1
      BY <1>6, <3>1 DEF SettingsFirst
    <3> QED
      BY <3>2
  <2>2. Head(q).kind = "settings" <=> ~applied
    BY <1>1, <1>6 DEF SettingsFirst
  <2> QED
    BY <1>1, <2>1, <2>2 DEF SettingsFirst
<1>7. ASSUME NEW pending \in BOOLEAN, AckUnderWay(q, pending)
      PROVE  IF Head(q).kind = "ack" THEN AckUnderWay(p, FALSE) /\ pending ELSE AckUnderWay(p, pending)
  <2>1. ASSUME NEW j \in 1 .. n - 1, NEW k \in 1 .. n - 1, p[j].kind = "ack", p[k].kind = "ack" PROVE j = k
    <3>1. j + 1 = k + 1
      BY SMTT(30), <1>1, <1>7, <2>1 DEF AckUnderWay
    <3> QED
      BY <3>1
  <2>2. CASE Head(q).kind = "ack"
    <3>1. ASSUME NEW k \in 1 .. n - 1, p[k].kind = "ack" PROVE FALSE
      <4>1. k + 1 = 1
        BY <1>1, <1>7, <2>2, <3>1 DEF AckUnderWay
      <4> QED
        BY <4>1
    <3>2. pending
      BY <1>1, <1>7, <2>2 DEF AckUnderWay
    <3>3. AckUnderWay(p, FALSE)
      BY <1>1, <3>1 DEF AckUnderWay
    <3> QED
      BY <2>2, <3>2, <3>3
  <2>3. CASE Head(q).kind # "ack"
    <3>1. (\E k \in 1 .. n : q[k].kind = "ack") <=> (\E k \in 1 .. n - 1 : p[k].kind = "ack")
      BY <1>1, <2>3
    <3>2. pending <=> \E k \in 1 .. n : q[k].kind = "ack"
      BY <1>7 DEF AckUnderWay
    <3>3. AckUnderWay(p, pending)
      BY <1>1, <2>1, <3>1, <3>2 DEF AckUnderWay
    <3> QED
      BY <2>3, <3>3
  <2> QED
    BY <2>2, <2>3
<1> QED
  BY <1>2, <1>3, <1>4, <1>5, <1>6, <1>7 DEF p

\* The frame that is written comes last.
LEMMA AppendIndex ==
    ASSUME NEW q \in Seq(Frames), NEW e \in Frames
    PROVE  /\ Append(q, e) \in Seq(Frames) /\ Len(q) \in Nat /\ Len(Append(q, e)) = Len(q) + 1
           /\ Append(q, e)[Len(q) + 1] = e /\ Append(q, e) # <<>>
           /\ \A k \in 1 .. Len(q) : Append(q, e)[k] = q[k] /\ k \in 1 .. Len(q) + 1
           /\ \A k \in 1 .. Len(q) + 1 : k \in 1 .. Len(q) \/ k = Len(q) + 1
OBVIOUS

\* A frame is written.
LEMMA AppendHas ==
    ASSUME NEW q \in Seq(Frames), NEW e \in Frames
    PROVE  /\ \A kind, id : Has(Append(q, e), kind, id) <=> Has(q, kind, id) \/ Is(e, kind, id)
           /\ \A id : HasEof(Append(q, e), id) <=> HasEof(q, id) \/ (Is(e, "data", id) /\ e.eof)
<1> DEFINE p == Append(q, e)
           n == Len(q)
<1>1. /\ n \in Nat /\ Len(p) = n + 1 /\ p[n + 1] = e /\ n + 1 \in 1 .. n + 1
      /\ \A k \in 1 .. n : p[k] = q[k] /\ k \in 1 .. n + 1
      /\ \A k \in 1 .. n + 1 : k \in 1 .. n \/ k = n + 1
  BY AppendIndex
<1> HIDE DEF p
<1>2. ASSUME NEW kind, NEW id PROVE Has(p, kind, id) <=> Has(q, kind, id) \/ Is(e, kind, id)
  BY <1>1 DEF Has
<1>3. ASSUME NEW id PROVE HasEof(p, id) <=> HasEof(q, id) \/ (Is(e, "data", id) /\ e.eof)
  BY <1>1 DEF HasEof
<1> QED
  BY <1>2, <1>3 DEF p

\* The order of the frames with one more.
LEMMA AppendOrder ==
    ASSUME NEW q \in Seq(Frames), NEW e \in Frames
    PROVE  /\ \A kind : /\ HeadersFirst(q, kind)
                        /\ e.kind = "headers" => ~Has(q, "headers", e.id) /\ ~Has(q, kind, e.id)
                        => HeadersFirst(Append(q, e), kind)
           /\ EofLast(q) /\ (e.kind = "data" => ~HasEof(q, e.id)) => EofLast(Append(q, e))
           /\ \A applied \in BOOLEAN :
                 SettingsFirst(q, applied) /\ e.kind # "settings" => SettingsFirst(Append(q, e), applied)
           /\ \A pending \in BOOLEAN :
                 AckUnderWay(q, pending) /\ e.kind # "ack" => AckUnderWay(Append(q, e), pending)
           /\ AckUnderWay(q, FALSE) /\ e.kind = "ack" => AckUnderWay(Append(q, e), TRUE)
<1> DEFINE p == Append(q, e)
           n == Len(q)
<1>1. /\ n \in Nat /\ Len(p) = n + 1 /\ p[n + 1] = e /\ n + 1 \in 1 .. n + 1 /\ p # <<>>
      /\ \A k \in 1 .. n : p[k] = q[k] /\ k \in 1 .. n + 1 /\ k <= n + 1
      /\ \A k \in 1 .. n + 1 : k \in 1 .. n \/ k = n + 1
  BY AppendIndex
<1> HIDE DEF p
<1>2. ASSUME NEW kind, HeadersFirst(q, kind), e.kind = "headers" => ~Has(q, "headers", e.id) /\ ~Has(q, kind, e.id)
      PROVE  HeadersFirst(p, kind)
  <2> SUFFICES ASSUME NEW j \in 1 .. n + 1, NEW k \in 1 .. n + 1,
                      p[j].kind \in {"headers", kind}, Is(p[k], "headers", p[j].id)
               PROVE  k <= j
    BY <1>1 DEF HeadersFirst
  <2>1. CASE j = n + 1
    BY <2>1
  <2>2. CASE j \in 1 .. n /\ k \in 1 .. n
    BY <1>1, <1>2, <2>2 DEF HeadersFirst
  <2>3. CASE j \in 1 .. n /\ k = n + 1
    <3>1. e.kind = "headers" /\ e.id = q[j].id /\ q[j].kind \in {"headers", kind}
      BY <1>1, <2>3 DEF Is
    <3> QED
      BY <1>2, <2>3, <3>1 DEF Has, Is
  <2> QED
    BY <1>1, <2>1, <2>2, <2>3
<1>3. ASSUME EofLast(q), e.kind = "data" => ~HasEof(q, e.id) PROVE EofLast(p)
  <2> SUFFICES ASSUME NEW j \in 1 .. n + 1, NEW k \in 1 .. n + 1,
                      p[k].kind = "data", p[k].eof, Is(p[j], "data", p[k].id)
               PROVE  j <= k
    BY <1>1 DEF EofLast
  <2>1. CASE k = n + 1
    BY <2>1
  <2>2. CASE j \in 1 .. n /\ k \in 1 .. n
    BY <1>1, <1>3, <2>2 DEF EofLast
  <2>3. CASE k \in 1 .. n /\ j = n + 1
    <3>1. e.kind = "data" /\ e.id = q[k].id /\ q[k].kind = "data" /\ q[k].eof
      BY <1>1, <2>3 DEF Is
    <3> QED
      BY <1>3, <2>3, <3>1 DEF HasEof, Is
  <2> QED
    BY <1>1, <2>1, <2>2, <2>3
<1>4. ASSUME NEW applied \in BOOLEAN, SettingsFirst(q, applied), e.kind # "settings" PROVE SettingsFirst(p, applied)
  <2>1. ~applied => p[1].kind = "settings"
    <3>1. ~applied => 1 \in 1 .. n
      BY <1>1, <1>4 DEF SettingsFirst
    <3> QED
      BY <1>1, <1>4, <3>1 DEF SettingsFirst
  <2> QED
    BY <1>1, <1>4, <2>1 DEF SettingsFirst
<1>5. ASSUME NEW pending \in BOOLEAN, AckUnderWay(q, pending), e.kind # "ack" PROVE AckUnderWay(p, pending)
  <2>1. (\E k \in 1 .. n : q[k].kind = "ack") <=> (\E k \in 1 .. n + 1 : p[k].kind = "ack")
    BY <1>1, <1>5
  <2>2. \A j, k \in 1 .. n + 1 : p[j].kind = "ack" /\ p[k].kind = "ack" => j = k
    BY <1>1, <1>5 DEF AckUnderWay
  <2> QED
    BY <1>1, <1>5, <2>1, <2>2 DEF AckUnderWay
<1>6. ASSUME AckUnderWay(q, FALSE), e.kind = "ack" PROVE AckUnderWay(p, TRUE)
  BY <1>1, <1>6 DEF AckUnderWay
<1> QED
  BY <1>2, <1>3, <1>4, <1>5, <1>6 DEF p

\* A frame of a stream is behind the headers of the stream.
LEMMA NoHeaders ==
    ASSUME NEW q \in Seq(Frames), q # <<>>, NEW kind, kind # "headers", HeadersFirst(q, kind),
           NEW id, Is(Head(q), kind, id)
    PROVE  ~Has(q, "headers", id)
<1> SUFFICES ASSUME NEW k \in 1 .. Len(q), Is(q[k], "headers", id)
             PROVE  FALSE
  BY DEF Has
<1>1. 1 \in 1 .. Len(q) /\ q[1] = Head(q) /\ k \in Nat /\ k >= 1
  OBVIOUS
<1>2. q[1].kind = kind /\ q[1].id = id
  BY <1>1 DEF Is
<1>3. k <= 1
  BY <1>1, <1>2 DEF HeadersFirst
<1>4. k = 1
  BY <1>1, <1>3
<1> QED
  BY <1>2, <1>4 DEF Is

\* Nothing is under way.
LEMMA TotalNone ==
    ASSUME NEW q \in Seq(Frames), NEW kind \in {"data", "update"}, NEW id, ~Has(q, kind, id)
    PROVE  Total(q, kind, {id}) = 0
<1>1. \A k \in 1 .. Len(q) : Amount(q[k], kind, {id}) = 0
  BY DEF Has, Is, Amount
<1> QED
  BY <1>1, SumNone

-----------------------------------------------------------------------------
(* The DATA frames fit into the window. *)

\* A larger window.
LEMMA FitsMore ==
    ASSUME NEW q \in Seq(Frames), NEW s, NEW b \in Int, NEW c \in Int, NEW d \in Int, b <= c, FitsIn(q, s, b, d)
    PROVE  FitsIn(q, s, c, d)
<1> SUFFICES ASSUME NEW k \in 1 .. Len(q), Is(q[k], "data", s), q[k].len > 0
             PROVE  Running(q, "data", {s})[k] <= c + (IF AckAhead(q, k) THEN d ELSE 0)
  BY DEF FitsIn
<1>1. Running(q, "data", {s})[k] <= b + (IF AckAhead(q, k) THEN d ELSE 0)
  BY DEF FitsIn
<1>2. Running(q, "data", {s})[k] \in Nat
  BY RunningSum
<1> QED
  BY <1>1, <1>2

\* No DATA frame is under way.
LEMMA FitsNone ==
    ASSUME NEW q, NEW s, NEW b, NEW d, ~Has(q, "data", s)
    PROVE  FitsIn(q, s, b, d)
BY DEF FitsIn, Has

\* A frame is read, not the acknowledgment.
LEMMA FitsTail ==
    ASSUME NEW q \in Seq(Frames), q # <<>>, Head(q).kind # "ack", NEW s, NEW b \in Int, NEW c \in Int, NEW d \in Int,
           c >= b - Amount(Head(q), "data", {s}), FitsIn(q, s, b, d)
    PROVE  FitsIn(Tail(q), s, c, d)
<1> DEFINE p == Tail(q)
           n == Len(q)
           a == Amount(Head(q), "data", {s})
           r == Running(q, "data", {s})
           t == Running(p, "data", {s})
<1>1. /\ Len(p) = n - 1 /\ n \in Nat /\ n >= 1
      /\ Head(q) = q[1] /\ Head(q) \in Frames
      /\ \A k \in 1 .. n - 1 : p[k] = q[k + 1] /\ k + 1 \in 1 .. n
      /\ \A k \in 1 .. n : k = 1 \/ (k - 1 \in 1 .. n - 1 /\ p[k - 1] = q[k])
  BY TailIndex
<1>2. a \in Nat /\ \A k \in 0 .. n : r[k] \in Nat
  BY <1>1, AmountType, RunningSum
<1>3. \A k \in 0 .. n - 1 : t[k] = r[k + 1] - a
  BY SumTail
<1> SUFFICES ASSUME NEW k \in 1 .. n - 1, Is(p[k], "data", s), p[k].len > 0
             PROVE  t[k] <= c + (IF AckAhead(p, k) THEN d ELSE 0)
  BY <1>1 DEF FitsIn
<1> HIDE DEF p, n, a, r, t
<1>4. k \in 0 .. n - 1 /\ k + 1 \in 0 .. n /\ k + 1 \in 1 .. n /\ p[k] = q[k + 1]
  BY <1>1
<1>5. r[k + 1] <= b + (IF AckAhead(q, k + 1) THEN d ELSE 0)
  BY <1>4 DEF FitsIn, n, r
<1>6. AckAhead(q, k + 1) <=> AckAhead(p, k)
  <2>1. ASSUME NEW j \in 1 .. (k + 1) - 1, q[j].kind = "ack" PROVE AckAhead(p, k)
    <3>1. j \in 1 .. n /\ j # 1
      BY SMTT(30), <1>1, <1>4, <2>1
    <3>2. j - 1 \in 1 .. k - 1
      BY <3>1
    <3>3. p[j - 1] = q[j]
      BY <1>1, <3>1
    <3> QED
      BY <2>1, <3>2, <3>3 DEF AckAhead
  <2>2. ASSUME NEW j \in 1 .. k - 1, p[j].kind = "ack" PROVE AckAhead(q, k + 1)
    <3>1. j \in 1 .. n - 1 /\ j + 1 \in 1 .. (k + 1) - 1
      BY <1>1
    <3> QED
      BY <1>1, <2>2, <3>1 DEF AckAhead
  <2> QED
    BY <2>1, <2>2 DEF AckAhead
<1>7. t[k] = r[k + 1] - a /\ r[k + 1] \in Nat /\ c >= b - a
  BY <1>2, <1>3, <1>4 DEF a
<1> QED
  BY <1>2, <1>5, <1>6, <1>7

\* The acknowledgment is read.
LEMMA FitsAck ==
    ASSUME NEW q \in Seq(Frames), q # <<>>, Head(q).kind = "ack", AckUnderWay(q, TRUE),
           NEW s, NEW b \in Int, NEW c \in Int, NEW d \in Int, c >= b + d, FitsIn(q, s, b, d)
    PROVE  FitsIn(Tail(q), s, c, d)
<1> DEFINE p == Tail(q)
           n == Len(q)
           r == Running(q, "data", {s})
           t == Running(p, "data", {s})
<1>1. /\ Len(p) = n - 1 /\ n \in Nat /\ n >= 1 /\ 1 \in 1 .. n
      /\ Head(q) = q[1] /\ Head(q) \in Frames
      /\ \A k \in 1 .. n - 1 : p[k] = q[k + 1] /\ k + 1 \in 1 .. n
  BY TailIndex
<1>2. \A k \in 0 .. n : r[k] \in Nat
  BY RunningSum
<1>3. Amount(Head(q), "data", {s}) = 0
  BY DEF Amount
<1>4. \A k \in 0 .. n - 1 : t[k] = r[k + 1] - 0
  BY <1>3, SumTail
<1> SUFFICES ASSUME NEW k \in 1 .. n - 1, Is(p[k], "data", s), p[k].len > 0
             PROVE  t[k] <= c + (IF AckAhead(p, k) THEN d ELSE 0)
  BY <1>1 DEF FitsIn
<1> HIDE DEF p, n, r, t
<1>5. k \in 0 .. n - 1 /\ k + 1 \in 0 .. n /\ k + 1 \in 1 .. n /\ p[k] = q[k + 1] /\ 1 \in 1 .. (k + 1) - 1
  BY <1>1
<1>6. AckAhead(q, k + 1)
  BY <1>1, <1>5 DEF AckAhead
<1>7. r[k + 1] <= b + d
  BY <1>5, <1>6 DEF FitsIn, n, r
<1>8. ~AckAhead(p, k)
  <2> SUFFICES ASSUME NEW j \in 1 .. k - 1, p[j].kind = "ack" PROVE FALSE
    BY DEF AckAhead
  <2>1. j \in 1 .. n - 1
    BY <1>1
  <2>2. q[j + 1].kind = "ack" /\ j + 1 \in 1 .. n /\ q[1].kind = "ack"
    BY <1>1, <2>1
  <2>3. j + 1 = 1
    BY <1>1, <2>2 DEF AckUnderWay, n
  <2> QED
    BY <2>3
<1>9. t[k] = r[k + 1] /\ r[k + 1] \in Nat
  BY <1>2, <1>4, <1>5
<1> QED
  BY <1>7, <1>8, <1>9

\* A frame is written that fits.
LEMMA FitsAppend ==
    ASSUME NEW q \in Seq(Frames), NEW e \in Frames, NEW s, NEW b \in Int, NEW d \in Int,
           NEW pending \in BOOLEAN, AckUnderWay(q, pending),
           Is(e, "data", s) /\ e.len > 0 =>
               Total(q, "data", {s}) + Amount(e, "data", {s}) <= b + (IF pending THEN d ELSE 0),
           FitsIn(q, s, b, d)
    PROVE  FitsIn(Append(q, e), s, b, d)
<1> DEFINE p == Append(q, e)
           n == Len(q)
           r == Running(q, "data", {s})
           t == Running(p, "data", {s})
<1>1. /\ n \in Nat /\ Len(p) = n + 1 /\ p[n + 1] = e
      /\ \A k \in 1 .. n : p[k] = q[k]
      /\ \A k \in 1 .. n + 1 : k \in 1 .. n \/ k = n + 1
  BY AppendIndex
<1>2. \A k \in 0 .. n : t[k] = r[k] /\ r[k] \in Nat
  BY SumAppend, RunningSum
<1>3. t[n + 1] = Total(q, "data", {s}) + Amount(e, "data", {s})
  BY <1>1, SumAppend DEF Total
<1> SUFFICES ASSUME NEW k \in 1 .. n + 1, Is(p[k], "data", s), p[k].len > 0
             PROVE  t[k] <= b + (IF AckAhead(p, k) THEN d ELSE 0)
  BY <1>1 DEF FitsIn
<1> HIDE DEF p, n, r, t
<1>4. CASE k \in 1 .. n
  <2>1. k \in 0 .. n /\ p[k] = q[k] /\ \A j \in 1 .. k - 1 : p[j] = q[j]
    BY <1>1, <1>4
  <2>2. AckAhead(p, k) <=> AckAhead(q, k)
    BY <2>1 DEF AckAhead
  <2>3. r[k] <= b + (IF AckAhead(q, k) THEN d ELSE 0)
    BY <1>4, <2>1 DEF FitsIn, n, r
  <2> QED
    BY <1>2, <2>1, <2>2, <2>3
<1>5. CASE k = n + 1
  <2>1. Is(e, "data", s) /\ e.len > 0
    BY <1>1, <1>5
  <2>2. AckAhead(p, n + 1) <=> pending
    <3>1. (n + 1) - 1 = n
      BY <1>1
    <3>2. AckAhead(p, n + 1) <=> \E j \in 1 .. n : q[j].kind = "ack"
      BY <1>1, <3>1 DEF AckAhead
    <3> QED
      BY <3>2 DEF AckUnderWay, n
  <2> QED
    BY <1>3, <1>5, <2>1, <2>2
<1> QED
  BY <1>1, <1>4, <1>5

-----------------------------------------------------------------------------
(* Steps of the endpoint that open no stream. *)

\* the endpoint reads nothing, or a frame that opens no stream
Reads == in' = in \/ (in # <<>> /\ in' = Tail(in) /\ Head(in).kind # "headers")

\* streams are closed or reset, WINDOW_UPDATE and RST_STREAM are written: c
\* bytes for the connection, u[t] bytes for the stream t
LocalStep(c, u) ==
    /\ Reads /\ Grows(out, out', c, u, Live)
    /\ UNCHANGED <<config, peerVars>>
    /\ half' \in [Streams -> {"idle", "open", "closed", "gone"}]
    /\ \A t \in Streams :
          \/ half'[t] = half[t]
          \/ half[t] # "idle" /\ half'[t] = "gone"
          \/ half[t] = "open" /\ half'[t] = "closed" /\ t \notin peer_open
                /\ ~Has(in', "data", t) /\ ~Has(out, "headers", t)
    /\ \A t \in Streams : half[t] = "idle" => recv_size'[t] = recv_size[t]
    /\ failing' \subseteq failing \union Live

\* The queues of the invariant are queues of frames.
LEMMA Queues ==
    ASSUME RecvInv
    PROVE  in \in Seq(Frames) /\ out \in Seq(Frames) /\ in \in Seq(InFrame) /\ out \in Seq(OutFrame)
BY QueueFrames DEF RecvInv, StateOK

\* The frames stay in order.
LEMMA LocalOrder ==
    ASSUME RecvInv, NEW c, NEW u, LocalStep(c, u)
    PROVE  OutOrder' /\ InOrder' /\ HalfInv' /\ SettingsFirst(out', peer_applied')
<1>1. /\ UNCHANGED <<config, peer_open, peer_applied>> /\ server' = server
      /\ Grows(out, out', c, u, Live)
      /\ half \in [Streams -> {"idle", "open", "closed", "gone"}] /\ peer_applied \in BOOLEAN
  BY DEF LocalStep, peerVars, server, RecvInv, StateOK
<1>2. \A t \in Streams :
          \/ half'[t] = half[t]
          \/ half[t] # "idle" /\ half'[t] = "gone"
          \/ half[t] = "open" /\ half'[t] = "closed" /\ t \notin peer_open
                /\ ~Has(in', "data", t) /\ ~Has(out, "headers", t)
  BY DEF LocalStep
<1>3. /\ HeadersFirst(out', "update") /\ SettingsFirst(out', peer_applied)
      /\ \A t \in Streams : Has(out', "headers", t) <=> Has(out, "headers", t)
      /\ \A t \in Streams : Has(out', "update", t) => Has(out, "update", t) \/ t \in Live
  BY <1>1, GrownOrder DEF RecvInv, OutOrder, SettingsInv
<1>4. /\ HeadersFirst(in', "data") /\ EofLast(in')
      /\ \A t \in Streams : Has(in', "headers", t) <=> Has(in, "headers", t)
      /\ \A t \in Streams : Has(in', "data", t) => Has(in, "data", t)
      /\ \A t \in Streams : HasEof(in', t) => HasEof(in, t)
  <2>1. HeadersFirst(in, "data") /\ EofLast(in) /\ in \in Seq(Frames)
    BY Queues DEF RecvInv, InOrder
  <2>2. CASE in' = in
    BY <2>1, <2>2
  <2>3. CASE in # <<>> /\ in' = Tail(in) /\ Head(in).kind # "headers"
    <3>1. \A kind, id : Has(in, kind, id) <=> Is(Head(in), kind, id) \/ Has(in', kind, id)
      BY <2>1, <2>3, TailHas
    <3>2. \A id : HasEof(in', id) => HasEof(in, id)
      BY <2>1, <2>3, TailHas
    <3>3. HeadersFirst(in', "data") /\ EofLast(in')
      BY <2>1, <2>3, TailOrder
    <3>4. \A id : ~Is(Head(in), "headers", id)
      BY <2>3 DEF Is
    <3> QED
      BY <3>1, <3>2, <3>3, <3>4
  <2> QED
    BY <2>2, <2>3 DEF LocalStep, Reads
<1>5. OutOrder'
  <2>1. ASSUME NEW s \in Streams, Has(out', "headers", s)
        PROVE  ~server /\ s \notin peer_open /\ half'[s] \in {"open", "gone"} /\ ~Has(in', "data", s)
    <3>1. ~server /\ s \notin peer_open /\ half[s] \in {"open", "gone"} /\ ~Has(in, "data", s) /\ Has(out, "headers", s)
      BY <1>3, <2>1 DEF RecvInv, OutOrder
    <3> QED
      BY <1>2, <1>4, <3>1
  <2> QED
    BY <1>1, <1>3, <2>1 DEF OutOrder
<1>6. InOrder'
  <2>1. ASSUME NEW s \in Streams
        PROVE  /\ Has(in', "headers", s) => server /\ half'[s] = "idle"
               /\ HasEof(in', s) => s \notin peer_open
    BY <1>2, <1>4 DEF RecvInv, InOrder
  <2> QED
    BY <1>1, <1>4, <2>1 DEF InOrder
<1>7. HalfInv'
  <2>1. ASSUME NEW s \in Streams, half'[s] = "idle"
        PROVE  /\ ~Has(out', "update", s) /\ s \notin failing'
               /\ recv_size'[s] = 0
               /\ s \in peer_open \/ Has(in', "data", s) => Has(in', "headers", s)
    <3>1. half[s] = "idle" /\ s \notin Live
      BY <1>2, <2>1 DEF Live
    <3>2. /\ ~Has(out, "update", s) /\ s \notin failing
          /\ recv_size[s] = 0
          /\ s \in peer_open \/ Has(in, "data", s) => Has(in, "headers", s)
      BY <3>1 DEF RecvInv, HalfInv
    <3>3. s \notin failing' /\ recv_size'[s] = recv_size[s]
      BY <3>1, <3>2 DEF LocalStep
    <3> QED
      BY <1>3, <1>4, <3>1, <3>2, <3>3
  <2>2. ASSUME NEW s \in Streams, half'[s] = "closed"
        PROVE  s \notin peer_open /\ ~Has(in', "data", s)
    BY <1>2, <1>4, <2>2 DEF RecvInv, HalfInv
  <2> QED
    BY <1>1, <2>1, <2>2 DEF HalfInv
<1> QED
  BY <1>1, <1>3, <1>5, <1>6, <1>7

\* The connection's window moves with the data and the updates.
LEMMA ConStep ==
    ASSUME RecvInv, NEW len \in Nat, NEW c \in Nat, ConMoves(len, c), NEW u, Grows(out, out', c, u, Live),
           UNCHANGED <<config, peerVars>>,
           Total(in', "data", Streams) = Total(in, "data", Streams) - len,
           recv_size' \in [Streams -> Nat], con_size' = Held(recv_size')
    PROVE  ConInv'
<1>1. /\ ConnWindow' = ConnWindow /\ Default' = Default /\ peer_con' = peer_con
      /\ ConnWindow \in Nat /\ Default \in Nat /\ peer_con \in Nat /\ con_window \in Nat /\ con_size \in Int
  BY ConfigFacts DEF RecvInv, StateOK, ConnWindow, Default, peerVars
<1>2. con_size' \in Nat
  BY HeldType
<1>3. ConWindowMatches'
  <2> DEFINE a == Total(out, "update", {Con})
             b == Total(in, "data", Streams)
  <2>1. a \in Nat /\ b \in Nat
    BY Queues, TotalType
  <2>2. Total(out', "update", {Con}) = a + c
    BY DEF Grows
  <2>3. Total(in', "data", Streams) = b - len
    OBVIOUS
  <2>4. con_window = peer_con + a + b
    BY DEF RecvInv, ConInv, ConWindowMatches
  <2>5. con_window' = con_window - len + c
    BY DEF ConMoves
  <2> HIDE DEF a, b
  <2>6. con_window' = peer_con + (a + c) + (b - len)
    BY <1>1, <2>1, <2>4, <2>5
  <2> QED
    BY <1>1, <2>2, <2>3, <2>6 DEF ConWindowMatches
<1>4. con_window' \in Int
  BY <1>1 DEF ConMoves
<1>5. con_size' + con_window' <= Default \/ con_size' + con_window' <= ConnWindow
  BY <1>1, <1>2, <1>4 DEF ConMoves, RecvInv, ConInv
<1>6. ConnWindow > 0 => con_size' + con_window' > 0
  BY <1>2 DEF ConMoves, RecvInv, ConInv
<1> QED
  BY <1>1, <1>3, <1>5, <1>6 DEF ConInv

\* len bytes arrive for the stream t, and n bytes are given to it
Moves(t, len, n) ==
    /\ len \in Nat /\ n \in Nat
    /\ IF in' = in THEN len = 0
       ELSE /\ in # <<>> /\ in' = Tail(in)
            /\ len = Amount(Head(in), "data", {t}) /\ Head(in).kind # "ack"
    /\ half[t] = "open" => recv_window'[t] = recv_window[t] - len + n
    /\ half[t] = "idle" => len = 0 /\ n = 0

\* The window of a stream moves with the data and the updates.
LEMMA StreamStep ==
    ASSUME RecvInv, NEW c, NEW u, LocalStep(c, u), UNCHANGED acked,
           NEW t \in Streams, NEW len, Moves(t, len, u[t]),
           half'[t] \in {"idle", "open"}, t \in failing' <=> t \in failing
    PROVE  Balanced(t)' /\ (t \notin failing' => FitsIn(in', t, Base(t)', Delta'))
<1> DEFINE n == u[t]
           a == Total(out, "update", {t})
           b == Total(in, "data", {t})
           base == Base(t)
           new == Base(t)'
           k == IF peer_applied /\ Behind(t) THEN Delta ELSE 0
           l == IF Behind(t) THEN Delta ELSE 0
<1>1. /\ Window' = Window /\ Default' = Default /\ Delta' = Delta
      /\ UNCHANGED <<peer_open, peer_applied, peer_window>>
      /\ Window \in Nat /\ Default \in Nat /\ Delta \in Int
      /\ recv_window[t] \in Int /\ peer_window[t] \in Int /\ NewWindow \in Int /\ NewWindow' = NewWindow
  BY ConfigFacts DEF LocalStep, peerVars, Window, Default, Delta, RecvInv, StateOK, NewWindow
<1>2. half'[t] = half[t]
  BY DEF LocalStep
<1>3. len \in Nat /\ n \in Nat
  BY DEF Moves
<1>4. /\ base \in Int /\ new = base - len + n
      /\ half[t] = "open" => base = recv_window[t] /\ new = recv_window'[t]
  <2>1. CASE half[t] = "open"
    BY <1>1, <1>2, <2>1 DEF Moves, Base
  <2>2. CASE half[t] = "idle"
    BY <1>1, <1>2, <2>2 DEF Moves, Base
  <2> QED
    BY <1>2, <2>1, <2>2
<1>5. a \in Nat /\ b \in Nat /\ in \in Seq(Frames)
  BY Queues, TotalType
<1>6. Total(out', "update", {t}) = a + n
  BY DEF LocalStep, Grows
<1>7. Total(in', "data", {t}) = b - len
  <2>1. CASE in' = in
    BY <1>5, <2>1 DEF Moves
  <2>2. CASE in' # in
    <3>1. in # <<>> /\ in' = Tail(in) /\ len = Amount(Head(in), "data", {t})
      BY <2>2 DEF Moves
    <3> QED
      BY <1>5, <3>1, SumTail
  <2> QED
    BY <2>1, <2>2
<1>8. k \in Int /\ l \in Int /\ (Behind(t)' <=> Behind(t))
  BY <1>1 DEF Behind
<1>9. Balanced(t)
  BY <1>2 DEF RecvInv, WindowInv
<1> HIDE DEF n, a, b, base, new, k, l
<1>10. ASSUME t \in peer_open
       PROVE  new + k = peer_window[t] + (a + n) + (b - len)
  <2>1. base + k = peer_window[t] + a + b
    BY <1>9, <1>10 DEF Balanced, base, a, b, k
  <2>2. base \in Int /\ k \in Int /\ peer_window[t] \in Int /\ a \in Int /\ b \in Int
    BY <1>1, <1>4, <1>5, <1>8
  <2> DEFINE pw == peer_window[t]
  <2>3. pw \in Int /\ base + k = pw + a + b
    BY <2>1, <2>2
  <2> HIDE DEF pw
  <2>4. base - len + n + k = pw + (a + n) + (b - len)
    BY <1>3, <2>2, <2>3
  <2> QED
    BY <1>4, <2>4 DEF pw
<1>11. ASSUME Has(out', "headers", t)
       PROVE  recv_window'[t] + l = Window + (a + n)
  <2>1. Has(out, "headers", t)
    BY <1>11, GrownOrder DEF LocalStep
  <2>2. recv_window[t] + l = Window + a
    BY <1>9, <2>1 DEF Balanced, a, l
  <2>3. half[t] = "open" /\ ~Has(in, "data", t)
    BY <1>2, <2>1 DEF RecvInv, OutOrder
  <2>4. len = 0
    <3>1. CASE in' = in
      BY <3>1 DEF Moves
    <3>2. CASE in' # in
      <4>1. in # <<>> /\ len = Amount(Head(in), "data", {t})
        BY <3>2 DEF Moves
      <4>2. ~Is(Head(in), "data", t)
        BY <1>5, <2>3, <4>1, TailHas
      <4> QED
        BY <4>1, <4>2 DEF Amount, Is
    <3> QED
      BY <3>1, <3>2
  <2>5. recv_window'[t] = recv_window[t] - len + n
    BY <2>3 DEF Moves, n
  <2>6. \A x, y, w \in Int : x + l = w + y => x - 0 + n + l = w + (y + n)
    BY <1>3, <1>8
  <2>7. recv_window[t] \in Int /\ a \in Int /\ Window \in Int
    BY <1>1, <1>5
  <2>8. recv_window[t] - 0 + n + l = Window + (a + n)
    BY <2>2, <2>6, <2>7
  <2> QED
    BY <2>4, <2>5, <2>8
<1>12. Balanced(t)'
  <2>1. t \in peer_open' => Base(t)' + (IF peer_applied' /\ Behind(t)' THEN Delta' ELSE 0) =
              peer_window'[t] + Total(out', "update", {t}) + Total(in', "data", {t})
    BY <1>1, <1>6, <1>7, <1>8, <1>10 DEF new, k
  <2>2. Has(out', "headers", t) =>
          recv_window'[t] + (IF Behind(t)' THEN Delta' ELSE 0) = Window' + Total(out', "update", {t})
    BY <1>1, <1>6, <1>8, <1>11 DEF l
  <2> QED
    BY <2>1, <2>2 DEF Balanced
<1>13. ASSUME t \notin failing' PROVE FitsIn(in', t, new, Delta)
  <2>1. FitsIn(in, t, base, Delta)
    BY <1>2, <1>13 DEF RecvInv, WindowInv, base
  <2>2. new \in Int
    BY <1>3, <1>4
  <2>3. CASE in' = in
    <3>1. base <= new
      BY <1>3, <1>4, <2>3 DEF Moves
    <3> QED
      BY <1>1, <1>4, <1>5, <2>1, <2>2, <2>3, <3>1, FitsMore
  <2>4. CASE in' # in
    <3>1. in # <<>> /\ in' = Tail(in) /\ len = Amount(Head(in), "data", {t}) /\ Head(in).kind # "ack"
      BY <2>4 DEF Moves
    <3>2. new >= base - len
      BY <1>3, <1>4
    <3>3. new >= base - Amount(Head(in), "data", {t})
      BY <3>1, <3>2
    <3> QED
      BY <1>1, <1>4, <1>5, <2>1, <2>2, <3>1, <3>3, FitsTail
  <2> QED
    BY <2>3, <2>4
<1> QED
  BY <1>1, <1>12, <1>13 DEF new

\* a local step that takes len bytes of the connection's window
KeepStep(len, c, u) ==
    /\ LocalStep(c, u) /\ ConMoves(len, c)
    /\ len \in Nat /\ len <= con_window /\ c \in Nat
    /\ in' = in \/ (in # <<>> /\ in' = Tail(in) /\ Head(in).kind # "ack")
    /\ Total(in', "data", Streams) = Total(in, "data", Streams) - len
    /\ UNCHANGED <<acked, exceeded>>
    /\ recv_window' \in [Streams -> Int] /\ recv_size' \in [Streams -> Nat]
    /\ con_size' = Held(recv_size')
    /\ failing' \subseteq failing
    /\ \A t \in Streams : half'[t] \in {"idle", "open"} =>
          /\ t \in failing' <=> t \in failing
          /\ \E l : Moves(t, l, u[t])
    /\ \A t \in Streams : half'[t] = "open" => SizeInv(t)'

\* Such a step keeps the invariant.
LEMMA KeepsInv ==
    ASSUME RecvInv, NEW len, NEW c, NEW u, KeepStep(len, c, u)
    PROVE  RecvInv'
<1>1. /\ LocalStep(c, u) /\ ConMoves(len, c) /\ Grows(out, out', c, u, Live)
      /\ len \in Nat /\ c \in Nat /\ len <= con_window
      /\ UNCHANGED <<acked, exceeded, config, peerVars>>
      /\ half' \in [Streams -> {"idle", "open", "closed", "gone"}]
      /\ recv_window' \in [Streams -> Int] /\ recv_size' \in [Streams -> Nat]
      /\ failing' \subseteq failing
  BY DEF KeepStep, LocalStep, peerVars
<1>2. con_window \in Nat /\ con_size \in Int /\ in \in Seq(InFrame) /\ failing \subseteq Streams
  BY DEF RecvInv, StateOK
<1>3. StateOK'
  <2>1. out' \in Seq(OutFrame)
    BY <1>1 DEF Grows
  <2>2. in' \in Seq(InFrame)
    <3>1. in # <<>> => Tail(in) \in Seq(InFrame)
      BY <1>2
    <3> QED
      BY <1>2, <3>1 DEF KeepStep
  <2>3. con_window' \in Nat /\ con_size' \in Int
    <3>1. con_window' = con_window - len + c
      BY <1>1 DEF ConMoves
    <3>2. con_window' \in Nat
      BY <1>1, <1>2, <3>1
    <3>3. con_size' \in Int
      BY <1>1, HeldType DEF KeepStep
    <3> QED
      BY <3>2, <3>3
  <2> QED
    BY <1>1, <1>2, <2>1, <2>2, <2>3 DEF RecvInv, StateOK, peerVars
<1>4. OutOrder' /\ InOrder' /\ HalfInv' /\ SettingsFirst(out', peer_applied')
  BY <1>1, LocalOrder
<1>5. SettingsInv'
  <2> DEFINE pending == peer_applied /\ ~acked
  <2>1. pending \in BOOLEAN /\ AckUnderWay(in, pending) /\ in \in Seq(Frames)
    BY Queues DEF RecvInv, StateOK, SettingsInv
  <2> HIDE DEF pending
  <2>2. AckUnderWay(in', pending)
    <3>1. CASE in' = in
      BY <2>1, <3>1
    <3>2. CASE in # <<>> /\ in' = Tail(in) /\ Head(in).kind # "ack"
      <4>1. \A x \in BOOLEAN : AckUnderWay(in, x) =>
                 IF Head(in).kind = "ack" THEN AckUnderWay(Tail(in), FALSE) /\ x
                 ELSE AckUnderWay(Tail(in), x)
        BY <2>1, <3>2, TailOrder, Zenon
      <4> QED
        BY <2>1, <3>2, <4>1, Zenon
    <3> QED
      BY <3>1, <3>2 DEF KeepStep
  <2>3. AckUnderWay(in', peer_applied' /\ ~acked')
    BY <1>1, <2>2 DEF pending, peerVars
  <2> QED
    BY <1>1, <1>4, <2>3 DEF RecvInv, SettingsInv, peerVars
<1>6. ConInv'
  <2>1. Total(in', "data", Streams) = Total(in, "data", Streams) - len /\ con_size' = Held(recv_size')
    BY DEF KeepStep
  <2>2. UNCHANGED <<config, peerVars>>
    BY <1>1 DEF peerVars
  <2> QED
    BY <1>1, <2>1, <2>2, ConStep
<1>7. WindowInv'
  <2> SUFFICES ASSUME NEW t \in Streams
               PROVE  /\ half'[t] \in {"idle", "open"} => Balanced(t)'
                      /\ half'[t] \in {"idle", "open"} /\ t \notin failing' => FitsIn(in', t, Base(t)', Delta')
                      /\ half'[t] = "open" => SizeInv(t)'
                      /\ t \in failing' => Delta' > 0
    BY DEF WindowInv
  <2>1. ASSUME half'[t] \in {"idle", "open"}
        PROVE  Balanced(t)' /\ (t \notin failing' => FitsIn(in', t, Base(t)', Delta'))
    <3>1. (t \in failing' <=> t \in failing) /\ \E l : Moves(t, l, u[t])
      BY <2>1 DEF KeepStep
    <3> QED
      BY <1>1, <2>1, <3>1, StreamStep
  <2>2. half'[t] = "open" => SizeInv(t)'
    BY DEF KeepStep
  <2>3. t \in failing' => Delta' > 0
    BY <1>1 DEF RecvInv, WindowInv, Delta, Window, Default
  <2> QED
    BY <2>1, <2>2, <2>3
<1> QED
  BY <1>1, <1>3, <1>4, <1>5, <1>6, <1>7 DEF RecvInv, PeerNotFailed

-----------------------------------------------------------------------------
(* Steps that reset a stream. *)

\* RST_STREAM is written for a stream
ResetStep(s) ==
    /\ s \in Streams /\ half[s] # "idle"
    /\ failing' = failing \/ failing' = failing \ {s}
    /\ half' = [half EXCEPT ![s] = "gone"]
    /\ out' = Append(out, Frame("rst", s))
    /\ UNCHANGED <<recv_window, recv_size, con_window, con_size, acked, exceeded, config, peerVars, in>>

\* reset_stream() and the resets of failed streams are such steps.
LEMMA ResetEffect ==
    ASSUME RecvInv, NEW s \in Streams, Reset(s) \/ FailNext(s)
    PROVE  ResetStep(s)
<1>1. CASE Reset(s)
  BY <1>1 DEF Reset, ResetStep
<1>2. CASE FailNext(s)
  <2>1. half[s] # "idle"
    BY <1>2 DEF FailNext, RecvInv, HalfInv
  <2> QED
    BY <1>2, <2>1 DEF FailNext, ResetStep
<1> QED
  BY <1>1, <1>2

\* They keep the invariant.
LEMMA ResetKeeps ==
    ASSUME RecvInv, NEW s \in Streams, ResetStep(s)
    PROVE  RecvInv'
<1>1. /\ half' = [half EXCEPT ![s] = "gone"] /\ half[s] # "idle"
      /\ failing' \subseteq failing /\ \A t \in Streams : t # s => (t \in failing' <=> t \in failing)
      /\ UNCHANGED <<recv_window, recv_size, con_window, con_size, acked, exceeded, config, peerVars, in>>
  BY DEF ResetStep
<1>2. /\ half \in [Streams -> {"idle", "open", "closed", "gone"}] /\ failing \subseteq Streams
      /\ recv_size \in [Streams -> Nat] /\ recv_window \in [Streams -> Int]
      /\ con_size \in Int /\ con_window \in Nat
  BY DEF RecvInv, StateOK
<1>3. Grows(out, out', 0, Nothing, Live)
  <2>1. Grows(out, out, 0, Nothing, Live) /\ Nothing \in [Streams -> Nat]
    BY Queues, GrowNone DEF Nothing
  <2>2. Grows(out, Append(out, Frame("rst", s)), 0, Nothing, Live)
    BY <2>1, GrowReset
  <2> QED
    BY <2>2 DEF ResetStep
<1>4. LocalStep(0, Nothing)
  BY <1>1, <1>2, <1>3 DEF LocalStep, Reads, peerVars
<1>5. ConMoves(0, 0)
  <2>1. con_window' = con_window - 0 + 0
    BY <1>1, <1>2
  <2> QED
    BY <1>1, <1>2, <2>1 DEF ConMoves
<1>6. Total(in', "data", Streams) = Total(in, "data", Streams) - 0
  BY <1>1, Queues, TotalType
<1>7. \A t \in Streams : half'[t] \in {"idle", "open"} => t # s /\ half'[t] = half[t]
  BY <1>1, <1>2
<1>8. \A t \in Streams : Moves(t, 0, Nothing[t])
  <2>1. \A t \in Streams : recv_window'[t] = recv_window[t] - 0 + 0
    BY <1>1, <1>2
  <2> QED
    BY <1>1, <2>1 DEF Moves, Nothing
<1>9. ASSUME NEW t \in Streams, half'[t] = "open" PROVE SizeInv(t)'
  <2>1. SizeInv(t)
    BY <1>7, <1>9 DEF RecvInv, WindowInv
  <2> QED
    BY <1>1, <2>1 DEF SizeInv, Window, Default
<1>10. con_size' = Held(recv_size')
  BY <1>1 DEF RecvInv, ConInv
<1>11. KeepStep(0, 0, Nothing)
  BY <1>1, <1>2, <1>4, <1>5, <1>6, <1>7, <1>8, <1>9, <1>10 DEF KeepStep
<1> QED
  BY <1>11, KeepsInv

-----------------------------------------------------------------------------
(* Steps that receive or release data. *)

\* The data of a stream that is delivered or released.
LEMMA ReleaseKeeps ==
    ASSUME RecvInv, NEW s \in Streams, NEW len \in Nat, NEW pad \in Nat, NEW n \in Nat, NEW c \in Nat,
           Released(s, len, pad, n, c), pad <= recv_size[s] + len, len <= con_window,
           IF in' = in THEN len = 0
           ELSE in # <<>> /\ in' = Tail(in) /\ Is(Head(in), "data", s) /\ Head(in).len = len,
           half[s] = "open" \/ len = 0,
           half' \in [Streams -> {"idle", "open", "closed", "gone"}],
           \A t \in Streams : t # s => half'[t] = half[t],
           \/ half'[s] = half[s]
           \/ half[s] = "open" /\ half'[s] = "closed" /\ s \notin peer_open
                 /\ ~Has(in', "data", s) /\ ~Has(out, "headers", s),
           UNCHANGED <<acked, failing, exceeded, config, peerVars>>
    PROVE  RecvInv'
<1> DEFINE u == Plus(Nothing, s, n)
           z == recv_size[s] + len - pad
<1>1. /\ half \in [Streams -> {"idle", "open", "closed", "gone"}] /\ failing \subseteq Streams
      /\ recv_size \in [Streams -> Nat] /\ recv_window \in [Streams -> Int]
      /\ con_size \in Int /\ con_window \in Nat /\ con_size = Held(recv_size)
      /\ recv_size[s] \in Nat /\ recv_window[s] \in Int
  BY DEF RecvInv, StateOK, ConInv
<1>2. /\ Grows(out, out', c, u, Live) /\ ConMoves(len, c)
      /\ con_size' = con_size + len - pad
      /\ recv_window' = [recv_window EXCEPT ![s] = recv_window[s] - len + n]
      /\ recv_size' = [recv_size EXCEPT ![s] = z]
      /\ n = 0 \/ half[s] = "open"
  BY DEF Released
<1>3. z \in Nat /\ \A t \in Streams : u[t] = IF t = s THEN n ELSE 0
  BY <1>1 DEF Plus, Nothing
<1>4. con_size' = Held(recv_size')
  <2>1. con_size - recv_size[s] + z = con_size + len - pad /\ z \in Nat
    BY <1>1, <1>3
  <2> HIDE DEF z
  <2>2. Held([recv_size EXCEPT ![s] = z]) = Held(recv_size) - recv_size[s] + z
    <3>1. recv_size \in [Streams -> Nat] /\ s \in Streams /\ z \in Nat
      BY <1>1, <2>1
    <3> QED
      BY ZenonT(30), <3>1, HeldChange
  <2> QED
    BY <1>1, <1>2, <2>1, <2>2
<1>5. in' = in \/ (in # <<>> /\ in' = Tail(in) /\ Head(in).kind = "data")
  BY DEF Is
<1>6. ASSUME half[s] = "idle" PROVE recv_size'[s] = recv_size[s] /\ len = 0 /\ n = 0
  <2>1. recv_size[s] = 0 /\ len = 0
    BY <1>6 DEF RecvInv, HalfInv
  <2>2. z = 0
    BY <1>1, <1>3, <2>1
  <2> HIDE DEF z
  <2> QED
    BY <1>1, <1>2, <1>6, <2>1, <2>2
<1> HIDE DEF u, z
<1>7. LocalStep(c, u)
  <2>1. Reads
    BY <1>5 DEF Reads
  <2>2. \A t \in Streams : half[t] = "idle" => recv_size'[t] = recv_size[t]
    BY <1>1, <1>2, <1>6
  <2>3. \A t \in Streams :
          \/ half'[t] = half[t]
          \/ half[t] # "idle" /\ half'[t] = "gone"
          \/ half[t] = "open" /\ half'[t] = "closed" /\ t \notin peer_open
                /\ ~Has(in', "data", t) /\ ~Has(out, "headers", t)
    OBVIOUS
  <2>4. UNCHANGED <<config, peerVars>> /\ failing' \subseteq failing \union Live
    BY DEF peerVars
  <2> QED
    BY <1>2, <2>1, <2>2, <2>3, <2>4 DEF LocalStep
<1>8. Total(in', "data", Streams) = Total(in, "data", Streams) - len
  <2>1. CASE in' = in
    <3>1. Total(in, "data", Streams) \in Nat /\ len = 0
      BY <2>1, Queues, TotalType
    <3> QED
      BY <2>1, <3>1
  <2>2. CASE in' # in
    <3>1. Amount(Head(in), "data", Streams) = len /\ in # <<>> /\ in' = Tail(in) /\ in \in Seq(Frames)
      BY <2>2, Queues DEF Amount, Is
    <3>2. Total(Tail(in), "data", Streams) = Total(in, "data", Streams) - Amount(Head(in), "data", Streams)
      BY <3>1, SumTail
    <3> QED
      BY <3>1, <3>2
  <2> QED
    BY <2>1, <2>2
<1>9. ASSUME NEW t \in Streams PROVE \E l : Moves(t, l, u[t])
  <2>1. CASE t = s
    <3>1. in' # in => len = Amount(Head(in), "data", {t}) /\ Head(in).kind # "ack"
      BY <2>1 DEF Amount, Is
    <3>2. Moves(t, len, u[t])
      BY <1>1, <1>2, <1>3, <1>6, <2>1, <3>1 DEF Moves
    <3> QED
      BY <3>2
  <2>2. CASE t # s
    <3>1. in' # in => 0 = Amount(Head(in), "data", {t}) /\ Head(in).kind # "ack"
      BY <2>2 DEF Amount, Is
    <3>2. recv_window'[t] = recv_window[t] - 0 + 0
      BY SMTT(30), <1>1, <1>2, <2>2
    <3>3. Moves(t, 0, u[t])
      BY <1>3, <2>2, <3>1, <3>2 DEF Moves
    <3> QED
      BY <3>3
  <2> QED
    BY <2>1, <2>2
<1>10. ASSUME NEW t \in Streams, half'[t] = "open" PROVE SizeInv(t)'
  <2>1. half[t] = "open" /\ SizeInv(t)
    BY <1>10 DEF RecvInv, WindowInv
  <2>2. Window' = Window /\ Default' = Default /\ acked' = acked /\ Window \in Nat /\ Default \in Nat
    BY ConfigFacts DEF Window, Default, RecvInv, StateOK
  <2>3. CASE t # s
    BY <1>1, <1>2, <2>1, <2>2, <2>3 DEF SizeInv
  <2>4. CASE t = s
    <3> DEFINE old == recv_window[s] + recv_size[s]
               new == recv_window[s] - len + n + z
    <3>1. /\ Window > 0 /\ old > 0 => new > 0
          /\ new <= old \/ new = Window
      BY <1>3, <2>1, <2>4 DEF Released, z
    <3>2. recv_window'[s] + recv_size'[s] = new /\ old \in Int /\ new \in Int
      BY SMTT(30), <1>1, <1>2, <1>3
    <3>3. /\ Window > 0 => old > 0
          /\ ~acked => old <= Default \/ old <= Window
      BY <2>1, <2>4 DEF SizeInv
    <3> HIDE DEF old, new
    <3>4. /\ Window > 0 => new > 0
          /\ ~acked => new <= Default \/ new <= Window
      BY <2>2, <3>1, <3>2, <3>3
    <3> QED
      BY <2>2, <2>4, <3>2, <3>4 DEF SizeInv
  <2> QED
    BY <2>3, <2>4
<1>11. recv_window' \in [Streams -> Int] /\ recv_size' \in [Streams -> Nat]
  BY SMTT(30), <1>1, <1>2, <1>3
<1>12. KeepStep(len, c, u)
  BY <1>2, <1>4, <1>5, <1>7, <1>8, <1>9, <1>10, <1>11 DEF KeepStep
<1> QED
  BY <1>12, KeepsInv

\* The application releases data.
LEMMA ConsumeKeeps ==
    ASSUME RecvInv, NEW s \in Streams, NEW m \in Nat, Consume(s, m)
    PROVE  RecvInv'
<1>1. StateOK /\ recv_size[s] \in Nat /\ con_window \in Nat /\ half \in [Streams -> {"idle", "open", "closed", "gone"}]
  BY DEF RecvInv, StateOK
<1>2. PICK n \in Nat, c \in Nat : Released(s, 0, m, n, c)
  BY <1>1, ConsumeEffect
<1>3. m <= recv_size[s] + 0 /\ 0 <= con_window /\ 0 \in Nat
  BY <1>1 DEF Consume
<1>4. UNCHANGED <<half, acked, failing, exceeded, config, peerVars, in>>
  BY DEF Consume, peerVars
<1>5. UNCHANGED <<acked, failing, exceeded, config, peerVars>> /\ in' = in /\ half' = half
  BY <1>4 DEF peerVars
<1> DEFINE len == 0
<1>6. /\ len = 0 /\ len \in Nat /\ Released(s, len, m, n, c) /\ m <= recv_size[s] + len /\ len <= con_window
  BY <1>2, <1>3
<1> HIDE DEF len
<1> QED
  BY <1>1, <1>5, <1>6, ReleaseKeeps

\* Data that is dropped, its stream is gone.
LEMMA DropKeeps ==
    ASSUME RecvInv, NEW s \in Streams, NEW len \in Nat, NEW c \in Nat, Dropped(len, c), len <= con_window,
           in # <<>>, in' = Tail(in), Is(Head(in), "data", s), Head(in).len = len,
           half[s] # "idle", half' = [half EXCEPT ![s] = "gone"],
           UNCHANGED <<acked, failing, exceeded, config, peerVars>>
    PROVE  RecvInv'
<1>1. /\ half \in [Streams -> {"idle", "open", "closed", "gone"}] /\ failing \subseteq Streams
      /\ recv_size \in [Streams -> Nat] /\ recv_window \in [Streams -> Int]
      /\ con_size = Held(recv_size) /\ in \in Seq(Frames)
  BY Queues DEF RecvInv, StateOK, ConInv
<1>2. /\ Grows(out, out', c, Nothing, Live) /\ ConMoves(len, c)
      /\ UNCHANGED <<con_size, recv_window, recv_size>>
  BY DEF Dropped
<1>3. LocalStep(c, Nothing)
  <2>1. Reads
    BY DEF Reads, Is
  <2>2. \A t \in Streams : half'[t] = half[t] \/ (half[t] # "idle" /\ half'[t] = "gone")
    BY <1>1
  <2>3. UNCHANGED <<config, peerVars>>
    BY DEF peerVars
  <2> QED
    BY <1>1, <1>2, <2>1, <2>2, <2>3 DEF LocalStep
<1>4. Total(in', "data", Streams) = Total(in, "data", Streams) - len
  <2>1. Amount(Head(in), "data", Streams) = len
    BY DEF Amount, Is
  <2>2. Total(Tail(in), "data", Streams) = Total(in, "data", Streams) - Amount(Head(in), "data", Streams)
    BY <1>1, SumTail
  <2> QED
    BY <2>1, <2>2
<1>5. \A t \in Streams : half'[t] \in {"idle", "open"} => t # s /\ half'[t] = half[t]
  BY <1>1
<1>6. ASSUME NEW t \in Streams, half'[t] \in {"idle", "open"} PROVE Moves(t, 0, Nothing[t])
  <2>1. 0 = Amount(Head(in), "data", {t}) /\ Head(in).kind # "ack"
    BY <1>5, <1>6 DEF Amount, Is
  <2>2. recv_window'[t] = recv_window[t] - 0 + 0
    BY <1>1, <1>2
  <2> QED
    BY <2>1, <2>2 DEF Moves, Nothing
<1>7. ASSUME NEW t \in Streams, half'[t] = "open" PROVE SizeInv(t)'
  <2>1. SizeInv(t)
    BY <1>5, <1>7 DEF RecvInv, WindowInv
  <2> QED
    BY <1>2, <2>1 DEF SizeInv, Window, Default
<1>8. Head(in).kind # "ack"
  BY DEF Is
<1>9. KeepStep(len, c, Nothing)
  BY <1>1, <1>2, <1>3, <1>4, <1>6, <1>7, <1>8 DEF KeepStep
<1> QED
  BY <1>9, KeepsInv

\* recv_data() keeps the invariant.
LEMMA DataKeeps ==
    ASSUME RecvInv, NEW s, NEW len, NEW pad, NEW eof, DataStep(s, len, pad, eof)
    PROVE  RecvInv'
<1>1. /\ in # <<>> /\ in' = Tail(in) /\ in \in Seq(Frames)
      /\ Is(Head(in), "data", s) /\ Head(in).len = len /\ Head(in).eof = eof
      /\ s \in Streams /\ len \in Nat /\ pad \in Nat /\ eof \in BOOLEAN /\ pad <= len /\ len <= con_window
      /\ UNCHANGED <<acked, failing, exceeded, config, peerVars>>
      /\ half \in [Streams -> {"idle", "open", "closed", "gone"}]
      /\ recv_size[s] \in Nat
  BY Queues DEF DataStep, peerVars, RecvInv, StateOK
<1>2. Has(in, "data", s)
  BY <1>1, TailHas
<1>3. CASE half[s] = "open" /\ half' = [half EXCEPT ![s] = IF eof THEN "closed" ELSE half[s]]
             /\ \E n, c \in Nat : Released(s, len, pad, n, c)
  <2>1. PICK n \in Nat, c \in Nat : Released(s, len, pad, n, c)
    BY <1>3
  <2>2. pad <= recv_size[s] + len
    BY <1>1
  <2>3. /\ half' \in [Streams -> {"idle", "open", "closed", "gone"}]
        /\ \A t \in Streams : t # s => half'[t] = half[t]
        /\ half'[s] = IF eof THEN "closed" ELSE half[s]
    BY <1>1, <1>3
  <2>4. ASSUME eof PROVE s \notin peer_open /\ ~Has(in', "data", s) /\ ~Has(out, "headers", s)
    <3>1. HasEof(in, s)
      <4>1. 1 \in 1 .. Len(in) /\ in[1] = Head(in)
        BY <1>1
      <4> QED
        BY <1>1, <2>4, <4>1 DEF HasEof
    <3>2. s \notin peer_open
      BY <1>1, <3>1 DEF RecvInv, InOrder
    <3>3. ~Has(in', "data", s)
      <4>1. EofLast(in) /\ Head(in).eof
        BY <1>1, <2>4 DEF RecvInv, InOrder
      <4> QED
        BY <1>1, <4>1, TailOrder
    <3>4. ~Has(out, "headers", s)
      BY <1>1, <1>2 DEF RecvInv, OutOrder
    <3> QED
      BY <3>2, <3>3, <3>4
  <2>5. in' # in => in # <<>> /\ in' = Tail(in) /\ Is(Head(in), "data", s) /\ Head(in).len = len
    BY <1>1
  <2>6. in' # in
    BY <1>1
  <2>7. \/ half'[s] = half[s]
        \/ half[s] = "open" /\ half'[s] = "closed" /\ s \notin peer_open
              /\ ~Has(in', "data", s) /\ ~Has(out, "headers", s)
    BY <1>3, <2>3, <2>4
  <2>8. UNCHANGED <<acked, failing, exceeded, config, peerVars>> /\ half[s] = "open"
    BY <1>1, <1>3 DEF peerVars
  <2> QED
    BY <1>1, <2>1, <2>2, <2>3, <2>5, <2>6, <2>7, <2>8, ReleaseKeeps
<1>4. CASE half' = [half EXCEPT ![s] = "gone"] /\ \E c \in Nat : Dropped(len, c)
  <2>1. half[s] # "idle"
    <3>1. half[s] = "idle" => Has(in, "headers", s)
      BY <1>1, <1>2 DEF RecvInv, HalfInv
    <3>2. HeadersFirst(in, "data")
      BY DEF RecvInv, InOrder
    <3>3. ~Has(in, "headers", s)
      BY <1>1, <3>2, NoHeaders
    <3> QED
      BY <3>1, <3>3
  <2>2. UNCHANGED <<acked, failing, exceeded, config, peerVars>>
    BY <1>1 DEF peerVars
  <2> QED
    BY <1>1, <1>4, <2>1, <2>2, DropKeeps
<1> QED
  BY <1>3, <1>4 DEF DataStep

-----------------------------------------------------------------------------
(* The acknowledgment keeps the invariant. *)

\* A stream whose window overflows: the settings made the window larger.
LEMMA OverDelta ==
    ASSUME RecvInv, ~acked, NEW t \in Over
    PROVE  Delta > 0
<1>1. t \in Streams /\ half[t] = "open" /\ recv_window[t] + Delta > MaxWindow
  BY DEF Over, Live, Overflows
<1>2. recv_window[t] \in Int /\ recv_size[t] \in Nat
  BY <1>1 DEF RecvInv, StateOK
<1>3. recv_window[t] + recv_size[t] <= Default \/ recv_window[t] + recv_size[t] <= Window
  BY <1>1 DEF RecvInv, WindowInv, SizeInv
<1>4. Default \in Nat /\ Window \in Nat /\ MaxWindow \in Nat /\ Window <= MaxWindow
  BY ConfigFacts DEF RecvInv, StateOK
<1>5. Delta = Window - Default
  BY DEF Delta
<1> QED
  BY <1>1, <1>2, <1>3, <1>4, <1>5

\* The windows of a stream once the settings are acknowledged.
LEMMA AckStream ==
    ASSUME RecvInv, NEW u \in [Streams -> Nat], AckStep(u), ~acked, peer_applied, AckUnderWay(in, TRUE),
           NEW t \in Streams, half'[t] \in {"idle", "open"}
    PROVE  Balanced(t)' /\ (t \notin failing' => FitsIn(in', t, Base(t)', Delta'))
<1> DEFINE a == Total(out, "update", {t})
           b == Total(in, "data", {t})
           base == Base(t)
           new == Base(t)'
           l == IF t \in failing' THEN Delta ELSE 0
<1>1. /\ Window' = Window /\ Default' = Default /\ Delta' = Delta
      /\ UNCHANGED <<peer_open, peer_applied, peer_window>> /\ acked' = TRUE
      /\ Window \in Nat /\ Default \in Nat /\ Delta \in Int /\ Delta = Window - Default
      /\ recv_window[t] \in Int /\ peer_window[t] \in Int
      /\ NewWindow = Default /\ NewWindow' = Window
  BY SMTT(30), ConfigFacts DEF AckStep, peerVars, Window, Default, Delta, RecvInv, StateOK, NewWindow
<1>2. half'[t] = half[t]
  BY DEF AckStep
<1>3. u[t] \in Nat
  OBVIOUS
<1>4. /\ a \in Nat /\ b \in Nat /\ in \in Seq(Frames)
      /\ in # <<>> /\ in' = Tail(in) /\ Head(in).kind = "ack"
      /\ Grows(out, out', 0, u, Live)
  BY Queues, TotalType DEF AckStep
<1>5. Total(out', "update", {t}) = a + u[t]
  BY <1>4 DEF Grows
<1>6. Total(in', "data", {t}) = b
  <2>1. Amount(Head(in), "data", {t}) = 0
    BY <1>4 DEF Amount
  <2>2. Total(Tail(in), "data", {t}) = b - 0
    BY <1>4, <2>1, SumTail
  <2> HIDE DEF b
  <2> QED
    BY <1>4, <2>2
<1>7. /\ new \in Int /\ base \in Int /\ new + l = base + Delta + u[t]
      /\ half[t] = "open" => base = recv_window[t] /\ new = recv_window'[t]
  <2>1. CASE half[t] = "idle"
    <3>1. t \notin Live \ Over /\ t \notin failing'
      BY <2>1 DEF Live, Over, AckStep
    <3>2. u[t] = 0
      BY <3>1 DEF AckStep
    <3>3. base = Default /\ new = Window /\ l = 0
      BY <1>1, <1>2, <2>1, <3>1 DEF Base
    <3> QED
      BY <1>1, <2>1, <3>2, <3>3
  <2>2. CASE half[t] = "open"
    <3>1. base = recv_window[t] /\ new = recv_window'[t]
      BY <1>2, <2>2 DEF Base
    <3>2. CASE t \in Over
      <4>1. t \in failing' /\ recv_window'[t] = recv_window[t] /\ u[t] = 0
        BY <1>2, <2>2, <3>2 DEF AckStep
      <4> QED
        BY <1>1, <3>1, <4>1
    <3>3. CASE t \notin Over
      <4>1. t \in Live \ Over /\ t \notin failing'
        BY <2>2, <3>3 DEF Live, AckStep
      <4>2. recv_window'[t] = recv_window[t] + Delta + u[t]
        BY <4>1 DEF AckStep
      <4>3. l = 0
        BY <4>1
      <4> QED
        BY <1>1, <1>3, <3>1, <4>2, <4>3
    <3> QED
      BY <3>2, <3>3
  <2> QED
    BY <1>2, <2>1, <2>2
<1>8. Balanced(t) /\ Behind(t) /\ (Behind(t)' <=> t \in failing') /\ l \in Int
  BY <1>1, <1>2 DEF RecvInv, WindowInv, Behind
<1> HIDE DEF a, b, base, new, l
<1>9. ASSUME t \in peer_open
      PROVE  new + l = peer_window[t] + (a + u[t]) + b
  <2>1. base + Delta = peer_window[t] + a + b
    BY <1>8, <1>9 DEF Balanced, base, a, b
  <2>2. \A x, y, z, v, w, n \in Int : x + y = z + v + w => x + y + n = z + (v + n) + w
    OBVIOUS
  <2>3. base \in Int /\ peer_window[t] \in Int /\ a \in Int /\ b \in Int /\ Delta \in Int /\ u[t] \in Int
    BY <1>1, <1>3, <1>4, <1>7
  <2>4. base + Delta + u[t] = peer_window[t] + (a + u[t]) + b
    BY <2>1, <2>2, <2>3
  <2> QED
    BY <1>7, <2>4
<1>10. ASSUME Has(out', "headers", t)
       PROVE  recv_window'[t] + l = Window + (a + u[t])
  <2>1. Has(out, "headers", t)
    BY <1>4, <1>10, GrownOrder
  <2>2. recv_window[t] + Delta = Window + a
    BY <1>8, <2>1 DEF Balanced, a
  <2>3. half[t] = "open"
    BY <1>2, <2>1 DEF RecvInv, OutOrder
  <2>4. \A x, y, z, v \in Int : x + y = z + v => x + y + u[t] = z + (v + u[t])
    BY <1>3
  <2>5. recv_window[t] \in Int /\ a \in Int /\ Window \in Int /\ Delta \in Int
    BY <1>1, <1>4
  <2>6. recv_window[t] + Delta + u[t] = Window + (a + u[t])
    BY <2>2, <2>4, <2>5
  <2> QED
    BY <1>7, <2>3, <2>6
<1>11. Balanced(t)'
  <2>1. t \in peer_open' => Base(t)' + (IF peer_applied' /\ Behind(t)' THEN Delta' ELSE 0) =
              peer_window'[t] + Total(out', "update", {t}) + Total(in', "data", {t})
    BY <1>1, <1>5, <1>6, <1>8, <1>9 DEF new, l
  <2>2. Has(out', "headers", t) =>
          recv_window'[t] + (IF Behind(t)' THEN Delta' ELSE 0) = Window' + Total(out', "update", {t})
    BY <1>1, <1>5, <1>8, <1>10 DEF l
  <2> QED
    BY <2>1, <2>2 DEF Balanced
<1>12. ASSUME t \notin failing' PROVE FitsIn(in', t, new, Delta)
  <2>1. t \notin failing
    BY DEF AckStep
  <2>2. FitsIn(in, t, base, Delta)
    BY <1>2, <2>1 DEF RecvInv, WindowInv, base
  <2>3. l = 0
    BY <1>12 DEF l
  <2>4. new >= base + Delta
    BY <1>1, <1>3, <1>7, <2>3
  <2> QED
    BY <1>1, <1>4, <1>7, <2>2, <2>4, FitsAck
<1> QED
  BY <1>1, <1>11, <1>12 DEF new

\* recv_settings() with an acknowledgment keeps the invariant.
LEMMA AckKeeps ==
    ASSUME RecvInv, NEW u \in [Streams -> Nat], AckStep(u)
    PROVE  RecvInv'
<1>1. /\ in # <<>> /\ in' = Tail(in) /\ Head(in).kind = "ack" /\ in \in Seq(Frames) /\ in \in Seq(InFrame)
      /\ acked' = TRUE /\ failing = {}
      /\ UNCHANGED <<recv_size, con_window, con_size, exceeded, config, peerVars>>
      /\ Grows(out, out', 0, u, Live)
      /\ recv_window' \in [Streams -> Int]
      /\ half' \in [Streams -> {"idle", "open", "closed", "gone"}]
      /\ failing' \subseteq Over
  BY Queues DEF AckStep, peerVars
<1>2. /\ recv_size \in [Streams -> Nat] /\ con_size \in Int /\ con_window \in Nat
      /\ acked \in BOOLEAN /\ peer_applied \in BOOLEAN
      /\ Over \subseteq Live /\ Live \subseteq Streams
  BY DEF RecvInv, StateOK, Over, Live
<1>3. ~acked /\ peer_applied /\ AckUnderWay(in, TRUE) /\ AckUnderWay(in', FALSE)
  <2>1. AckUnderWay(in, peer_applied /\ ~acked)
    BY DEF RecvInv, SettingsInv
  <2>2. 1 \in 1 .. Len(in) /\ in[1].kind = "ack"
    BY <1>1
  <2>3. peer_applied /\ ~acked
    BY <2>1, <2>2 DEF AckUnderWay
  <2>4. AckUnderWay(in, TRUE)
    BY <2>1, <2>3 DEF AckUnderWay
  <2>5. TRUE \in BOOLEAN /\ \A x \in BOOLEAN : AckUnderWay(in, x) =>
                 IF Head(in).kind = "ack" THEN AckUnderWay(Tail(in), FALSE) /\ x
                 ELSE AckUnderWay(Tail(in), x)
    BY <1>1, TailOrder, Zenon
  <2>6. AckUnderWay(in', FALSE)
    BY <1>1, <2>4, <2>5, Zenon
  <2> QED
    BY <2>3, <2>4, <2>6
<1>4. LocalStep(0, u)
  <2>1. Reads
    BY <1>1 DEF Reads
  <2>2. \A t \in Streams : half'[t] = half[t] \/ (half[t] # "idle" /\ half'[t] = "gone")
    BY <1>2 DEF AckStep, Live
  <2>3. UNCHANGED <<config, peerVars>> /\ failing' \subseteq failing \union Live
    BY <1>1, <1>2 DEF peerVars
  <2> QED
    BY <1>1, <2>1, <2>2, <2>3 DEF LocalStep
<1>5. OutOrder' /\ InOrder' /\ HalfInv' /\ SettingsFirst(out', peer_applied')
  BY <1>4, LocalOrder
<1>6. StateOK'
  <2>1. out' \in Seq(OutFrame) /\ in' \in Seq(InFrame) /\ failing' \subseteq Streams
    BY <1>1, <1>2 DEF Grows
  <2> QED
    BY <1>1, <2>1 DEF RecvInv, StateOK, peerVars
<1>7. SettingsInv'
  <2>1. peer_applied' /\ acked'
    BY <1>1, <1>3 DEF peerVars
  <2>2. AckUnderWay(in', peer_applied' /\ ~acked')
    BY <1>3, <2>1 DEF AckUnderWay
  <2> QED
    BY <1>5, <2>1, <2>2 DEF SettingsInv
<1>8. ConInv'
  <2>1. ConMoves(0, 0)
    <3>1. con_window' = con_window - 0 + 0
      BY <1>1, <1>2
    <3> QED
      BY <1>1, <1>2, <3>1 DEF ConMoves
  <2>2. Total(in', "data", Streams) = Total(in, "data", Streams) - 0
    <3>1. Amount(Head(in), "data", Streams) = 0
      BY <1>1 DEF Amount
    <3>2. Total(Tail(in), "data", Streams) = Total(in, "data", Streams) - Amount(Head(in), "data", Streams)
      BY <1>1, SumTail
    <3> QED
      BY <1>1, <3>1, <3>2
  <2>3. recv_size' \in [Streams -> Nat] /\ con_size' = Held(recv_size')
    BY <1>1, <1>2 DEF RecvInv, ConInv
  <2>4. UNCHANGED <<config, peerVars>> /\ 0 \in Nat
    BY <1>1 DEF peerVars
  <2> QED
    BY <1>1, <2>1, <2>2, <2>3, <2>4, ConStep
<1>9. WindowInv'
  <2> SUFFICES ASSUME NEW t \in Streams
               PROVE  /\ half'[t] \in {"idle", "open"} => Balanced(t)'
                      /\ half'[t] \in {"idle", "open"} /\ t \notin failing' => FitsIn(in', t, Base(t)', Delta')
                      /\ half'[t] = "open" => SizeInv(t)'
                      /\ t \in failing' => Delta' > 0
    BY DEF WindowInv
  <2>1. half'[t] \in {"idle", "open"} => Balanced(t)' /\ (t \notin failing' => FitsIn(in', t, Base(t)', Delta'))
    BY <1>3, AckStream
  <2>2. ASSUME half'[t] = "open" PROVE SizeInv(t)'
    <3>1. half[t] = "open" /\ t \in Live
      BY <2>2 DEF AckStep, Live
    <3>2. Window > 0 => recv_window'[t] + recv_size[t] > 0
      <4>1. CASE t \in Live \ Over
        BY <4>1 DEF AckStep
      <4>2. CASE t \notin Live \ Over
        BY <3>1, <4>2 DEF AckStep, RecvInv, WindowInv, SizeInv
      <4> QED
        BY <4>1, <4>2
    <3> QED
      BY <1>1, <3>2 DEF SizeInv, Window
  <2>3. t \in failing' => Delta' > 0
    BY <1>1, <1>3, OverDelta DEF Delta, Window, Default
  <2> QED
    BY <2>1, <2>2, <2>3
<1> QED
  BY <1>1, <1>5, <1>6, <1>7, <1>8, <1>9 DEF RecvInv, PeerNotFailed

-----------------------------------------------------------------------------
(* Steps that open a stream. *)

\* The window of a new stream.
LEMMA NewSize ==
    ASSUME RecvInv, NEW s \in Streams, half[s] = "idle", half' = [half EXCEPT ![s] = "open"],
           recv_window' = [recv_window EXCEPT ![s] = NewWindow], UNCHANGED <<recv_size, acked, failing, config>>
    PROVE  \A t \in Streams :
              /\ half'[t] = "open" => SizeInv(t)'
              /\ half'[t] \in {"idle", "open"} => half[t] \in {"idle", "open"}
              /\ half[t] \in {"idle", "open"} => Base(t)' = Base(t) /\ Base(t) \in Int
              /\ half'[t] = "idle" => t # s /\ half[t] = "idle"
              /\ half'[t] = half[t] \/ (t = s /\ half'[t] = "open" /\ recv_window'[t] = NewWindow)
              /\ t # s => half'[t] = half[t] /\ recv_window'[t] = recv_window[t]
<1>1. /\ half \in [Streams -> {"idle", "open", "closed", "gone"}]
      /\ recv_window \in [Streams -> Int] /\ recv_size \in [Streams -> Nat]
      /\ NewWindow' = NewWindow /\ Window' = Window /\ Default' = Default
      /\ Window \in Nat /\ Default \in Nat \ {0} /\ NewWindow \in Nat
      /\ ~acked => NewWindow = Default
      /\ acked => NewWindow = Window
  BY ConfigFacts DEF RecvInv, StateOK, NewWindow, Window, Default
<1>2. recv_size[s] = 0
  BY DEF RecvInv, HalfInv
<1> SUFFICES ASSUME NEW t \in Streams
             PROVE  /\ half'[t] = "open" => SizeInv(t)'
                    /\ half'[t] \in {"idle", "open"} => half[t] \in {"idle", "open"}
                    /\ half[t] \in {"idle", "open"} => Base(t)' = Base(t) /\ Base(t) \in Int
                    /\ half'[t] = "idle" => t # s /\ half[t] = "idle"
                    /\ half'[t] = half[t] \/ (t = s /\ half'[t] = "open" /\ recv_window'[t] = NewWindow)
                    /\ t # s => half'[t] = half[t] /\ recv_window'[t] = recv_window[t]
  OBVIOUS
<1>3. CASE t = s
  <2>1. half'[t] = "open" /\ recv_window'[t] = NewWindow
    BY <1>1, <1>3
  <2>2. SizeInv(t)'
    BY <1>1, <1>2, <1>3, <2>1 DEF SizeInv
  <2>3. Base(t)' = Base(t) /\ Base(t) \in Int
    BY <1>1, <1>3, <2>1 DEF Base
  <2> QED
    BY <1>3, <2>1, <2>2, <2>3
<1>4. CASE t # s
  <2>1. half'[t] = half[t] /\ recv_window'[t] = recv_window[t] /\ recv_window[t] \in Int
    BY <1>1, <1>4
  <2>2. half[t] = "open" => SizeInv(t)'
    BY <1>1, <2>1 DEF SizeInv, RecvInv, WindowInv
  <2>3. Base(t)' = Base(t) /\ Base(t) \in Int
    BY <1>1, <2>1 DEF Base
  <2> QED
    BY <1>4, <2>1, <2>2, <2>3
<1> QED
  BY <1>3, <1>4

\* recv_headers() of a server keeps the invariant.
LEMMA HeadersKeeps ==
    ASSUME RecvInv, RecvHeaders
    PROVE  RecvInv'
<1> DEFINE s == Head(in).id
<1>1. /\ in # <<>> /\ in' = Tail(in) /\ in \in Seq(Frames) /\ in \in Seq(InFrame) /\ Head(in) \in InFrame
      /\ Is(Head(in), "headers", s) /\ Head(in).kind = "headers"
      /\ half' = [half EXCEPT ![s] = "open"]
      /\ recv_window' = [recv_window EXCEPT ![s] = NewWindow]
      /\ UNCHANGED <<recv_size, con_window, con_size, acked, failing, exceeded, config, peerVars, out>>
  BY Queues DEF RecvHeaders, Received, Is, peerVars
<1>2. s \in Streams
  BY <1>1, InFields
<1> HIDE DEF s
<1>3. server /\ half[s] = "idle"
  <2>1. Has(in, "headers", s)
    BY <1>1, TailHas
  <2> QED
    BY <1>2, <2>1 DEF RecvInv, InOrder
<1>4. /\ half \in [Streams -> {"idle", "open", "closed", "gone"}]
      /\ recv_window \in [Streams -> Int] /\ recv_size \in [Streams -> Nat]
      /\ NewWindow \in Int /\ Delta' = Delta /\ Delta \in Int /\ server' = server /\ Window' = Window
      /\ con_size \in Int /\ con_window \in Nat
  BY <1>1, ConfigFacts DEF RecvInv, StateOK, NewWindow, Window, Default, Delta, server
<1>5. /\ \A kind, id : Has(in, kind, id) <=> Is(Head(in), kind, id) \/ Has(in', kind, id)
      /\ \A id : HasEof(in', id) => HasEof(in, id)
  BY <1>1, TailHas
<1>6. HeadersFirst(in', "data") /\ EofLast(in') /\ ~Has(in', "headers", s)
  <2>1. HeadersFirst(in, "data") /\ EofLast(in)
    BY DEF RecvInv, InOrder
  <2> QED
    BY <1>1, <2>1, TailOrder
<1>7. /\ \A t \in Streams : Has(in', "data", t) <=> Has(in, "data", t)
      /\ \A t \in Streams : t # s => (Has(in', "headers", t) <=> Has(in, "headers", t))
  BY <1>1, <1>5 DEF Is
<1>8. \A ids : Total(in', "data", ids) = Total(in, "data", ids)
  <2> TAKE ids
  <2>1. Amount(Head(in), "data", ids) = 0
    BY <1>1 DEF Amount
  <2>2. Total(Tail(in), "data", ids) = Total(in, "data", ids) - 0
    BY <1>1, <2>1, SumTail
  <2>3. Total(in, "data", ids) \in Nat
    BY <1>1, TotalType
  <2> QED
    BY <1>1, <2>2, <2>3
<1>9. \A t \in Streams :
              /\ half'[t] = "open" => SizeInv(t)'
              /\ half'[t] \in {"idle", "open"} => half[t] \in {"idle", "open"}
              /\ half[t] \in {"idle", "open"} => Base(t)' = Base(t) /\ Base(t) \in Int
              /\ half'[t] = "idle" => t # s /\ half[t] = "idle"
              /\ half'[t] = half[t] \/ (t = s /\ half'[t] = "open" /\ recv_window'[t] = NewWindow)
              /\ t # s => half'[t] = half[t] /\ recv_window'[t] = recv_window[t]
  BY <1>1, <1>2, <1>3, NewSize
<1>10. \A t \in Streams : ~Has(out, "headers", t)
  BY <1>3 DEF RecvInv, OutOrder
<1>11. StateOK'
  <2>1. half' \in [Streams -> {"idle", "open", "closed", "gone"}] /\ recv_window' \in [Streams -> Int]
    BY <1>1, <1>4
  <2>2. Tail(in) \in Seq(InFrame)
    BY <1>1
  <2> QED
    BY <1>1, <2>1, <2>2 DEF RecvInv, StateOK, peerVars
<1>12. SettingsInv'
  <2> DEFINE pending == peer_applied /\ ~acked
  <2>1. pending \in BOOLEAN /\ AckUnderWay(in, pending)
    BY DEF RecvInv, StateOK, SettingsInv
  <2> HIDE DEF pending
  <2>2. \A x \in BOOLEAN : AckUnderWay(in, x) =>
                 IF Head(in).kind = "ack" THEN AckUnderWay(Tail(in), FALSE) /\ x
                 ELSE AckUnderWay(Tail(in), x)
    BY <1>1, TailOrder, Zenon
  <2>3. Head(in).kind # "ack"
    BY <1>1
  <2>4. AckUnderWay(in', pending)
    BY <1>1, <2>1, <2>2, <2>3, Zenon
  <2>5. AckUnderWay(in', peer_applied' /\ ~acked')
    BY <1>1, <2>4 DEF pending, peerVars
  <2> QED
    BY <1>1, <2>5 DEF RecvInv, SettingsInv, peerVars
<1>13. ConInv'
  BY <1>1, <1>8 DEF RecvInv, ConInv, ConWindowMatches, ConnWindow, Default, peerVars
<1>14. OutOrder'
  BY <1>1, <1>10 DEF RecvInv, OutOrder
<1>15. InOrder'
  <2>1. ASSUME NEW t \in Streams
        PROVE  /\ Has(in', "headers", t) => server /\ half'[t] = "idle"
               /\ HasEof(in', t) => t \notin peer_open
    BY <1>5, <1>6, <1>7, <1>9 DEF RecvInv, InOrder
  <2> QED
    BY <1>1, <1>4, <1>6, <2>1 DEF InOrder, peerVars
<1>16. HalfInv'
  <2>1. ASSUME NEW t \in Streams, half'[t] = "idle"
        PROVE  /\ ~Has(out, "update", t) /\ t \notin failing
               /\ recv_size[t] = 0
               /\ t \in peer_open \/ Has(in', "data", t) => Has(in', "headers", t)
    BY <1>7, <1>9, <2>1 DEF RecvInv, HalfInv
  <2>2. ASSUME NEW t \in Streams, half'[t] = "closed"
        PROVE  t \notin peer_open /\ ~Has(in', "data", t)
    BY <1>7, <1>9, <2>2 DEF RecvInv, HalfInv
  <2> QED
    BY <1>1, <2>1, <2>2 DEF HalfInv, peerVars
<1>17. WindowInv'
  <2> SUFFICES ASSUME NEW t \in Streams
               PROVE  /\ half'[t] \in {"idle", "open"} => Balanced(t)'
                      /\ half'[t] \in {"idle", "open"} /\ t \notin failing' => FitsIn(in', t, Base(t)', Delta')
                      /\ half'[t] = "open" => SizeInv(t)'
                      /\ t \in failing' => Delta' > 0
    BY DEF WindowInv
  <2>1. ASSUME half'[t] \in {"idle", "open"} PROVE Balanced(t)'
    <3>1. Balanced(t) /\ Base(t)' = Base(t) /\ ~Has(out, "headers", t)
      BY <1>9, <1>10, <2>1 DEF RecvInv, WindowInv
    <3> QED
      BY <1>1, <1>4, <1>8, <3>1 DEF Balanced, Behind, peerVars
  <2>2. ASSUME half'[t] \in {"idle", "open"}, t \notin failing' PROVE FitsIn(in', t, Base(t)', Delta')
    <3>1. FitsIn(in, t, Base(t), Delta) /\ Base(t)' = Base(t) /\ Base(t) \in Int
      BY <1>1, <1>9, <2>2 DEF RecvInv, WindowInv
    <3>2. Base(t) >= Base(t) - Amount(Head(in), "data", {t})
      <4>1. Amount(Head(in), "data", {t}) = 0
        BY <1>1 DEF Amount
      <4> QED
        BY <3>1, <4>1
    <3>3. Head(in).kind # "ack"
      BY <1>1
    <3>4. FitsIn(Tail(in), t, Base(t), Delta)
      BY <1>1, <1>4, <3>1, <3>2, <3>3, FitsTail
    <3> QED
      BY <1>1, <1>4, <3>1, <3>4
  <2>3. t \in failing' => Delta' > 0
    BY <1>1, <1>4 DEF RecvInv, WindowInv
  <2> QED
    BY <1>9, <2>1, <2>2, <2>3
<1> QED
  BY <1>1, <1>11, <1>12, <1>13, <1>14, <1>15, <1>16, <1>17 DEF RecvInv, PeerNotFailed

\* open_stream() of a client keeps the invariant.
LEMMA OpenKeeps ==
    ASSUME RecvInv, NEW s \in Streams, OpenStream(s)
    PROVE  RecvInv'
<1> DEFINE e == Frame("headers", s)
<1>1. /\ ~server /\ half[s] = "idle"
      /\ half' = [half EXCEPT ![s] = "open"]
      /\ recv_window' = [recv_window EXCEPT ![s] = NewWindow]
      /\ out' = Append(out, e)
      /\ UNCHANGED <<recv_size, con_window, con_size, acked, failing, exceeded, config, peerVars, in>>
  BY DEF OpenStream, peerVars
<1>2. /\ out \in Seq(Frames) /\ out \in Seq(OutFrame) /\ e \in OutFrame /\ e \in Frames /\ e.kind = "headers" /\ e.id = s
      /\ in \in Seq(Frames)
  BY Queues, FrameTypes DEF Frames, Frame
<1> HIDE DEF e
<1>3. /\ ~Has(out, "update", s) /\ s \notin failing /\ ~Has(in, "headers", s) /\ ~Has(in, "data", s)
      /\ s \notin peer_open /\ ~Has(out, "headers", s)
  BY <1>1 DEF RecvInv, HalfInv, InOrder, OutOrder
<1>4. /\ half \in [Streams -> {"idle", "open", "closed", "gone"}]
      /\ recv_window \in [Streams -> Int] /\ recv_size \in [Streams -> Nat]
      /\ NewWindow \in Int /\ Delta' = Delta /\ Delta \in Int /\ server' = server /\ Window' = Window /\ Window \in Nat
      /\ NewWindow + (IF acked THEN 0 ELSE Delta) = Window
  BY SMTT(30), <1>1, ConfigFacts DEF RecvInv, StateOK, NewWindow, Window, Default, Delta, server
<1>5. /\ \A t \in Streams : Has(out', "headers", t) <=> Has(out, "headers", t) \/ t = s
      /\ \A t \in Streams : Has(out', "update", t) <=> Has(out, "update", t)
  <2>1. \A kind, id : Has(out', kind, id) <=> Has(out, kind, id) \/ Is(e, kind, id)
    BY <1>1, <1>2, AppendHas
  <2> QED
    BY <1>2, <2>1 DEF Is
<1>6. HeadersFirst(out', "update")
  <2>1. HeadersFirst(out, "update") /\ ~Has(out, "headers", e.id) /\ ~Has(out, "update", e.id)
    BY <1>2, <1>3 DEF RecvInv, OutOrder
  <2> QED
    BY <1>1, <1>2, <2>1, AppendOrder
<1>7. SettingsFirst(out', peer_applied)
  <2>1. SettingsFirst(out, peer_applied) /\ peer_applied \in BOOLEAN /\ e.kind # "settings"
    BY <1>2 DEF RecvInv, SettingsInv, StateOK
  <2>2. \A x \in BOOLEAN : SettingsFirst(out, x) /\ e.kind # "settings" => SettingsFirst(Append(out, e), x)
    BY <1>2, AppendOrder, Zenon
  <2> QED
    BY <1>1, <2>1, <2>2, Zenon
<1>8. \A ids : Total(out', "update", ids) = Total(out, "update", ids)
  <2> TAKE ids
  <2>1. Amount(e, "update", ids) = 0
    BY <1>2 DEF Amount
  <2>2. Total(Append(out, e), "update", ids) = Total(out, "update", ids) + 0
    BY <1>2, <2>1, SumAppend
  <2>3. Total(out, "update", ids) \in Nat
    BY <1>2, TotalType
  <2> QED
    BY <1>1, <2>2, <2>3
<1>9. \A t \in Streams :
              /\ half'[t] = "open" => SizeInv(t)'
              /\ half'[t] \in {"idle", "open"} => half[t] \in {"idle", "open"}
              /\ half[t] \in {"idle", "open"} => Base(t)' = Base(t) /\ Base(t) \in Int
              /\ half'[t] = "idle" => t # s /\ half[t] = "idle"
              /\ half'[t] = half[t] \/ (t = s /\ half'[t] = "open" /\ recv_window'[t] = NewWindow)
              /\ t # s => half'[t] = half[t] /\ recv_window'[t] = recv_window[t]
  BY <1>1, NewSize
<1>10. half'[s] = "open" /\ recv_window'[s] = NewWindow
  BY <1>1, <1>4
<1>11. StateOK'
  <2>1. half' \in [Streams -> {"idle", "open", "closed", "gone"}] /\ recv_window' \in [Streams -> Int]
    BY <1>1, <1>4
  <2>2. out' \in Seq(OutFrame)
    BY <1>1, <1>2
  <2> QED
    BY <1>1, <2>1, <2>2 DEF RecvInv, StateOK, peerVars
<1>12. SettingsInv'
  BY <1>1, <1>7 DEF RecvInv, SettingsInv, peerVars
<1>13. ConInv'
  BY <1>1, <1>8 DEF RecvInv, ConInv, ConWindowMatches, ConnWindow, Default, peerVars
<1>14. OutOrder'
  <2>1. ASSUME NEW t \in Streams, Has(out', "headers", t)
        PROVE  ~server /\ t \notin peer_open /\ half'[t] \in {"open", "gone"} /\ ~Has(in, "data", t)
    BY <1>1, <1>3, <1>5, <1>9, <1>10, <2>1 DEF RecvInv, OutOrder
  <2> QED
    BY <1>1, <1>4, <1>6, <2>1 DEF OutOrder, peerVars
<1>15. InOrder'
  <2>1. ASSUME NEW t \in Streams
        PROVE  /\ Has(in, "headers", t) => server /\ half'[t] = "idle"
               /\ HasEof(in, t) => t \notin peer_open
    BY <1>3, <1>9 DEF RecvInv, InOrder
  <2> QED
    BY <1>1, <1>4, <2>1 DEF RecvInv, InOrder, peerVars
<1>16. HalfInv'
  <2>1. ASSUME NEW t \in Streams, half'[t] = "idle"
        PROVE  /\ ~Has(out', "update", t) /\ t \notin failing
               /\ recv_size[t] = 0
               /\ t \in peer_open \/ Has(in, "data", t) => Has(in, "headers", t)
    BY <1>5, <1>9, <2>1 DEF RecvInv, HalfInv
  <2>2. ASSUME NEW t \in Streams, half'[t] = "closed"
        PROVE  t \notin peer_open /\ ~Has(in, "data", t)
    BY <1>9, <2>2 DEF RecvInv, HalfInv
  <2> QED
    BY <1>1, <2>1, <2>2 DEF HalfInv, peerVars
<1>17. WindowInv'
  <2> SUFFICES ASSUME NEW t \in Streams
               PROVE  /\ half'[t] \in {"idle", "open"} => Balanced(t)'
                      /\ half'[t] \in {"idle", "open"} /\ t \notin failing' => FitsIn(in', t, Base(t)', Delta')
                      /\ half'[t] = "open" => SizeInv(t)'
                      /\ t \in failing' => Delta' > 0
    BY DEF WindowInv
  <2>1. ASSUME half'[t] \in {"idle", "open"} PROVE Balanced(t)'
    <3>1. Balanced(t) /\ Base(t)' = Base(t)
      BY <1>9, <2>1 DEF RecvInv, WindowInv
    <3>2. CASE t = s
      <4>1. Total(out, "update", {t}) = 0
        BY <1>2, <1>3, <3>2, TotalNone
      <4>2. t \notin peer_open' /\ (Behind(t)' <=> ~acked)
        BY <1>1, <1>3, <3>2 DEF Behind, peerVars
      <4>3. recv_window'[t] + (IF Behind(t)' THEN Delta' ELSE 0) = Window' + Total(out', "update", {t})
        BY <1>4, <1>8, <1>10, <3>2, <4>1, <4>2
      <4> QED
        BY <4>2, <4>3 DEF Balanced
    <3>3. CASE t # s
      <4>1. recv_window'[t] = recv_window[t] /\ (Has(out', "headers", t) <=> Has(out, "headers", t))
        BY <1>5, <1>9, <3>3
      <4> QED
        BY <1>1, <1>4, <1>8, <3>1, <4>1 DEF Balanced, Behind, peerVars
    <3> QED
      BY <3>2, <3>3
  <2>2. half'[t] \in {"idle", "open"} /\ t \notin failing' => FitsIn(in', t, Base(t)', Delta')
    BY <1>1, <1>4, <1>9 DEF RecvInv, WindowInv
  <2>3. t \in failing' => Delta' > 0
    BY <1>1, <1>4 DEF RecvInv, WindowInv
  <2> QED
    BY <1>9, <2>1, <2>2, <2>3
<1> QED
  BY <1>1, <1>11, <1>12, <1>13, <1>14, <1>15, <1>16, <1>17 DEF RecvInv, PeerNotFailed

-----------------------------------------------------------------------------
(* Steps of the peer. *)

\* The peer changes nothing at the endpoint.
LEMMA PeerLeaves ==
    ASSUME RecvInv, UNCHANGED localVars
    PROVE  /\ UNCHANGED <<config, half, recv_window, recv_size, con_window, con_size, acked, failing, exceeded>>
           /\ Window' = Window /\ Default' = Default /\ ConnWindow' = ConnWindow /\ Delta' = Delta /\ server' = server
           /\ Window \in Nat /\ Default \in Nat /\ Delta \in Int /\ NewWindow \in Int
           /\ \A t \in Streams :
                 /\ Base(t)' = Base(t) /\ Base(t) \in Int
                 /\ recv_window[t] \in Int /\ peer_window[t] \in Int
                 /\ Behind(t)' <=> Behind(t)
                 /\ half'[t] = "open" => SizeInv(t)'
                 /\ t \in failing' => Delta' > 0
<1>1. UNCHANGED <<config, half, recv_window, recv_size, con_window, con_size, acked, failing, exceeded>>
  BY DEF localVars
<1>2. /\ Window' = Window /\ Default' = Default /\ ConnWindow' = ConnWindow /\ Delta' = Delta /\ server' = server
      /\ Window \in Nat /\ Default \in Nat /\ Delta \in Int /\ NewWindow \in Int /\ NewWindow' = NewWindow
  BY <1>1, ConfigFacts DEF RecvInv, StateOK, Window, Default, ConnWindow, Delta, server, NewWindow
<1>3. ASSUME NEW t \in Streams
      PROVE  /\ Base(t)' = Base(t) /\ Base(t) \in Int
             /\ recv_window[t] \in Int /\ peer_window[t] \in Int
             /\ Behind(t)' <=> Behind(t)
             /\ half'[t] = "open" => SizeInv(t)'
             /\ t \in failing' => Delta' > 0
  <2>1. recv_window[t] \in Int /\ peer_window[t] \in Int
    BY DEF RecvInv, StateOK
  <2>2. Base(t)' = Base(t) /\ Base(t) \in Int
    BY <1>1, <1>2, <2>1 DEF Base
  <2>3. Behind(t)' <=> Behind(t)
    BY <1>1 DEF Behind
  <2>4. half'[t] = "open" => SizeInv(t)'
    BY <1>1, <1>2 DEF RecvInv, WindowInv, SizeInv
  <2>5. t \in failing' => Delta' > 0
    BY <1>1, <1>2 DEF RecvInv, WindowInv
  <2> QED
    BY <2>1, <2>2, <2>3, <2>4, <2>5
<1> QED
  BY <1>1, <1>2, <1>3

\* A peer that opens a stream.
LEMMA PeerOpensKeeps ==
    ASSUME RecvInv, NEW s \in Streams, PeerOpens(s)
    PROVE  RecvInv'
<1> DEFINE e == Frame("headers", s)
<1>1. /\ server /\ half[s] = "idle" /\ s \notin peer_open
      /\ ~\E k \in DOMAIN in : in[k].kind = "headers" /\ in[k].id = s
      /\ peer_open' = peer_open \union {s}
      /\ peer_window' = [peer_window EXCEPT ![s] = PeerNewWindow]
      /\ in' = Append(in, e)
      /\ UNCHANGED <<localVars, peer_con, peer_applied, sent, out>>
  BY DEF PeerOpens, localVars
<1>2. /\ in \in Seq(Frames) /\ in \in Seq(InFrame) /\ e \in InFrame /\ e \in Frames /\ e.kind = "headers" /\ e.id = s
      /\ out \in Seq(Frames)
  BY Queues, FrameTypes DEF Frames, Frame
<1> HIDE DEF e
<1>3. /\ UNCHANGED <<config, half, recv_window, recv_size, con_window, con_size, acked, failing, exceeded>>
      /\ Window' = Window /\ Default' = Default /\ ConnWindow' = ConnWindow /\ Delta' = Delta /\ server' = server
      /\ Window \in Nat /\ Default \in Nat /\ Delta \in Int /\ NewWindow \in Int
      /\ \A t \in Streams :
            /\ Base(t)' = Base(t) /\ Base(t) \in Int
            /\ recv_window[t] \in Int /\ peer_window[t] \in Int
            /\ Behind(t)' <=> Behind(t)
            /\ half'[t] = "open" => SizeInv(t)'
            /\ t \in failing' => Delta' > 0
  <2>1. UNCHANGED localVars
    BY <1>1 DEF localVars
  <2> QED
    BY <2>1, PeerLeaves
<1>4. ~Has(in, "headers", s)
  <2>1. DOMAIN in = 1 .. Len(in)
    BY <1>2
  <2> QED
    BY <1>1, <2>1 DEF Has, Is
<1>5. ~Has(in, "data", s) /\ ~Has(out, "update", s) /\ s \notin failing /\ \A t \in Streams : ~Has(out, "headers", t)
  BY <1>1, <1>4 DEF RecvInv, HalfInv, OutOrder
<1>6. /\ \A t \in Streams : Has(in', "headers", t) <=> Has(in, "headers", t) \/ t = s
      /\ \A t \in Streams : Has(in', "data", t) <=> Has(in, "data", t)
      /\ \A t \in Streams : HasEof(in', t) <=> HasEof(in, t)
  <2>1. /\ \A kind, id : Has(in', kind, id) <=> Has(in, kind, id) \/ Is(e, kind, id)
        /\ \A id : HasEof(in', id) <=> HasEof(in, id) \/ (Is(e, "data", id) /\ e.eof)
    BY <1>1, <1>2, AppendHas
  <2> QED
    BY <1>2, <2>1 DEF Is
<1>7. HeadersFirst(in', "data") /\ EofLast(in')
  <2>1. HeadersFirst(in, "data") /\ EofLast(in) /\ ~Has(in, "headers", e.id) /\ ~Has(in, "data", e.id) /\ e.kind # "data"
    BY <1>2, <1>4, <1>5 DEF RecvInv, InOrder
  <2> QED
    BY <1>1, <1>2, <2>1, AppendOrder
<1> DEFINE pending == peer_applied /\ ~acked
<1>8. pending \in BOOLEAN /\ AckUnderWay(in, pending)
  BY DEF RecvInv, StateOK, SettingsInv
<1> HIDE DEF pending
<1>9. AckUnderWay(in', pending)
  <2>1. \A x \in BOOLEAN : AckUnderWay(in, x) /\ e.kind # "ack" => AckUnderWay(Append(in, e), x)
    BY <1>2, AppendOrder, Zenon
  <2>2. e.kind # "ack"
    BY <1>2
  <2> QED
    BY <1>1, <1>8, <2>1, <2>2, Zenon
<1>10. \A ids : Total(in', "data", ids) = Total(in, "data", ids)
  <2> TAKE ids
  <2>1. Amount(e, "data", ids) = 0
    BY <1>2 DEF Amount
  <2>2. Total(Append(in, e), "data", ids) = Total(in, "data", ids) + 0
    BY <1>2, <2>1, SumAppend
  <2>3. Total(in, "data", ids) \in Nat
    BY <1>2, TotalType
  <2> QED
    BY <1>1, <2>2, <2>3
<1>11. PeerNewWindow \in Int /\ PeerNewWindow = IF peer_applied THEN Window ELSE Default
  BY <1>3 DEF PeerNewWindow
<1>12. StateOK'
  <2>1. peer_window' \in [Streams -> Int] /\ peer_open' \subseteq Streams
    BY <1>1, <1>11 DEF RecvInv, StateOK
  <2>2. in' \in Seq(InFrame)
    BY <1>1, <1>2
  <2> QED
    BY <1>1, <1>3, <2>1, <2>2 DEF RecvInv, StateOK
<1>13. SettingsInv'
  <2>1. AckUnderWay(in', peer_applied' /\ ~acked')
    BY <1>1, <1>3, <1>9 DEF pending
  <2> QED
    BY <1>1, <1>3, <2>1 DEF RecvInv, SettingsInv
<1>14. ConInv'
  BY <1>1, <1>3, <1>10 DEF RecvInv, ConInv, ConWindowMatches
<1>15. OutOrder'
  BY <1>1, <1>5 DEF RecvInv, OutOrder
<1>16. InOrder'
  <2>1. ASSUME NEW t \in Streams
        PROVE  /\ Has(in', "headers", t) => server /\ half[t] = "idle"
               /\ HasEof(in', t) => t \notin peer_open'
    <3>1. HasEof(in, t) => Has(in, "data", t)
      BY DEF HasEof, Has
    <3> QED
      BY <1>1, <1>5, <1>6, <3>1 DEF RecvInv, InOrder
  <2> QED
    BY <1>3, <1>7, <2>1 DEF InOrder
<1>17. HalfInv'
  <2>1. ASSUME NEW t \in Streams, half[t] = "idle"
        PROVE  /\ ~Has(out, "update", t) /\ t \notin failing
               /\ recv_size[t] = 0
               /\ t \in peer_open' \/ Has(in', "data", t) => Has(in', "headers", t)
    BY <1>1, <1>6, <2>1 DEF RecvInv, HalfInv
  <2>2. ASSUME NEW t \in Streams, half[t] = "closed"
        PROVE  t \notin peer_open' /\ ~Has(in', "data", t)
    BY <1>1, <1>6, <2>2 DEF RecvInv, HalfInv
  <2> QED
    BY <1>1, <1>3, <2>1, <2>2 DEF HalfInv
<1>18. WindowInv'
  <2> SUFFICES ASSUME NEW t \in Streams
               PROVE  /\ half'[t] \in {"idle", "open"} => Balanced(t)'
                      /\ half'[t] \in {"idle", "open"} /\ t \notin failing' => FitsIn(in', t, Base(t)', Delta')
                      /\ half'[t] = "open" => SizeInv(t)'
                      /\ t \in failing' => Delta' > 0
    BY DEF WindowInv
  <2>1. ASSUME half[t] \in {"idle", "open"} PROVE Balanced(t)'
    <3>1. Balanced(t) /\ ~Has(out', "headers", t)
      BY <1>1, <1>5, <2>1 DEF RecvInv, WindowInv
    <3>2. CASE t # s
      <4>1. peer_window'[t] = peer_window[t] /\ (t \in peer_open' <=> t \in peer_open)
        BY <1>1, <3>2 DEF RecvInv, StateOK
      <4> QED
        BY <1>1, <1>3, <1>10, <3>1, <4>1 DEF Balanced
    <3>3. CASE t = s
      <4>1. Total(out, "update", {t}) = 0 /\ Total(in, "data", {t}) = 0
        BY <1>2, <1>5, <3>3, TotalNone
      <4>2. peer_window'[t] = PeerNewWindow
        BY <1>1, <3>3 DEF RecvInv, StateOK
      <4>3. /\ Base(t) = IF acked THEN Window ELSE Default
            /\ Behind(t) <=> ~acked
            /\ acked => peer_applied
            /\ Delta = Window - Default
        BY <1>1, <1>5, <3>3 DEF Base, NewWindow, Behind, RecvInv, SettingsInv, Delta
      <4>4. Base(t) + (IF peer_applied /\ Behind(t) THEN Delta ELSE 0) = PeerNewWindow
        BY <1>3, <1>11, <4>3
      <4>5. PeerNewWindow = PeerNewWindow + 0 + 0
        BY <1>11
      <4>6. Base(t)' + (IF peer_applied' /\ Behind(t)' THEN Delta' ELSE 0) =
              peer_window'[t] + Total(out', "update", {t}) + Total(in', "data", {t})
        BY <1>1, <1>3, <1>10, <4>1, <4>2, <4>4, <4>5
      <4> QED
        BY <3>1, <4>6 DEF Balanced
    <3> QED
      BY <3>2, <3>3
  <2>2. ASSUME half[t] \in {"idle", "open"}, t \notin failing PROVE FitsIn(in', t, Base(t), Delta)
    <3>1. FitsIn(in, t, Base(t), Delta) /\ ~Is(e, "data", t)
      BY <1>2, <2>2 DEF RecvInv, WindowInv, Is
    <3>2. Base(t) \in Int /\ Delta \in Int
      BY <1>3
    <3> QED
      BY <1>1, <1>2, <1>8, <3>1, <3>2, FitsAppend
  <2> QED
    BY <1>3, <2>1, <2>2
<1> QED
  BY <1>3, <1>12, <1>13, <1>14, <1>15, <1>16, <1>17, <1>18 DEF RecvInv, PeerNotFailed

\* A peer that sends data.
LEMMA PeerSendsKeeps ==
    ASSUME RecvInv, NEW s \in Streams, NEW len \in Nat, NEW pad \in Nat, NEW eof \in BOOLEAN, PeerSends(s, len, pad, eof)
    PROVE  RecvInv'
<1> DEFINE e == Data(s, len, pad, eof)
<1>1. /\ s \in peer_open /\ pad <= len
      /\ len > 0 => len <= peer_window[s] /\ len <= peer_con
      /\ sent' = sent + len
      /\ peer_window' = [peer_window EXCEPT ![s] = IF eof THEN Default ELSE peer_window[s] - len]
      /\ peer_con' = peer_con - len
      /\ peer_open' = IF eof THEN peer_open \ {s} ELSE peer_open
      /\ in' = Append(in, e)
      /\ UNCHANGED <<localVars, peer_applied, out>>
  BY DEF PeerSends, localVars
<1>2. /\ in \in Seq(Frames) /\ in \in Seq(InFrame) /\ e \in InFrame /\ e \in Frames
      /\ e.kind = "data" /\ e.id = s /\ e.len = len /\ e.eof = eof
      /\ out \in Seq(Frames)
  BY <1>1, Queues, FrameTypes DEF Frames, Data
<1> HIDE DEF e
<1>3. /\ UNCHANGED <<config, half, recv_window, recv_size, con_window, con_size, acked, failing, exceeded>>
      /\ Window' = Window /\ Default' = Default /\ ConnWindow' = ConnWindow /\ Delta' = Delta /\ server' = server
      /\ Window \in Nat /\ Default \in Nat /\ Delta \in Int /\ NewWindow \in Int
      /\ \A t \in Streams :
            /\ Base(t)' = Base(t) /\ Base(t) \in Int
            /\ recv_window[t] \in Int /\ peer_window[t] \in Int
            /\ Behind(t)' <=> Behind(t)
            /\ half'[t] = "open" => SizeInv(t)'
            /\ t \in failing' => Delta' > 0
  <2>1. UNCHANGED localVars
    BY <1>1 DEF localVars
  <2> QED
    BY <2>1, PeerLeaves
<1>4. /\ peer_open \subseteq Streams /\ peer_con \in Nat /\ sent \in Nat /\ peer_window \in [Streams -> Int]
      /\ peer_open' \subseteq peer_open /\ (eof => s \notin peer_open')
  BY <1>1 DEF RecvInv, StateOK
<1>5. ~Has(out, "headers", s) /\ ~HasEof(in, s) /\ half[s] # "closed"
  BY <1>1 DEF RecvInv, OutOrder, InOrder, HalfInv
<1>6. /\ \A t \in Streams : Has(in', "headers", t) <=> Has(in, "headers", t)
      /\ \A t \in Streams : Has(in', "data", t) <=> Has(in, "data", t) \/ t = s
      /\ \A t \in Streams : HasEof(in', t) <=> HasEof(in, t) \/ (t = s /\ eof)
  <2>1. /\ \A kind, id : Has(in', kind, id) <=> Has(in, kind, id) \/ Is(e, kind, id)
        /\ \A id : HasEof(in', id) <=> HasEof(in, id) \/ (Is(e, "data", id) /\ e.eof)
    BY <1>1, <1>2, AppendHas
  <2> QED
    BY <1>2, <2>1 DEF Is
<1>7. HeadersFirst(in', "data") /\ EofLast(in')
  <2>1. HeadersFirst(in, "data") /\ EofLast(in) /\ ~HasEof(in, e.id) /\ e.kind # "headers"
    BY <1>2, <1>5 DEF RecvInv, InOrder
  <2> QED
    BY <1>1, <1>2, <2>1, AppendOrder
<1> DEFINE pending == peer_applied /\ ~acked
<1>8. pending \in BOOLEAN /\ AckUnderWay(in, pending)
  BY DEF RecvInv, StateOK, SettingsInv
<1> HIDE DEF pending
<1>9. AckUnderWay(in', pending)
  <2>1. \A x \in BOOLEAN : AckUnderWay(in, x) /\ e.kind # "ack" => AckUnderWay(Append(in, e), x)
    BY <1>2, AppendOrder, Zenon
  <2>2. e.kind # "ack"
    BY <1>2
  <2> QED
    BY <1>1, <1>8, <2>1, <2>2, Zenon
<1>10. /\ Total(in', "data", Streams) = Total(in, "data", Streams) + len
       /\ \A t \in Streams : Total(in', "data", {t}) = Total(in, "data", {t}) + IF t = s THEN len ELSE 0
  <2>1. Amount(e, "data", Streams) = len /\ \A t \in Streams : Amount(e, "data", {t}) = IF t = s THEN len ELSE 0
    BY <1>2 DEF Amount
  <2>2. \A ids : Total(in', "data", ids) = Total(in, "data", ids) + Amount(e, "data", ids)
    BY <1>1, <1>2, SumAppend
  <2>3. Total(in', "data", Streams) = Total(in, "data", Streams) + Amount(e, "data", Streams)
    BY <2>2
  <2>4. ASSUME NEW t \in Streams
        PROVE  Total(in', "data", {t}) = Total(in, "data", {t}) + IF t = s THEN len ELSE 0
    <3>1. Total(in', "data", {t}) = Total(in, "data", {t}) + Amount(e, "data", {t})
      BY <2>2
    <3> QED
      BY <2>1, <3>1
  <2> QED
    BY <2>1, <2>3, <2>4
<1>11. \A ids : Total(in, "data", ids) \in Nat /\ Total(out, "update", ids) \in Nat
  BY <1>2, TotalType
<1>12. peer_con' \in Nat /\ sent' \in Nat
  BY <1>1, <1>4
<1>13. StateOK'
  <2>1. peer_window' \in [Streams -> Int] /\ peer_open' \subseteq Streams
    <3>1. (IF eof THEN Default ELSE peer_window[s] - len) \in Int
      BY <1>3
    <3> QED
      BY <1>1, <1>4, <3>1
  <2>2. in' \in Seq(InFrame)
    BY <1>1, <1>2
  <2> QED
    BY <1>1, <1>3, <1>12, <2>1, <2>2 DEF RecvInv, StateOK
<1>14. SettingsInv'
  <2>1. AckUnderWay(in', peer_applied' /\ ~acked')
    BY <1>1, <1>3, <1>9 DEF pending
  <2> QED
    BY <1>1, <1>3, <2>1 DEF RecvInv, SettingsInv
<1>15. ConInv'
  <2> DEFINE a == Total(out, "update", {Con})
             b == Total(in, "data", Streams)
  <2>1. a \in Nat /\ b \in Nat
    BY <1>11
  <2>2. con_window = peer_con + a + b
    BY DEF RecvInv, ConInv, ConWindowMatches
  <2> HIDE DEF a, b
  <2>3. con_window = (peer_con - len) + a + (b + len)
    BY <1>4, <2>1, <2>2
  <2>4. ConWindowMatches'
    BY <1>1, <1>3, <1>10, <2>3 DEF ConWindowMatches, a, b
  <2> QED
    BY <1>3, <2>4 DEF RecvInv, ConInv
<1>16. OutOrder'
  <2>1. ASSUME NEW t \in Streams, Has(out, "headers", t)
        PROVE  ~server /\ t \notin peer_open' /\ half[t] \in {"open", "gone"} /\ ~Has(in', "data", t)
    BY <1>4, <1>5, <1>6, <2>1 DEF RecvInv, OutOrder
  <2> QED
    BY <1>1, <1>3, <2>1 DEF RecvInv, OutOrder
<1>17. InOrder'
  <2>1. ASSUME NEW t \in Streams
        PROVE  /\ Has(in', "headers", t) => server /\ half[t] = "idle"
               /\ HasEof(in', t) => t \notin peer_open'
    BY <1>4, <1>6 DEF RecvInv, InOrder
  <2> QED
    BY <1>3, <1>7, <2>1 DEF InOrder
<1>18. HalfInv'
  <2>1. ASSUME NEW t \in Streams, half[t] = "idle"
        PROVE  /\ ~Has(out, "update", t) /\ t \notin failing
               /\ recv_size[t] = 0
               /\ t \in peer_open' \/ Has(in', "data", t) => Has(in', "headers", t)
    BY <1>1, <1>4, <1>6, <2>1 DEF RecvInv, HalfInv
  <2>2. ASSUME NEW t \in Streams, half[t] = "closed"
        PROVE  t \notin peer_open' /\ ~Has(in', "data", t)
    BY <1>4, <1>5, <1>6, <2>2 DEF RecvInv, HalfInv
  <2> QED
    BY <1>1, <1>3, <2>1, <2>2 DEF HalfInv
<1>19. WindowInv'
  <2> SUFFICES ASSUME NEW t \in Streams
               PROVE  /\ half'[t] \in {"idle", "open"} => Balanced(t)'
                      /\ half'[t] \in {"idle", "open"} /\ t \notin failing' => FitsIn(in', t, Base(t)', Delta')
                      /\ half'[t] = "open" => SizeInv(t)'
                      /\ t \in failing' => Delta' > 0
    BY DEF WindowInv
  <2> DEFINE a == Total(out, "update", {t})
             b == Total(in, "data", {t})
             k == IF peer_applied /\ Behind(t) THEN Delta ELSE 0
  <2>1. a \in Nat /\ b \in Nat /\ k \in Int /\ Base(t) \in Int /\ peer_window[t] \in Int
    BY <1>3, <1>11
  <2>2. ASSUME half[t] \in {"idle", "open"}, t \in peer_open PROVE Base(t) + k = peer_window[t] + a + b
    BY <2>2 DEF RecvInv, WindowInv, Balanced
  <2> HIDE DEF a, b, k
  <2>3. ASSUME half[t] \in {"idle", "open"} PROVE Balanced(t)'
    <3>1. ASSUME t \in peer_open'
          PROVE  Base(t) + k = peer_window'[t] + a + Total(in', "data", {t})
      <4>1. Base(t) + k = peer_window[t] + a + b
        BY <1>4, <2>2, <2>3, <3>1
      <4>2. CASE t = s
        <5>1. peer_window'[t] = peer_window[t] - len /\ Total(in', "data", {t}) = b + len
          BY <1>1, <1>4, <1>10, <3>1, <4>2 DEF b
        <5>2. \A x, y, z, v, w, n \in Int : x + y = z + v + w => x + y = (z - n) + v + (w + n)
          OBVIOUS
        <5>3. Base(t) + k = (peer_window[t] - len) + a + (b + len)
          BY <2>1, <4>1, <5>2
        <5> QED
          BY <5>1, <5>3
      <4>3. CASE t # s
        <5>1. peer_window'[t] = peer_window[t] /\ Total(in', "data", {t}) = b + 0
          BY <1>1, <1>4, <1>10, <4>3 DEF b
        <5> QED
          BY <2>1, <4>1, <5>1
      <4> QED
        BY <4>2, <4>3
    <3>2. Has(out, "headers", t) => recv_window[t] + (IF Behind(t) THEN Delta ELSE 0) = Window + a
      BY <2>3 DEF RecvInv, WindowInv, Balanced, a
    <3> QED
      BY <1>1, <1>3, <3>1, <3>2 DEF Balanced, a, k
  <2>4. ASSUME half[t] \in {"idle", "open"}, t \notin failing PROVE FitsIn(in', t, Base(t), Delta)
    <3>1. FitsIn(in, t, Base(t), Delta)
      BY <2>4 DEF RecvInv, WindowInv
    <3>2. ASSUME Is(e, "data", t), e.len > 0
          PROVE  Total(in, "data", {t}) + Amount(e, "data", {t}) <= Base(t) + (IF pending THEN Delta ELSE 0)
      <4>1. t = s /\ Amount(e, "data", {t}) = len /\ len <= peer_window[t]
        BY <1>1, <1>2, <3>2 DEF Is, Amount
      <4>2. Base(t) + k = peer_window[t] + a + b
        BY <1>1, <2>2, <2>4, <4>1
      <4>3. k = IF pending THEN Delta ELSE 0
        BY <2>4 DEF k, pending, Behind
      <4>4. b + len <= Base(t) + k
        BY <2>1, <4>1, <4>2
      <4> QED
        BY <4>1, <4>3, <4>4 DEF b
    <3>3. Base(t) \in Int /\ Delta \in Int
      BY <1>3
    <3> QED
      BY <1>1, <1>2, <1>8, <3>1, <3>2, <3>3, FitsAppend
  <2> QED
    BY <1>3, <2>3, <2>4
<1> QED
  BY <1>3, <1>13, <1>14, <1>15, <1>16, <1>17, <1>18, <1>19 DEF RecvInv, PeerNotFailed

\* The peer reads a frame.
LEMMA PeerReads ==
    ASSUME RecvInv, out # <<>>, out' = Tail(out)
    PROVE  /\ out \in Seq(Frames) /\ out' \in Seq(OutFrame) /\ Head(out) \in OutFrame /\ Head(out) \in Frames
           /\ \A t \in Streams : Has(out', "headers", t) => Has(out, "headers", t) /\ ~Is(Head(out), "headers", t)
           /\ \A t \in Streams : Has(out', "update", t) => Has(out, "update", t)
           /\ \A t \in Streams : Is(Head(out), "headers", t) => Has(out, "headers", t)
           /\ \A t \in Streams : Is(Head(out), "update", t) => ~Has(out, "headers", t)
           /\ HeadersFirst(out', "update") /\ SettingsFirst(out', TRUE)
           /\ Head(out).kind = "settings" <=> ~peer_applied
           /\ \A ids : /\ Total(out', "update", ids) = Total(out, "update", ids) - Amount(Head(out), "update", ids)
                       /\ Total(out, "update", ids) \in Nat /\ Amount(Head(out), "update", ids) \in Nat
<1>1. out \in Seq(Frames) /\ out \in Seq(OutFrame) /\ Tail(out) \in Seq(OutFrame) /\ Head(out) \in OutFrame /\ Head(out) \in Frames
  <2>1. out \in Seq(Frames) /\ out \in Seq(OutFrame)
    BY Queues
  <2> QED
    BY <2>1 DEF Frames
<1>2. HeadersFirst(out, "update") /\ SettingsFirst(out, peer_applied) /\ peer_applied \in BOOLEAN
  BY DEF RecvInv, OutOrder, SettingsInv, StateOK
<1>3. \A kind, id : Has(out, kind, id) <=> Is(Head(out), kind, id) \/ Has(out', kind, id)
  BY <1>1, TailHas
<1>4. HeadersFirst(out', "update") /\ \A t : Is(Head(out), "headers", t) => ~Has(out', "headers", t)
  BY <1>1, <1>2, TailOrder
<1>5. SettingsFirst(out', TRUE) /\ (Head(out).kind = "settings" <=> ~peer_applied)
  <2>1. \A x \in BOOLEAN : SettingsFirst(out, x) =>
                 SettingsFirst(Tail(out), TRUE) /\ (Head(out).kind = "settings" <=> ~x)
    BY <1>1, TailOrder, Zenon
  <2> QED
    BY <1>2, <2>1, Zenon
<1>6. \A t \in Streams : Is(Head(out), "update", t) => ~Has(out, "headers", t)
  BY <1>1, <1>2, NoHeaders
<1>7. \A ids : /\ Total(out', "update", ids) = Total(out, "update", ids) - Amount(Head(out), "update", ids)
               /\ Total(out, "update", ids) \in Nat /\ Amount(Head(out), "update", ids) \in Nat
  BY <1>1, SumTail, TotalType, AmountType
<1> QED
  BY <1>1, <1>3, <1>4, <1>5, <1>6, <1>7

\* the peer takes a frame other than the settings
PeerTakes ==
    /\ out # <<>> /\ out' = Tail(out)
    /\ Head(out).kind # "settings"
    /\ UNCHANGED <<localVars, sent, peer_applied, in>>
    /\ peer_con' = peer_con + Amount(Head(out), "update", {Con})
    /\ peer_window' \in [Streams -> Int]
    /\ peer_open' \subseteq Streams
    /\ \A t \in peer_open' :
          IF t \in peer_open THEN peer_window'[t] = peer_window[t] + Amount(Head(out), "update", {t})
          ELSE Is(Head(out), "headers", t) /\ peer_window'[t] = Window

\* A peer that takes a frame other than the settings.
LEMMA PeerTakesKeeps ==
    ASSUME RecvInv, PeerTakes
    PROVE  RecvInv'
<1> DEFINE f == Head(out)
<1>1. /\ out # <<>> /\ out' = Tail(out) /\ f.kind # "settings"
      /\ UNCHANGED <<localVars, sent, peer_applied, in>>
      /\ peer_con' = peer_con + Amount(f, "update", {Con})
      /\ peer_window' \in [Streams -> Int] /\ peer_open' \subseteq Streams
      /\ \A t \in peer_open' : t \in Streams /\
            IF t \in peer_open THEN peer_window'[t] = peer_window[t] + Amount(f, "update", {t})
            ELSE Is(f, "headers", t) /\ peer_window'[t] = Window
  BY DEF PeerTakes, localVars
<1>2. /\ out' \in Seq(OutFrame)
      /\ \A t \in Streams : Has(out', "headers", t) => Has(out, "headers", t) /\ ~Is(f, "headers", t)
      /\ \A t \in Streams : Has(out', "update", t) => Has(out, "update", t)
      /\ \A t \in Streams : Is(f, "headers", t) => Has(out, "headers", t)
      /\ \A t \in Streams : Is(f, "update", t) => ~Has(out, "headers", t)
      /\ HeadersFirst(out', "update") /\ SettingsFirst(out', TRUE)
      /\ f.kind = "settings" <=> ~peer_applied
      /\ \A ids : /\ Total(out', "update", ids) = Total(out, "update", ids) - Amount(f, "update", ids)
                  /\ Total(out, "update", ids) \in Nat /\ Amount(f, "update", ids) \in Nat
  BY <1>1, PeerReads
<1>3. /\ UNCHANGED <<config, half, recv_window, recv_size, con_window, con_size, acked, failing, exceeded>>
      /\ Window' = Window /\ Default' = Default /\ ConnWindow' = ConnWindow /\ Delta' = Delta /\ server' = server
      /\ Window \in Nat /\ Default \in Nat /\ Delta \in Int /\ NewWindow \in Int
      /\ \A t \in Streams :
            /\ Base(t)' = Base(t) /\ Base(t) \in Int
            /\ recv_window[t] \in Int /\ peer_window[t] \in Int
            /\ Behind(t)' <=> Behind(t)
            /\ half'[t] = "open" => SizeInv(t)'
            /\ t \in failing' => Delta' > 0
  <2>1. UNCHANGED localVars
    BY <1>1 DEF localVars
  <2> QED
    BY <2>1, PeerLeaves
<1>4. peer_con \in Nat /\ peer_applied = TRUE /\ in \in Seq(Frames) /\ \A ids : Total(in, "data", ids) \in Nat
  <2>1. peer_con \in Nat /\ peer_applied = TRUE
    BY <1>1, <1>2 DEF RecvInv, StateOK
  <2>2. in \in Seq(Frames)
    BY Queues
  <2> QED
    BY <2>1, <2>2, TotalType
<1> HIDE DEF f
<1>5. \A t \in peer_open' : t \in peer_open \/ Is(f, "headers", t)
  BY <1>1
<1>6. StateOK'
  <2>1. peer_con' \in Nat
    BY <1>1, <1>2, <1>4
  <2> QED
    BY <1>1, <1>2, <1>3, <2>1 DEF RecvInv, StateOK
<1>7. SettingsInv'
  BY <1>1, <1>2, <1>3, <1>4 DEF RecvInv, SettingsInv
<1>8. ConInv'
  <2> DEFINE a == Total(out, "update", {Con})
             b == Total(in, "data", Streams)
             x == Amount(f, "update", {Con})
  <2>1. a \in Nat /\ b \in Nat /\ x \in Nat /\ Total(out', "update", {Con}) = a - x
    BY <1>2, <1>4
  <2>2. con_window = peer_con + a + b
    BY DEF RecvInv, ConInv, ConWindowMatches
  <2> HIDE DEF a, b, x
  <2>3. con_window = (peer_con + x) + (a - x) + b
    BY <1>4, <2>1, <2>2
  <2>4. ConWindowMatches'
    BY <1>1, <1>3, <2>1, <2>3 DEF ConWindowMatches, b, x
  <2> QED
    BY <1>3, <2>4 DEF RecvInv, ConInv
<1>9. OutOrder'
  <2>1. ASSUME NEW t \in Streams, Has(out', "headers", t)
        PROVE  ~server /\ t \notin peer_open' /\ half[t] \in {"open", "gone"} /\ ~Has(in, "data", t)
    BY <1>2, <1>5, <2>1 DEF RecvInv, OutOrder
  <2> QED
    BY <1>1, <1>2, <1>3, <2>1 DEF OutOrder
<1>10. InOrder'
  <2>1. ASSUME NEW t \in Streams
        PROVE  /\ Has(in, "headers", t) => server /\ half[t] = "idle"
               /\ HasEof(in, t) => t \notin peer_open'
    <3>1. HasEof(in, t) => Has(in, "data", t)
      BY DEF HasEof, Has
    <3> QED
      BY <1>2, <1>5, <3>1 DEF RecvInv, InOrder, OutOrder
  <2> QED
    BY <1>1, <1>3, <2>1 DEF RecvInv, InOrder
<1>11. HalfInv'
  <2>1. ASSUME NEW t \in Streams, half[t] = "idle"
        PROVE  /\ ~Has(out', "update", t) /\ t \notin failing
               /\ recv_size[t] = 0
               /\ t \in peer_open' \/ Has(in, "data", t) => Has(in, "headers", t)
    BY <1>2, <1>5, <2>1 DEF RecvInv, HalfInv, OutOrder
  <2>2. ASSUME NEW t \in Streams, half[t] = "closed"
        PROVE  t \notin peer_open' /\ ~Has(in, "data", t)
    BY <1>2, <1>5, <2>2 DEF RecvInv, HalfInv, OutOrder
  <2> QED
    BY <1>1, <1>3, <2>1, <2>2 DEF HalfInv
<1>12. WindowInv'
  <2> SUFFICES ASSUME NEW t \in Streams
               PROVE  /\ half'[t] \in {"idle", "open"} => Balanced(t)'
                      /\ half'[t] \in {"idle", "open"} /\ t \notin failing' => FitsIn(in', t, Base(t)', Delta')
                      /\ half'[t] = "open" => SizeInv(t)'
                      /\ t \in failing' => Delta' > 0
    BY DEF WindowInv
  <2> DEFINE a == Total(out, "update", {t})
             b == Total(in, "data", {t})
             x == Amount(f, "update", {t})
             l == IF Behind(t) THEN Delta ELSE 0
  <2>1. /\ a \in Nat /\ b \in Nat /\ x \in Nat /\ l \in Int /\ Base(t) \in Int /\ peer_window[t] \in Int
        /\ Total(out', "update", {t}) = a - x /\ recv_window[t] \in Int
    BY <1>2, <1>3, <1>4
  <2>2. ASSUME half[t] \in {"idle", "open"}
        PROVE  /\ t \in peer_open => Base(t) + l = peer_window[t] + a + b
               /\ Has(out, "headers", t) => recv_window[t] + l = Window + a
    BY <1>4, <2>2 DEF RecvInv, WindowInv, Balanced
  <2> HIDE DEF a, b, x, l
  <2>3. ASSUME half[t] \in {"idle", "open"}, t \in peer_open'
        PROVE  Base(t) + l = peer_window'[t] + (a - x) + b
    <3>1. CASE t \in peer_open
      <4>1. Base(t) + l = peer_window[t] + a + b /\ peer_window'[t] = peer_window[t] + x
        BY <1>1, <2>2, <2>3, <3>1 DEF x
      <4>2. \A y, z, v, w, n \in Int : y = z + v + w => y = (z + n) + (v - n) + w
        OBVIOUS
      <4>3. Base(t) + l \in Int
        BY <2>1
      <4>4. Base(t) + l = (peer_window[t] + x) + (a - x) + b
        BY <2>1, <4>1, <4>2, <4>3
      <4> QED
        BY <4>1, <4>4
    <3>2. CASE t \notin peer_open
      <4>1. Is(f, "headers", t) /\ peer_window'[t] = Window /\ Has(out, "headers", t)
        BY <1>1, <1>2, <2>3, <3>2
      <4>2. half[t] = "open" /\ ~Has(in, "data", t)
        BY <2>3, <4>1 DEF RecvInv, OutOrder
      <4>3. x = 0
        BY <4>1 DEF Is, Amount, x
      <4>4. b = 0
        BY <1>4, <4>2, TotalNone DEF b
      <4>5. Base(t) + l = Window + a
        BY <2>2, <2>3, <4>1, <4>2 DEF Base
      <4>6. Window + a = Window + (a - x) + b
        BY <1>3, <2>1, <4>3, <4>4
      <4> QED
        BY <4>1, <4>5, <4>6
    <3> QED
      BY <3>1, <3>2
  <2>4. ASSUME half[t] \in {"idle", "open"}, Has(out', "headers", t)
        PROVE  recv_window[t] + l = Window + (a - x)
    <3>1. recv_window[t] + l = Window + a /\ ~Is(f, "update", t)
      BY <1>2, <2>2, <2>4
    <3>2. x = 0
      BY <3>1 DEF Is, Amount, x
    <3>3. a - x = a
      BY <2>1, <3>2
    <3> QED
      BY <3>1, <3>3
  <2>5. ASSUME half[t] \in {"idle", "open"} PROVE Balanced(t)'
    <3>1. t \in peer_open' => Base(t)' + (IF peer_applied' /\ Behind(t)' THEN Delta' ELSE 0) =
                peer_window'[t] + Total(out', "update", {t}) + Total(in', "data", {t})
      BY <1>1, <1>3, <1>4, <2>1, <2>3, <2>5 DEF l, b
    <3>2. Has(out', "headers", t) =>
            recv_window'[t] + (IF Behind(t)' THEN Delta' ELSE 0) = Window' + Total(out', "update", {t})
      BY <1>3, <2>1, <2>4, <2>5 DEF l
    <3> QED
      BY <3>1, <3>2 DEF Balanced
  <2>6. ASSUME half[t] \in {"idle", "open"}, t \notin failing PROVE FitsIn(in, t, Base(t), Delta)
    BY <2>6 DEF RecvInv, WindowInv
  <2> QED
    BY <1>1, <1>3, <2>5, <2>6
<1> QED
  BY <1>3, <1>6, <1>7, <1>8, <1>9, <1>10, <1>11, <1>12 DEF RecvInv, PeerNotFailed

\* A peer that applies the settings.
LEMMA PeerAppliesKeeps ==
    ASSUME RecvInv, out # <<>>, out' = Tail(out), Head(out).kind = "settings", peer_applied' = TRUE,
           peer_window' = [s \in Streams |-> IF s \in peer_open THEN peer_window[s] + Window - Default ELSE peer_window[s]],
           in' = Append(in, Frame("ack", Con)), UNCHANGED <<localVars, sent, peer_con, peer_open>>
    PROVE  RecvInv'
<1> DEFINE f == Head(out)
           e == Frame("ack", Con)
<1>1. /\ \A t \in Streams : Has(out', "headers", t) => Has(out, "headers", t)
      /\ \A t \in Streams : Has(out', "update", t) => Has(out, "update", t)
      /\ HeadersFirst(out', "update") /\ SettingsFirst(out', TRUE) /\ out' \in Seq(OutFrame)
      /\ ~peer_applied
  BY PeerReads
<1>2. \A ids : Total(out', "update", ids) = Total(out, "update", ids)
  <2> TAKE ids
  <2>1. /\ Total(out', "update", ids) = Total(out, "update", ids) - Amount(f, "update", ids)
        /\ Total(out, "update", ids) \in Nat
    BY PeerReads
  <2>2. Amount(f, "update", ids) = 0
    BY DEF Amount
  <2> QED
    BY <2>1, <2>2
<1>3. /\ UNCHANGED <<config, half, recv_window, recv_size, con_window, con_size, acked, failing, exceeded>>
      /\ Window' = Window /\ Default' = Default /\ ConnWindow' = ConnWindow /\ Delta' = Delta /\ server' = server
      /\ Window \in Nat /\ Default \in Nat /\ Delta \in Int /\ NewWindow \in Int
      /\ \A t \in Streams :
            /\ Base(t)' = Base(t) /\ Base(t) \in Int
            /\ recv_window[t] \in Int /\ peer_window[t] \in Int
            /\ Behind(t)' <=> Behind(t)
            /\ half'[t] = "open" => SizeInv(t)'
            /\ t \in failing' => Delta' > 0
  <2>1. UNCHANGED localVars
    BY DEF localVars
  <2> QED
    BY <2>1, PeerLeaves
<1>4. /\ in \in Seq(Frames) /\ in \in Seq(InFrame) /\ e \in InFrame /\ e \in Frames /\ e.kind = "ack" /\ out \in Seq(Frames)
      /\ in' = Append(in, e)
  BY Queues DEF Frames, InFrame, Frame
<1> HIDE DEF f, e
<1>5. ~acked /\ failing = {} /\ AckUnderWay(in, FALSE)
  <2>1. ~acked /\ failing = {}
    BY <1>1 DEF RecvInv, SettingsInv
  <2>2. AckUnderWay(in, peer_applied /\ ~acked)
    BY DEF RecvInv, SettingsInv
  <2>3. AckUnderWay(in, FALSE)
    BY <1>1, <2>2 DEF AckUnderWay
  <2> QED
    BY <2>1, <2>3
<1>6. AckUnderWay(in', TRUE)
  BY <1>4, <1>5, AppendOrder
<1>7. HeadersFirst(in', "data") /\ EofLast(in')
  <2>1. HeadersFirst(in, "data") /\ EofLast(in) /\ e.kind # "headers" /\ e.kind # "data"
    BY <1>4 DEF RecvInv, InOrder
  <2> QED
    BY <1>4, <2>1, AppendOrder
<1>8. /\ \A t \in Streams : Has(in', "headers", t) <=> Has(in, "headers", t)
      /\ \A t \in Streams : Has(in', "data", t) <=> Has(in, "data", t)
      /\ \A t \in Streams : HasEof(in', t) <=> HasEof(in, t)
  <2>1. /\ \A kind, id : Has(in', kind, id) <=> Has(in, kind, id) \/ Is(e, kind, id)
        /\ \A id : HasEof(in', id) <=> HasEof(in, id) \/ (Is(e, "data", id) /\ e.eof)
    BY <1>4, AppendHas
  <2> QED
    BY <1>4, <2>1 DEF Is
<1>9. \A ids : Total(in', "data", ids) = Total(in, "data", ids)
  <2> TAKE ids
  <2>1. Amount(e, "data", ids) = 0
    BY <1>4 DEF Amount
  <2>2. Total(Append(in, e), "data", ids) = Total(in, "data", ids) + 0
    BY <1>4, <2>1, SumAppend
  <2>3. Total(in, "data", ids) \in Nat
    BY <1>4, TotalType
  <2> QED
    BY <1>4, <2>2, <2>3
<1>10. \A t \in Streams : t \in peer_open => peer_window'[t] = peer_window[t] + Delta
  BY DEF Delta
<1>11. StateOK'
  <2>1. peer_window' \in [Streams -> Int]
    BY <1>3
  <2>2. in' \in Seq(InFrame)
    BY <1>4
  <2> QED
    BY <1>1, <1>3, <2>1, <2>2 DEF RecvInv, StateOK
<1>12. SettingsInv'
  <2>1. AckUnderWay(in', peer_applied' /\ ~acked')
    BY <1>3, <1>5, <1>6 DEF AckUnderWay
  <2> QED
    BY <1>1, <1>3, <1>5, <2>1 DEF SettingsInv
<1>13. ConInv'
  BY <1>2, <1>3, <1>9 DEF RecvInv, ConInv, ConWindowMatches
<1>14. OutOrder'
  BY <1>1, <1>3, <1>8 DEF RecvInv, OutOrder
<1>15. InOrder'
  BY <1>3, <1>7, <1>8 DEF RecvInv, InOrder
<1>16. HalfInv'
  BY <1>1, <1>3, <1>8 DEF RecvInv, HalfInv
<1>17. WindowInv'
  <2> SUFFICES ASSUME NEW t \in Streams
               PROVE  /\ half'[t] \in {"idle", "open"} => Balanced(t)'
                      /\ half'[t] \in {"idle", "open"} /\ t \notin failing' => FitsIn(in', t, Base(t)', Delta')
                      /\ half'[t] = "open" => SizeInv(t)'
                      /\ t \in failing' => Delta' > 0
    BY DEF WindowInv
  <2> DEFINE a == Total(out, "update", {t})
             b == Total(in, "data", {t})
  <2>1. a \in Int /\ b \in Int /\ Base(t) \in Int /\ peer_window[t] \in Int /\ Delta \in Int /\ Behind(t)
    BY <1>3, <1>4, <1>5, TotalType DEF Behind
  <2> HIDE DEF a, b
  <2>2. ASSUME half[t] \in {"idle", "open"}, t \in peer_open
        PROVE  Base(t) + Delta = peer_window'[t] + a + b
    <3>1. Base(t) + 0 = peer_window[t] + a + b
      BY <1>1, <2>2 DEF RecvInv, WindowInv, Balanced, a, b
    <3>2. \A x, y, v, w, n \in Int : x + 0 = y + v + w => x + n = (y + n) + v + w
      OBVIOUS
    <3>3. Base(t) + Delta = (peer_window[t] + Delta) + a + b
      BY <2>1, <3>1, <3>2
    <3> QED
      BY <1>10, <2>2, <3>3
  <2>3. ASSUME half[t] \in {"idle", "open"} PROVE Balanced(t)'
    <3>1. t \in peer_open' => Base(t)' + (IF peer_applied' /\ Behind(t)' THEN Delta' ELSE 0) =
                peer_window'[t] + Total(out', "update", {t}) + Total(in', "data", {t})
      BY <1>2, <1>3, <1>9, <2>1, <2>2, <2>3 DEF a, b
    <3>2. Has(out', "headers", t) =>
            recv_window'[t] + (IF Behind(t)' THEN Delta' ELSE 0) = Window' + Total(out', "update", {t})
      BY <1>1, <1>2, <1>3, <2>1, <2>3 DEF RecvInv, WindowInv, Balanced
    <3> QED
      BY <3>1, <3>2 DEF Balanced
  <2>4. ASSUME half[t] \in {"idle", "open"}, t \notin failing PROVE FitsIn(in', t, Base(t), Delta)
    <3>1. FitsIn(in, t, Base(t), Delta) /\ ~Is(e, "data", t)
      BY <1>4, <2>4 DEF RecvInv, WindowInv, Is
    <3> DEFINE pending == FALSE
    <3>2. pending \in BOOLEAN /\ AckUnderWay(in, pending)
      BY <1>5
    <3> HIDE DEF pending
    <3>3. FitsIn(Append(in, e), t, Base(t), Delta)
      BY <1>4, <2>1, <3>1, <3>2, FitsAppend
    <3> QED
      BY <1>4, <3>3
  <2> QED
    BY <1>3, <2>3, <2>4
<1> QED
  BY <1>3, <1>11, <1>12, <1>13, <1>14, <1>15, <1>16, <1>17 DEF RecvInv, PeerNotFailed

\* A peer that handles a frame.
LEMMA PeerRecvKeeps ==
    ASSUME RecvInv, PeerRecv
    PROVE  RecvInv'
<1> DEFINE f == Head(out)
<1>1. out # <<>> /\ out' = Tail(out) /\ UNCHANGED <<localVars, sent>>
  BY DEF PeerRecv, localVars
<1>2. /\ f \in OutFrame
      /\ f.kind = "settings" <=> ~peer_applied
      /\ peer_window \in [Streams -> Int] /\ peer_open \subseteq Streams /\ peer_con \in Nat
      /\ Window \in Nat /\ Default \in Nat
  BY <1>1, PeerReads, ConfigFacts DEF RecvInv, StateOK
<1>3. /\ f.kind \in {"headers", "rst"} => f.id \in Streams
      /\ f.kind = "update" => f.id \in Streams \union {Con} /\ f.inc \in Nat
  BY <1>2, OutFields
<1> DEFINE Settings ==
             /\ f.kind = "settings" /\ peer_applied' = TRUE
             /\ peer_window' = [s \in Streams |->
                   IF s \in peer_open THEN peer_window[s] + Window - Default ELSE peer_window[s]]
             /\ in' = Append(in, Frame("ack", Con)) /\ UNCHANGED <<peer_con, peer_open>>
           ConGrows ==
             /\ f.kind = "update" /\ f.id = Con
             /\ peer_con' = peer_con + f.inc /\ UNCHANGED <<peer_window, peer_open, peer_applied, in>>
           WindowGrows ==
             /\ f.kind = "update" /\ f.id # Con
             /\ \/ f.id \notin peer_open /\ peer_open' = peer_open /\ peer_window' = peer_window
                \/ /\ f.id \in peer_open /\ peer_open' = peer_open
                   /\ peer_window' = [peer_window EXCEPT ![f.id] = peer_window[f.id] + f.inc]
                \/ /\ f.id \in peer_open /\ peer_open' = peer_open \ {f.id}
                   /\ peer_window' = [peer_window EXCEPT ![f.id] = Default]
             /\ UNCHANGED <<peer_con, peer_applied, in>>
           Headers ==
             /\ f.kind = "headers" /\ peer_open' = peer_open \union {f.id}
             /\ peer_window' = [peer_window EXCEPT ![f.id] = PeerNewWindow]
             /\ UNCHANGED <<peer_con, peer_applied, in>>
           Rst ==
             /\ f.kind = "rst" /\ peer_open' = peer_open \ {f.id}
             /\ peer_window' = [peer_window EXCEPT ![f.id] = Default]
             /\ UNCHANGED <<peer_con, peer_applied, in>>
<1>4. Settings \/ ConGrows \/ WindowGrows \/ Headers \/ Rst
  BY <1>2 DEF PeerRecv
<1> SUFFICES RecvInv'
  OBVIOUS
<1>5. CASE Settings
  BY <1>1, <1>5, PeerAppliesKeeps DEF localVars
<1>6. ASSUME f.kind # "settings", UNCHANGED <<peer_applied, in>>,
             peer_con' = peer_con + Amount(f, "update", {Con}),
             peer_window' \in [Streams -> Int], peer_open' \subseteq Streams,
             \A t \in peer_open' :
                IF t \in peer_open THEN peer_window'[t] = peer_window[t] + Amount(f, "update", {t})
                ELSE Is(f, "headers", t) /\ peer_window'[t] = Window
      PROVE  RecvInv'
  <2>1. PeerTakes
    BY <1>1, <1>6 DEF PeerTakes, localVars
  <2> QED
    BY <2>1, PeerTakesKeeps
<1> HIDE DEF f
<1>7. CASE ConGrows
  <2>1. Amount(f, "update", {Con}) = f.inc /\ \A t \in Streams : Amount(f, "update", {t}) = 0
    BY <1>7 DEF Amount
  <2>2. \A t \in peer_open : peer_window'[t] = peer_window[t] + Amount(f, "update", {t})
    BY <1>2, <1>7, <2>1
  <2> QED
    BY <1>2, <1>6, <1>7, <2>1, <2>2
<1>8. CASE WindowGrows
  <2>1. Amount(f, "update", {Con}) = 0 /\ \A t \in Streams : Amount(f, "update", {t}) = IF t = f.id THEN f.inc ELSE 0
    BY <1>8 DEF Amount
  <2>2. f.id \in Streams /\ f.inc \in Nat
    BY <1>3, <1>8
  <2>3. peer_con' = peer_con + Amount(f, "update", {Con})
    BY <1>2, <1>8, <2>1
  <2>4. peer_window' \in [Streams -> Int] /\ peer_open' \subseteq peer_open
    BY <1>2, <1>8, <2>2
  <2>5. \A t \in peer_open' : t \in peer_open /\ peer_window'[t] = peer_window[t] + Amount(f, "update", {t})
    <3> SUFFICES ASSUME NEW t \in peer_open'
                 PROVE  peer_window'[t] = peer_window[t] + Amount(f, "update", {t})
      BY <2>4
    <3>1. t \in Streams /\ t \in peer_open /\ peer_window[t] \in Int
      BY <1>2, <2>4
    <3>2. CASE t = f.id
      BY <1>2, <1>8, <2>1, <2>2, <3>1, <3>2
    <3>3. CASE t # f.id
      <4>1. peer_window'[t] = peer_window[t]
        BY <1>2, <1>8, <3>1, <3>3
      <4> QED
        BY <2>1, <3>1, <3>3, <4>1
    <3> QED
      BY <3>2, <3>3
  <2> QED
    BY <1>2, <1>6, <1>8, <2>3, <2>4, <2>5
<1>9. CASE Headers \/ Rst
  <2>1. \A ids : Amount(f, "update", ids) = 0
    BY <1>9 DEF Amount
  <2>2. f.id \in Streams /\ f.kind # "settings" /\ PeerNewWindow = Window
    BY <1>2, <1>3, <1>9 DEF PeerNewWindow
  <2>3. peer_con' = peer_con + Amount(f, "update", {Con})
    BY <1>2, <1>9, <2>1
  <2>4. peer_window' \in [Streams -> Int] /\ peer_open' \subseteq Streams
    BY <1>2, <1>9, <2>2
  <2>5. Has(out, "headers", f.id) => f.id \notin peer_open
    BY <2>2 DEF RecvInv, OutOrder
  <2>6. f.kind = "headers" => f.id \notin peer_open
    <3>1. Is(f, "headers", f.id) => Has(out, "headers", f.id)
      BY <1>1, <2>2, PeerReads DEF f
    <3> QED
      BY <2>5, <3>1 DEF Is
  <2>7. ASSUME NEW t \in peer_open'
        PROVE  IF t \in peer_open THEN peer_window'[t] = peer_window[t] + Amount(f, "update", {t})
               ELSE Is(f, "headers", t) /\ peer_window'[t] = Window
    <3>1. t \in Streams /\ peer_window[t] \in Int
      BY <1>2, <2>4
    <3>2. CASE t \in peer_open
      <4>1. t # f.id
        BY <1>9, <2>6, <3>2
      <4>2. peer_window'[t] = peer_window[t]
        BY <1>2, <1>9, <3>1, <4>1
      <4> QED
        BY <2>1, <3>1, <3>2, <4>2
    <3>3. CASE t \notin peer_open
      <4>1. t = f.id /\ Headers
        BY <1>9, <3>3
      <4> QED
        BY <1>2, <2>2, <3>1, <3>3, <4>1 DEF Is
    <3> QED
      BY <3>2, <3>3
  <2> QED
    BY <1>6, <1>9, <2>2, <2>3, <2>4, <2>7
<1> QED
  <2> HIDE DEF Settings, ConGrows, WindowGrows, Headers, Rst
  <2> QED
    BY <1>4, <1>5, <1>7, <1>8, <1>9

-----------------------------------------------------------------------------
(* The invariant. *)

\* The connection starts with the settings and the update of its window.
LEMMA InitInv ==
    ASSUME Init
    PROVE  RecvInv
<1> DEFINE q == <<Frame("settings", Con)>>
           due == UpdateDue(Default, 0, ConnWindow, ConnThreshold)
           inc == Available(Default, 0, ConnWindow)
           e == Update(Con, inc)
<1>1. /\ config \in Configs /\ Default \in Nat \ {0} /\ Window \in Nat /\ ConnWindow \in Nat /\ Delta \in Int
      /\ ConnThreshold \in Nat /\ ConnThreshold <= ConnWindow
  BY ConfigFacts, ThresholdFacts DEF Init, Delta
<1>2. due => inc \in Nat /\ Default + inc + 0 = ConnWindow
  BY <1>1, UpdateFacts
<1>3. /\ q \in Seq(OutFrame) /\ q \in Seq(Frames) /\ Len(q) = 1 /\ q[1].kind = "settings" /\ q[1] = Frame("settings", Con)
      /\ q # <<>> /\ 1 \in 1 .. Len(q) /\ \A k \in 1 .. Len(q) : k = 1
  BY DEF OutFrame, Frames, Frame
<1>4. out = IF due THEN Append(q, e) ELSE q
  <2>1. out = q \o (IF due THEN <<e>> ELSE <<>>)
    BY DEF Init
  <2> HIDE DEF q, due, e
  <2>2. q \o <<>> = q /\ q \o <<e>> = Append(q, e)
    BY <1>3
  <2> QED
    BY <2>1, <2>2
<1>5. con_window = Default + (IF due THEN inc ELSE 0) /\ con_window \in Nat
  BY <1>1, <1>2 DEF Init, Updated
<1>6. \A ids : Total(q, "update", ids) = 0
  <2> TAKE ids
  <2>1. \A k \in 1 .. Len(q) : Amount(q[k], "update", ids) = 0
    <3>1. Amount(Frame("settings", Con), "update", ids) = 0
      BY DEF Amount, Frame
    <3> HIDE DEF q
    <3> QED
      BY <1>3, <3>1
  <2> HIDE DEF q
  <2> QED
    BY <1>3, <2>1, SumNone
<1>7. due => e \in OutFrame /\ e \in Frames /\ e.kind = "update" /\ e.id = Con /\ Amount(e, "update", {Con}) = inc
  BY <1>2 DEF OutFrame, Frames, Update, Amount
<1> HIDE DEF q, due, e
<1>8. out \in Seq(OutFrame) /\ out \in Seq(Frames)
  BY <1>3, <1>4, <1>7
<1>9. Total(out, "update", {Con}) = IF due THEN inc ELSE 0
  <2>1. CASE due
    <3>1. Total(Append(q, e), "update", {Con}) = Total(q, "update", {Con}) + Amount(e, "update", {Con})
      BY <1>3, <1>7, <2>1, SumAppend
    <3> HIDE DEF inc
    <3> QED
      BY <1>2, <1>4, <1>6, <1>7, <2>1, <3>1
  <2>2. CASE ~due
    BY <1>4, <1>6, <2>2
  <2> QED
    BY <2>1, <2>2
<1>10. ~Has(q, "headers", Con) /\ \A t \in Streams : ~Has(q, "headers", t) /\ ~Has(q, "update", t)
  BY <1>3 DEF Has, Is
<1>11. SettingsFirst(q, FALSE) /\ HeadersFirst(q, "update") /\ q # <<>>
  <2>1. SettingsFirst(q, FALSE)
    BY <1>3 DEF SettingsFirst
  <2>2. HeadersFirst(q, "update")
    BY <1>3 DEF HeadersFirst, Is
  <2> QED
    BY <1>3, <2>1, <2>2
<1>12. /\ \A t \in Streams : ~Has(out, "headers", t) /\ ~Has(out, "update", t)
       /\ SettingsFirst(out, FALSE) /\ HeadersFirst(out, "update")
  <2>1. CASE due
    <3>1. \A kind, id : Has(Append(q, e), kind, id) <=> Has(q, kind, id) \/ Is(e, kind, id)
      BY <1>3, <1>7, <2>1, AppendHas
    <3>2. \A t \in Streams : ~Is(e, "headers", t) /\ ~Is(e, "update", t)
      BY <1>7, <2>1 DEF Is
    <3>3. \A x \in BOOLEAN : SettingsFirst(q, x) /\ e.kind # "settings" => SettingsFirst(Append(q, e), x)
      BY <1>3, <1>7, <2>1, AppendOrder, Zenon
    <3>4. FALSE \in BOOLEAN /\ e.kind # "settings" /\ e.kind # "headers"
      BY <1>7, <2>1
    <3>5. SettingsFirst(Append(q, e), FALSE)
      BY <1>11, <3>3, <3>4, Zenon
    <3>6. HeadersFirst(Append(q, e), "update")
      BY <1>3, <1>7, <1>11, <2>1, <3>4, AppendOrder
    <3> QED
      BY <1>4, <1>10, <2>1, <3>1, <3>2, <3>5, <3>6
  <2>2. CASE ~due
    BY <1>4, <1>10, <1>11, <2>2
  <2> QED
    BY <2>1, <2>2
<1>13. /\ in = <<>> /\ in \in Seq(InFrame) /\ in \in Seq(Frames) /\ Len(in) = 0 /\ 1 .. Len(in) = {}
       /\ \A kind, id : ~Has(in, kind, id)
       /\ \A id : ~HasEof(in, id)
  BY DEF Init, Has, HasEof
<1>14. /\ half = [s \in Streams |-> "idle"] /\ recv_window = [s \in Streams |-> Default]
       /\ recv_size = [s \in Streams |-> 0] /\ con_size = 0 /\ acked = FALSE /\ failing = {}
       /\ peer_window = [s \in Streams |-> Default] /\ peer_con = Default /\ peer_open = {}
       /\ peer_applied = FALSE /\ sent = 0 /\ exceeded = FALSE
  BY DEF Init
<1>15. StateOK
  <2>1. /\ half \in [Streams -> {"idle", "open", "closed", "gone"}]
        /\ recv_window \in [Streams -> Int] /\ recv_size \in [Streams -> Nat] /\ peer_window \in [Streams -> Int]
    BY <1>1, <1>14
  <2>2. peer_con \in Nat /\ con_size \in Int /\ sent \in Nat
    BY <1>1, <1>14
  <2>3. acked \in BOOLEAN /\ peer_applied \in BOOLEAN /\ exceeded \in BOOLEAN /\ peer_open \subseteq Streams /\ failing \subseteq Streams
    BY <1>14
  <2> QED
    BY <1>1, <1>5, <1>8, <1>13, <2>1, <2>2, <2>3 DEF StateOK
<1>16. ConInv
  <2>1. con_size = Held(recv_size)
    BY <1>14, HeldNothing
  <2>2. Total(in, "data", Streams) = 0
    <3>1. \A k \in 1 .. Len(in) : Amount(in[k], "data", Streams) = 0
      BY <1>13
    <3> QED
      BY <1>13, <3>1, SumNone
  <2>3. ConWindowMatches
    <3> HIDE DEF inc
    <3>1. con_window = Default + (IF due THEN inc ELSE 0) + 0
      BY <1>1, <1>2, <1>5
    <3> QED
      BY <1>9, <1>14, <2>2, <3>1 DEF ConWindowMatches
  <2>4. /\ con_size + con_window <= Default \/ con_size + con_window <= ConnWindow
        /\ ConnWindow > 0 => con_size + con_window > 0
    <3> HIDE DEF inc
    <3> QED
      BY <1>1, <1>2, <1>5, <1>14
  <2> QED
    BY <2>1, <2>3, <2>4 DEF ConInv
<1>17. SettingsInv
  BY <1>12, <1>13, <1>14 DEF SettingsInv, AckUnderWay
<1>18. OutOrder
  BY <1>12 DEF OutOrder
<1>19. InOrder
  BY <1>13 DEF InOrder, HeadersFirst, EofLast
<1>20. HalfInv
  BY <1>12, <1>13, <1>14 DEF HalfInv
<1>21. WindowInv
  <2>1. ASSUME NEW t \in Streams PROVE Balanced(t)
    BY <1>12, <1>14 DEF Balanced
  <2>2. ASSUME NEW t \in Streams PROVE FitsIn(in, t, Base(t), Delta)
    BY <1>13, FitsNone
  <2> QED
    BY <1>14, <2>1, <2>2 DEF WindowInv
<1> QED
  BY <1>14, <1>15, <1>16, <1>17, <1>18, <1>19, <1>20, <1>21 DEF RecvInv, PeerNotFailed

\* Every step keeps the invariant.
LEMMA NextInv ==
    ASSUME RecvInv, [Next]_vars
    PROVE  RecvInv'
<1>1. CASE RecvHeaders
  BY <1>1, HeadersKeeps
<1>2. CASE RecvData
  BY <1>2, DataEffect, DataKeeps
<1>3. CASE RecvAck
  BY <1>3, AckEffect, AckKeeps
<1>4. CASE PeerRecv
  BY <1>4, PeerRecvKeeps
<1>5. ASSUME NEW s \in Streams, OpenStream(s) \/ Reset(s) \/ FailNext(s) \/ PeerOpens(s)
      PROVE  RecvInv'
  BY <1>5, OpenKeeps, ResetEffect, ResetKeeps, PeerOpensKeeps
<1>6. MaxData \in Nat
  BY ConfigFacts DEF RecvInv, StateOK
<1>7. ASSUME NEW s \in Streams, NEW n \in 0 .. MaxData, Consume(s, n)
      PROVE  RecvInv'
  BY <1>6, <1>7, ConsumeKeeps
<1>8. ASSUME NEW s \in Streams, NEW len \in 0 .. MaxData, NEW pad \in 0 .. 1, NEW eof \in BOOLEAN,
             PeerSends(s, len, pad, eof)
      PROVE  RecvInv'
  BY <1>6, <1>8, PeerSendsKeeps
<1>9. CASE UNCHANGED vars
  <2>1. UNCHANGED <<config, half, recv_window, recv_size, con_window, con_size, acked, failing, exceeded,
                    peer_window, peer_con, peer_open, peer_applied, sent, out, in>>
    BY <1>9 DEF vars, localVars, peerVars
  <2>2. /\ StateOK' /\ ConInv' /\ SettingsInv' /\ OutOrder' /\ InOrder' /\ HalfInv' /\ PeerNotFailed'
    BY <2>1 DEF RecvInv, StateOK, ConInv, ConWindowMatches, SettingsInv, OutOrder, InOrder, HalfInv, PeerNotFailed,
                Default, ConnWindow, server
  <2>3. WindowInv'
    BY <2>1 DEF RecvInv, WindowInv, Balanced, SizeInv, Base, Behind, NewWindow, Delta, Window, Default
  <2> QED
    BY <2>2, <2>3 DEF RecvInv
<1> QED
  BY <1>1, <1>2, <1>3, <1>4, <1>5, <1>7, <1>8, <1>9 DEF Next

\* stream.rs, connection.rs: every step of the endpoint and of a peer that
\* obeys its windows keeps the windows of both sides in agreement with what
\* is under way, across the exchange of the settings.
THEOREM ReceiveInvariant == Spec => []RecvInv
<1>1. Init => RecvInv
  BY InitInv
<1>2. RecvInv /\ [Next]_vars => RecvInv'
  BY NextInv
<1> QED
  BY <1>1, <1>2, PTL DEF Spec

\* recv_data() never fails a peer that obeys its windows, for every number of
\* streams, every configuration and any number of frames under way.
THEOREM ObedientPeerNotFailed == Spec => []PeerNotFailed
<1>1. RecvInv => PeerNotFailed
  BY DEF RecvInv
<1> QED
  BY <1>1, ReceiveInvariant, PTL

\* data_received() and data_consumed(): the connection window is what the peer
\* knows and what is under way, no received byte is lost or counted twice.
THEOREM ConnectionWindowMatches == Spec => []ConWindowMatches
<1>1. RecvInv => ConWindowMatches
  BY DEF RecvInv, ConInv
<1> QED
  BY <1>1, ReceiveInvariant, PTL

\* set_initial_connection_window_size(): the data the application holds and
\* the window that is open are bounded by the configured size, or by the
\* default one where it is larger.
THEOREM BuffersBounded == Spec => []BufferBound
<1>1. RecvInv => BufferBound
  <2> SUFFICES ASSUME RecvInv PROVE BufferBound
    OBVIOUS
  <2>1. Default \in Nat /\ ConnWindow \in Nat /\ con_size + con_window \in Int
    BY ConfigFacts DEF RecvInv, StateOK
  <2>2. con_size + con_window <= Default \/ con_size + con_window <= ConnWindow
    BY DEF RecvInv, ConInv
  <2>3. Max({Default, ConnWindow}) = IF Default >= ConnWindow THEN Default ELSE ConnWindow
    BY <2>1 DEF Max
  <2> QED
    BY <2>1, <2>2, <2>3 DEF BufferBound
<1> QED
  BY <1>1, ReceiveInvariant, PTL

-----------------------------------------------------------------------------
(* Flow control does not deadlock. *)

\* the windows are large enough for a threshold above zero
Thresholds == \A c \in Configs : c.window >= 3 /\ c.conn >= 4

\* frames whose increment is positive
Positive == {f \in OutFrame : f.kind = "update" => f.inc > 0}

\* A threshold above zero.
LEMMA ThresholdsPositive ==
    ASSUME Thresholds, config \in Configs
    PROVE  Threshold \in Nat \ {0} /\ ConnThreshold \in Nat \ {0}
<1>1. Window \in Nat /\ ConnWindow \in Nat /\ Window >= 3 /\ ConnWindow >= 4
  BY ConfigFacts DEF Thresholds, Window, ConnWindow
<1>2. \A n \in Nat : (n >= 3 => n \div 3 \in Nat \ {0}) /\ (n >= 4 => n \div 4 \in Nat \ {0})
  BY SMT
<1> QED
  BY <1>1, <1>2 DEF Threshold, ConnThreshold

\* Window::update() returns no zero, and the frame has what it returns.
LEMMA IncrementPositive ==
    ASSUME NEW w \in Int, NEW cap \in Int, NEW target \in Nat, NEW threshold \in Nat \ {0},
           UpdateDue(w, cap, target, threshold), NEW id \in Streams \union {Con}
    PROVE  Update(id, Available(w, cap, target)) \in Positive
<1>1. Available(w, cap, target) \in Nat /\ Available(w, cap, target) > 0
  BY DEF UpdateDue, Available
<1>2. \A inc \in Nat : inc > 0 => Update(id, inc) \in Positive
  BY DEF Update, Positive, OutFrame
<1> QED
  BY <1>1, <1>2

\* Frames that are no update.
LEMMA OthersPositive ==
    ASSUME NEW s \in Streams
    PROVE  Frame("headers", s) \in Positive /\ Frame("rst", s) \in Positive
BY FrameTypes DEF Positive, Frame

\* data_consumed() of the connection.
LEMMA ConReleasePositive ==
    ASSUME Thresholds, StateOK, out \in Seq(Positive),
           NEW w \in Int, NEW z \in Int, NEW before \in Seq(Positive), NEW after \in Seq(Positive),
           ConRelease(w, z, before, after)
    PROVE  out' \in Seq(Positive)
<1>1. ConnWindow \in Nat /\ ConnThreshold \in Nat \ {0}
  BY ConfigFacts, ThresholdsPositive DEF StateOK
<1>2. UpdateDue(w, z, ConnWindow, ConnThreshold) => Update(Con, Available(w, z, ConnWindow)) \in Positive
  BY <1>1, IncrementPositive
<1>3. ConUpdate(w, z) \in Seq(Positive)
  BY <1>2 DEF ConUpdate
<1> QED
  BY <1>3 DEF ConRelease

\* received_data_consumed().
LEMMA StreamReleasePositive ==
    ASSUME Thresholds, StateOK, out \in Seq(Positive), NEW s \in Streams, NEW w \in Int, NEW z \in Int,
           NEW open \in BOOLEAN, NEW more \in Int, NEW consumed \in Int,
           StreamRelease(s, w, z, open, more, consumed)
    PROVE  out' \in Seq(Positive)
<1> DEFINE left == z - consumed
           due == open /\ UpdateDue(w, left, Window, Threshold)
           before == IF due THEN <<Update(s, Available(w, left, Window))>> ELSE <<>>
<1>1. Window \in Nat /\ Threshold \in Nat \ {0} /\ left \in Int
  BY ConfigFacts, ThresholdsPositive DEF StateOK
<1>2. UpdateDue(w, left, Window, Threshold) => Update(s, Available(w, left, Window)) \in Positive
  <2> HIDE DEF left
  <2> QED
    BY <1>1, IncrementPositive
<1>3. before \in Seq(Positive)
  <2> HIDE DEF left
  <2> QED
    BY <1>2
<1>4. ConRelease(con_window - more, con_size + more - consumed, before, <<>>)
  BY DEF StreamRelease
<1>5. con_window - more \in Int /\ con_size + more - consumed \in Int /\ <<>> \in Seq(Positive)
  BY DEF StateOK
<1> HIDE DEF before
<1> QED
  BY <1>3, <1>4, <1>5, ConReleasePositive

\* recv_settings() with an acknowledgment.
LEMMA AckPositive ==
    ASSUME Thresholds, StateOK, out \in Seq(Positive), RecvAck
    PROVE  out' \in Seq(Positive)
<1> DEFINE Due == {s \in Live \ Over : Window # Default
                     /\ UpdateDue(AckedWindow(s), recv_size[s], Window, Threshold)}
           Updates(order) == [k \in DOMAIN order |-> Update(order[k], AckedUpdate(order[k]))]
<1>1. \E order \in SetToSeqs(Due) :
         \/ out' = out \o Updates(order)
         \/ \E s \in Over : out' = Append(out \o Updates(order), Frame("rst", s))
  BY DEF RecvAck, Live, Over, Delta
<1>2. PICK order \in SetToSeqs(Due) :
         \/ out' = out \o Updates(order)
         \/ \E s \in Over : out' = Append(out \o Updates(order), Frame("rst", s))
  BY <1>1
<1>3. Due \in SUBSET Streams /\ Over \in SUBSET Streams
  BY DEF Live, Over
<1>4. Window \in Nat /\ Threshold \in Nat \ {0} /\ Default \in Nat
  BY ConfigFacts, ThresholdsPositive DEF StateOK
<1>5. ASSUME NEW t \in Due
      PROVE  Update(t, AckedUpdate(t)) \in Positive
  <2>1. t \in Streams /\ AckedWindow(t) \in Int /\ recv_size[t] \in Int
    BY <1>3, <1>4 DEF StateOK, AckedWindow
  <2>2. UpdateDue(AckedWindow(t), recv_size[t], Window, Threshold)
    OBVIOUS
  <2> QED
    BY <1>4, <2>1, <2>2, IncrementPositive DEF AckedUpdate
<1> HIDE DEF Due
<1>6. Cardinality(Due) \in Nat /\ order \in [1 .. Cardinality(Due) -> Due]
  BY <1>3, SequenceOf
<1>7. Updates(order) \in Seq(Positive)
  BY <1>5, <1>6
<1> HIDE DEF Updates
<1>8. \A s \in Over : Frame("rst", s) \in Positive
  BY <1>3, OthersPositive
<1>9. out \o Updates(order) \in Seq(Positive)
  BY <1>7
<1>10. ASSUME NEW s \in Over, out' = Append(out \o Updates(order), Frame("rst", s))
       PROVE  out' \in Seq(Positive)
  BY <1>8, <1>9, <1>10
<1> QED
  BY <1>2, <1>9, <1>10

\* A step writes no update with the increment zero.
LEMMA PositiveStep ==
    ASSUME Thresholds, StateOK, out \in Seq(Positive), [Next]_vars
    PROVE  out' \in Seq(Positive)
<1>1. CASE RecvHeaders
  BY <1>1 DEF RecvHeaders
<1>2. CASE RecvData
  <2> DEFINE f == Head(in)
             s == f.id
  <2>1. f \in InFrame /\ f.kind = "data"
    BY <1>2 DEF RecvData, Received, StateOK
  <2>2. s \in Streams /\ f.len \in Nat /\ f.pad \in Nat
    BY <2>1, InFields
  <2>3. /\ con_window \in Nat /\ con_size \in Int /\ recv_window[s] \in Int /\ recv_size[s] \in Nat
        /\ (half[s] = "open") \in BOOLEAN
    BY <2>2 DEF StateOK
  <2>4. \/ out' = out
        \/ ConRelease(con_window - f.len, con_size, <<>>, <<>>)
        \/ ConRelease(con_window - f.len, con_size, <<>>, <<Frame("rst", s)>>)
        \/ StreamRelease(s, recv_window[s] - f.len, recv_size[s] + f.len, half[s] = "open", f.len, f.pad)
    BY <1>2 DEF RecvData
  <2>5. /\ con_window - f.len \in Int /\ recv_window[s] - f.len \in Int /\ recv_size[s] + f.len \in Int
        /\ f.len \in Int /\ f.pad \in Int
    BY <2>2, <2>3
  <2>6. <<>> \in Seq(Positive) /\ <<Frame("rst", s)>> \in Seq(Positive)
    BY <2>2, OthersPositive
  <2> HIDE DEF f, s
  <2>7. CASE ConRelease(con_window - f.len, con_size, <<>>, <<>>)
    BY <2>3, <2>5, <2>6, <2>7, ConReleasePositive
  <2>8. CASE ConRelease(con_window - f.len, con_size, <<>>, <<Frame("rst", s)>>)
    BY <2>3, <2>5, <2>6, <2>8, ConReleasePositive
  <2>9. CASE StreamRelease(s, recv_window[s] - f.len, recv_size[s] + f.len, half[s] = "open", f.len, f.pad)
    BY <2>2, <2>3, <2>5, <2>9, StreamReleasePositive
  <2> QED
    BY <2>4, <2>7, <2>8, <2>9
<1>3. CASE RecvAck
  BY <1>3, AckPositive
<1>4. CASE PeerRecv
  BY <1>4 DEF PeerRecv
<1>5. ASSUME NEW s \in Streams, OpenStream(s) \/ Reset(s) \/ FailNext(s) \/ PeerOpens(s)
      PROVE  out' \in Seq(Positive)
  <2>1. out' = out \/ out' = Append(out, Frame("headers", s)) \/ out' = Append(out, Frame("rst", s))
    BY <1>5 DEF OpenStream, Reset, FailNext, PeerOpens
  <2> QED
    BY <2>1, OthersPositive
<1>6. ASSUME NEW s \in Streams, NEW n \in 0 .. MaxData, Consume(s, n)
      PROVE  out' \in Seq(Positive)
  <2>1. MaxData \in Nat
    BY ConfigFacts DEF StateOK
  <2>2. n \in Int /\ recv_window[s] \in Int /\ recv_size[s] \in Int /\ (half[s] = "open") \in BOOLEAN /\ 0 \in Int
    BY <2>1 DEF StateOK
  <2>3. StreamRelease(s, recv_window[s], recv_size[s], half[s] = "open", 0, n)
    BY <1>6 DEF Consume
  <2> QED
    BY <2>2, <2>3, StreamReleasePositive
<1>7. ASSUME NEW s \in Streams, NEW len \in 0 .. MaxData, NEW pad \in 0 .. 1, NEW eof \in BOOLEAN,
             PeerSends(s, len, pad, eof)
      PROVE  out' \in Seq(Positive)
  BY <1>7 DEF PeerSends
<1>8. CASE UNCHANGED vars
  BY <1>8 DEF vars
<1> QED
  BY <1>1, <1>2, <1>3, <1>4, <1>5, <1>6, <1>7, <1>8 DEF Next

\* Connection::new() writes no such update either.
LEMMA PositiveInit ==
    ASSUME Thresholds, Init
    PROVE  out \in Seq(Positive)
<1>1. config \in Configs
  BY DEF Init
<1>2. Default \in Int /\ ConnWindow \in Nat /\ ConnThreshold \in Nat \ {0} /\ 0 \in Int
  BY <1>1, ConfigFacts, ThresholdsPositive
<1>3. UpdateDue(Default, 0, ConnWindow, ConnThreshold) =>
         Update(Con, Available(Default, 0, ConnWindow)) \in Positive
  BY <1>2, IncrementPositive
<1>4. Frame("settings", Con) \in Positive
  BY DEF Frame, Positive, OutFrame
<1> QED
  BY <1>3, <1>4 DEF Init

\* With nothing under way the peer's windows are the local ones.
LEMMA QuietWindows ==
    ASSUME RecvInv, out = <<>>, in = <<>>
    PROVE  /\ con_size = 0 /\ ConnWindow > 0 => peer_con > 0
           /\ \A s \in peer_open :
                 half[s] = "open" /\ recv_size[s] = 0 /\ Window > 0 => peer_window[s] > 0
<1>1. \A ids : \A kind \in {"data", "update"} : Total(<<>>, kind, ids) = 0
  <2>1. <<>> \in Seq(Frames) /\ \A k \in 1 .. Len(<<>>) : FALSE
    OBVIOUS
  <2> QED
    BY <2>1, SumNone
<1>2. ASSUME con_size = 0, ConnWindow > 0
      PROVE  peer_con > 0
  <2>1. con_window = peer_con + 0 + 0
    BY <1>1 DEF RecvInv, ConInv, ConWindowMatches
  <2>2. 0 + con_window > 0 /\ con_window \in Nat /\ peer_con \in Nat
    BY <1>2 DEF RecvInv, ConInv, StateOK
  <2> QED
    BY <2>1, <2>2
<1>3. ASSUME NEW s \in peer_open, half[s] = "open", recv_size[s] = 0, Window > 0
      PROVE  peer_window[s] > 0
  <2>1. s \in Streams /\ recv_window[s] \in Int /\ peer_window[s] \in Int /\ Delta \in Int
    BY ConfigFacts DEF RecvInv, StateOK, Delta
  <2>2. recv_window[s] > 0 /\ (s \in failing => Delta > 0)
    BY <1>3, <2>1 DEF RecvInv, WindowInv, SizeInv
  <2>3. peer_applied /\ acked
    <3>1. peer_applied
      BY DEF RecvInv, SettingsInv, SettingsFirst
    <3>2. ~\E k \in 1 .. Len(in) : in[k].kind = "ack"
      OBVIOUS
    <3> QED
      BY <3>1, <3>2 DEF RecvInv, SettingsInv, AckUnderWay
  <2>4. Balanced(s)
    BY <1>3, <2>1 DEF RecvInv, WindowInv
  <2>5. recv_window[s] + (IF s \in failing THEN Delta ELSE 0) = peer_window[s] + 0 + 0
    BY <1>1, <1>3, <2>3, <2>4 DEF Balanced, Base, Behind
  <2> QED
    BY <2>1, <2>2, <2>5
<1> QED
  BY <1>2, <1>3

\* window.rs, connection.rs data_consumed: an application that consumed
\* everything does not leave the peer without a window once nothing is under
\* way, and every WINDOW_UPDATE frame has a positive increment, for every
\* configuration whose thresholds are above zero.
THEOREM FlowControlGoesOn ==
    ASSUME Thresholds
    PROVE  Spec => []PeerMaySend
<1> DEFINE Inv == RecvInv /\ out \in Seq(Positive)
<1>1. Init => Inv
  BY InitInv, PositiveInit
<1>2. Inv /\ [Next]_vars => Inv'
  BY NextInv, PositiveStep DEF RecvInv
<1>3. Inv => PeerMaySend
  <2> SUFFICES ASSUME Inv PROVE PeerMaySend
    OBVIOUS
  <2>1. ASSUME NEW k \in DOMAIN out, out[k].kind = "update"
        PROVE  out[k].inc > 0
    <3>1. out[k] \in Positive
      OBVIOUS
    <3> QED
      BY <2>1, <3>1 DEF Positive
  <2> QED
    BY <2>1, QuietWindows DEF PeerMaySend
<1> QED
  BY <1>1, <1>2, <1>3, PTL DEF Spec
=============================================================================
