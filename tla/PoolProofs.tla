----------------------------- MODULE PoolProofs -----------------------------
(***************************************************************************)
(* Proofs about Pool for every set of callers and connections, every limit *)
(* and every peer: the pool stays within its limits, and while a call      *)
(* waits something is left that will wake it.                              *)
(*                                                                         *)
(* PoolInv gives the types, the queue of waiters (it holds the waiting     *)
(* futures, once each) and PoolBound.  WakeUpAhead is not inductive: a     *)
(* connection that client() returned may be closed by the time the         *)
(* application uses it, and then no stream is opened on it.  AheadInv      *)
(* counts such a connection only while it is open; when it closes, the     *)
(* shutdown of its dispatcher is still to come.  A call that uses up a     *)
(* notification without a stream sets lost, one that had no notification   *)
(* leaves every source of a wake-up where it was.                          *)
(***************************************************************************)
EXTENDS Pool, FiniteSetTheorems, SequenceTheorems, WellFoundedInduction, TLAPS

USE PoolAssumption

\* the elements of a sequence
Elems(q) == {q[i] : i \in 1 .. Len(q)}

\* no element is in the sequence twice
Unique(q) == \A i, j \in 1 .. Len(q) : q[i] = q[j] => i = j

\* a queue of waiters fits the states of the futures
Fits(q, states) ==
    /\ q \in Seq(Futures) /\ Unique(q)
    /\ \A f \in Futures : states[f] = "waiting" <=> f \in Elems(q)

\* a caller that got a connection has a handle
HandleInv == \A f \in Callers : fut[f] \in {"got", "spent"} => handle[f] \in Conns

\* the inductive invariant of PoolBound
PoolInv == TypeOK /\ Fits(waiters, fut) /\ HandleInv /\ PoolBound

\* a wake-up is on its way or something is left that will give one
Ahead ==
    \/ connecting
    \/ \E f \in Futures : fut[f] = "notified"
    \/ \E f \in Callers : fut[f] = "spent" /\ st[handle[f]] = "open"
    \/ \E c \in Conns : active[c] > 0 \/ stopping[c]
    \/ \E i \in 1 .. Len(connections) : st[connections[i]] = "open" /\ limit[connections[i]] = 0

\* the inductive invariant of WakeUpAhead
AheadInv == CallWaits => Ahead \/ lost

-----------------------------------------------------------------------------
(* Numbers and sequences. *)

\* A set of natural numbers that is not empty has a least element.
LEMMA LeastExists ==
    ASSUME NEW S \in SUBSET Nat, S # {}
    PROVE  Min(S) \in S
<1> DEFINE Less == {p \in Nat \X Nat : p[1] < p[2]}
<1>1. \A n, m \in Nat : <<n, m>> \in Less <=> n < m
  OBVIOUS
<1>2. OpToRel(<, Nat) = Less
  BY DEF OpToRel
<1> HIDE DEF Less
<1>3. IsWellFoundedOn(Less, Nat)
  BY <1>2, NatLessThanWellFounded
<1>4. PICK x \in S : \A y \in S : ~(<<y, x>> \in Less)
  BY <1>3, WFMin
<1>5. ASSUME NEW y \in S
      PROVE  x <= y
  <2>1. x \in Nat /\ y \in Nat
    OBVIOUS
  <2>2. ~(y < x)
    BY <1>1, <1>4, <2>1
  <2> QED
    BY <2>1, <2>2
<1> QED
  BY <1>5 DEF Min

\* The smaller of two numbers.
LEMMA SmallerOfTwo ==
    ASSUME NEW a \in Int, NEW b \in Int
    PROVE  Min({a, b}) = IF a <= b THEN a ELSE b
<1>1. \E x \in {a, b} : \A y \in {a, b} : x <= y
  OBVIOUS
<1>2. Min({a, b}) \in {a, b} /\ \A y \in {a, b} : Min({a, b}) <= y
  BY <1>1 DEF Min
<1> QED
  BY <1>2

\* The larger of two numbers.
LEMMA LargerOfTwo ==
    ASSUME NEW a \in Int, NEW b \in Int
    PROVE  Max({a, b}) = IF a >= b THEN a ELSE b
<1>1. \E x \in {a, b} : \A y \in {a, b} : x >= y
  OBVIOUS
<1>2. Max({a, b}) \in {a, b} /\ \A y \in {a, b} : Max({a, b}) >= y
  BY <1>1 DEF Max
<1> QED
  BY <1>2

\* The places that Kept() takes its elements from: every rank is the rank of
\* exactly one place.
LEMMA RanksTaken ==
    ASSUME NEW n \in Nat, NEW keep \in SUBSET (1 .. n)
    PROVE  /\ Cardinality(keep) \in 0 .. n
           /\ \A k \in 1 .. Cardinality(keep) :
                 \E i \in keep : Cardinality({j \in keep : j <= i}) = k
           /\ \A i \in keep : Cardinality({j \in keep : j <= i}) \in 1 .. Cardinality(keep)
           /\ \A i1, i2 \in keep :
                 Cardinality({j \in keep : j <= i1}) = Cardinality({j \in keep : j <= i2}) => i1 = i2
<1> DEFINE below(i) == {j \in keep : j <= i}
<1> DEFINE rank == [i \in keep |-> Cardinality(below(i))]
<1> DEFINE size == Cardinality(keep)
<1>1. IsFiniteSet(1 .. n) /\ Cardinality(1 .. n) = n
  BY FS_Interval
<1>2. IsFiniteSet(keep) /\ size \in Nat /\ size <= n
  BY <1>1, FS_Subset, FS_CardinalityType
<1>3. ASSUME NEW i \in keep
      PROVE  /\ IsFiniteSet(below(i)) /\ Cardinality(below(i)) \in Nat
             /\ Cardinality(below(i)) <= size /\ Cardinality(below(i)) # 0
  <2>1. below(i) \in SUBSET keep /\ i \in below(i)
    OBVIOUS
  <2> HIDE DEF below
  <2>2. IsFiniteSet(below(i)) /\ Cardinality(below(i)) <= size
    BY <1>2, <2>1, FS_Subset
  <2> QED
    BY <2>1, <2>2, FS_CardinalityType, FS_EmptySet
<1>4. ASSUME NEW i1 \in keep, NEW i2 \in keep, i1 < i2
      PROVE  Cardinality(below(i1)) # Cardinality(below(i2))
  <2>2. \A j \in keep : j \in Int
    OBVIOUS
  <2>3. \A j \in keep : j <= i1 => j <= i2
    BY <1>4, <2>2
  <2>4. i2 <= i2 /\ ~(i2 <= i1)
    BY <1>4, <2>2
  <2>1. below(i1) \in SUBSET below(i2) /\ i2 \in below(i2) /\ i2 \notin below(i1)
    BY <2>3, <2>4
  <2> HIDE DEF below
  <2> QED
    BY <1>3, <2>1, FS_Subset
<1>5. ASSUME NEW i1 \in keep, NEW i2 \in keep, Cardinality(below(i1)) = Cardinality(below(i2))
      PROVE  i1 = i2
  <2> HIDE DEF below
  <2>1. ~(i1 < i2) /\ ~(i2 < i1)
    BY <1>4, <1>5
  <2> QED
    BY <2>1
<1>6. \A i \in keep : Cardinality(below(i)) \in 1 .. size
  <2> HIDE DEF below
  <2> QED
    BY <1>2, <1>3
<1>7. rank \in Injection(keep, 1 .. size)
  <2> HIDE DEF below
  <2> QED
    BY <1>5, <1>6 DEF Injection, IsInjective
<1>8. IsFiniteSet(1 .. size) /\ Cardinality(1 .. size) = size
  BY <1>2, FS_Interval
<1>9. rank \in Surjection(keep, 1 .. size)
  <2> HIDE DEF rank
  <2> QED
    BY <1>7, <1>8, FS_Injection
<1>10. \A k \in 1 .. size : \E i \in keep : Cardinality(below(i)) = k
  <2> HIDE DEF below
  <2> QED
    BY <1>9 DEF Surjection
<1> QED
  BY <1>2, <1>5, <1>6, <1>10

\* Kept() keeps exactly the elements of S, and none twice.
LEMMA KeptIs ==
    ASSUME NEW T, NEW s \in Seq(T), NEW S
    PROVE  /\ Kept(s, S) \in Seq(T)
           /\ Len(Kept(s, S)) <= Len(s)
           /\ Elems(Kept(s, S)) = Elems(s) \intersect S
           /\ Unique(s) => Unique(Kept(s, S))
<1> DEFINE keep == {i \in DOMAIN s : s[i] \in S}
<1> DEFINE rank(i) == Cardinality({j \in keep : j <= i})
<1> DEFINE place(k) == CHOOSE i \in keep : rank(i) = k
<1> DEFINE r == Kept(s, S)
<1>1. r = [k \in 1 .. Cardinality(keep) |-> s[place(k)]]
  BY DEF Kept
<1>2. keep \in SUBSET (1 .. Len(s)) /\ Len(s) \in Nat
  OBVIOUS
<1>3. /\ Cardinality(keep) \in 0 .. Len(s)
      /\ \A k \in 1 .. Cardinality(keep) : \E i \in keep : rank(i) = k
      /\ \A i \in keep : rank(i) \in 1 .. Cardinality(keep)
      /\ \A i1, i2 \in keep : rank(i1) = rank(i2) => i1 = i2
  <2> HIDE DEF keep
  <2> QED
    BY <1>2, RanksTaken
<1> HIDE DEF rank, r
<1>4. \A k \in 1 .. Cardinality(keep) : place(k) \in keep /\ rank(place(k)) = k
  <2> HIDE DEF keep
  <2> QED
    BY <1>3
<1>5. \A i \in keep : place(rank(i)) = i
  <2> HIDE DEF keep, place
  <2> QED
    BY <1>3, <1>4
<1> HIDE DEF place
<1>6. \A i \in keep : i \in 1 .. Len(s) /\ s[i] \in T /\ s[i] \in S
  BY <1>2
<1>7. \A i \in 1 .. Len(s) : s[i] \in S => i \in keep
  OBVIOUS
<1> HIDE DEF keep
<1>8. r \in Seq(T) /\ Len(r) = Cardinality(keep)
  BY <1>1, <1>3, <1>4, <1>6
<1>9. \A k \in 1 .. Len(r) : r[k] = s[place(k)]
  BY <1>1, <1>8
<1>10. Elems(r) \subseteq Elems(s) \intersect S
  BY <1>4, <1>6, <1>8, <1>9 DEF Elems
<1>11. Elems(s) \intersect S \subseteq Elems(r)
  <2>1. ASSUME NEW i \in keep
        PROVE  s[i] \in Elems(r)
    <3>1. rank(i) \in 1 .. Len(r) /\ r[rank(i)] = s[i]
      BY <1>3, <1>5, <1>8, <1>9
    <3> QED
      BY <3>1 DEF Elems
  <2> QED
    BY <1>7, <2>1 DEF Elems
<1>12. ASSUME Unique(s)
       PROVE  Unique(r)
  <2>1. ASSUME NEW i \in 1 .. Len(r), NEW j \in 1 .. Len(r), r[i] = r[j]
        PROVE  i = j
    <3>1. place(i) \in keep /\ place(j) \in keep /\ s[place(i)] = s[place(j)]
      BY <1>4, <1>8, <1>9, <2>1
    <3>2. place(i) = place(j)
      BY <1>6, <1>12, <3>1 DEF Unique
    <3> QED
      BY <1>4, <1>8, <3>2
  <2> QED
    BY <2>1 DEF Unique
<1> QED
  BY <1>2, <1>3, <1>8, <1>10, <1>11, <1>12 DEF r
-----------------------------------------------------------------------------
(* The queue of waiters. *)

\* notify(), n times: the first n waiters are woken and leave the queue.
LEMMA WakesOK ==
    ASSUME fut \in [Futures -> FutStates], Fits(waiters, fut), NEW n \in Nat
    PROVE  /\ Wakes(n) \in [Futures -> FutStates]
           /\ Fits(Rest(n), Wakes(n))
           /\ \A f \in Futures : Wakes(n)[f] = fut[f] \/ (fut[f] = "waiting" /\ Wakes(n)[f] = "notified")
           /\ n > 0 => \A f \in Futures : fut[f] = "waiting" => \E g \in Futures : Wakes(n)[g] = "notified" /\ fut[g] = "waiting"
<1>1. waiters \in Seq(Futures) /\ Unique(waiters)
      /\ \A f \in Futures : fut[f] = "waiting" <=> f \in Elems(waiters)
  BY DEF Fits
<1>2. Len(waiters) \in Nat
  BY <1>1
<1> DEFINE m == IF n <= Len(waiters) THEN n ELSE Len(waiters)
<1>3. Notified(n) = {waiters[i] : i \in 1 .. m}
  BY <1>2, SmallerOfTwo DEF Notified
<1>4. m \in 0 .. Len(waiters) /\ m <= n
  BY <1>2
<1>5. /\ Rest(n) \in Seq(Futures) /\ Len(Rest(n)) = Len(waiters) - m
      /\ \A i \in 1 .. Len(waiters) - m : Rest(n)[i] = waiters[i + m]
  <2>1. CASE n <= Len(waiters)
    BY <1>1, <1>2, <2>1 DEF Rest
  <2>2. CASE n > Len(waiters)
    <3>1. Rest(n) = <<>> /\ m = Len(waiters)
      BY <1>2, <2>2, SubSeqEmpty DEF Rest
    <3> QED
      BY <1>2, <3>1
  <2> QED
    BY <1>2, <2>1, <2>2
<1>6. m = 0 => n = 0 \/ Len(waiters) = 0
  BY <1>2
<1> HIDE DEF m
<1>7. Notified(n) \subseteq Elems(waiters)
  BY <1>2, <1>3, <1>4 DEF Elems
<1>8. Wakes(n) = [f \in Futures |-> IF f \in Notified(n) THEN "notified" ELSE fut[f]]
  BY DEF Wakes
<1>9. Wakes(n) \in [Futures -> FutStates]
  BY <1>8 DEF FutStates
<1>10. Unique(Rest(n))
  <2>1. ASSUME NEW i \in 1 .. Len(Rest(n)), NEW j \in 1 .. Len(Rest(n)), Rest(n)[i] = Rest(n)[j]
        PROVE  i = j
    <3>1. /\ i + m \in 1 .. Len(waiters) /\ j + m \in 1 .. Len(waiters)
          /\ waiters[i + m] = waiters[j + m]
      BY SMTT(30), <1>2, <1>4, <1>5, <2>1
    <3>2. i + m = j + m
      BY <1>1, <3>1 DEF Unique
    <3> QED
      BY <1>4, <3>2
  <2> QED
    BY <2>1 DEF Unique
<1>11. Elems(Rest(n)) = Elems(waiters) \ Notified(n)
  <2>1. ASSUME NEW i \in 1 .. Len(Rest(n))
        PROVE  Rest(n)[i] \in Elems(waiters) /\ Rest(n)[i] \notin Notified(n)
    <3>1. i + m \in 1 .. Len(waiters) /\ Rest(n)[i] = waiters[i + m] /\ i + m > m
      BY <1>2, <1>4, <1>5
    <3>2. \A j \in 1 .. m : j \in 1 .. Len(waiters) /\ j # i + m
      BY <1>2, <1>4, <3>1
    <3>3. \A j \in 1 .. m : waiters[j] # waiters[i + m]
      BY <1>1, <3>1, <3>2 DEF Unique
    <3> QED
      BY <1>3, <3>1, <3>3 DEF Elems
  <2>2. ASSUME NEW i \in 1 .. Len(waiters), waiters[i] \notin Notified(n)
        PROVE  waiters[i] \in Elems(Rest(n))
    <3>1. i \notin 1 .. m
      BY <1>3, <2>2
    <3>2. i - m \in 1 .. Len(Rest(n)) /\ i - m + m = i
      BY <1>2, <1>4, <1>5, <3>1
    <3>3. Rest(n)[i - m] = waiters[i]
      BY <1>5, <3>2
    <3> QED
      BY <3>2, <3>3 DEF Elems
  <2> QED
    BY <2>1, <2>2 DEF Elems
<1>12. Fits(Rest(n), Wakes(n))
  BY <1>1, <1>5, <1>8, <1>10, <1>11 DEF Fits
<1>13. \A f \in Futures : Wakes(n)[f] = fut[f] \/ (fut[f] = "waiting" /\ Wakes(n)[f] = "notified")
  BY <1>1, <1>7, <1>8
<1>14. ASSUME n > 0, NEW f \in Futures, fut[f] = "waiting"
       PROVE  \E g \in Futures : Wakes(n)[g] = "notified" /\ fut[g] = "waiting"
  <2>1. Len(waiters) # 0
    BY <1>1, <1>2, <1>14 DEF Elems
  <2>2. 1 \in 1 .. m /\ 1 \in 1 .. Len(waiters)
    BY <1>2, <1>4, <1>6, <1>14, <2>1
  <2>3. waiters[1] \in Notified(n) /\ waiters[1] \in Futures
    BY <1>1, <1>3, <2>2
  <2> QED
    BY <1>1, <1>7, <1>8, <2>3
<1> QED
  BY <1>9, <1>12, <1>13, <1>14

\* A future that waits is put at the end of the queue.
LEMMA JoinOK ==
    ASSUME NEW q, NEW states \in [Futures -> FutStates], Fits(q, states),
           NEW f \in Futures, states[f] # "waiting"
    PROVE  Fits(Append(q, f), [states EXCEPT ![f] = "waiting"])
<1> DEFINE a == Append(q, f)
<1>1. q \in Seq(Futures) /\ Unique(q) /\ f \notin Elems(q)
  BY DEF Fits
<1>2. /\ a \in Seq(Futures) /\ Len(a) = Len(q) + 1 /\ Len(q) \in Nat
      /\ a[Len(q) + 1] = f /\ \A i \in 1 .. Len(q) : a[i] = q[i]
  BY <1>1
<1> HIDE DEF a
<1>3. \A i \in 1 .. Len(a) : i \in 1 .. Len(q) \/ i = Len(q) + 1
  BY <1>2
<1>4. \A i \in 1 .. Len(q) : i \in 1 .. Len(a) /\ q[i] # f
  BY <1>1, <1>2 DEF Elems
<1>5. Len(q) + 1 \in 1 .. Len(a)
  BY <1>2
<1>6. Unique(a)
  BY <1>1, <1>2, <1>3, <1>4 DEF Unique
<1>7. Elems(a) = Elems(q) \union {f}
  BY <1>2, <1>3, <1>4, <1>5 DEF Elems
<1> QED
  BY <1>1, <1>2, <1>6, <1>7 DEF Fits, a

\* A waiting future that is dropped leaves the queue.
LEMMA LeaveOK ==
    ASSUME NEW q, NEW states \in [Futures -> FutStates], Fits(q, states), NEW f \in Futures
    PROVE  Fits(Kept(q, Futures \ {f}), [states EXCEPT ![f] = "idle"])
<1>1. q \in Seq(Futures) /\ Unique(q) /\ Elems(q) \subseteq Futures
  BY DEF Fits, Elems
<1>2. /\ Kept(q, Futures \ {f}) \in Seq(Futures)
      /\ Elems(Kept(q, Futures \ {f})) = Elems(q) \intersect (Futures \ {f})
      /\ Unique(Kept(q, Futures \ {f}))
  BY <1>1, KeptIs
<1> QED
  BY <1>1, <1>2 DEF Fits

\* A future that does not wait before and after leaves the queue alone.
LEMMA OtherOK ==
    ASSUME NEW q, NEW states \in [Futures -> FutStates], Fits(q, states),
           NEW f \in Futures, states[f] # "waiting", NEW to, to # "waiting"
    PROVE  Fits(q, [states EXCEPT ![f] = to])
  BY DEF Fits
-----------------------------------------------------------------------------
(* The calls. *)

\* the connections that a poll of client() keeps
StillOpen(expired) == {c \in Conns : st[c] = "open"} \ expired

\* What a poll of client() does to the list of connections: it keeps open
\* connections only, all of them or without expired ones.
LEMMA CleanUp ==
    ASSUME TypeOK, NEW expired, NEW list, list = Kept(connections, StillOpen(expired))
    PROVE  /\ list \in Seq(Conns) /\ Len(list) <= Len(connections)
           /\ \A i \in 1 .. Len(list) : list[i] \in Conns /\ st[list[i]] = "open" /\ list[i] \notin expired
           /\ \A i \in 1 .. Len(list) : list[i] \in Pooled
           /\ \A i \in 1 .. Len(connections) :
                 st[connections[i]] = "open" /\ connections[i] \notin expired =>
                    \E j \in 1 .. Len(list) : list[j] = connections[i]
<1>1. connections \in Seq(Conns)
  BY DEF TypeOK
<1>2. /\ list \in Seq(Conns) /\ Len(list) <= Len(connections)
      /\ Elems(list) = Elems(connections) \intersect StillOpen(expired)
  BY <1>1, KeptIs
<1>3. \A i \in 1 .. Len(list) : list[i] \in Elems(list)
  BY DEF Elems
<1>4. \A i \in 1 .. Len(connections) : connections[i] \in Elems(connections) /\ connections[i] \in Conns
  BY <1>1 DEF Elems
<1>5. \A c \in Elems(list) : \E j \in 1 .. Len(list) : list[j] = c
  BY DEF Elems
<1>6. Elems(connections) = Pooled
  BY <1>1 DEF Elems, Pooled
<1> QED
  BY <1>2, <1>3, <1>4, <1>5, <1>6 DEF StillOpen

\* get_client() returns a connection of the list that can open a stream.
LEMMA GetClientIs ==
    ASSUME TypeOK, NEW list \in Seq(Conns), NEW c \in GetClient(list)
    PROVE  \E i \in 1 .. Len(list) : list[i] = c
<1> DEFINE light == {i \in DOMAIN list : CanCreate(list[i]) /\ active[list[i]] <= limit[list[i]] \div 2}
<1>1. CASE light # {}
  <2>1. light \in SUBSET Nat
    OBVIOUS
  <2>2. Min(light) \in light
    BY <1>1, <2>1, LeastExists
  <2>3. Min(light) \in 1 .. Len(list)
    BY <2>2
  <2>4. c = list[Min(light)]
    BY <1>1 DEF GetClient
  <2> QED
    BY <2>3, <2>4
<1>2. CASE light = {}
  BY <1>2 DEF GetClient
<1> QED
  BY <1>1, <1>2

\* get_client() returns nothing only if there are too few connections, or none
\* can open a stream.
LEMMA GetClientNone ==
    ASSUME TypeOK, NEW list \in Seq(Conns), GetClient(list) = {},
           \A i \in 1 .. Len(list) : list[i] \in Pooled
    PROVE  \/ MinConn > 0 /\ Len(list) < MinConn
           \/ \A i \in 1 .. Len(list) : ~CanCreate(list[i])
<1> DEFINE light == {i \in DOMAIN list : CanCreate(list[i]) /\ active[list[i]] <= limit[list[i]] \div 2}
<1>1. SUFFICES ASSUME ~(MinConn > 0 /\ Len(list) < MinConn), NEW i \in 1 .. Len(list), CanCreate(list[i])
               PROVE  FALSE
  OBVIOUS
<1>2. light = {}
  BY <1>1 DEF GetClient
<1>3. list[i] \in GetClient(list)
  BY <1>1, <1>2 DEF GetClient
<1> QED
  BY <1>3

\* The limit of PoolBound.
LEMMA LimitIs == Max({MinConn, MaxConn}) = IF MinConn >= MaxConn THEN MinConn ELSE MaxConn
  BY LargerOfTwo

\* A poll of client() keeps the invariant.
LEMMA PollClientStep ==
    ASSUME PoolInv, NEW f \in Callers, NEW outcome \in Outcomes, PollClient(f, outcome)
    PROVE  PoolInv'
<1> USE DEF PoolInv
<1>1. PICK expired \in SUBSET {c \in Pooled : st[c] = "open"} :
         LET list == Kept(connections, {c \in Conns : st[c] = "open"} \ expired)
         IN  /\ connections' = list
             /\ Drain(expired)
             /\ \/ \E c \in GetClient(list) : PollGets(f, c, outcome)
                \/ GetClient(list) = {} /\ MayConnect(Len(list)) /\ PollConnects(f)
                \/ GetClient(list) = {} /\ ~MayConnect(Len(list)) /\ PollWaits(f)
  BY DEF PollClient
<1> DEFINE list == connections'
<1>2. /\ list = Kept(connections, {c \in Conns : st[c] = "open"} \ expired)
      /\ Drain(expired)
      /\ \/ \E c \in GetClient(list) : PollGets(f, c, outcome)
         \/ MayConnect(Len(list)) /\ PollConnects(f)
         \/ PollWaits(f)
  BY <1>1
<1>3. list \in Seq(Conns) /\ Len(list) <= Len(connections) /\ Len(connections) \in Nat /\ Len(list) \in Nat
  <2>1. TypeOK /\ connections \in Seq(Conns) /\ list = Kept(connections, StillOpen(expired))
    BY <1>2 DEF TypeOK, StillOpen
  <2> HIDE DEF list, PoolInv
  <2>2. list \in Seq(Conns) /\ Len(list) <= Len(connections)
    BY <2>1, CleanUp
  <2> QED
    BY <2>1, <2>2
<1>4. /\ st' \in [Conns -> ConStates]
      /\ stopping' \in [Conns -> BOOLEAN]
  <2>1. st' \in [Conns -> ConStates]
    BY <1>2 DEF Drain, TypeOK, ConStates
  <2>2. stopping' \in [Conns -> BOOLEAN]
    BY <1>2 DEF Drain, TypeOK
  <2> QED
    BY <2>1, <2>2
<1>5. f \in Futures /\ fut[f] # "waiting"
  BY DEF PollClient, Runnable, Futures
<1>6. CASE \E c \in GetClient(list) : PollGets(f, c, outcome)
  <2>1. PICK c \in GetClient(list) : PollGets(f, c, outcome)
    BY <1>6
  <2>2. c \in Conns
    <3>1. \E i \in 1 .. Len(list) : list[i] = c
      BY <1>3, <2>1, GetClientIs
    <3> QED
      BY <1>3, <3>1
  <2>3. /\ active' \in [Conns -> Nat] /\ limit' \in [Conns -> Nat]
        /\ connecting' = connecting /\ owner' = owner /\ waiters' = waiters
    BY <2>1, <2>2 DEF PollGets, TypeOK
  <2>4. /\ fut' \in [Futures -> FutStates]
        /\ handle' \in [Callers -> Conns \union {None}]
        /\ \E to \in {"idle", "spent", "got"} : fut' = [fut EXCEPT ![f] = to]
        /\ lost' \in BOOLEAN
    BY <2>1, <2>2, <1>5 DEF PollGets, TypeOK, FutStates
  <2>5. Fits(waiters', fut')
    <3>1. PICK to \in {"idle", "spent", "got"} : fut' = [fut EXCEPT ![f] = to]
      BY <2>4
    <3> QED
      BY <2>3, <3>1, <1>5, OtherOK DEF TypeOK
  <2>6. HandleInv'
    BY <2>1, <2>2, <1>5 DEF HandleInv, PollGets, TypeOK, Futures
  <2>7. TypeOK'
    BY <2>3, <2>4, <2>5, <1>3, <1>4 DEF TypeOK, Fits
  <2>8. PoolBound'
    BY <2>3, <1>3, LimitIs DEF PoolBound
  <2> QED
    BY <2>5, <2>6, <2>7, <2>8
<1>7. CASE MayConnect(Len(list)) /\ PollConnects(f)
  <2>1. /\ connecting' = TRUE /\ owner' = f /\ waiters' = waiters /\ handle' = handle
        /\ active' = active /\ limit' = limit /\ lost' = lost
        /\ fut' = [fut EXCEPT ![f] = "connecting"]
    BY <1>7 DEF PollConnects
  <2>2. fut' \in [Futures -> FutStates]
    BY <2>1, <1>5 DEF TypeOK, FutStates
  <2>3. Fits(waiters', fut')
    BY <2>1, <1>5, OtherOK DEF TypeOK
  <2>4. HandleInv'
    BY <2>1, <1>5 DEF HandleInv, TypeOK, Futures
  <2>5. TypeOK'
    BY <2>1, <2>2, <2>3, <1>3, <1>4 DEF TypeOK, Fits
  <2>6. PoolBound'
    BY <1>7, <2>1, <1>3, LimitIs DEF PoolBound, MayConnect
  <2> QED
    BY <2>3, <2>4, <2>5, <2>6
<1>8. CASE PollWaits(f)
  <2>1. /\ connecting' = connecting /\ owner' = owner /\ handle' = handle
        /\ active' = active /\ limit' = limit /\ lost' = lost
        /\ waiters' = Append(waiters, f)
        /\ fut' = [fut EXCEPT ![f] = "waiting"]
    BY <1>8 DEF PollWaits
  <2>2. fut' \in [Futures -> FutStates]
    BY <2>1, <1>5 DEF TypeOK, FutStates
  <2>3. Fits(waiters', fut')
    BY <2>1, <1>5, JoinOK DEF TypeOK
  <2>4. HandleInv'
    BY <2>1, <1>5 DEF HandleInv, TypeOK, Futures
  <2>5. TypeOK'
    BY <2>1, <2>2, <2>3, <1>3, <1>4 DEF TypeOK, Fits
  <2>6. PoolBound'
    BY <2>1, <1>3, LimitIs DEF PoolBound
  <2> QED
    BY <2>3, <2>4, <2>5, <2>6
<1> QED
  BY <1>2, <1>6, <1>7, <1>8

\* The callback of a connection keeps the invariant, whatever happens to the
\* connection.
LEMMA OnCapacityStep ==
    ASSUME PoolInv, NEW n \in Nat, OnCapacity(n),
           st' \in [Conns -> ConStates], stopping' \in [Conns -> BOOLEAN],
           active' \in [Conns -> Nat], limit' \in [Conns -> Nat]
    PROVE  PoolInv'
<1> USE DEF PoolInv
<1>1. /\ fut' = Wakes(n) /\ waiters' = Rest(n) /\ handle' = handle /\ lost' \in BOOLEAN
      /\ connections' = connections /\ connecting' = connecting /\ owner' = owner
  BY DEF OnCapacity, poolVars
<1>2. /\ Wakes(n) \in [Futures -> FutStates]
      /\ Fits(Rest(n), Wakes(n))
      /\ \A f \in Futures : Wakes(n)[f] = fut[f] \/ (fut[f] = "waiting" /\ Wakes(n)[f] = "notified")
  BY WakesOK DEF TypeOK
<1>3. HandleInv'
  BY <1>1, <1>2 DEF HandleInv, Futures
<1>4. TypeOK'
  BY <1>1, <1>2 DEF TypeOK, Fits
<1>5. PoolBound'
  BY <1>1 DEF PoolBound
<1> QED
  BY <1>1, <1>2, <1>3, <1>4, <1>5

\* The end of the connect task wakes every waiter.
LEMMA ConnectEndsOK ==
    ASSUME PoolInv, NEW result \in FutStates, result \notin {"waiting", "got", "spent"}, ConnectEnds(result)
    PROVE  /\ fut' \in [Futures -> FutStates]
           /\ \A f \in Futures : fut'[f] # "waiting"
           /\ Fits(waiters', fut') /\ HandleInv'
           /\ connecting = TRUE /\ connecting' = FALSE /\ owner' \in Callers \union {None}
           /\ handle' \in [Callers -> Conns \union {None}] /\ lost' \in BOOLEAN
<1> USE DEF PoolInv
<1>0. lost' \in BOOLEAN
  BY DEF ConnectEnds
<1>1. /\ connecting = TRUE /\ connecting' = FALSE /\ owner' = None /\ waiters' = <<>> /\ handle' = handle
      /\ fut' = [f \in Futures |-> IF f \in Queued THEN "notified"
                                   ELSE IF f = owner THEN result ELSE fut[f]]
  BY DEF ConnectEnds, TypeOK
<1>2. fut' \in [Futures -> FutStates]
  BY <1>1 DEF TypeOK, FutStates
<1>3. Queued = Elems(waiters)
  BY DEF Queued, Elems, TypeOK
<1>4. \A f \in Futures : fut[f] = "waiting" => f \in Queued
  BY <1>3 DEF Fits
<1>5. \A f \in Futures : fut'[f] # "waiting" /\ (fut'[f] \in {"got", "spent"} => fut[f] = fut'[f])
  BY <1>1, <1>4
<1>6. Fits(waiters', fut')
  BY <1>1, <1>5 DEF Fits, Elems, Unique
<1>7. HandleInv'
  BY <1>1, <1>5 DEF HandleInv, Futures
<1> QED
  BY <1>0, <1>1, <1>2, <1>5, <1>6, <1>7 DEF TypeOK

\* A dropped future keeps the invariant.
LEMMA DropFutureStep ==
    ASSUME PoolInv, NEW f \in Futures, DropFuture(f)
    PROVE  PoolInv'
<1> USE DEF PoolInv
<1> DEFINE states == IF fut[f] = "notified" THEN Wakes(1) ELSE fut
<1>1. /\ fut' = [states EXCEPT ![f] = "idle"]
      /\ waiters' = IF fut[f] = "notified" THEN Rest(1) ELSE Kept(waiters, Futures \ {f})
      /\ owner' = IF owner = f THEN None ELSE owner
      /\ handle' = handle /\ lost' = lost /\ connections' = connections /\ connecting' = connecting
      /\ st' = st /\ active' = active /\ limit' = limit /\ stopping' = stopping
  BY DEF DropFuture, conVars
<1>2. /\ Wakes(1) \in [Futures -> FutStates]
      /\ Fits(Rest(1), Wakes(1))
      /\ \A g \in Futures : Wakes(1)[g] = fut[g] \/ (fut[g] = "waiting" /\ Wakes(1)[g] = "notified")
  BY WakesOK DEF TypeOK
<1>3. states \in [Futures -> FutStates] /\ \A g \in Futures : states[g] \in {"got", "spent"} => fut[g] = states[g]
  BY <1>2 DEF TypeOK
<1>4. Fits(waiters', fut')
  <2>1. CASE fut[f] = "notified"
    <3>1. Wakes(1)[f] # "waiting"
      BY <1>2, <2>1
    <3>2. Fits(Rest(1), [Wakes(1) EXCEPT ![f] = "idle"])
      BY <1>2, <3>1, OtherOK
    <3> QED
      BY <1>1, <2>1, <3>2
  <2>2. CASE fut[f] # "notified"
    <3>1. Fits(Kept(waiters, Futures \ {f}), [fut EXCEPT ![f] = "idle"])
      BY LeaveOK DEF TypeOK
    <3> QED
      BY <1>1, <2>2, <3>1
  <2> QED
    BY <2>1, <2>2
<1> HIDE DEF states
<1>5. fut' \in [Futures -> FutStates] /\ \A g \in Futures : fut'[g] \in {"got", "spent"} => fut[g] = fut'[g]
  BY <1>1, <1>3 DEF FutStates
<1>6. HandleInv'
  BY <1>1, <1>5 DEF HandleInv, Futures
<1>7. TypeOK'
  BY <1>1, <1>4, <1>5 DEF TypeOK, Fits
<1>8. PoolBound'
  BY <1>1 DEF PoolBound
<1> QED
  BY <1>4, <1>6, <1>7, <1>8

\* A woken ready() keeps the invariant.
LEMMA PollReadyStep ==
    ASSUME PoolInv, NEW f \in ReadyCallers, PollReady(f)
    PROVE  PoolInv'
<1> USE DEF PoolInv
<1>0. f \in Futures /\ f \notin Callers
  BY DEF Futures
<1>1. /\ fut' = [Wakes(1) EXCEPT ![f] = IF IsReady THEN "idle" ELSE "waiting"]
      /\ waiters' = IF IsReady THEN Rest(1) ELSE Append(Rest(1), f)
      /\ handle' = handle /\ lost' = lost /\ connections' = connections /\ connecting' = connecting /\ owner' = owner
      /\ st' = st /\ active' = active /\ limit' = limit /\ stopping' = stopping
      /\ fut[f] = "notified"
  BY DEF PollReady, conVars, poolVars
<1>2. /\ Wakes(1) \in [Futures -> FutStates]
      /\ Fits(Rest(1), Wakes(1))
      /\ \A g \in Futures : Wakes(1)[g] = fut[g] \/ (fut[g] = "waiting" /\ Wakes(1)[g] = "notified")
  BY WakesOK DEF TypeOK
<1>3. Wakes(1)[f] # "waiting"
  BY <1>0, <1>1, <1>2
<1>4. Fits(waiters', fut')
  <2>1. CASE IsReady
    <3>1. Fits(Rest(1), [Wakes(1) EXCEPT ![f] = "idle"])
      BY <1>0, <1>2, <1>3, OtherOK
    <3> QED
      BY <1>1, <2>1, <3>1
  <2>2. CASE ~IsReady
    <3>1. Fits(Append(Rest(1), f), [Wakes(1) EXCEPT ![f] = "waiting"])
      BY <1>0, <1>2, <1>3, JoinOK
    <3> QED
      BY <1>1, <2>2, <3>1
  <2> QED
    BY <2>1, <2>2
<1>5. fut' \in [Futures -> FutStates] /\ \A g \in Futures : fut'[g] \in {"got", "spent"} => fut[g] = fut'[g]
  BY <1>0, <1>1, <1>2 DEF FutStates
<1>6. HandleInv'
  BY <1>1, <1>5 DEF HandleInv, Futures
<1>7. TypeOK'
  BY <1>1, <1>4, <1>5 DEF TypeOK, Fits
<1>8. PoolBound'
  BY <1>1 DEF PoolBound
<1> QED
  BY <1>4, <1>6, <1>7, <1>8
-----------------------------------------------------------------------------
(* The invariant. *)

\* Every step keeps the invariant.
LEMMA PoolStep == PoolInv /\ [Next]_vars => PoolInv'
<1> SUFFICES ASSUME PoolInv, [Next]_vars PROVE PoolInv'
  OBVIOUS
<1> USE DEF poolVars, callVars, conVars
<1>0. TypeOK /\ Fits(waiters, fut) /\ HandleInv /\ PoolBound /\ connections \in Seq(Conns)
  BY DEF PoolInv, TypeOK
<1>1. ASSUME NEW f \in Callers, NEW outcome \in Outcomes, PollClient(f, outcome)
      PROVE  PoolInv'
  BY <1>1, PollClientStep
<1>2. ASSUME NEW f \in Callers, PollRefused(f)
      PROVE  PoolInv'
  <2>1. f \in Futures /\ fut[f] # "waiting" /\ fut' = [fut EXCEPT ![f] = "idle"]
    BY <1>2 DEF PollRefused, Futures
  <2>2. /\ waiters' = waiters /\ handle' = handle /\ lost' = lost /\ connections' = connections
        /\ connecting' = connecting /\ owner' = owner
        /\ st' = st /\ active' = active /\ limit' = limit /\ stopping' = stopping
    BY <1>2 DEF PollRefused
  <2>3. Fits(waiters', fut')
    BY <1>0, <2>1, <2>2, OtherOK DEF TypeOK
  <2>4. HandleInv'
    BY <1>0, <2>1, <2>2 DEF HandleInv, TypeOK, Futures
  <2>5. TypeOK' /\ PoolBound'
    BY <1>0, <2>1, <2>2 DEF TypeOK, FutStates, PoolBound
  <2> QED
    BY <2>3, <2>4, <2>5 DEF PoolInv
<1>3. ASSUME NEW f \in Callers, NEW opens \in BOOLEAN, UseHandle(f, opens)
      PROVE  PoolInv'
  <2>1. /\ f \in Futures /\ fut[f] # "waiting" /\ fut' = [fut EXCEPT ![f] = "idle"]
        /\ handle' = [handle EXCEPT ![f] = None] /\ handle[f] \in Conns
        /\ active' = IF opens THEN [active EXCEPT ![handle[f]] = @ + 1] ELSE active
        /\ lost' \in BOOLEAN
    BY <1>0, <1>3 DEF UseHandle, Futures, HandleInv
  <2>2. /\ waiters' = waiters /\ connections' = connections
        /\ connecting' = connecting /\ owner' = owner
        /\ st' = st /\ limit' = limit /\ stopping' = stopping
    BY <1>3 DEF UseHandle
  <2>3. Fits(waiters', fut')
    BY <1>0, <2>1, <2>2, OtherOK DEF TypeOK
  <2>4. HandleInv'
    BY <1>0, <2>1, <2>2 DEF HandleInv, TypeOK, Futures
  <2>5. active' \in [Conns -> Nat]
    BY <1>0, <2>1 DEF TypeOK
  <2>6. TypeOK' /\ PoolBound'
    BY <1>0, <2>1, <2>2, <2>5 DEF TypeOK, FutStates, PoolBound
  <2> QED
    BY <2>3, <2>4, <2>6 DEF PoolInv
<1>4. ASSUME NEW f \in Futures, DropFuture(f)
      PROVE  PoolInv'
  BY <1>4, DropFutureStep
<1>5. ASSUME NEW f \in ReadyCallers, StartReady(f)
      PROVE  PoolInv'
  <2>1. /\ f \in Futures /\ fut[f] # "waiting" /\ fut' = [fut EXCEPT ![f] = "waiting"]
        /\ waiters' = Append(waiters, f)
    BY <1>5 DEF StartReady, Futures
  <2>2. /\ handle' = handle /\ lost' = lost /\ connections' = connections
        /\ connecting' = connecting /\ owner' = owner
        /\ st' = st /\ active' = active /\ limit' = limit /\ stopping' = stopping
    BY <1>5 DEF StartReady
  <2>3. Fits(waiters', fut')
    BY <1>0, <2>1, <2>2, JoinOK DEF TypeOK
  <2>4. HandleInv'
    BY <1>0, <2>1, <2>2 DEF HandleInv, TypeOK, Futures
  <2>5. TypeOK' /\ PoolBound'
    BY <1>0, <2>1, <2>2, <2>3 DEF TypeOK, FutStates, PoolBound, Fits
  <2> QED
    BY <2>3, <2>4, <2>5 DEF PoolInv
<1>6. ASSUME NEW f \in ReadyCallers, PollReady(f)
      PROVE  PoolInv'
  BY <1>6, PollReadyStep
<1>7. ASSUME NEW c \in Conns, Connected(c)
      PROVE  PoolInv'
  <2>1. /\ fut' \in [Futures -> FutStates]
        /\ Fits(waiters', fut') /\ HandleInv'
        /\ connecting = TRUE /\ connecting' = FALSE /\ owner' \in Callers \union {None}
        /\ handle' \in [Callers -> Conns \union {None}] /\ lost' \in BOOLEAN
    BY <1>7, ConnectEndsOK DEF Connected, FutStates
  <2>2. /\ connections' = Append(connections, c)
        /\ st' = [st EXCEPT ![c] = "open"]
        /\ active' = [active EXCEPT ![c] = 0]
        /\ limit' = [limit EXCEPT ![c] = InitLimit]
        /\ stopping' = stopping
    BY <1>7 DEF Connected
  <2>3. connections' \in Seq(Conns) /\ Len(connections') = Len(connections) + 1 /\ Len(connections) \in Nat
    BY <1>0, <2>2
  <2>4. PoolBound'
    BY <1>0, <2>1, <2>3, LimitIs DEF PoolBound
  <2>5. /\ st' \in [Conns -> ConStates] /\ active' \in [Conns -> Nat] /\ limit' \in [Conns -> Nat]
        /\ stopping' \in [Conns -> BOOLEAN]
    BY <1>0, <2>2 DEF TypeOK, ConStates
  <2>6. TypeOK'
    BY <2>1, <2>3, <2>5 DEF TypeOK, Fits
  <2> QED
    BY <2>1, <2>4, <2>6 DEF PoolInv
<1>8. ASSUME ConnectFails
      PROVE  PoolInv'
  <2>1. /\ fut' \in [Futures -> FutStates]
        /\ Fits(waiters', fut') /\ HandleInv'
        /\ connecting = TRUE /\ connecting' = FALSE /\ owner' \in Callers \union {None}
        /\ handle' \in [Callers -> Conns \union {None}] /\ lost' \in BOOLEAN
    BY <1>8, ConnectEndsOK DEF ConnectFails, FutStates
  <2>2. connections' = connections /\ st' = st /\ active' = active /\ limit' = limit /\ stopping' = stopping
    BY <1>8 DEF ConnectFails
  <2>3. Len(connections) \in Nat
    BY <1>0
  <2>4. PoolBound'
    BY <1>0, <2>1, <2>2, <2>3, LimitIs DEF PoolBound
  <2>5. TypeOK'
    BY <1>0, <2>1, <2>2 DEF TypeOK, Fits
  <2> QED
    BY <2>1, <2>4, <2>5 DEF PoolInv
<1>9. ASSUME NEW c \in Conns, OpenStream(c) \/ Close(c) \/ IoCloses(c)
      PROVE  PoolInv'
  <2>1. /\ waiters' = waiters /\ fut' = fut /\ handle' = handle /\ lost' = lost /\ connections' = connections
        /\ connecting' = connecting /\ owner' = owner /\ limit' = limit
    BY <1>9 DEF OpenStream, Close, IoCloses
  <2>2. /\ st' \in [Conns -> ConStates] /\ active' \in [Conns -> Nat]
        /\ stopping' \in [Conns -> BOOLEAN]
    <3>1. CASE OpenStream(c)
      BY <1>0, <3>1 DEF OpenStream, TypeOK
    <3>2. CASE Close(c)
      <4>1. st' \in [Conns -> ConStates]
        BY <1>0, <3>2 DEF Close, Drain, TypeOK, ConStates
      <4>2. stopping' \in [Conns -> BOOLEAN]
        BY <1>0, <3>2 DEF Close, Drain, TypeOK
      <4> QED
        BY <1>0, <3>2, <4>1, <4>2 DEF Close, TypeOK
    <3>3. CASE IoCloses(c)
      BY <1>0, <3>3 DEF IoCloses, TypeOK, ConStates
    <3> QED
      BY <1>9, <3>1, <3>2, <3>3
  <2> QED
    BY <1>0, <2>1, <2>2 DEF PoolInv, TypeOK, HandleInv, PoolBound
<1>10. ASSUME NEW c \in Conns, StreamEnds(c)
       PROVE  PoolInv'
  <2>1. /\ active' = [active EXCEPT ![c] = @ - 1] /\ active[c] > 0 /\ limit' = limit
        /\ OnCapacity(1)
    BY <1>10 DEF StreamEnds
  <2>2. st' \in [Conns -> ConStates]
    BY <1>0, <1>10 DEF StreamEnds, TypeOK, ConStates
  <2>3. stopping' \in [Conns -> BOOLEAN]
    BY <1>0, <1>10 DEF StreamEnds, TypeOK
  <2>4. active' \in [Conns -> Nat] /\ limit' \in [Conns -> Nat]
    BY <1>0, <2>1 DEF TypeOK
  <2> QED
    BY <2>1, <2>2, <2>3, <2>4, OnCapacityStep
<1>11. ASSUME NEW c \in Conns, NEW max \in Limits, RecvSettings(c, max)
       PROVE  PoolInv'
  <2>1. /\ st' = st /\ active' = active /\ stopping' = stopping /\ OnCapacity(1)
        /\ limit' = [limit EXCEPT ![c] = max]
    BY <1>11 DEF RecvSettings
  <2>2. /\ st' \in [Conns -> ConStates] /\ stopping' \in [Conns -> BOOLEAN]
        /\ active' \in [Conns -> Nat] /\ limit' \in [Conns -> Nat]
    BY <1>0, <2>1 DEF TypeOK
  <2> QED
    BY <2>1, <2>2, OnCapacityStep
<1>12. ASSUME NEW c \in Conns, NEW n \in 0 .. active[c], RecvGoAway(c, n)
       PROVE  PoolInv'
  <2>1. active[c] \in Nat /\ n + 1 \in Nat /\ active[c] - n \in Nat
    BY <1>0 DEF TypeOK
  <2>2. OnCapacity(n + 1) /\ limit' = limit /\ active' = [active EXCEPT ![c] = @ - n]
    BY <1>12 DEF RecvGoAway
  <2>3. st' \in [Conns -> ConStates]
    BY <1>0, <1>12 DEF RecvGoAway, TypeOK, ConStates
  <2>4. stopping' \in [Conns -> BOOLEAN]
    BY <1>0, <1>12 DEF RecvGoAway, TypeOK
  <2>5. active' \in [Conns -> Nat] /\ limit' \in [Conns -> Nat]
    BY <1>0, <2>1, <2>2 DEF TypeOK
  <2> QED
    BY <2>1, <2>2, <2>3, <2>4, <2>5, OnCapacityStep
<1>13. ASSUME NEW c \in Conns, Fails(c) \/ Shutdown(c)
       PROVE  PoolInv'
  <2>1. OnCapacity(1) /\ limit' = limit /\ active' = [active EXCEPT ![c] = 0]
    BY <1>13 DEF Fails, Shutdown
  <2>2. st' \in [Conns -> ConStates] /\ stopping' \in [Conns -> BOOLEAN]
    BY <1>0, <1>13 DEF Fails, Shutdown, TypeOK, ConStates
  <2>3. active' \in [Conns -> Nat] /\ limit' \in [Conns -> Nat]
    BY <1>0, <2>1 DEF TypeOK
  <2> QED
    BY <2>1, <2>2, <2>3, OnCapacityStep
<1>14. CASE UNCHANGED vars
  BY <1>0, <1>14 DEF vars, PoolInv, TypeOK, HandleInv, PoolBound
<1> QED
  BY <1>1, <1>2, <1>3, <1>4, <1>5, <1>6, <1>7, <1>8, <1>9, <1>10, <1>11, <1>12, <1>13, <1>14 DEF Next

\* The queue of the pool holds the waiting calls, once each, and the pool stays
\* within its limits.
THEOREM PoolInvariant == Spec => []PoolInv
<1>1. Init => PoolInv
  <2> SUFFICES ASSUME Init PROVE PoolInv
    OBVIOUS
  <2>1. TypeOK
    <3>1. connections \in Seq(Conns) /\ waiters \in Seq(Futures)
      BY DEF Init
    <3>2. /\ fut \in [Futures -> FutStates] /\ handle \in [Callers -> Conns \union {None}]
          /\ st \in [Conns -> ConStates] /\ active \in [Conns -> Nat] /\ limit \in [Conns -> Nat]
          /\ stopping \in [Conns -> BOOLEAN]
      BY DEF Init, FutStates, ConStates
    <3>3. connecting \in BOOLEAN /\ owner \in Callers \union {None} /\ lost \in BOOLEAN
      BY DEF Init
    <3> QED
      BY <3>1, <3>2, <3>3 DEF TypeOK
  <2>2. Fits(waiters, fut)
    BY DEF Init, Fits, Unique, Elems
  <2>3. HandleInv
    BY DEF Init, HandleInv, Futures
  <2>4. PoolBound
    BY LimitIs DEF Init, PoolBound
  <2> QED
    BY <2>1, <2>2, <2>3, <2>4 DEF PoolInv
<1> QED
  BY <1>1, PoolStep, PTL DEF Spec

\* pool.rs connect: the pool and the connection that is being opened stay
\* within the limit.
THEOREM PoolWithinLimit == Spec => []PoolBound
<1>1. PoolInv => PoolBound
  BY DEF PoolInv
<1> QED
  BY <1>1, PoolInvariant, PTL
-----------------------------------------------------------------------------
(* Wake-ups. *)

\* The callback of a connection wakes a waiter, if there is one.
LEMMA OnCapacityAhead ==
    ASSUME PoolInv, NEW n \in Nat, n > 0, OnCapacity(n)
    PROVE  AheadInv'
<1>1. fut' = Wakes(n)
  BY DEF OnCapacity
<1>2. /\ \A f \in Futures : Wakes(n)[f] = fut[f] \/ (fut[f] = "waiting" /\ Wakes(n)[f] = "notified")
      /\ \A f \in Futures : fut[f] = "waiting" => \E g \in Futures : Wakes(n)[g] = "notified"
  BY WakesOK DEF PoolInv, TypeOK
<1>3. ASSUME NEW f \in Callers, fut'[f] = "waiting"
      PROVE  \E g \in Futures : fut'[g] = "notified"
  BY <1>1, <1>2, <1>3 DEF Futures
<1> QED
  BY <1>3 DEF AheadInv, Ahead, CallWaits

\* A notification is passed on: a woken future that goes away, or a ready(),
\* wakes the next waiter.
LEMMA PassedOn ==
    ASSUME PoolInv, NEW f \in Futures, fut[f] = "notified", NEW to,
           fut' = [Wakes(1) EXCEPT ![f] = to], f \in Callers => to # "waiting"
    PROVE  AheadInv'
<1>1. /\ Wakes(1) \in [Futures -> FutStates]
      /\ \A g \in Futures : Wakes(1)[g] = fut[g] \/ (fut[g] = "waiting" /\ Wakes(1)[g] = "notified")
      /\ \A g \in Futures : fut[g] = "waiting" =>
            \E h \in Futures : Wakes(1)[h] = "notified" /\ fut[h] = "waiting"
  BY WakesOK DEF PoolInv, TypeOK
<1>2. ASSUME NEW g \in Callers, fut'[g] = "waiting"
      PROVE  \E h \in Futures : fut'[h] = "notified"
  <2>1. g # f /\ g \in Futures
    BY <1>1, <1>2 DEF Futures
  <2>2. fut[g] = "waiting"
    BY <1>1, <1>2, <2>1
  <2>3. PICK h \in Futures : Wakes(1)[h] = "notified" /\ fut[h] = "waiting"
    BY <1>1, <2>1, <2>2
  <2>4. h # f
    BY <2>3
  <2> QED
    BY <1>1, <2>3, <2>4
<1> QED
  BY <1>2 DEF AheadInv, Ahead, CallWaits

\* A poll of client() leaves a wake-up ahead: it takes a connection, opens one
\* or waits for connections that are in use; if it fails with a notification,
\* that one is lost, and without one nothing changes for those who wait.
LEMMA PollClientAhead ==
    ASSUME PoolInv, AheadInv, MinConn + MaxConn > 0,
           NEW f \in Callers, NEW outcome \in Outcomes, PollClient(f, outcome)
    PROVE  AheadInv'
<1>0. TypeOK /\ f \in Futures
  BY DEF PoolInv, Futures
<1>1. PICK expired \in SUBSET {c \in Pooled : st[c] = "open"} :
         LET list == Kept(connections, {c \in Conns : st[c] = "open"} \ expired)
         IN  /\ connections' = list
             /\ Drain(expired)
             /\ \/ \E c \in GetClient(list) : PollGets(f, c, outcome)
                \/ GetClient(list) = {} /\ MayConnect(Len(list)) /\ PollConnects(f)
                \/ GetClient(list) = {} /\ ~MayConnect(Len(list)) /\ PollWaits(f)
  BY DEF PollClient
<1> DEFINE list == connections'
<1>2. /\ list = Kept(connections, {c \in Conns : st[c] = "open"} \ expired)
      /\ Drain(expired)
      /\ \/ \E c \in GetClient(list) : PollGets(f, c, outcome)
         \/ PollConnects(f)
         \/ GetClient(list) = {} /\ ~MayConnect(Len(list)) /\ PollWaits(f)
  BY <1>1
<1> HIDE DEF list
<1>3. /\ list \in Seq(Conns) /\ Len(list) \in Nat
      /\ \A i \in 1 .. Len(list) : list[i] \in Conns /\ st[list[i]] = "open" /\ list[i] \notin expired
      /\ \A i \in 1 .. Len(list) : list[i] \in Pooled
      /\ \A i \in 1 .. Len(connections) :
            st[connections[i]] = "open" /\ connections[i] \notin expired =>
               \E j \in 1 .. Len(list) : list[j] = connections[i]
  <2>1. /\ list \in Seq(Conns)
        /\ \A i \in 1 .. Len(list) : list[i] \in Conns /\ st[list[i]] = "open" /\ list[i] \notin expired
        /\ \A i \in 1 .. Len(list) : list[i] \in Pooled
        /\ \A i \in 1 .. Len(connections) :
              st[connections[i]] = "open" /\ connections[i] \notin expired =>
                 \E j \in 1 .. Len(list) : list[j] = connections[i]
    <3>1. list = Kept(connections, StillOpen(expired))
      BY <1>2 DEF StillOpen
    <3> QED
      BY <1>0, <3>1, CleanUp
  <2> QED
    BY <2>1
<1>4. \A i \in 1 .. Len(list) : st'[list[i]] = "open"
  BY <1>2, <1>3 DEF Drain
<1>5. CASE \E c \in GetClient(list) : PollGets(f, c, outcome)
  <2>1. PICK c \in GetClient(list) : PollGets(f, c, outcome)
    BY <1>5
  <2>2. PICK k \in 1 .. Len(list) : list[k] = c
    BY <1>0, <1>3, <2>1, GetClientIs
  <2>3. c \in Conns /\ st'[c] = "open"
    BY <1>3, <1>4, <2>2
  <2>4. CASE outcome = "opens"
    <3>1. active'[c] > 0
      BY <1>0, <2>1, <2>3, <2>4 DEF PollGets, TypeOK
    <3> QED
      BY <2>3, <3>1 DEF AheadInv, Ahead
  <2>5. CASE outcome = "returns" /\ fut[f] = "notified"
    <3>1. fut'[f] = "spent" /\ handle'[f] = c
      BY <1>0, <2>1, <2>5 DEF PollGets, TypeOK
    <3> QED
      BY <2>3, <3>1 DEF AheadInv, Ahead
  <2>6. CASE outcome = "fails" /\ fut[f] = "notified"
    BY <2>1, <2>6 DEF PollGets, AheadInv
  <2>7. CASE outcome # "opens" /\ fut[f] # "notified"
    <3>1. /\ connecting' = connecting /\ active' = active /\ limit' = limit
          /\ lost => lost'
      BY <2>1, <2>7 DEF PollGets
    <3>2. \A g \in Futures : g # f => fut'[g] = fut[g]
      BY <1>0, <2>1 DEF PollGets, TypeOK
    <3>3. \A g \in Callers : g # f => handle'[g] = handle[g]
      BY <1>0, <2>1 DEF PollGets, TypeOK
    <3>4. fut'[f] # "waiting" /\ fut[f] # "spent"
      BY <1>0, <2>1 DEF PollGets, TypeOK, PollClient, Runnable
    <3>5. CallWaits' => CallWaits
      BY <3>2, <3>4 DEF CallWaits, Futures
    <3>6. \A d \in Conns : st[d] = "open" => st'[d] = "open" \/ active'[d] > 0 \/ stopping'[d]
      <4> TAKE d \in Conns
      <4>1. active[d] \in Nat
        BY <1>0 DEF TypeOK
      <4>2. d \notin expired => st'[d] = st[d]
        BY <1>2 DEF Drain
      <4>3. d \in expired /\ active[d] = 0 => stopping'[d]
        BY <1>2 DEF Drain
      <4> QED
        BY <3>1, <4>1, <4>2, <4>3
    <3>7. \A d \in Conns : stopping[d] => stopping'[d]
      BY <1>2 DEF Drain
    <3>8. Ahead => Ahead'
      <4>1. CASE connecting
        BY <3>1, <4>1 DEF Ahead
      <4>2. CASE \E g \in Futures : fut[g] = "notified"
        BY <2>7, <3>2, <4>2 DEF Ahead
      <4>3. ASSUME NEW g \in Callers, fut[g] = "spent" /\ st[handle[g]] = "open"
            PROVE  Ahead'
        <5>1. g # f /\ handle'[g] = handle[g] /\ handle[g] \in Conns /\ fut'[g] = "spent"
          BY <3>2, <3>3, <3>4, <4>3 DEF PoolInv, HandleInv, Futures
        <5> QED
          BY <3>6, <4>3, <5>1 DEF Ahead
      <4>4. CASE \E d \in Conns : active[d] > 0 \/ stopping[d]
        BY <3>1, <3>7, <4>4 DEF Ahead
      <4>5. ASSUME NEW i \in 1 .. Len(connections), st[connections[i]] = "open", limit[connections[i]] = 0
            PROVE  Ahead'
        <5>1. connections[i] \in Conns
          BY <1>0 DEF TypeOK
        <5>2. CASE connections[i] \in expired
          <6> DEFINE d == connections[i]
          <6>1. d \in Conns /\ d \in expired /\ active[d] \in Nat
            BY <1>0, <5>1, <5>2 DEF TypeOK
          <6> HIDE DEF d
          <6>2. active[d] = 0 => stopping'[d]
            BY <1>2, <6>1 DEF Drain
          <6>3. active'[d] > 0 \/ stopping'[d]
            BY <3>1, <6>1, <6>2
          <6> QED
            BY <6>1, <6>3 DEF Ahead
        <5>3. CASE connections[i] \notin expired
          <6>1. PICK j \in 1 .. Len(list) : list[j] = connections[i]
            BY <1>3, <4>5, <5>3
          <6> QED
            BY <1>4, <3>1, <4>5, <6>1 DEF Ahead, list
        <5> QED
          BY <5>2, <5>3
      <4> QED
        BY <4>1, <4>2, <4>3, <4>4, <4>5 DEF Ahead
    <3> QED
      BY <3>1, <3>5, <3>8 DEF AheadInv
  <2> QED
    BY <2>4, <2>5, <2>6, <2>7 DEF Outcomes
<1>6. CASE PollConnects(f)
  BY <1>6 DEF PollConnects, AheadInv, Ahead
<1>7. CASE GetClient(list) = {} /\ ~MayConnect(Len(list)) /\ PollWaits(f)
  <2>1. connecting' = connecting /\ active' = active /\ limit' = limit
    BY <1>7 DEF PollWaits
  <2>2. CASE connecting
    BY <2>1, <2>2 DEF AheadInv, Ahead
  <2>3. CASE ~connecting
    <3>1. Len(list) >= MaxConn /\ ~(MinConn > 0 /\ Len(list) < MinConn)
      BY <1>3, <1>7, <2>3 DEF MayConnect
    <3>2. 1 \in 1 .. Len(list)
      BY <1>3, <3>1
    <3>3. ~CanCreate(list[1])
      BY <1>0, <1>3, <1>7, <3>1, <3>2, GetClientNone
    <3>4. /\ list[1] \in Conns /\ active[list[1]] \in Nat /\ limit[list[1]] \in Nat
          /\ active[list[1]] >= limit[list[1]]
      BY <1>0, <1>3, <3>2, <3>3 DEF CanCreate, TypeOK
    <3>5. CASE active[list[1]] > 0
      BY <2>1, <3>4, <3>5 DEF AheadInv, Ahead
    <3>6. CASE limit[list[1]] = 0
      BY <1>4, <2>1, <3>2, <3>6 DEF AheadInv, Ahead, list
    <3> QED
      BY <3>4, <3>5, <3>6
  <2> QED
    BY <2>2, <2>3
<1> QED
  BY <1>2, <1>5, <1>6, <1>7

\* Every step leaves a wake-up ahead while a call waits.
LEMMA AheadStep ==
    ASSUME MinConn + MaxConn > 0, PoolInv, AheadInv, [Next]_vars
    PROVE  AheadInv'
<1> USE DEF poolVars, callVars, conVars
<1>0. TypeOK /\ HandleInv
  BY DEF PoolInv
<1>1. ASSUME NEW f \in Callers, NEW outcome \in Outcomes, PollClient(f, outcome)
      PROVE  AheadInv'
  BY <1>1, PollClientAhead
<1>2. ASSUME NEW f \in Callers, PollRefused(f)
      PROVE  AheadInv'
  <2>1. f \in Futures /\ fut[f] = "refused" /\ fut' = [fut EXCEPT ![f] = "idle"]
    BY <1>2 DEF PollRefused, Futures
  <2>2. /\ handle' = handle /\ lost' = lost /\ connections' = connections /\ connecting' = connecting
        /\ st' = st /\ active' = active /\ limit' = limit /\ stopping' = stopping
    BY <1>2 DEF PollRefused
  <2>3. \A g \in Futures : g # f => fut'[g] = fut[g]
    BY <1>0, <2>1 DEF TypeOK
  <2>4. Ahead => Ahead'
    BY <2>1, <2>2, <2>3 DEF Ahead, Futures
  <2>5. CallWaits' => CallWaits
    BY <1>0, <2>1, <2>3 DEF CallWaits, Futures, TypeOK
  <2> QED
    BY <2>2, <2>4, <2>5 DEF AheadInv
<1>3. ASSUME NEW f \in Callers, NEW opens \in BOOLEAN, UseHandle(f, opens)
      PROVE  AheadInv'
  <2>1. /\ f \in Futures /\ fut[f] \in {"got", "spent"} /\ fut' = [fut EXCEPT ![f] = "idle"]
        /\ handle' = [handle EXCEPT ![f] = None] /\ handle[f] \in Conns
        /\ active' = IF opens THEN [active EXCEPT ![handle[f]] = @ + 1] ELSE active
    BY <1>0, <1>3 DEF UseHandle, Futures, HandleInv
  <2>2. /\ connections' = connections /\ connecting' = connecting
        /\ st' = st /\ limit' = limit /\ stopping' = stopping
    BY <1>3 DEF UseHandle
  <2>3. \A g \in Futures : g # f => fut'[g] = fut[g]
    BY <1>0, <2>1 DEF TypeOK
  <2>4. \A g \in Callers : g # f => handle'[g] = handle[g]
    BY <1>0, <2>1 DEF TypeOK
  <2>5. CASE opens
    <3>1. active'[handle[f]] > 0
      BY <1>0, <2>1, <2>5 DEF TypeOK
    <3> QED
      BY <2>1, <3>1 DEF AheadInv, Ahead
  <2>6. CASE ~opens /\ fut[f] = "spent" /\ st[handle[f]] = "open"
    BY <1>3, <2>6 DEF UseHandle, AheadInv
  <2>7. CASE ~opens /\ ~(fut[f] = "spent" /\ st[handle[f]] = "open")
    <3>1. active' = active /\ (lost => lost')
      BY <1>3, <2>1, <2>7 DEF UseHandle
    <3>2. Ahead => Ahead'
      BY <2>1, <2>2, <2>3, <2>4, <2>7, <3>1 DEF Ahead, Futures
    <3>3. CallWaits' => CallWaits
      BY <1>0, <2>1, <2>3 DEF CallWaits, Futures, TypeOK
    <3> QED
      BY <3>1, <3>2, <3>3 DEF AheadInv
  <2> QED
    BY <2>5, <2>6, <2>7
<1>4. ASSUME NEW f \in Futures, DropFuture(f)
      PROVE  AheadInv'
  <2>1. CASE fut[f] = "notified"
    <3>1. fut' = [Wakes(1) EXCEPT ![f] = "idle"]
      BY <1>4, <2>1 DEF DropFuture
    <3> QED
      BY <2>1, <3>1, PassedOn
  <2>2. CASE fut[f] # "notified"
    <3>1. fut[f] # "spent" /\ fut' = [fut EXCEPT ![f] = "idle"]
      BY <1>4, <2>2 DEF DropFuture
    <3>2. /\ handle' = handle /\ lost' = lost /\ connections' = connections /\ connecting' = connecting
          /\ st' = st /\ active' = active /\ limit' = limit /\ stopping' = stopping
      BY <1>4 DEF DropFuture
    <3>3. \A g \in Futures : g # f => fut'[g] = fut[g]
      BY <1>0, <3>1 DEF TypeOK
    <3>4. Ahead => Ahead'
      BY <2>2, <3>1, <3>2, <3>3 DEF Ahead, Futures
    <3>5. CallWaits' => CallWaits
      BY <1>0, <3>1, <3>3 DEF CallWaits, Futures, TypeOK
    <3> QED
      BY <3>2, <3>4, <3>5 DEF AheadInv
  <2> QED
    BY <2>1, <2>2
<1>5. ASSUME NEW f \in ReadyCallers, StartReady(f)
      PROVE  AheadInv'
  <2>1. f \in Futures /\ f \notin Callers /\ fut[f] = "idle" /\ fut' = [fut EXCEPT ![f] = "waiting"]
    BY <1>5 DEF StartReady, Futures
  <2>2. /\ handle' = handle /\ lost' = lost /\ connections' = connections /\ connecting' = connecting
        /\ st' = st /\ active' = active /\ limit' = limit /\ stopping' = stopping
    BY <1>5 DEF StartReady
  <2>3. \A g \in Futures : g # f => fut'[g] = fut[g]
    BY <1>0, <2>1 DEF TypeOK
  <2>4. Ahead => Ahead'
    BY <2>1, <2>2, <2>3 DEF Ahead, Futures
  <2>5. CallWaits' => CallWaits
    BY <2>1, <2>3 DEF CallWaits, Futures
  <2> QED
    BY <2>2, <2>4, <2>5 DEF AheadInv
<1>6. ASSUME NEW f \in ReadyCallers, PollReady(f)
      PROVE  AheadInv'
  <2>1. f \in Futures /\ f \notin Callers /\ fut[f] = "notified"
    BY <1>6 DEF PollReady, Futures
  <2> DEFINE to == IF IsReady THEN "idle" ELSE "waiting"
  <2>2. fut' = [Wakes(1) EXCEPT ![f] = to]
    BY <1>6 DEF PollReady
  <2> HIDE DEF to
  <2> QED
    BY <2>1, <2>2, PassedOn
<1>7. ASSUME (\E c \in Conns : Connected(c)) \/ ConnectFails
      PROVE  AheadInv'
  <2>1. \E result \in {"connected", "refused"} : ConnectEnds(result)
    BY <1>7 DEF Connected, ConnectFails
  <2>2. \A g \in Futures : fut'[g] # "waiting"
    BY <2>1, ConnectEndsOK DEF FutStates
  <2> QED
    BY <2>2 DEF AheadInv, CallWaits, Futures
<1>8. ASSUME NEW c \in Conns, OpenStream(c)
      PROVE  AheadInv'
  <2>1. active'[c] > 0
    BY <1>0, <1>8 DEF OpenStream, TypeOK
  <2> QED
    BY <2>1 DEF AheadInv, Ahead
<1>9. ASSUME NEW c \in Conns, Close(c)
      PROVE  AheadInv'
  <2>1. active' = active /\ active[c] \in Nat
    BY <1>0, <1>9 DEF Close, TypeOK
  <2>3. active[c] = 0 => stopping'[c]
    BY <1>0, <1>9 DEF Close, Drain, TypeOK
  <2>2. active'[c] > 0 \/ stopping'[c]
    BY <2>1, <2>3
  <2> QED
    BY <2>2 DEF AheadInv, Ahead
<1>10. ASSUME NEW c \in Conns, IoCloses(c)
       PROVE  AheadInv'
  <2>1. stopping'[c]
    BY <1>0, <1>10 DEF IoCloses, TypeOK
  <2> QED
    BY <2>1 DEF AheadInv, Ahead
<1>11. ASSUME NEW c \in Conns, \/ StreamEnds(c) \/ Fails(c) \/ Shutdown(c)
                               \/ \E max \in Limits : RecvSettings(c, max)
       PROVE  AheadInv'
  <2>1. OnCapacity(1)
    BY <1>11 DEF StreamEnds, Fails, Shutdown, RecvSettings
  <2> QED
    BY <2>1, OnCapacityAhead
<1>12. ASSUME NEW c \in Conns, NEW n \in 0 .. active[c], RecvGoAway(c, n)
       PROVE  AheadInv'
  <2>1. OnCapacity(n + 1) /\ n + 1 \in Nat /\ n + 1 > 0
    BY <1>0, <1>12 DEF RecvGoAway, TypeOK
  <2> QED
    BY <2>1, OnCapacityAhead
<1>13. CASE UNCHANGED vars
  BY <1>13 DEF vars, AheadInv, Ahead, CallWaits
<1> QED
  BY <1>1, <1>2, <1>3, <1>4, <1>5, <1>6, <1>7, <1>8, <1>9, <1>10, <1>11, <1>12, <1>13 DEF Next

\* pool.rs client: while a call waits, a wake-up is on its way or something is
\* left that will give one, in every pool that may open a connection at all;
\* unless the last notification went to a call that opened no stream with it.
THEOREM WaitersNotStranded ==
    ASSUME MinConn + MaxConn > 0
    PROVE  Spec => []WakeUpAhead
<1>1. Init => AheadInv
  BY DEF Init, AheadInv, CallWaits, Futures
<1>2. PoolInv /\ AheadInv /\ [Next]_vars => AheadInv'
  BY AheadStep
<1>3. PoolInv /\ AheadInv => WakeUpAhead
  <2> SUFFICES ASSUME PoolInv, AheadInv PROVE WakeUpAhead
    OBVIOUS
  <2>1. \A i \in 1 .. Len(connections) : connections[i] \in Pooled
    BY DEF PoolInv, TypeOK, Pooled
  <2> QED
    BY <2>1 DEF AheadInv, Ahead, WakeUpAhead, Source, Futures
<1> QED
  BY <1>1, <1>2, <1>3, PoolInvariant, PTL DEF Spec
=============================================================================
