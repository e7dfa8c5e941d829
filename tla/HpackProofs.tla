---------------------------- MODULE HpackProofs ----------------------------
(***************************************************************************)
(* Proofs about Hpack for every hash function, every set of headers with   *)
(* their lengths, every table size and every size the peer may announce:   *)
(* the index of the encoder's table is sound, and every block is decoded   *)
(* to the headers it was made of.                                          *)
(*                                                                         *)
(* EncoderInv: the encoder's table is Valid.  Beyond IndexSound that says  *)
(* that the positions of the index are in Robin Hood order (Sound), that   *)
(* there are no more slots than usable positions, and that the lengths of  *)
(* the slots add up to the size (Sums).  Every method of the table has a   *)
(* lemma that it leaves a Valid table and says which headers are in it     *)
(* then: Inserts, Shrinks, Holds, Indexes.                                 *)
(*                                                                         *)
(* HpackInv: EncoderInv, the decoder's table is what the decoder would     *)
(* have of the encoder's (InStep), and the size updates that wait cover    *)
(* all that the peer announced (Announced).  A representation that the     *)
(* encoder writes Yields its header at every decoder that is in step, and  *)
(* the loop of decode() is followed turn by turn.                          *)
(***************************************************************************)
EXTENDS Hpack, FiniteSetTheorems, WellFoundedInduction, SequenceTheorems, TLAPS

(***************************************************************************)
(* Remainders.                                                             *)
(***************************************************************************)

\* Division with remainder.
LEMMA DivMod ==
    ASSUME NEW c \in Nat \ {0}, NEW a \in Int
    PROVE  a % c \in 0 .. c - 1 /\ \E q \in Int : a = c * q + (a % c)
<1>1. a % c \in 0 .. c - 1 /\ a \div c \in Int /\ a = c * (a \div c) + (a % c)
  OBVIOUS
<1> QED
  BY <1>1

\* The remainder is unique.
LEMMA ModUnique ==
    ASSUME NEW c \in Nat \ {0}, NEW q \in Int, NEW a \in Int, NEW r \in 0 .. c - 1, a = c * q + r
    PROVE  a % c = r
OBVIOUS

\* A multiple of the divisor does not count.
LEMMA ModMultiple ==
    ASSUME NEW c \in Nat \ {0}, NEW a \in Int, NEW q \in Int
    PROVE  (a + c * q) % c = a % c
<1>1. PICK p \in Int : a = c * p + (a % c)
  BY DivMod
<1>2. a % c \in 0 .. c - 1
  BY DivMod
<1>3. a + c * q = c * (p + q) + (a % c)
  BY <1>1, <1>2
<1>4. a + c * q \in Int /\ p + q \in Int
  OBVIOUS
<1> QED
  BY <1>2, <1>3, <1>4, ModUnique

\* Small numbers are their own remainders.
LEMMA ModSmall ==
    ASSUME NEW c \in Nat \ {0}, NEW a \in 0 .. c - 1
    PROVE  a % c = a
OBVIOUS

\* The divisor does not count, once or twice.
LEMMA ModShift ==
    ASSUME NEW c \in Nat \ {0}, NEW a \in Int
    PROVE  (a + c) % c = a % c /\ (a - c) % c = a % c
<1>1. a + c * 1 = a + c /\ a + c * (-1) = a - c
  OBVIOUS
<1>2. (a + c * 1) % c = a % c
  BY ModMultiple, 1 \in Int
<1>3. (a + c * (-1)) % c = a % c
  BY ModMultiple, -1 \in Int
<1> QED
  BY <1>1, <1>2, <1>3

\* A remainder in a sum or a difference.
LEMMA ModSum ==
    ASSUME NEW c \in Nat \ {0}, NEW a \in Int, NEW b \in Int
    PROVE  /\ ((a % c) + b) % c = (a + b) % c
           /\ (b + (a % c)) % c = (a + b) % c
           /\ ((a % c) - b) % c = (a - b) % c
           /\ (b - (a % c)) % c = (b - a) % c
<1>1. PICK q \in Int : a = c * q + (a % c)
  BY DivMod
<1>2. a % c \in Int
  BY DivMod
<1> DEFINE r == a % c
<1>3. r \in Int /\ a = c * q + r
  BY <1>1, <1>2
<1> HIDE DEF r
<1>4. a + b = (r + b) + c * q /\ a - b = (r - b) + c * q
  BY <1>3
<1>5. b - a = (b - r) + c * (-q) /\ -q \in Int
  BY <1>3
<1>6. (a + b) % c = (r + b) % c /\ (a - b) % c = (r - b) % c
  <2>1. ((r + b) + c * q) % c = (r + b) % c
    BY <1>3, ModMultiple, r + b \in Int
  <2>2. ((r - b) + c * q) % c = (r - b) % c
    BY <1>3, ModMultiple, r - b \in Int
  <2> QED
    BY <1>4, <2>1, <2>2
<1>7. (b - a) % c = (b - r) % c
  <2>1. ((b - r) + c * (-q)) % c = (b - r) % c
    BY <1>3, <1>5, ModMultiple, b - r \in Int
  <2> QED
    BY <1>5, <2>1
<1>8. b + r = r + b
  BY <1>3
<1> QED
  BY <1>6, <1>7, <1>8 DEF r

\* Equal remainders of numbers less than the divisor apart.
LEMMA ModEqual ==
    ASSUME NEW c \in Nat \ {0}, NEW a \in Int, NEW b \in Int,
           a % c = b % c, a - b < c, b - a < c
    PROVE  a = b
<1>1. PICK p \in Int : a = c * p + (a % c)
  BY DivMod
<1>2. PICK q \in Int : b = c * q + (b % c)
  BY DivMod
<1>3. a % c \in Int
  BY DivMod
<1>4. a - b = c * (p - q)
  BY <1>1, <1>2, <1>3
<1>5. p - q = 0
  BY <1>4
<1> QED
  BY <1>4, <1>5

\* One more and one less.
LEMMA ModStep ==
    ASSUME NEW c \in Nat \ {0}, NEW a \in Int
    PROVE  /\ (a + 1) % c = IF a % c = c - 1 THEN 0 ELSE (a % c) + 1
           /\ (a - 1) % c = IF a % c = 0 THEN c - 1 ELSE (a % c) - 1
<1> DEFINE r == a % c
<1>1. r \in 0 .. c - 1
  BY DivMod
<1>2. (a + 1) % c = (r + 1) % c /\ (a - 1) % c = (r - 1) % c
  BY ModSum, 1 \in Int
<1> HIDE DEF r
<1>3. r = c - 1 => (r + 1) % c = 0
  <2>1. r = c - 1 => r + 1 = 0 + c
    BY <1>1
  <2>2. (0 + c) % c = 0 % c /\ 0 % c = 0
    BY ModShift, ModSmall, 0 \in Int, 0 \in 0 .. c - 1
  <2> QED
    BY <2>1, <2>2
<1>4. r # c - 1 => (r + 1) % c = r + 1
  BY <1>1, ModSmall, r # c - 1 => r + 1 \in 0 .. c - 1
<1>5. r = 0 => (r - 1) % c = c - 1
  <2>1. r = 0 => r - 1 = (c - 1) - c
    BY <1>1
  <2>2. ((c - 1) - c) % c = (c - 1) % c /\ (c - 1) % c = c - 1
    BY ModShift, ModSmall, c - 1 \in Int, c - 1 \in 0 .. c - 1
  <2> QED
    BY <2>1, <2>2
<1>6. r # 0 => (r - 1) % c = r - 1
  BY <1>1, ModSmall, r # 0 => r - 1 \in 0 .. c - 1
<1> QED
  BY <1>2, <1>3, <1>4, <1>5, <1>6 DEF r

(***************************************************************************)
(* Positions of the index, in a ring.                                      *)
(***************************************************************************)

\* i places after `place`, and how many places p is after it
At(c, place, i) == (place + i) % c
Off(c, place, p) == (p - place) % c

\* the places next to p
Fwd(c, p) == IF p = c - 1 THEN 0 ELSE p + 1
Back(c, p) == IF p = 0 THEN c - 1 ELSE p - 1

\* Both are inverse to each other.
LEMMA RingInverse ==
    ASSUME NEW c \in Nat \ {0}, NEW place \in Int
    PROVE  /\ \A p \in 0 .. c - 1 : Off(c, place, p) \in 0 .. c - 1 /\ At(c, place, Off(c, place, p)) = p
           /\ \A i \in 0 .. c - 1 : At(c, place, i) \in 0 .. c - 1 /\ Off(c, place, At(c, place, i)) = i
<1>1. ASSUME NEW p \in 0 .. c - 1
      PROVE  Off(c, place, p) \in 0 .. c - 1 /\ At(c, place, Off(c, place, p)) = p
  <2>1. p - place \in Int /\ p \in Int
    OBVIOUS
  <2>2. (p - place) % c \in 0 .. c - 1
    BY <2>1, DivMod
  <2>3. (place + ((p - place) % c)) % c = ((p - place) + place) % c
    BY <2>1, ModSum
  <2>4. (p - place) + place = p /\ p % c = p
    BY ModSmall
  <2> QED
    BY <2>2, <2>3, <2>4 DEF At, Off
<1>2. ASSUME NEW i \in 0 .. c - 1
      PROVE  At(c, place, i) \in 0 .. c - 1 /\ Off(c, place, At(c, place, i)) = i
  <2>1. place + i \in Int /\ i \in Int
    OBVIOUS
  <2>2. (place + i) % c \in 0 .. c - 1
    BY <2>1, DivMod
  <2>3. (((place + i) % c) - place) % c = ((place + i) - place) % c
    BY <2>1, ModSum
  <2>4. (place + i) - place = i /\ i % c = i
    BY ModSmall
  <2> QED
    BY <2>2, <2>3, <2>4 DEF At, Off
<1> QED
  BY <1>1, <1>2

\* A step along the ring.
LEMMA RingStep ==
    ASSUME NEW c \in Nat \ {0}, NEW place \in Int, NEW i \in Int
    PROVE  /\ At(c, place, i + 1) = Fwd(c, At(c, place, i))
           /\ At(c, place, i - 1) = Back(c, At(c, place, i))
<1>1. /\ place + i \in Int /\ place + (i + 1) = (place + i) + 1
      /\ place + (i - 1) = (place + i) - 1
  OBVIOUS
<1> DEFINE a == place + i
<1>2. a \in Int /\ place + (i + 1) = a + 1 /\ place + (i - 1) = a - 1
  BY <1>1
<1> HIDE DEF a
<1>3. (a + 1) % c = Fwd(c, a % c) /\ (a - 1) % c = Back(c, a % c)
  BY <1>2, ModStep DEF Fwd, Back
<1> QED
  BY <1>2, <1>3 DEF At, a

\* Walking along the ring.
LEMMA RingWalk ==
    ASSUME NEW c \in Nat \ {0}, NEW place \in 0 .. c - 1
    PROVE  /\ At(c, place, 0) = place /\ At(c, place, c) = place
           /\ \A i \in 0 .. c - 1 : At(c, place, i + 1) = Fwd(c, At(c, place, i))
           /\ \A i \in 1 .. c - 1 : Back(c, At(c, place, i)) = At(c, place, i - 1)
           /\ Back(c, place) = At(c, place, c - 1)
<1>1. place \in Int /\ place % c = place
  BY ModSmall
<1>2. At(c, place, 0) = place
  <2>1. place + 0 = place
    OBVIOUS
  <2> QED
    BY <1>1, <2>1 DEF At
<1>3. At(c, place, c) = place
  BY <1>1, ModShift DEF At
<1>4. ASSUME NEW i \in 0 .. c - 1
      PROVE  At(c, place, i + 1) = Fwd(c, At(c, place, i))
  <2>1. place + i \in Int /\ place + (i + 1) = (place + i) + 1
    OBVIOUS
  <2> QED
    BY <2>1, ModStep DEF At, Fwd
<1>5. ASSUME NEW i \in 1 .. c
      PROVE  Back(c, At(c, place, i)) = At(c, place, i - 1)
  <2>1. place + i \in Int /\ place + (i - 1) = (place + i) - 1
    OBVIOUS
  <2> QED
    BY <2>1, ModStep, ZenonT(30) DEF At, Back
<1>6. c \in 1 .. c /\ \A i \in 1 .. c - 1 : i \in 1 .. c
  OBVIOUS
<1> QED
  BY <1>2, <1>3, <1>4, <1>5, <1>6

\* The neighbours of a position of the ring.
LEMMA RingNext ==
    ASSUME NEW c \in Nat \ {0}, NEW p \in 0 .. c - 1
    PROVE  /\ Fwd(c, p) \in 0 .. c - 1 /\ Back(c, p) \in 0 .. c - 1
           /\ Back(c, Fwd(c, p)) = p /\ Fwd(c, Back(c, p)) = p
           /\ Fwd(c, p) = (p + 1) % c /\ Back(c, p) = (p - 1) % c
<1>1. p \in Int /\ p % c = p
  BY ModSmall
<1>2. Fwd(c, p) = (p + 1) % c /\ Back(c, p) = (p - 1) % c
  BY <1>1, ModStep, ZenonT(30) DEF Fwd, Back
<1>3. /\ Fwd(c, p) \in 0 .. c - 1 /\ Back(c, p) \in 0 .. c - 1
      /\ Back(c, Fwd(c, p)) = p /\ Fwd(c, Back(c, p)) = p
  BY DEF Fwd, Back
<1> QED
  BY <1>2, <1>3

\* The distance of a place from the desired one, and from the place before it.
LEMMA OffStep ==
    ASSUME NEW c \in Nat \ {0}, NEW h \in Int, NEW p \in 0 .. c - 1
    PROVE  /\ Off(c, h, p) \in 0 .. c - 1
           /\ Off(c, h, Fwd(c, p)) = Fwd(c, Off(c, h, p))
           /\ Off(c, h, Back(c, p)) = Back(c, Off(c, h, p))
<1>1. p - h \in Int /\ p + 1 \in Int /\ p - 1 \in Int
  OBVIOUS
<1>2. Off(c, h, p) \in 0 .. c - 1
  BY <1>1, DivMod DEF Off
<1>3. Off(c, h, Fwd(c, p)) = ((p + 1) - h) % c /\ Off(c, h, Back(c, p)) = ((p - 1) - h) % c
  <2>1. Fwd(c, p) = (p + 1) % c /\ Back(c, p) = (p - 1) % c
    BY RingNext
  <2>2. (((p + 1) % c) - h) % c = ((p + 1) - h) % c
    BY <1>1, ModSum
  <2>3. (((p - 1) % c) - h) % c = ((p - 1) - h) % c
    BY <1>1, ModSum
  <2> QED
    BY <2>1, <2>2, <2>3 DEF Off
<1>4. (p + 1) - h = (p - h) + 1 /\ (p - 1) - h = (p - h) - 1
  OBVIOUS
<1>5. /\ ((p - h) + 1) % c = Fwd(c, (p - h) % c)
      /\ ((p - h) - 1) % c = Back(c, (p - h) % c)
  BY <1>1, ModStep DEF Fwd, Back
<1> QED
  BY <1>2, <1>3, <1>4, <1>5 DEF Off

\* A set of natural numbers that is not empty has a least element.
LEMMA Least ==
    ASSUME NEW S \in SUBSET Nat, S # {}
    PROVE  \E k \in S : \A j \in S : k <= j
<1> DEFINE Less == {p \in Nat \X Nat : p[1] < p[2]}
<1>1. \A n, m \in Nat : <<n, m>> \in Less <=> n < m
  OBVIOUS
<1>2. OpToRel(<, Nat) = Less
  BY DEF OpToRel
<1> HIDE DEF Less
<1>3. IsWellFoundedOn(Less, Nat)
  BY <1>2, NatLessThanWellFounded
<1>4. PICK x \in S : \A y \in S : ~(<<y, x>> \in Less)
  BY <1>3, WFMin
<1>5. ASSUME NEW y \in S
      PROVE  x <= y
  <2>1. x \in Nat /\ y \in Nat
    OBVIOUS
  <2>2. ~(y < x)
    BY <1>1, <1>4, <2>1
  <2> QED
    BY <2>1, <2>2
<1> QED
  BY <1>5

\* The minimum of a set of natural numbers.
LEMMA MinFacts ==
    ASSUME NEW S \in SUBSET Nat, S # {}
    PROVE  Min(S) \in S /\ \A j \in S : Min(S) <= j
<1>1. \E k \in S : \A j \in S : k <= j
  BY Least
<1> QED
  BY <1>1, Zenon DEF Min

\* Induction on a set of numbers: S holds 0 and with a number the next one.
LEMMA UpTo ==
    ASSUME NEW n \in Nat, NEW S, 0 \in S, \A k \in 1 .. n : k - 1 \in S => k \in S
    PROVE  \A k \in 0 .. n : k \in S
<1> DEFINE Bad == {k \in 0 .. n : k \notin S}
<1>1. SUFFICES ASSUME Bad # {} PROVE FALSE
  OBVIOUS
<1>2. Bad \in SUBSET Nat
  OBVIOUS
<1>3. PICK m \in Bad : \A j \in Bad : m <= j
  <2> HIDE DEF Bad
  <2> QED
    BY <1>1, <1>2, Least
<1>4. m \in 0 .. n /\ m \notin S /\ m # 0
  OBVIOUS
<1>5. m \in 1 .. n /\ m - 1 \in 0 .. n /\ ~(m <= m - 1)
  BY <1>4
<1>6. m - 1 \in S
  BY <1>3, <1>5
<1> QED
  BY <1>4, <1>5, <1>6

\* F gives the k-th value from the one before; g are the values from a.
Steps(F, n, T) == F \in [(1 .. n) \X T -> T]
Follows(g, n, T, a, F) ==
    g \in [0 .. n -> T] /\ g[0] = a /\ \A k \in 1 .. n : g[k] = F[<<k, g[k - 1]>>]

\* A recursive function on 0 .. n exists.
LEMMA Recursion ==
    ASSUME NEW n, NEW T, NEW a, NEW F, n \in Nat, a \in T, Steps(F, n, T)
    PROVE  \E g : Follows(g, n, T, a, F)
<1> USE DEF Steps
<1> DEFINE Good(m) == \E g \in [0 .. m -> T] : g[0] = a /\ \A k \in 1 .. m : g[k] = F[<<k, g[k - 1]>>]
           S == {m \in Nat : Good(m)}
<1>1. Good(0)
  <2> DEFINE g == [k \in 0 .. 0 |-> a]
  <2>1. g \in [0 .. 0 -> T] /\ g[0] = a /\ \A k \in 1 .. 0 : g[k] = F[<<k, g[k - 1]>>]
    OBVIOUS
  <2> HIDE DEF g
  <2> QED
    BY <2>1
<1>2. ASSUME NEW m \in 1 .. n, Good(m - 1)
      PROVE  Good(m)
  <2>1. PICK g \in [0 .. m - 1 -> T] : g[0] = a /\ \A k \in 1 .. m - 1 : g[k] = F[<<k, g[k - 1]>>]
    BY <1>2
  <2> DEFINE h == [k \in 0 .. m |-> IF k = m THEN F[<<m, g[m - 1]>>] ELSE g[k]]
  <2>2. g[m - 1] \in T /\ <<m, g[m - 1]>> \in (1 .. n) \X T
    OBVIOUS
  <2>3. F[<<m, g[m - 1]>>] \in T
    BY <2>2
  <2>4. h \in [0 .. m -> T]
    BY <2>3
  <2>5. h[0] = a
    BY <2>1
  <2>6. ASSUME NEW k \in 1 .. m
        PROVE  h[k] = F[<<k, h[k - 1]>>]
    <3>1. k - 1 \in 0 .. m /\ k - 1 # m
      OBVIOUS
    <3>2. h[k - 1] = g[k - 1]
      BY <3>1
    <3>3. CASE k = m
      <4>1. h[m] = F[<<m, g[m - 1]>>]
        OBVIOUS
      <4> QED
        BY <3>2, <3>3, <4>1
    <3>4. CASE k # m
      <4>1. k \in 1 .. m - 1
        BY <3>4
      <4> QED
        BY <2>1, <3>2, <4>1
    <3> QED
      BY <3>3, <3>4
  <2> HIDE DEF h
  <2> QED
    BY <2>4, <2>5, <2>6
<1> HIDE DEF Good
<1>3. 0 \in S /\ \A k \in 1 .. n : k - 1 \in S => k \in S
  BY <1>1, <1>2
<1>4. n \in S
  <2>1. n \in 0 .. n
    OBVIOUS
  <2> HIDE DEF S
  <2> QED
    BY <1>3, <2>1, UpTo
<1> QED
  BY <1>4 DEF Good, Follows

(***************************************************************************)
(* The index by itself: positions ix of a ring of c places.                *)
(***************************************************************************)

Pos == [index : 0 .. Width - 1, hash : Nat]
Indices(c) == [0 .. c - 1 -> Pos \union {None}]

\* probe_distance() of the entry at p
Dist(ix, c, p) == Off(c, ix[p].hash, p)

\* an entry that is not at its own place has one before it that is at least
\* as far from its own, up to one step
Local(ix, c) ==
    \A p \in 0 .. c - 1 :
        ix[p] # None /\ Dist(ix, c, p) # 0 =>
            ix[Back(c, p)] # None /\ Dist(ix, c, Back(c, p)) >= Dist(ix, c, p) - 1

HasFree(ix, c) == \E p \in 0 .. c - 1 : ix[p] = None

Entries(ix, c) == {ix[p] : p \in {q \in 0 .. c - 1 : ix[q] # None}}

Distinct(ix, c) ==
    \A p, q \in 0 .. c - 1 :
        ix[p] # None /\ ix[q] # None /\ ix[p].index = ix[q].index => p = q

\* Dist() is a distance within the ring.
LEMMA DistType ==
    ASSUME NEW c \in Nat \ {0}, NEW ix \in Indices(c), NEW p \in 0 .. c - 1, ix[p] # None
    PROVE  ix[p] \in Pos /\ ix[p].hash \in Int /\ Dist(ix, c, p) \in 0 .. c - 1
<1>1. ix[p] \in Pos
  BY DEF Indices
<1>2. ix[p].hash \in Int
  BY <1>1 DEF Pos
<1> QED
  BY <1>1, <1>2, OffStep DEF Dist

\* From its desired place on to its place an entry passes only entries that
\* are as far from theirs.
LEMMA LocalReach ==
    ASSUME NEW c \in Nat \ {0}, NEW ix \in Indices(c), Local(ix, c),
           NEW p \in 0 .. c - 1, ix[p] # None, NEW k \in 0 .. Dist(ix, c, p)
    PROVE  LET q == At(c, ix[p].hash, k)
           IN  q \in 0 .. c - 1 /\ ix[q] # None /\ Dist(ix, c, q) >= k
<1> DEFINE h == ix[p].hash
           d == Dist(ix, c, p)
           S == {j \in 0 .. d : LET q == At(c, h, d - j)
                                IN  q \in 0 .. c - 1 /\ ix[q] # None /\ Dist(ix, c, q) >= d - j}
<1>1. h \in Int /\ d \in 0 .. c - 1
  BY DistType
<1>2. 0 \in S
  <2>1. At(c, h, d) = p
    BY <1>1, RingInverse DEF Dist
  <2>2. d - 0 = d /\ d >= d /\ 0 \in 0 .. d
    BY <1>1
  <2> QED
    BY <2>1, <2>2
<1>3. ASSUME NEW j \in 1 .. d, j - 1 \in S
      PROVE  j \in S
  <2> DEFINE q == At(c, h, d - (j - 1))
             b == At(c, h, d - j)
  <2>1. q \in 0 .. c - 1 /\ ix[q] # None /\ Dist(ix, c, q) >= d - (j - 1)
    BY <1>3
  <2>2. b = Back(c, q)
    <3>1. d - (j - 1) \in Int /\ (d - (j - 1)) - 1 = d - j
      BY <1>1
    <3> QED
      BY <1>1, <3>1, RingStep
  <2> HIDE DEF q, b
  <2>3. b \in 0 .. c - 1
    BY <2>1, <2>2, RingNext
  <2>4. Dist(ix, c, q) \in 0 .. c - 1
    BY <2>1, DistType
  <2>5. Dist(ix, c, q) # 0 /\ Dist(ix, c, q) - 1 >= d - j
    BY <1>1, <2>1, <2>4
  <2>6. ix[b] # None /\ Dist(ix, c, b) >= Dist(ix, c, q) - 1
    BY <2>1, <2>2, <2>5 DEF Local
  <2>7. Dist(ix, c, b) \in 0 .. c - 1
    BY <2>3, <2>6, DistType
  <2>8. Dist(ix, c, b) >= d - j /\ j \in 0 .. d
    BY <1>1, <2>4, <2>5, <2>6, <2>7
  <2> QED
    BY <2>3, <2>6, <2>8 DEF b
<1> HIDE DEF S
<1>4. \A j \in 0 .. d : j \in S
  BY <1>1, <1>2, <1>3, UpTo
<1>5. d - k \in 0 .. d /\ d - (d - k) = k
  BY <1>1
<1> QED
  BY <1>4, <1>5 DEF S

\* While a place is free no entry is as far from its own place as can be.
LEMMA NotFarthest ==
    ASSUME NEW c \in Nat \ {0}, NEW ix \in Indices(c), Local(ix, c), HasFree(ix, c),
           NEW p \in 0 .. c - 1, ix[p] # None
    PROVE  Dist(ix, c, p) # c - 1
<1>1. PICK f \in 0 .. c - 1 : ix[f] = None
  BY DEF HasFree
<1>2. ix[p].hash \in Int
  BY DistType
<1> DEFINE k == Off(c, ix[p].hash, f)
<1>3. k \in 0 .. c - 1 /\ At(c, ix[p].hash, k) = f
  BY <1>2, RingInverse
<1> HIDE DEF k
<1>4. ASSUME Dist(ix, c, p) = c - 1 PROVE FALSE
  <2>1. k \in 0 .. Dist(ix, c, p)
    BY <1>3, <1>4
  <2> QED
    BY <1>1, <1>3, <2>1, LocalReach
<1> QED
  BY <1>4

\* An entry one place further, or one place nearer.
LEMMA DistStep ==
    ASSUME NEW c \in Nat \ {0}, NEW h \in Int, NEW p \in 0 .. c - 1
    PROVE  /\ Off(c, h, p) # c - 1 => Off(c, h, Fwd(c, p)) = Off(c, h, p) + 1
           /\ Off(c, h, p) # 0 => Off(c, h, Back(c, p)) = Off(c, h, p) - 1
BY OffStep, ZenonT(30) DEF Fwd, Back

\* remove_phase_two() on positions
MovedBack(ix, c, place) ==
    Min({i \in 0 .. c - 1 : \/ ix[At(c, place, i + 1)] = None
                            \/ Dist(ix, c, At(c, place, i + 1)) = 0})

Removed(ix, c, place) ==
    [p \in 0 .. c - 1 |->
        IF Off(c, place, p) < MovedBack(ix, c, place) THEN ix[At(c, place, Off(c, place, p) + 1)]
        ELSE IF Off(c, place, p) = MovedBack(ix, c, place) THEN None ELSE ix[p]]

\* An entry is taken out and the displaced ones behind it move back: what is
\* left is there once each, at most as far from its own place as what was
\* there before, and all of it can be found.
LEMMA RemovedFacts ==
    ASSUME NEW c \in Nat \ {0}, NEW ix \in Indices(c), Local(ix, c), Distinct(ix, c),
           HasFree(ix, c), NEW place \in 0 .. c - 1, ix[place] # None,
           NEW r, r = Removed([ix EXCEPT ![place] = None], c, place)
    PROVE  /\ r \in Indices(c) /\ Local(r, c) /\ Distinct(r, c)
           /\ Entries(r, c) = Entries(ix, c) \ {ix[place]}
           /\ \A p \in 0 .. c - 1 :
                 r[p] # None => ix[p] # None /\ Dist(r, c, p) <= Dist(ix, c, p)
<1> DEFINE ix0 == [ix EXCEPT ![place] = None]
           m == MovedBack(ix0, c, place)
           A(i) == At(c, place, i)
           O(p) == Off(c, place, p)
           Ends == {i \in 0 .. c - 1 : ix0[A(i + 1)] = None \/ Dist(ix0, c, A(i + 1)) = 0}
<1>1. /\ \A p \in 0 .. c - 1 : O(p) \in 0 .. c - 1 /\ A(O(p)) = p
      /\ \A i \in 0 .. c - 1 : A(i) \in 0 .. c - 1 /\ O(A(i)) = i
  BY RingInverse
<1>2. /\ A(0) = place /\ A(c) = place /\ Back(c, place) = A(c - 1)
      /\ \A i \in 1 .. c - 1 : Back(c, A(i)) = A(i - 1)
  BY RingWalk
<1>3. \A i \in 1 .. c - 1 : A(i) # place
  <2>1. O(place) = 0
    BY <1>1, <1>2
  <2>2. \A i \in 1 .. c - 1 : O(A(i)) = i /\ i # 0
    BY <1>1
  <2> QED
    BY <2>1, <2>2
<1>4. \A i \in 1 .. c - 1 : ix0[A(i)] = ix[A(i)] /\ Dist(ix0, c, A(i)) = Dist(ix, c, A(i))
  <2>1. \A p \in 0 .. c - 1 : p # place => ix0[p] = ix[p]
    BY DEF Indices
  <2>2. \A i \in 1 .. c - 1 : A(i) \in 0 .. c - 1
    BY <1>1
  <2> QED
    BY <1>3, <2>1, <2>2 DEF Dist
<1>5. PICK f \in 1 .. c - 1 : ix[A(f)] = None
  <2>1. PICK p \in 0 .. c - 1 : ix[p] = None
    BY DEF HasFree
  <2>2. O(p) \in 0 .. c - 1 /\ A(O(p)) = p /\ O(p) # 0
    BY <1>1, <1>2, <2>1
  <2> QED
    BY <2>1, <2>2
<1> HIDE DEF ix0
<1>6. /\ m \in 0 .. c - 2
      /\ ix[A(m + 1)] = None \/ Dist(ix, c, A(m + 1)) = 0
      /\ \A i \in 1 .. m : ix[A(i)] # None /\ Dist(ix, c, A(i)) # 0
  <2>1. f - 1 \in 0 .. c - 1 /\ (f - 1) + 1 = f
    OBVIOUS
  <2>2. f - 1 \in Ends
    BY <1>4, <1>5, <2>1
  <2>3. Ends \in SUBSET Nat /\ Ends # {}
    BY <2>2
  <2>4. m = Min(Ends)
    BY DEF MovedBack
  <2>5. m \in Ends /\ \A j \in Ends : m <= j
    <3> HIDE DEF Ends, m
    <3> QED
      BY <2>3, <2>4, MinFacts
  <2>6. m \in 0 .. c - 2
    <3>1. m \in 0 .. c - 1 /\ m <= f - 1
      BY <2>2, <2>5
    <3> HIDE DEF m
    <3> QED
      BY <3>1
  <2>7. m + 1 \in 1 .. c - 1
    <3> HIDE DEF m
    <3> QED
      BY <2>6
  <2>8. ix[A(m + 1)] = None \/ Dist(ix, c, A(m + 1)) = 0
    BY <1>4, <2>5, <2>7
  <2>9. ASSUME NEW i \in 1 .. m
        PROVE  ix[A(i)] # None /\ Dist(ix, c, A(i)) # 0
    <3> HIDE DEF m, Ends
    <3>1. i - 1 \in 0 .. c - 1 /\ ~(m <= i - 1) /\ (i - 1) + 1 = i /\ i \in 1 .. c - 1
      BY <2>6
    <3>2. i - 1 \notin Ends
      BY <2>5, <3>1
    <3>3. ix0[A(i)] # None /\ Dist(ix0, c, A(i)) # 0
      BY <3>1, <3>2 DEF Ends
    <3> QED
      BY <1>4, <3>1, <3>3
  <2> QED
    BY <2>6, <2>8, <2>9
<1>7. \A i \in 0 .. c - 1 :
         r[A(i)] = IF i < m THEN ix[A(i + 1)] ELSE IF i = m THEN None ELSE ix[A(i)]
  <2>1. ASSUME NEW i \in 0 .. c - 1
        PROVE  r[A(i)] = IF i < m THEN ix0[A(i + 1)] ELSE IF i = m THEN None ELSE ix0[A(i)]
    <3>1. A(i) \in 0 .. c - 1 /\ O(A(i)) = i
      BY <1>1
    <3>2. r = Removed(ix0, c, place)
      BY DEF ix0
    <3> QED
      BY <3>1, <3>2 DEF Removed
  <2>2. ASSUME NEW i \in 0 .. c - 1
        PROVE  /\ i < m => i + 1 \in 1 .. c - 1
               /\ i > m => i \in 1 .. c - 1
    <3> HIDE DEF m
    <3> QED
      BY <1>6
  <2>3. m \in Int
    BY <1>6
  <2> HIDE DEF m
  <2>4. ASSUME NEW i \in 0 .. c - 1
        PROVE  /\ i < m => ix0[A(i + 1)] = ix[A(i + 1)]
               /\ i > m => ix0[A(i)] = ix[A(i)]
    BY <1>4, <2>2
  <2> HIDE DEF A
  <2>5. ASSUME NEW i \in 0 .. c - 1
        PROVE  r[A(i)] = IF i < m THEN ix[A(i + 1)] ELSE IF i = m THEN None ELSE ix[A(i)]
    <3>1. CASE i < m
      BY <2>1, <2>4, <3>1
    <3>2. CASE i = m
      <4>1. ~(i < m)
        BY <2>3, <3>2
      <4>2. r[A(i)] = None
        BY <2>1, <3>2, <4>1, Zenon
      <4> QED
        BY <3>2, <4>1, <4>2, Zenon
    <3>3. CASE i > m
      BY <2>1, <2>3, <2>4, <3>3
    <3> QED
      BY <2>3, <3>1, <3>2, <3>3
  <2> QED
    BY <2>5
<1>8. r = [p \in 0 .. c - 1 |-> r[p]]
  BY DEF Removed
<1> HIDE DEF m, Ends
<1>9. r \in Indices(c)
  <2>1. ASSUME NEW p \in 0 .. c - 1
        PROVE  r[p] \in Pos \union {None}
    <3>1. PICK i \in 0 .. c - 1 : A(i) = p
      BY <1>1
    <3>2. i < m => i + 1 \in 0 .. c - 1
      BY <1>6
    <3>3. i < m => A(i + 1) \in 0 .. c - 1
      BY <1>1, <3>2
    <3> HIDE DEF A
    <3> QED
      BY <1>7, <3>1, <3>3 DEF Indices
  <2> QED
    BY <1>8, <2>1 DEF Indices
\* where the entries come from
<1>10. \A i \in 0 .. m - 1 :
          /\ r[A(i)] = ix[A(i + 1)] /\ r[A(i)] # None /\ ix[A(i)] # None
          /\ Dist(r, c, A(i)) = Dist(ix, c, A(i + 1)) - 1
          /\ Dist(r, c, A(i)) <= Dist(ix, c, A(i))
  <2> SUFFICES ASSUME NEW i \in 0 .. m - 1
               PROVE  /\ r[A(i)] = ix[A(i + 1)] /\ r[A(i)] # None /\ ix[A(i)] # None
                      /\ Dist(r, c, A(i)) = Dist(ix, c, A(i + 1)) - 1
                      /\ Dist(r, c, A(i)) <= Dist(ix, c, A(i))
    OBVIOUS
  <2>1. /\ i \in 0 .. c - 1 /\ i < m /\ i + 1 \in 1 .. m /\ i + 1 \in 1 .. c - 1
        /\ (i + 1) - 1 = i /\ i + 1 \in 0 .. c - 1
    BY <1>6
  <2>2. ix[A(i + 1)] # None /\ Dist(ix, c, A(i + 1)) # 0
    BY <1>6, <2>1
  <2>3. A(i) = Back(c, A(i + 1)) /\ A(i + 1) \in 0 .. c - 1 /\ A(i) \in 0 .. c - 1
    BY <1>1, <1>2, <2>1
  <2>4. r[A(i)] = ix[A(i + 1)]
    BY <1>7, <2>1
  <2> HIDE DEF A
  <2>5. ix[A(i + 1)].hash \in Int /\ Dist(ix, c, A(i + 1)) \in 0 .. c - 1
    BY <2>2, <2>3, DistType
  <2>6. Dist(r, c, A(i)) = Dist(ix, c, A(i + 1)) - 1
    BY <2>2, <2>3, <2>4, <2>5, DistStep DEF Dist
  <2>7. ix[A(i)] # None /\ Dist(ix, c, A(i)) >= Dist(ix, c, A(i + 1)) - 1
    BY <2>2, <2>3 DEF Local
  <2>8. Dist(ix, c, A(i)) \in Int
    BY <2>3, <2>7, DistType
  <2> QED
    BY <2>2, <2>4, <2>5, <2>6, <2>7, <2>8
<1>11. \A i \in m + 1 .. c - 1 : r[A(i)] = ix[A(i)] /\ Dist(r, c, A(i)) = Dist(ix, c, A(i))
  <2>1. ASSUME NEW i \in m + 1 .. c - 1
        PROVE  r[A(i)] = ix[A(i)]
    <3>1. i \in 0 .. c - 1 /\ ~(i < m) /\ i # m
      BY <1>6
    <3> QED
      BY <1>7, <3>1
  <2> QED
    BY <2>1 DEF Dist
<1>12. r[A(m)] = None
  <2>1. m \in 0 .. c - 1 /\ ~(m < m)
    BY <1>6
  <2> QED
    BY <1>7, <2>1
<1>13. Local(r, c)
  <2> SUFFICES ASSUME NEW p \in 0 .. c - 1, r[p] # None, Dist(r, c, p) # 0
               PROVE  r[Back(c, p)] # None /\ Dist(r, c, Back(c, p)) >= Dist(r, c, p) - 1
    BY DEF Local
  <2>1. PICK i \in 0 .. c - 1 : A(i) = p
    BY <1>1
  <2>2. i # m
    BY <1>12, <2>1
  <2>3. CASE i < m /\ i = 0
    <3>1. i \in 0 .. m - 1 /\ 1 \in 1 .. c - 1 /\ 1 - 1 = 0 /\ 0 + 1 = 1
      BY <1>6, <2>3
    <3>2. A(1) \in 0 .. c - 1 /\ Back(c, A(1)) = place /\ ix[A(1)] # None
      BY <1>1, <1>2, <1>6, <2>3, <3>1
    <3>3. Dist(r, c, p) = Dist(ix, c, A(1)) - 1
      BY <1>10, <2>1, <2>3, <3>1
    <3>4. Dist(ix, c, A(1)) \in 0 .. c - 1 /\ Dist(ix, c, place) \in 0 .. c - 1
      BY <3>2, DistType
    <3>5. Dist(ix, c, place) >= Dist(ix, c, A(1)) - 1
      BY <3>2, <3>3, <3>4 DEF Local
    <3>6. Dist(ix, c, place) # 0
      <4>1. Dist(ix, c, A(1)) # 0
        BY <1>6, <2>3
      <4> HIDE DEF A
      <4> QED
        BY <3>3, <3>4, <3>5, <4>1
    <3>7. ix[Back(c, place)] # None /\ Dist(ix, c, Back(c, place)) >= Dist(ix, c, place) - 1
      BY <3>6 DEF Local
    <3>8. c - 1 \in m + 1 .. c - 1
      BY <1>6
    <3>9. r[Back(c, place)] = ix[Back(c, place)] /\ Dist(r, c, Back(c, place)) = Dist(ix, c, Back(c, place))
      BY <1>2, <1>11, <3>8
    <3>10. p = place
      BY <1>2, <2>1, <2>3
    <3>11. Dist(ix, c, Back(c, place)) \in Int
      BY <3>7, RingNext, DistType
    <3> QED
      BY <3>3, <3>4, <3>5, <3>7, <3>9, <3>10, <3>11
  <2>4. CASE i < m /\ i # 0
    <3>1. i \in 0 .. m - 1 /\ i - 1 \in 0 .. m - 1 /\ (i - 1) + 1 = i /\ i \in 1 .. c - 1
          /\ i + 1 \in 1 .. c - 1 /\ (i + 1) - 1 = i /\ i + 1 \in 1 .. m /\ i + 1 \in 0 .. c - 1
      BY <1>6, <2>4
    <3>2. Back(c, p) = A(i - 1) /\ Back(c, A(i + 1)) = A(i)
      BY <1>2, <2>1, <3>1
    <3>3. Dist(r, c, p) = Dist(ix, c, A(i + 1)) - 1
      BY <1>10, <2>1, <3>1
    <3>4. r[A(i - 1)] # None /\ Dist(r, c, A(i - 1)) = Dist(ix, c, A(i)) - 1
      BY <1>10, <3>1
    <3>5. ix[A(i + 1)] # None /\ Dist(ix, c, A(i + 1)) # 0 /\ A(i + 1) \in 0 .. c - 1
      BY <1>1, <1>6, <3>1
    <3>6. ix[A(i)] # None /\ Dist(ix, c, A(i)) >= Dist(ix, c, A(i + 1)) - 1
      BY <3>2, <3>5 DEF Local
    <3>7. Dist(ix, c, A(i)) \in Int /\ Dist(ix, c, A(i + 1)) \in Int
      BY <2>1, <3>5, <3>6, DistType
    <3> QED
      BY <3>2, <3>3, <3>4, <3>6, <3>7
  <2>5. CASE i > m
    <3>1. i \in m + 1 .. c - 1 /\ i \in 1 .. c - 1
      BY <1>6, <2>5
    <3>2. ix[p] # None /\ Dist(ix, c, p) # 0 /\ Dist(r, c, p) = Dist(ix, c, p)
      BY <1>11, <2>1, <3>1
    <3>3. i # m + 1
      BY <1>6, <2>1, <3>2
    <3>4. i - 1 \in m + 1 .. c - 1
      BY <1>6, <3>1, <3>3
    <3>5. Back(c, p) = A(i - 1)
      BY <1>2, <2>1, <3>1
    <3>6. ix[Back(c, p)] # None /\ Dist(ix, c, Back(c, p)) >= Dist(ix, c, p) - 1
      BY <3>2 DEF Local
    <3> QED
      BY <1>11, <3>2, <3>4, <3>5, <3>6
  <2> QED
    BY <1>6, <2>2, <2>3, <2>4, <2>5
<1>14. \A p \in 0 .. c - 1 : r[p] # None => ix[p] # None /\ Dist(r, c, p) <= Dist(ix, c, p)
  <2> SUFFICES ASSUME NEW p \in 0 .. c - 1, r[p] # None
               PROVE  ix[p] # None /\ Dist(r, c, p) <= Dist(ix, c, p)
    OBVIOUS
  <2>1. PICK i \in 0 .. c - 1 : A(i) = p
    BY <1>1
  <2>2. i # m
    BY <1>12, <2>1
  <2>3. CASE i \in 0 .. m - 1
    BY <1>10, <2>1, <2>3
  <2>4. CASE i \in m + 1 .. c - 1
    <3>1. r[p] = ix[p] /\ Dist(r, c, p) = Dist(ix, c, p)
      BY <1>11, <2>1, <2>4
    <3>2. Dist(ix, c, p) \in Int
      BY <3>1, DistType
    <3> QED
      BY <3>1, <3>2
  <2> QED
    BY <1>6, <2>2, <2>3, <2>4
\* the place an entry was at
<1> DEFINE From(i) == IF i < m THEN i + 1 ELSE i
<1>15. \A i \in 0 .. c - 1 : i # m => From(i) \in 1 .. c - 1 /\ r[A(i)] = ix[A(From(i))]
  <2>1. \A i \in 0 .. c - 1 : i # m => From(i) \in 1 .. c - 1
    BY <1>6
  <2> QED
    BY <1>6, <1>7, <2>1
<1>16. Distinct(r, c)
  <2> SUFFICES ASSUME NEW p \in 0 .. c - 1, NEW q \in 0 .. c - 1,
                      r[p] # None, r[q] # None, r[p].index = r[q].index
               PROVE  p = q
    BY DEF Distinct
  <2>1. PICK i \in 0 .. c - 1 : A(i) = p
    BY <1>1
  <2>2. PICK j \in 0 .. c - 1 : A(j) = q
    BY <1>1
  <2>3. i # m /\ j # m
    BY <1>12, <2>1, <2>2
  <2>4. /\ From(i) \in 1 .. c - 1 /\ r[p] = ix[A(From(i))]
        /\ From(j) \in 1 .. c - 1 /\ r[q] = ix[A(From(j))]
    BY <1>15, <2>1, <2>2, <2>3
  <2>5. From(i) \in 0 .. c - 1 /\ From(j) \in 0 .. c - 1
    BY <2>4
  <2>6. A(From(i)) \in 0 .. c - 1 /\ A(From(j)) \in 0 .. c - 1
        /\ O(A(From(i))) = From(i) /\ O(A(From(j))) = From(j)
    BY <1>1, <2>5
  <2>7. A(From(i)) = A(From(j))
    BY <2>4, <2>6 DEF Distinct
  <2>8. From(i) = From(j)
    BY <2>6, <2>7
  <2>9. i = j
    BY <1>6, <2>3, <2>8
  <2> QED
    BY <2>1, <2>2, <2>9
<1>17. Entries(r, c) = Entries(ix, c) \ {ix[place]}
  <2>1. ASSUME NEW e \in Entries(r, c)
        PROVE  e \in Entries(ix, c) /\ e # ix[place]
    <3>1. PICK p \in 0 .. c - 1 : r[p] # None /\ r[p] = e
      BY DEF Entries
    <3>2. PICK i \in 0 .. c - 1 : A(i) = p
      BY <1>1
    <3>3. i # m
      BY <1>12, <3>1, <3>2
    <3>4. From(i) \in 1 .. c - 1 /\ e = ix[A(From(i))]
      BY <1>15, <3>1, <3>2, <3>3
    <3>5. A(From(i)) \in 0 .. c - 1 /\ A(From(i)) # place
      BY <1>1, <1>3, <3>4
    <3>6. ix[A(From(i))] # ix[place]
      BY <3>1, <3>4, <3>5 DEF Distinct
    <3> QED
      BY <3>1, <3>4, <3>5, <3>6 DEF Entries
  <2>2. ASSUME NEW e \in Entries(ix, c), e # ix[place]
        PROVE  e \in Entries(r, c)
    <3>1. PICK p \in 0 .. c - 1 : ix[p] # None /\ ix[p] = e
      BY DEF Entries
    <3>2. PICK i \in 0 .. c - 1 : A(i) = p
      BY <1>1
    <3>3. (i # 0 /\ i # m + 1) \/ i = m + 1
      BY <1>2, <2>2, <3>1, <3>2
    <3> DEFINE j == IF i \in 1 .. m THEN i - 1 ELSE i
    <3>4. i # 0
      BY <1>2, <2>2, <3>1, <3>2
    <3>5. j \in 0 .. c - 1 /\ j # m /\ From(j) = i
      BY <1>6, <3>4
    <3> HIDE DEF j
    <3>6. r[A(j)] = e /\ A(j) \in 0 .. c - 1
      BY <1>1, <1>15, <3>1, <3>2, <3>5
    <3> QED
      BY <3>1, <3>6 DEF Entries
  <2> QED
    BY <2>1, <2>2
<1> QED
  BY <1>9, <1>13, <1>14, <1>16, <1>17

\* the shift of index_vacant() on positions
Run(ix, c, place) == Min({i \in 0 .. c - 1 : ix[At(c, place, i)] = None})

Placed(ix, c, place, e) ==
    [p \in 0 .. c - 1 |->
        IF Off(c, place, p) = 0 THEN e
        ELSE IF Off(c, place, p) <= Run(ix, c, place) THEN ix[At(c, place, Off(c, place, p) - 1)]
        ELSE ix[p]]

\* A new entry takes the place of one that is nearer to its own, and those
\* from there on move by one: it is there, the others still are, and all can
\* be found.
LEMMA PlacedFacts ==
    ASSUME NEW c \in Nat \ {0}, NEW ix \in Indices(c), Local(ix, c), Distinct(ix, c),
           HasFree(ix, c), NEW e \in Pos, NEW d \in 0 .. c - 1,
           NEW place, place = At(c, e.hash, d),
           ix[place] = None \/ Dist(ix, c, place) <= d,
           d # 0 => ix[Back(c, place)] # None /\ Dist(ix, c, Back(c, place)) >= d - 1,
           \A x \in Entries(ix, c) : x.index # e.index,
           None \notin Pos,
           NEW r, r = Placed(ix, c, place, e)
    PROVE  /\ r \in Indices(c) /\ Local(r, c) /\ Distinct(r, c)
           /\ Entries(r, c) = Entries(ix, c) \union {e}
<1> DEFINE m == Run(ix, c, place)
           A(i) == At(c, place, i)
           O(p) == Off(c, place, p)
           Frees == {i \in 0 .. c - 1 : ix[A(i)] = None}
<1>1. e.hash \in Int /\ place \in 0 .. c - 1 /\ Off(c, e.hash, place) = d
  <2>1. e.hash \in Int
    BY DEF Pos
  <2> QED
    BY <2>1, RingInverse
<1>2. /\ \A p \in 0 .. c - 1 : O(p) \in 0 .. c - 1 /\ A(O(p)) = p
      /\ \A i \in 0 .. c - 1 : A(i) \in 0 .. c - 1 /\ O(A(i)) = i
  <2>1. place \in Int
    BY <1>1
  <2> QED
    BY <2>1, RingInverse
<1>3. /\ A(0) = place /\ Back(c, place) = A(c - 1)
      /\ \A i \in 1 .. c - 1 : Back(c, A(i)) = A(i - 1)
  BY <1>1, RingWalk
<1>4. /\ m \in 0 .. c - 1 /\ ix[A(m)] = None
      /\ \A i \in 0 .. m - 1 : ix[A(i)] # None
  <2>1. PICK p \in 0 .. c - 1 : ix[p] = None
    BY DEF HasFree
  <2>2. O(p) \in Frees
    BY <1>2, <2>1
  <2>3. Frees \in SUBSET Nat /\ Frees # {}
    BY <2>2
  <2>4. m = Min(Frees)
    BY DEF Run
  <2>5. m \in Frees /\ \A j \in Frees : m <= j
    <3> HIDE DEF Frees, m
    <3> QED
      BY <2>3, <2>4, MinFacts
  <2>6. m \in 0 .. c - 1 /\ ix[A(m)] = None
    BY <2>5
  <2>7. ASSUME NEW i \in 0 .. m - 1
        PROVE  ix[A(i)] # None
    <3> HIDE DEF m, Frees
    <3>1. i \in 0 .. c - 1 /\ ~(m <= i)
      BY <2>6
    <3>2. i \notin Frees
      BY <2>5, <3>1
    <3> QED
      BY <3>1, <3>2 DEF Frees
  <2> QED
    BY <2>6, <2>7
<1>5. \A i \in 0 .. c - 1 :
         r[A(i)] = IF i = 0 THEN e ELSE IF i <= m THEN ix[A(i - 1)] ELSE ix[A(i)]
  <2>1. ASSUME NEW i \in 0 .. c - 1
        PROVE  r[A(i)] = IF i = 0 THEN e ELSE IF i <= m THEN ix[A(i - 1)] ELSE ix[A(i)]
    <3>1. A(i) \in 0 .. c - 1 /\ O(A(i)) = i
      BY <1>2
    <3> QED
      BY <3>1 DEF Placed
  <2> QED
    BY <2>1
<1>6. r = [p \in 0 .. c - 1 |-> r[p]]
  BY DEF Placed
<1> HIDE DEF m, Frees
<1>7. r[place] = e /\ Dist(r, c, place) = d
  <2>1. 0 \in 0 .. c - 1
    OBVIOUS
  <2>2. r[place] = e
    BY <1>3, <1>5, <2>1
  <2> QED
    BY <1>1, <2>2 DEF Dist
<1>8. \A i \in 1 .. m :
         /\ r[A(i)] = ix[A(i - 1)] /\ r[A(i)] # None
         /\ Dist(ix, c, A(i - 1)) \in 0 .. c - 1
         /\ Dist(r, c, A(i)) = Dist(ix, c, A(i - 1)) + 1
  <2> SUFFICES ASSUME NEW i \in 1 .. m
               PROVE  /\ r[A(i)] = ix[A(i - 1)] /\ r[A(i)] # None
                      /\ Dist(ix, c, A(i - 1)) \in 0 .. c - 1
                      /\ Dist(r, c, A(i)) = Dist(ix, c, A(i - 1)) + 1
    OBVIOUS
  <2>1. /\ i \in 0 .. c - 1 /\ i # 0 /\ i <= m /\ i - 1 \in 0 .. m - 1 /\ i \in 1 .. c - 1
        /\ i - 1 \in 0 .. c - 1
    BY <1>4
  <2>2. r[A(i)] = ix[A(i - 1)]
    BY <1>5, <2>1
  <2>3. ix[A(i - 1)] # None
    BY <1>4, <2>1
  <2>4. Back(c, A(i)) = A(i - 1) /\ A(i) \in 0 .. c - 1 /\ A(i - 1) \in 0 .. c - 1
    BY <1>2, <1>3, <2>1
  <2> HIDE DEF A
  <2>5. Fwd(c, A(i - 1)) = A(i)
    BY <2>4, RingNext
  <2>6. Dist(ix, c, A(i - 1)) # c - 1
    BY <2>3, <2>4, NotFarthest
  <2>7. ix[A(i - 1)].hash \in Int /\ Dist(ix, c, A(i - 1)) \in 0 .. c - 1
    BY <2>3, <2>4, DistType
  <2>8. Dist(r, c, A(i)) = Dist(ix, c, A(i - 1)) + 1
    BY <2>2, <2>4, <2>5, <2>6, <2>7, DistStep DEF Dist
  <2> QED
    BY <2>2, <2>3, <2>7, <2>8
<1>9. \A i \in m + 1 .. c - 1 : r[A(i)] = ix[A(i)] /\ Dist(r, c, A(i)) = Dist(ix, c, A(i))
  <2>1. ASSUME NEW i \in m + 1 .. c - 1
        PROVE  r[A(i)] = ix[A(i)]
    <3>1. i \in 0 .. c - 1 /\ i # 0 /\ ~(i <= m)
      BY <1>4
    <3> QED
      BY <1>5, <3>1
  <2> QED
    BY <2>1 DEF Dist
<1>10. r \in Indices(c)
  <2>1. ASSUME NEW p \in 0 .. c - 1
        PROVE  r[p] \in Pos \union {None}
    <3>1. PICK i \in 0 .. c - 1 : A(i) = p
      BY <1>2
    <3>2. i # 0 => A(i - 1) \in 0 .. c - 1
      BY <1>2, i # 0 => i - 1 \in 0 .. c - 1
    <3> HIDE DEF A
    <3> QED
      BY <1>5, <3>1, <3>2 DEF Indices
  <2> QED
    BY <1>6, <2>1 DEF Indices
<1>11. Local(r, c)
  <2> SUFFICES ASSUME NEW p \in 0 .. c - 1, r[p] # None, Dist(r, c, p) # 0
               PROVE  r[Back(c, p)] # None /\ Dist(r, c, Back(c, p)) >= Dist(r, c, p) - 1
    BY DEF Local
  <2>1. PICK i \in 0 .. c - 1 : A(i) = p
    BY <1>2
  <2>2. CASE i = 0
    <3>1. p = place /\ d # 0
      BY <1>3, <1>7, <2>1, <2>2
    <3>2. ix[A(c - 1)] # None /\ Dist(ix, c, A(c - 1)) >= d - 1
      BY <1>3, <3>1
    <3>3. c - 1 \in m + 1 .. c - 1
      BY <1>4, <3>2
    <3>4. r[A(c - 1)] = ix[A(c - 1)] /\ Dist(r, c, A(c - 1)) = Dist(ix, c, A(c - 1))
      BY <1>9, <3>3
    <3> QED
      BY <1>3, <1>7, <3>1, <3>2, <3>4
  <2>3. CASE i # 0 /\ i = 1 /\ i <= m
    <3>1. 1 \in 1 .. m /\ 1 - 1 = 0 /\ 1 \in 1 .. c - 1
      BY <2>3
    <3>2. Back(c, p) = place
      BY <1>3, <2>1, <2>3, <3>1
    <3>3. Dist(r, c, p) = Dist(ix, c, place) + 1 /\ Dist(ix, c, place) \in 0 .. c - 1 /\ ix[place] # None
      BY <1>3, <1>8, <2>1, <2>3, <3>1
    <3>4. Dist(ix, c, place) <= d
      BY <3>3
    <3> QED
      BY <1>1, <1>7, <3>2, <3>3, <3>4
  <2>4. CASE i # 0 /\ i # 1 /\ i <= m
    <3>1. /\ i \in 1 .. m /\ i - 1 \in 1 .. m /\ i \in 1 .. c - 1 /\ i - 1 \in 1 .. c - 1
          /\ i - 1 \in 0 .. m - 1 /\ i - 1 \in 0 .. c - 1
      BY <1>4, <2>4
    <3>2. Back(c, p) = A(i - 1) /\ Back(c, A(i - 1)) = A((i - 1) - 1)
      BY <1>3, <2>1, <3>1
    <3>3. Dist(r, c, p) = Dist(ix, c, A(i - 1)) + 1 /\ Dist(ix, c, A(i - 1)) \in 0 .. c - 1
      BY <1>8, <2>1, <3>1
    <3>4. /\ r[A(i - 1)] # None /\ Dist(r, c, A(i - 1)) = Dist(ix, c, A((i - 1) - 1)) + 1
          /\ Dist(ix, c, A((i - 1) - 1)) \in 0 .. c - 1
      BY <1>8, <3>1
    <3>5. ix[A(i - 1)] # None /\ A(i - 1) \in 0 .. c - 1
      BY <1>2, <1>4, <3>1
    <3>6. Dist(ix, c, A(i - 1)) # 0 => Dist(ix, c, A((i - 1) - 1)) >= Dist(ix, c, A(i - 1)) - 1
      BY <3>2, <3>5 DEF Local
    <3> HIDE DEF A
    <3> QED
      BY <3>2, <3>3, <3>4, <3>6
  <2>5. CASE i = m + 1 /\ i # 0
    <3>1. i \in m + 1 .. c - 1 /\ i \in 1 .. c - 1 /\ i - 1 = m
      BY <1>4, <2>5
    <3>2. ix[p] # None /\ Dist(ix, c, p) # 0
      BY <1>9, <2>1, <3>1
    <3>3. ix[Back(c, p)] # None
      BY <3>2 DEF Local
    <3>4. Back(c, p) = A(m)
      BY <1>3, <2>1, <3>1
    <3> QED
      BY <1>4, <3>3, <3>4
  <2>6. CASE i > m + 1
    <3>1. i \in m + 1 .. c - 1 /\ i - 1 \in m + 1 .. c - 1 /\ i \in 1 .. c - 1
      BY <1>4, <2>6
    <3>2. ix[p] # None /\ Dist(ix, c, p) # 0 /\ Dist(r, c, p) = Dist(ix, c, p)
      BY <1>9, <2>1, <3>1
    <3>3. ix[Back(c, p)] # None /\ Dist(ix, c, Back(c, p)) >= Dist(ix, c, p) - 1
      BY <3>2 DEF Local
    <3>4. Back(c, p) = A(i - 1)
      BY <1>3, <2>1, <3>1
    <3> QED
      BY <1>9, <3>1, <3>2, <3>3, <3>4
  <2> QED
    BY <1>4, <2>2, <2>3, <2>4, <2>5, <2>6
\* the place an entry was at
<1> DEFINE From(i) == IF i <= m THEN i - 1 ELSE i
<1>12. /\ \A i \in 1 .. c - 1 : From(i) \in 0 .. c - 1 /\ From(i) # m /\ r[A(i)] = ix[A(From(i))]
  <2>1. \A i \in 1 .. c - 1 : From(i) \in 0 .. c - 1 /\ From(i) # m
    BY <1>4
  <2>2. \A i \in 1 .. c - 1 : i # 0 /\ i \in 0 .. c - 1
    OBVIOUS
  <2> QED
    BY <1>4, <1>5, <2>1, <2>2
<1>13. \A i \in 1 .. c - 1 : r[A(i)] # None => r[A(i)] \in Entries(ix, c)
  <2>1. \A i \in 1 .. c - 1 : A(From(i)) \in 0 .. c - 1
    BY <1>2, <1>12
  <2> QED
    BY <1>12, <2>1 DEF Entries
<1>14. Distinct(r, c)
  <2> SUFFICES ASSUME NEW p \in 0 .. c - 1, NEW q \in 0 .. c - 1,
                      r[p] # None, r[q] # None, r[p].index = r[q].index
               PROVE  p = q
    BY DEF Distinct
  <2>1. PICK i \in 0 .. c - 1 : A(i) = p
    BY <1>2
  <2>2. PICK j \in 0 .. c - 1 : A(j) = q
    BY <1>2
  <2>3. CASE i = 0
    <3>1. r[q] = e \/ r[q].index # e.index
      <4>1. CASE j = 0
        BY <1>3, <1>7, <2>2, <4>1
      <4>2. CASE j # 0
        BY <1>13, <2>2, <4>2
      <4> QED
        BY <4>1, <4>2
    <3>2. j = 0
      BY <1>3, <1>7, <1>13, <2>1, <2>2, <2>3
    <3> QED
      BY <2>1, <2>2, <2>3, <3>2
  <2>4. CASE i # 0 /\ j = 0
    BY <1>3, <1>7, <1>13, <2>1, <2>2, <2>4
  <2>5. CASE i # 0 /\ j # 0
    <3>1. i \in 1 .. c - 1 /\ j \in 1 .. c - 1
      BY <2>5
    <3>2. /\ From(i) \in 0 .. c - 1 /\ r[p] = ix[A(From(i))] /\ From(i) # m
          /\ From(j) \in 0 .. c - 1 /\ r[q] = ix[A(From(j))] /\ From(j) # m
      BY <1>12, <2>1, <2>2, <3>1
    <3>3. A(From(i)) \in 0 .. c - 1 /\ A(From(j)) \in 0 .. c - 1
          /\ O(A(From(i))) = From(i) /\ O(A(From(j))) = From(j)
      BY <1>2, <3>2
    <3>4. A(From(i)) = A(From(j))
      BY <3>2, <3>3 DEF Distinct
    <3>5. From(i) = From(j)
      BY <3>3, <3>4
    <3>6. i = j
      BY <1>4, <3>1, <3>2, <3>5
    <3> QED
      BY <2>1, <2>2, <3>6
  <2> QED
    BY <2>3, <2>4, <2>5
<1>15. Entries(r, c) = Entries(ix, c) \union {e}
  <2>1. ASSUME NEW x \in Entries(r, c)
        PROVE  x \in Entries(ix, c) \/ x = e
    <3>1. PICK p \in 0 .. c - 1 : r[p] # None /\ r[p] = x
      BY DEF Entries
    <3>2. PICK i \in 0 .. c - 1 : A(i) = p
      BY <1>2
    <3>3. CASE i = 0
      BY <1>3, <1>7, <3>1, <3>2, <3>3
    <3>4. CASE i # 0
      BY <1>13, <3>1, <3>2, <3>4
    <3> QED
      BY <3>3, <3>4
  <2>2. ASSUME NEW x \in Entries(ix, c)
        PROVE  x \in Entries(r, c)
    <3>1. PICK p \in 0 .. c - 1 : ix[p] # None /\ ix[p] = x
      BY DEF Entries
    <3>2. PICK i \in 0 .. c - 1 : A(i) = p
      BY <1>2
    <3>3. i # m
      BY <1>4, <3>1, <3>2
    <3> DEFINE j == IF i < m THEN i + 1 ELSE i
    <3>4. j \in 1 .. c - 1 /\ From(j) = i /\ j \in 0 .. c - 1
      BY <1>4, <3>3
    <3> HIDE DEF j
    <3>5. r[A(j)] = x /\ A(j) \in 0 .. c - 1
      BY <1>2, <1>12, <3>1, <3>2, <3>4
    <3> QED
      BY <3>1, <3>5 DEF Entries
  <2>3. e \in Entries(r, c)
    BY <1>1, <1>7 DEF Entries
  <2> QED
    BY <2>1, <2>2, <2>3
<1> QED
  BY <1>10, <1>11, <1>14, <1>15

(***************************************************************************)
(* grow(): the entries of a ring of c places go to a ring of twice as many.*)
(***************************************************************************)

\* reinsert_entry_in_order() on positions
Reinserted(ix, c, e) ==
    IF e = None THEN ix
    ELSE [ix EXCEPT ![At(c, e.hash, Min({i \in 0 .. c - 1 : ix[At(c, e.hash, i)] = None}))] = e]

\* An index that is neither empty nor full has an entry at its own place.
LEMMA IdealExists ==
    ASSUME NEW c \in Nat \ {0}, NEW ix \in Indices(c), Local(ix, c), HasFree(ix, c),
           NEW p \in 0 .. c - 1, ix[p] # None
    PROVE  \E q \in 0 .. c - 1 : ix[q] # None /\ Dist(ix, c, q) = 0
<1>1. PICK f \in 0 .. c - 1 : ix[f] = None
  BY DEF HasFree
<1> DEFINE Used == {i \in 0 .. c - 1 : ix[At(c, f, i)] # None}
<1>2. f \in Int /\ Off(c, f, p) \in 0 .. c - 1 /\ At(c, f, Off(c, f, p)) = p
  BY RingInverse, f \in Int
<1>3. Off(c, f, p) \in Used
  BY <1>2
<1>4. Used \in SUBSET Nat /\ Used # {}
  BY <1>3
<1>5. PICK i \in Used : \A j \in Used : i <= j
  <2> HIDE DEF Used
  <2> QED
    BY <1>4, Least
<1>6. i \in 0 .. c - 1 /\ ix[At(c, f, i)] # None
  OBVIOUS
<1>7. At(c, f, 0) = f
  BY RingWalk
<1>8. i # 0
  BY <1>1, <1>6, <1>7
<1>9. i \in 1 .. c - 1 /\ i - 1 \in 0 .. c - 1 /\ ~(i <= i - 1)
  BY <1>6, <1>8
<1>10. ix[At(c, f, i - 1)] = None
  BY <1>5, <1>9
<1>11. Back(c, At(c, f, i)) = At(c, f, i - 1) /\ At(c, f, i) \in 0 .. c - 1
  BY <1>2, <1>6, <1>9, RingWalk, RingInverse, ZenonT(30)
<1> QED
  BY <1>6, <1>10, <1>11 DEF Local

\* The places of a ring counted from one of them.
LEMMA RingMap ==
    ASSUME NEW c \in Nat \ {0}, NEW place \in 0 .. c - 1
    PROVE  /\ \A i \in 0 .. c - 1 : At(c, place, i) \in 0 .. c - 1 /\ Off(c, place, At(c, place, i)) = i
           /\ \A p \in 0 .. c - 1 : Off(c, place, p) \in 0 .. c - 1 /\ At(c, place, Off(c, place, p)) = p
<1>1. place \in Int
  OBVIOUS
<1> QED
  BY <1>1, RingInverse

\* The places of a ring of twice as many.
LEMMA RingTwice ==
    ASSUME NEW c \in Nat \ {0}, NEW first \in 0 .. c - 1
    PROVE  /\ \A u \in 0 .. 2 * c - 1 : /\ At(2 * c, first, u) \in 0 .. 2 * c - 1
                                       /\ Off(2 * c, first, At(2 * c, first, u)) = u
           /\ \A p \in 0 .. 2 * c - 1 : \E u \in 0 .. 2 * c - 1 : p = At(2 * c, first, u)
           /\ \A u, w \in 0 .. 2 * c - 1 : At(2 * c, first, u) = At(2 * c, first, w) => u = w
<1> DEFINE d == 2 * c
<1>1. d \in Nat \ {0} /\ first \in 0 .. d - 1
  OBVIOUS
<1> HIDE DEF d
<1>2. /\ \A u \in 0 .. d - 1 : At(d, first, u) \in 0 .. d - 1 /\ Off(d, first, At(d, first, u)) = u
      /\ \A p \in 0 .. d - 1 : Off(d, first, p) \in 0 .. d - 1 /\ At(d, first, Off(d, first, p)) = p
  BY <1>1, RingMap
<1>3. /\ \A p \in 0 .. d - 1 : \E u \in 0 .. d - 1 : p = At(d, first, u)
      /\ \A u, w \in 0 .. d - 1 : At(d, first, u) = At(d, first, w) => u = w
  BY <1>2
<1> QED
  BY <1>2, <1>3 DEF d

\* Seen from an entry at its own place, the desired places of the others come
\* in the order of the entries.
LEMMA IdealOrder ==
    ASSUME NEW c \in Nat \ {0}, NEW ix \in Indices(c), Local(ix, c),
           NEW first \in 0 .. c - 1, ix[first] # None, Dist(ix, c, first) = 0
    PROVE  \A x \in 0 .. c - 1 : ix[At(c, first, x)] # None =>
              /\ Dist(ix, c, At(c, first, x)) \in 0 .. x
              /\ \A w \in 0 .. x : ix[At(c, first, w)] # None =>
                    w - Dist(ix, c, At(c, first, w)) <= x - Dist(ix, c, At(c, first, x))
<1> DEFINE A(x) == At(c, first, x)
           D(x) == Dist(ix, c, A(x))
           Good(x) == ix[A(x)] # None =>
              /\ D(x) \in 0 .. x
              /\ \A w \in 0 .. x : ix[A(w)] # None => w - D(w) <= x - D(x)
           S == {x \in 0 .. c - 1 : \A y \in 0 .. x : Good(y)}
<1>1. /\ \A i \in 0 .. c - 1 : A(i) \in 0 .. c - 1
      /\ A(0) = first /\ \A i \in 1 .. c - 1 : Back(c, A(i)) = A(i - 1)
  <2>1. first \in Int
    OBVIOUS
  <2>2. \A i \in 0 .. c - 1 : At(c, first, i) \in 0 .. c - 1
    BY <2>1, RingInverse
  <2>3. At(c, first, 0) = first /\ \A i \in 1 .. c - 1 : Back(c, At(c, first, i)) = At(c, first, i - 1)
    BY RingWalk
  <2> QED
    BY <2>2, <2>3, Zenon
<1>2. \A i \in 0 .. c - 1 : ix[A(i)] # None => D(i) \in 0 .. c - 1
  BY <1>1, DistType
<1>3. 0 \in S
  <2>1. D(0) = 0
    BY <1>1
  <2> HIDE DEF D
  <2> QED
    BY <2>1
<1>4. ASSUME NEW x \in 1 .. c - 1, x - 1 \in S
      PROVE  x \in S
  <2>1. x \in 0 .. c - 1 /\ x - 1 \in 0 .. c - 1 /\ x - 1 \in 0 .. x - 1
    OBVIOUS
  <2>2. \A y \in 0 .. x - 1 : Good(y)
    BY <1>4
  <2>3. ASSUME ix[A(x)] # None, D(x) = 0
        PROVE  Good(x)
    <3>1. ASSUME NEW w \in 0 .. x, ix[A(w)] # None
          PROVE  w - D(w) <= x - D(x)
      <4>1. D(w) \in 0 .. c - 1
        BY <1>2, <3>1
      <4> HIDE DEF D
      <4> QED
        BY <2>3, <4>1
    <3> HIDE DEF D
    <3> QED
      BY <2>3, <3>1
  <2>4. ASSUME ix[A(x)] # None, D(x) # 0
        PROVE  Good(x)
    <3>1. ix[A(x - 1)] # None /\ D(x - 1) >= D(x) - 1
      BY <1>1, <2>1, <2>4 DEF Local
    <3>2. D(x - 1) \in 0 .. x - 1 /\ D(x) \in 0 .. c - 1
      BY <1>2, <2>1, <2>2, <2>4, <3>1
    <3>3. ASSUME NEW w \in 0 .. x, ix[A(w)] # None
          PROVE  w - D(w) <= x - D(x)
      <4>1. CASE w = x
        <5>1. D(w) = D(x)
          BY <4>1
        <5> HIDE DEF D
        <5> QED
          BY <3>2, <4>1, <5>1
      <4>2. CASE w # x
        <5>1. w \in 0 .. x - 1
          BY <4>2
        <5>2. w - D(w) <= (x - 1) - D(x - 1)
          BY <2>1, <2>2, <3>1, <3>3, <5>1
        <5>3. D(w) \in 0 .. c - 1
          BY <1>2, <3>3, <5>1, <2>1
        <5> HIDE DEF D
        <5> QED
          BY <3>1, <3>2, <5>2, <5>3
      <4> QED
        BY <4>1, <4>2
    <3>4. D(x) \in 0 .. x
      <4> HIDE DEF D
      <4> QED
        BY <3>1, <3>2
    <3> QED
      BY <3>3, <3>4
  <2>5. Good(x)
    <3>1. CASE ix[A(x)] = None
      BY <3>1
    <3> HIDE DEF Good
    <3> QED
      BY <2>3, <2>4, <3>1
  <2>6. \A y \in 0 .. x : y \in 0 .. x - 1 \/ y = x
    OBVIOUS
  <2> HIDE DEF Good
  <2> QED
    BY <2>1, <2>2, <2>5, <2>6
<1>5. ASSUME NEW x \in 0 .. c - 1
      PROVE  Good(x)
  <2>1. c - 1 \in Nat
    OBVIOUS
  <2>2. x \in S
    <3> HIDE DEF S
    <3> QED
      BY <1>3, <1>4, <2>1, UpTo
  <2> HIDE DEF Good
  <2> QED
    BY <2>2
<1> QED
  BY <1>5

\* The desired place of an entry in the larger ring, counted from `first`.
Home(c, first, e) == Off(2 * c, first, e.hash)

\* It is the old one, or c places further.
LEMMA NewHome ==
    ASSUME NEW c \in Nat \ {0}, NEW first \in 0 .. c - 1, NEW h \in Nat, NEW x \in 0 .. c - 1,
           Off(c, h, At(c, first, x)) \in 0 .. x
    PROVE  LET w == x - Off(c, h, At(c, first, x))
           IN  Off(2 * c, first, h) = w \/ Off(2 * c, first, h) = w + c
<1> DEFINE p == At(c, first, x)
           d == Off(c, h, p)
           v == Off(2 * c, first, h)
<1>1. p \in 0 .. c - 1 /\ p = (first + x) % c /\ first \in Int /\ x \in Int /\ h \in Int
  BY RingInverse DEF At
<1>2. d = (p - h) % c
  BY DEF Off
<1>3. (x - d) % c = (h - first) % c
  <2>1. (x - ((p - h) % c)) % c = (x - (p - h)) % c
    BY <1>1, ModSum, p - h \in Int
  <2>2. x - (p - h) = (x + h) - p
    BY <1>1
  <2>3. ((x + h) - ((first + x) % c)) % c = ((x + h) - (first + x)) % c
    BY <1>1, ModSum, x + h \in Int, first + x \in Int
  <2>4. (x + h) - (first + x) = h - first
    BY <1>1
  <2> QED
    BY <1>1, <1>2, <2>1, <2>2, <2>3, <2>4
<1>4. x - d \in 0 .. c - 1 /\ (x - d) % c = x - d
  <2>1. x - d \in 0 .. c - 1
    <3>1. d \in 0 .. x
      OBVIOUS
    <3> HIDE DEF d
    <3> QED
      BY <3>1
  <2> HIDE DEF d
  <2> QED
    BY <2>1, ModSmall
<1>5. 2 * c \in Nat \ {0} /\ h - first \in Int
  BY <1>1
<1>6. v \in 0 .. 2 * c - 1 /\ v = (h - first) % (2 * c)
  BY <1>5, DivMod DEF Off
<1>7. v % c = (h - first) % c
  <2>1. PICK q \in Int : h - first = (2 * c) * q + ((h - first) % (2 * c))
    BY <1>5, DivMod
  <2>2. h - first = v + c * (2 * q) /\ 2 * q \in Int /\ v \in Int
    BY <1>6, <2>1
  <2>3. (v + c * (2 * q)) % c = v % c
    <3> HIDE DEF v
    <3> QED
      BY <2>2, ModMultiple
  <2> QED
    BY <2>2, <2>3
<1>8. v % c = IF v < c THEN v ELSE v - c
  <2> HIDE DEF v
  <2>1. CASE v < c
    BY <1>6, <2>1, ModSmall
  <2>2. CASE ~(v < c)
    <3>1. v - c \in 0 .. c - 1 /\ v \in Int
      BY <1>6, <2>2
    <3>2. (v - c) % c = v - c
      BY <3>1, ModSmall
    <3>3. (v - c) % c = v % c
      BY <3>1, ModShift
    <3> QED
      BY <2>2, <3>2, <3>3
  <2> QED
    BY <2>1, <2>2
<1>9. v % c = x - d
  BY <1>3, <1>4, <1>7
<1> HIDE DEF v, d
<1> QED
  BY <1>4, <1>6, <1>8, <1>9 DEF v, d

\* What holds after the entries of the places first .. first + n - 1 moved
\* from ring ix to g: an entry is between its desired place and the place it
\* would have if nothing moved up, and those before it are not behind theirs.
MovedUp(ix, c, first, n, g) ==
    LET E(x) == ix[At(c, first, x)]
        V(e) == Home(c, first, e)
        y(u) == g[At(2 * c, first, u)]
    IN  /\ g \in Indices(2 * c)
        /\ \A u \in 0 .. 2 * c - 1 : y(u) # None =>
              \E x \in 0 .. n - 1 :
                 /\ y(u) = E(x) /\ V(E(x)) <= u
                 /\ u <= IF V(E(x)) < c THEN x ELSE x + c
        /\ \A u \in 1 .. 2 * c - 1 : y(u) # None /\ V(y(u)) < u =>
              y(u - 1) # None /\ V(y(u - 1)) <= V(y(u))
        /\ \A x \in 0 .. n - 1 : E(x) # None => \E u \in 0 .. 2 * c - 1 : y(u) = E(x)
        /\ Distinct(g, 2 * c)

\* One entry more.
LEMMA ReinsertStep ==
    ASSUME NEW c \in Nat \ {0}, NEW ix \in Indices(c), Local(ix, c), Distinct(ix, c),
           NEW first \in 0 .. c - 1, ix[first] # None, Dist(ix, c, first) = 0,
           None \notin Pos,
           NEW n \in 0 .. c - 1, NEW g, MovedUp(ix, c, first, n, g)
    PROVE  MovedUp(ix, c, first, n + 1, Reinserted(g, 2 * c, ix[At(c, first, n)]))
<1> DEFINE E(x) == ix[At(c, first, x)]
           V(e) == Home(c, first, e)
           B(u) == At(2 * c, first, u)
           y(u) == g[B(u)]
           X(x) == IF V(E(x)) < c THEN x ELSE x + c
<1>0. /\ g \in Indices(2 * c)
      /\ \A u \in 0 .. 2 * c - 1 : y(u) # None =>
            \E x \in 0 .. n - 1 : y(u) = E(x) /\ V(E(x)) <= u /\ u <= X(x)
      /\ \A u \in 1 .. 2 * c - 1 : y(u) # None /\ V(y(u)) < u =>
            y(u - 1) # None /\ V(y(u - 1)) <= V(y(u))
      /\ \A x \in 0 .. n - 1 : E(x) # None => \E u \in 0 .. 2 * c - 1 : y(u) = E(x)
      /\ Distinct(g, 2 * c)
  BY DEF MovedUp
<1>1. CASE E(n) = None
  <2>1. Reinserted(g, 2 * c, E(n)) = g
    BY <1>1 DEF Reinserted
  <2>2. \A x \in 0 .. (n + 1) - 1 : E(x) # None => x \in 0 .. n - 1
    BY <1>1
  <2>3. \A x \in 0 .. n - 1 : x \in 0 .. (n + 1) - 1
    OBVIOUS
  <2> HIDE DEF E, V, B
  <2>4. \A u \in 0 .. 2 * c - 1 : y(u) # None =>
            \E x \in 0 .. (n + 1) - 1 : y(u) = E(x) /\ V(E(x)) <= u /\ u <= X(x)
    BY <1>0, <2>3
  <2>5. \A x \in 0 .. (n + 1) - 1 : E(x) # None => \E u \in 0 .. 2 * c - 1 : y(u) = E(x)
    BY <1>0, <2>2
  <2> QED
    BY <1>0, <2>1, <2>4, <2>5 DEF MovedUp, E, V, B
<1>2. CASE E(n) # None
  <2> DEFINE C == 2 * c
             e == E(n)
             h == e.hash
             v == V(e)
             Frees == {i \in 0 .. C - 1 : g[At(C, h, i)] = None}
             k == Min(Frees)
             us == v + k
             r == Reinserted(g, C, e)
  <2>1. C \in Nat \ {0} /\ first \in Int /\ first \in 0 .. C - 1 /\ n \in 0 .. c - 1
    OBVIOUS
  <2>2. /\ \A x \in 0 .. c - 1 : At(c, first, x) \in 0 .. c - 1
        /\ \A x, w \in 0 .. c - 1 : At(c, first, x) = At(c, first, w) => x = w
    <3>1. \A x \in 0 .. c - 1 : At(c, first, x) \in 0 .. c - 1 /\ Off(c, first, At(c, first, x)) = x
      BY <2>1, RingInverse, ZenonT(30)
    <3> QED
      BY <3>1
  <2>3. /\ \A u \in 0 .. C - 1 : B(u) \in 0 .. C - 1 /\ Off(C, first, B(u)) = u
        /\ \A p \in 0 .. C - 1 : \E u \in 0 .. C - 1 : p = B(u)
        /\ \A u, w \in 0 .. C - 1 : B(u) = B(w) => u = w
    BY RingTwice
  <2>4. \A x \in 0 .. c - 1 : E(x) # None =>
          /\ E(x) \in Pos /\ E(x).hash \in Nat
          /\ V(E(x)) \in 0 .. C - 1 /\ V(E(x)) <= X(x) /\ X(x) - x <= V(E(x))
          /\ \A w \in 0 .. x : E(w) # None /\ X(x) - x = X(w) - w => V(E(w)) <= V(E(x))
    <3>1. ASSUME NEW x \in 0 .. c - 1, E(x) # None
          PROVE  /\ E(x) \in Pos /\ E(x).hash \in Nat
                 /\ Dist(ix, c, At(c, first, x)) \in 0 .. x
                 /\ \A w \in 0 .. x : E(w) # None =>
                       w - Dist(ix, c, At(c, first, w)) <= x - Dist(ix, c, At(c, first, x))
      BY <2>2, <3>1, DistType, IdealOrder DEF Pos
    <3>2. ASSUME NEW x \in 0 .. c - 1, E(x) # None
          PROVE  \/ V(E(x)) = x - Dist(ix, c, At(c, first, x))
                 \/ V(E(x)) = (x - Dist(ix, c, At(c, first, x))) + c
      BY <3>1, <3>2, NewHome DEF Dist, Home
    <3> DEFINE D(x) == Dist(ix, c, At(c, first, x))
    <3> HIDE DEF E, V, D
    <3>3. ASSUME NEW x \in 0 .. c - 1, E(x) # None
          PROVE  /\ V(E(x)) \in 0 .. C - 1 /\ V(E(x)) <= X(x) /\ X(x) - x <= V(E(x))
                 /\ V(E(x)) = (x - D(x)) + (X(x) - x) /\ D(x) \in 0 .. x
                 /\ X(x) - x \in 0 .. c
      <4>1. D(x) \in 0 .. x
        BY <3>1, <3>3 DEF D
      <4>2. V(E(x)) = x - D(x) \/ V(E(x)) = (x - D(x)) + c
        BY <3>2, <3>3 DEF D
      <4> QED
        BY <4>1, <4>2
    <3>4. ASSUME NEW x \in 0 .. c - 1, E(x) # None,
                 NEW w \in 0 .. x, E(w) # None, X(x) - x = X(w) - w
          PROVE  V(E(w)) <= V(E(x))
      <4>1. w \in 0 .. c - 1
        OBVIOUS
      <4>2. w - D(w) <= x - D(x)
        BY <3>1, <3>4 DEF D
      <4>3. V(E(w)) = (w - D(w)) + (X(w) - w) /\ D(w) \in 0 .. w /\ X(w) - w \in 0 .. c
        BY <3>3, <3>4, <4>1
      <4>4. V(E(x)) = (x - D(x)) + (X(x) - x) /\ D(x) \in 0 .. x
        BY <3>3, <3>4
      <4> HIDE DEF X
      <4> QED
        BY <3>4, <4>1, <4>2, <4>3, <4>4
    <3> QED
      BY <3>1, <3>3, <3>4
  <2>5. /\ e \in Pos /\ h \in Nat /\ v \in 0 .. C - 1 /\ v <= X(n) /\ X(n) - n <= v
        /\ X(n) \in 0 .. C - 1 /\ (X(n) = n \/ X(n) = n + c)
    <3>1. X(n) = n \/ X(n) = n + c
      OBVIOUS
    <3>2. X(n) \in 0 .. C - 1
      <4> HIDE DEF X
      <4> QED
        BY <3>1
    <3> QED
      BY <1>2, <2>4, <3>2
  <2> HIDE DEF X
  \* the places from the desired one on
  <2>6. \A i \in 0 .. C - 1 : v + i \in 0 .. C - 1 => At(C, h, i) = B(v + i)
    <3>1. ASSUME NEW i \in 0 .. C - 1
          PROVE  At(C, h, i) = B(v + i)
      <4>1. h - first \in Int /\ first + i \in Int /\ (first + i) + (h - first) = h + i
        BY <2>5
      <4>2. v = (h - first) % C
        BY DEF Home, Off
      <4>3. ((first + i) + ((h - first) % C)) % C = ((h - first) + (first + i)) % C
        <5> HIDE DEF C, h
        <5> QED
          BY <2>1, <4>1, ModSum
      <4>4. (h - first) + (first + i) = h + i
        BY <2>5
      <4>5. first + (v + i) = (first + i) + v
        <5> HIDE DEF v
        <5> QED
          BY <2>5
      <4> QED
        BY <4>2, <4>3, <4>4, <4>5 DEF At
    <3> QED
      BY <3>1
  <2>7. y(X(n)) = None
    <3>1. ASSUME NEW x \in 0 .. n - 1, y(X(n)) = E(x), y(X(n)) # None,
                 V(E(x)) <= X(n), X(n) <= X(x)
          PROVE  FALSE
      <4>1. x \in 0 .. c - 1 /\ x < n
        OBVIOUS
      <4>2. X(x) - x <= V(E(x)) /\ V(E(x)) \in Int
        BY <2>4, <3>1, <4>1
      <4>3. X(x) = x \/ X(x) = x + c
        BY DEF X
      <4> HIDE DEF E, V
      <4> QED
        BY <2>5, <3>1, <4>1, <4>2, <4>3
    <3> QED
      BY <1>0, <2>5, <3>1 DEF X
  <2>8. k \in 0 .. X(n) - v /\ y(v + k) = None /\ \A i \in 0 .. k - 1 : y(v + i) # None
    <3>1. X(n) - v \in 0 .. C - 1 /\ v + (X(n) - v) = X(n)
      <4> HIDE DEF v
      <4> QED
        BY <2>5
    <3>2. At(C, h, X(n) - v) = B(X(n))
      BY <2>5, <2>6, <3>1
    <3>3. X(n) - v \in Frees
      BY <2>7, <3>1, <3>2
    <3>4. Frees \in SUBSET Nat /\ Frees # {}
      BY <3>3
    <3>5. k \in Frees /\ \A j \in Frees : k <= j
      <4> HIDE DEF Frees
      <4> QED
        BY <3>4, MinFacts
    <3>6. k \in 0 .. C - 1 /\ k <= X(n) - v /\ g[At(C, h, k)] = None
      BY <3>3, <3>5
    <3> HIDE DEF k
    <3>7. k \in 0 .. X(n) - v /\ v + k \in 0 .. C - 1
      <4> HIDE DEF v
      <4> QED
        BY <2>5, <3>6
    <3>8. y(v + k) = None
      BY <2>6, <3>6, <3>7
    <3>9. ASSUME NEW i \in 0 .. k - 1
          PROVE  y(v + i) # None
      <4>1. i \in 0 .. C - 1 /\ ~(k <= i) /\ v + i \in 0 .. C - 1
        <5> HIDE DEF v
        <5> QED
          BY <2>5, <3>6, <3>7
      <4>2. g[At(C, h, i)] # None
        BY <3>5, <4>1
      <4> QED
        BY <2>6, <4>1, <4>2
    <3> QED
      BY <3>7, <3>8, <3>9
  <2>9. us \in 0 .. C - 1 /\ v <= us /\ us <= X(n) /\ At(C, h, k) = B(us) /\ k \in Int /\ v \in Int
    <3>1. us \in 0 .. C - 1 /\ v <= us /\ us <= X(n) /\ k \in 0 .. C - 1
      <4> HIDE DEF v, k
      <4> QED
        BY <2>5, <2>8
    <3>2. At(C, h, k) = B(us)
      <4> HIDE DEF k, B
      <4> QED
        BY <2>6, <3>1
    <3> HIDE DEF k, v
    <3> QED
      BY <2>5, <3>1, <3>2
  <2>10. r = [g EXCEPT ![B(us)] = e]
    BY <1>2, <2>9, Zenon DEF Reinserted
  <2>11. /\ r \in Indices(C) /\ r[B(us)] = e
         /\ \A u \in 0 .. C - 1 : u # us => r[B(u)] = y(u)
    <3>1. g \in [0 .. C - 1 -> Pos \union {None}] /\ B(us) \in 0 .. C - 1 /\ e \in Pos
      BY <1>0, <2>3, <2>5, <2>9 DEF Indices
    <3>2. \A u \in 0 .. C - 1 : u # us => B(u) # B(us) /\ B(u) \in 0 .. C - 1
      BY <2>3, <2>9
    <3> HIDE DEF B, us, e, C, r
    <3> QED
      BY <2>10, <3>1, <3>2 DEF Indices
  <2> HIDE DEF k, Frees
  <2>12. y(us) = None /\ \A i \in 0 .. k - 1 : y(v + i) # None
    BY <2>8
  \* everything is at or after its desired place
  <2>13. \A u \in 0 .. C - 1 : r[B(u)] # None =>
            \E x \in 0 .. (n + 1) - 1 : r[B(u)] = E(x) /\ V(E(x)) <= u /\ u <= X(x)
    <3>1. ASSUME NEW u \in 0 .. C - 1, r[B(u)] # None, u # us
          PROVE  \E x \in 0 .. (n + 1) - 1 : r[B(u)] = E(x) /\ V(E(x)) <= u /\ u <= X(x)
      <4>1. y(u) # None /\ r[B(u)] = y(u)
        BY <2>11, <3>1
      <4>2. PICK x \in 0 .. n - 1 : y(u) = E(x) /\ V(E(x)) <= u /\ u <= X(x)
        BY <1>0, <4>1 DEF X
      <4>3. x \in 0 .. (n + 1) - 1
        OBVIOUS
      <4> HIDE DEF E, V, B
      <4> QED
        BY <4>1, <4>2, <4>3
    <3>2. n \in 0 .. (n + 1) - 1
      OBVIOUS
    <3>3. r[B(us)] = E(n) /\ V(E(n)) <= us /\ us <= X(n)
      BY <2>9, <2>11
    <3> HIDE DEF E, V, B, us, r
    <3> QED
      BY <3>1, <3>2, <3>3
  \* those before an entry are not behind theirs
  <2>14. \A u \in 1 .. C - 1 : r[B(u)] # None /\ V(r[B(u)]) < u =>
            r[B(u - 1)] # None /\ V(r[B(u - 1)]) <= V(r[B(u)])
    <3> SUFFICES ASSUME NEW u \in 1 .. C - 1, r[B(u)] # None, V(r[B(u)]) < u
                 PROVE  r[B(u - 1)] # None /\ V(r[B(u - 1)]) <= V(r[B(u)])
      OBVIOUS
    <3>1. u \in 0 .. C - 1 /\ u - 1 \in 0 .. C - 1 /\ u - 1 # u
      OBVIOUS
    <3>2. CASE u = us
      <4>1. r[B(u)] = e /\ v < us
        BY <2>11, <3>2
      <4>2. k - 1 \in 0 .. k - 1 /\ v + (k - 1) = us - 1
        <5> HIDE DEF v
        <5> QED
          BY <2>8, <2>9, <4>1
      <4>3. y(us - 1) # None
        BY <2>12, <4>2
      <4>4. r[B(u - 1)] = y(u - 1)
        BY <2>11, <3>1, <3>2
      <4>5. PICK x \in 0 .. n - 1 : y(u - 1) = E(x) /\ V(E(x)) <= u - 1 /\ u - 1 <= X(x)
        BY <1>0, <3>1, <3>2, <4>3 DEF X
      <4>6. x \in 0 .. c - 1 /\ x \in 0 .. n
        OBVIOUS
      <4>7. E(x) # None
        BY <3>2, <4>3, <4>5
      <4>8. X(x) - x <= V(E(x)) /\ V(E(x)) \in Int /\ (X(x) = x \/ X(x) = x + c)
        BY <2>4, <4>6, <4>7 DEF X
      <4>9. X(n) - n = X(x) - x
        <5> HIDE DEF E, V, v
        <5> QED
          BY <2>5, <2>9, <3>2, <4>1, <4>5, <4>6, <4>8
      <4>10. V(E(x)) <= V(E(n))
        BY <1>2, <2>4, <4>6, <4>7, <4>9
      <4> QED
        BY <3>2, <4>1, <4>3, <4>4, <4>5, <4>10
    <3>3. CASE u # us /\ u - 1 = us
      <4>1. y(u) # None /\ V(y(u)) < u
        BY <2>11, <3>1, <3>3
      <4>2. y(u - 1) # None
        BY <1>0, <4>1
      <4> QED
        BY <2>12, <3>3, <4>2
    <3>4. CASE u # us /\ u - 1 # us
      <4>1. r[B(u)] = y(u) /\ r[B(u - 1)] = y(u - 1)
        BY <2>11, <3>1, <3>4
      <4> QED
        BY <1>0, <4>1
    <3> QED
      BY <3>2, <3>3, <3>4
  <2>15. \A x \in 0 .. (n + 1) - 1 : E(x) # None => \E u \in 0 .. C - 1 : r[B(u)] = E(x)
    <3> SUFFICES ASSUME NEW x \in 0 .. (n + 1) - 1, E(x) # None
                 PROVE  \E u \in 0 .. C - 1 : r[B(u)] = E(x)
      OBVIOUS
    <3>1. CASE x = n
      BY <2>9, <2>11, <3>1
    <3>2. CASE x # n
      <4>1. x \in 0 .. n - 1
        BY <3>2
      <4>2. PICK u \in 0 .. C - 1 : y(u) = E(x)
        BY <1>0, <4>1
      <4>3. u # us
        BY <2>12, <4>2
      <4> QED
        BY <2>11, <4>2, <4>3
    <3> QED
      BY <3>1, <3>2
  <2>16. Distinct(r, C)
    <3>1. ASSUME NEW u \in 0 .. C - 1, u # us, r[B(u)] # None
          PROVE  r[B(u)].index # e.index
      <4>1. y(u) # None /\ r[B(u)] = y(u)
        BY <2>11, <3>1
      <4>2. PICK x \in 0 .. n - 1 : y(u) = E(x)
        BY <1>0, <4>1
      <4>3. x \in 0 .. c - 1 /\ x # n
        OBVIOUS
      <4>4. At(c, first, x) # At(c, first, n) /\ At(c, first, x) \in 0 .. c - 1 /\ At(c, first, n) \in 0 .. c - 1
        BY <2>2, <4>3
      <4> QED
        BY <1>2, <4>1, <4>2, <4>4 DEF Distinct
    <3> SUFFICES ASSUME NEW p \in 0 .. C - 1, NEW q \in 0 .. C - 1,
                        r[p] # None, r[q] # None, r[p].index = r[q].index
                 PROVE  p = q
      BY DEF Distinct
    <3>2. PICK u \in 0 .. C - 1 : p = B(u)
      BY <2>3
    <3>3. PICK w \in 0 .. C - 1 : q = B(w)
      BY <2>3
    <3>4. CASE u = us /\ w = us
      BY <3>2, <3>3, <3>4
    <3>5. CASE u = us /\ w # us
      BY <2>11, <3>1, <3>2, <3>3, <3>5
    <3>6. CASE u # us /\ w = us
      BY <2>11, <3>1, <3>2, <3>3, <3>6
    <3>7. CASE u # us /\ w # us
      <4>1. r[p] = g[p] /\ r[q] = g[q]
        BY <2>11, <3>2, <3>3, <3>7
      <4> QED
        BY <1>0, <4>1 DEF Distinct
    <3> QED
      BY <3>4, <3>5, <3>6, <3>7
  <2> HIDE DEF E, V, B, r, e
  <2> QED
    BY <2>11, <2>13, <2>14, <2>15, <2>16 DEF MovedUp, E, V, B, r, e, X
<1> QED
  BY <1>1, <1>2

\* All entries moved: they are all there and all can be found.
LEMMA MovedUpAll ==
    ASSUME NEW c \in Nat \ {0}, NEW ix \in Indices(c), NEW first \in 0 .. c - 1, NEW g,
           MovedUp(ix, c, first, c, g), None \notin Pos
    PROVE  /\ g \in Indices(2 * c) /\ Local(g, 2 * c) /\ Distinct(g, 2 * c)
           /\ Entries(g, 2 * c) = Entries(ix, c)
<1> DEFINE C == 2 * c
           A(x) == At(c, first, x)
           E(x) == ix[A(x)]
           V(e) == Home(c, first, e)
           B(u) == At(C, first, u)
           y(u) == g[B(u)]
<1>1. C \in Nat \ {0} /\ first \in Int /\ first \in 0 .. C - 1
  OBVIOUS
<1>2. /\ g \in Indices(C)
      /\ \A u \in 0 .. C - 1 : y(u) # None => \E x \in 0 .. c - 1 : y(u) = E(x) /\ V(y(u)) <= u
      /\ \A u \in 1 .. C - 1 : y(u) # None /\ V(y(u)) < u =>
            y(u - 1) # None /\ V(y(u - 1)) <= V(y(u))
      /\ \A x \in 0 .. c - 1 : E(x) # None => \E u \in 0 .. C - 1 : y(u) = E(x)
      /\ Distinct(g, C)
  <2>1. \A u \in 0 .. C - 1 : y(u) # None => \E x \in 0 .. c - 1 : y(u) = E(x) /\ V(E(x)) <= u
    BY DEF MovedUp
  <2> QED
    BY <2>1 DEF MovedUp
<1> HIDE DEF C
<1>3. /\ \A u \in 0 .. C - 1 : B(u) \in 0 .. C - 1 /\ Off(C, first, B(u)) = u
      /\ \A p \in 0 .. C - 1 : Off(C, first, p) \in 0 .. C - 1 /\ B(Off(C, first, p)) = p
      /\ \A u \in 1 .. C - 1 : Back(C, B(u)) = B(u - 1)
  BY <1>1, RingInverse, RingWalk, ZenonT(30)
<1>4. /\ \A x \in 0 .. c - 1 : A(x) \in 0 .. c - 1
      /\ \A p \in 0 .. c - 1 : Off(c, first, p) \in 0 .. c - 1 /\ A(Off(c, first, p)) = p
  BY <1>1, RingInverse
<1>5. \A u \in 0 .. C - 1 : y(u) # None =>
         /\ V(y(u)) \in 0 .. u /\ Dist(g, C, B(u)) = u - V(y(u))
  <2> SUFFICES ASSUME NEW u \in 0 .. C - 1, y(u) # None
               PROVE  V(y(u)) \in 0 .. u /\ Dist(g, C, B(u)) = u - V(y(u))
    OBVIOUS
  <2> DEFINE h == y(u).hash
             v == V(y(u))
  <2>1. h \in Int
    BY <1>1, <1>2, <1>3, DistType
  <2>2. v = (h - first) % C
    BY DEF Home, Off, C
  <2>3. v \in 0 .. C - 1
    <3> HIDE DEF h, v
    <3>1. h - first \in Int
      BY <1>1, <2>1
    <3> QED
      BY <1>1, <2>2, <3>1, DivMod
  <2>4. v <= u
    BY <1>2
  <2> HIDE DEF v
  <2>5. Dist(g, C, B(u)) = (((first + u) % C) - h) % C
    BY DEF Dist, Off, At
  <2> HIDE DEF h
  <2>6. (((first + u) % C) - h) % C = ((first + u) - h) % C
    BY <1>1, <2>1, ModSum, first + u \in Int
  <2>7. (first + u) - h = u - (h - first)
    BY <1>1, <2>1
  <2>8. (u - ((h - first) % C)) % C = (u - (h - first)) % C
    BY <1>1, <2>1, ModSum, h - first \in Int, u \in Int
  <2>9. u - v \in 0 .. C - 1
    BY <1>1, <2>3, <2>4
  <2>10. (u - v) % C = u - v
    BY <1>1, <2>9, ModSmall
  <2>11. v \in 0 .. u
    BY <2>3, <2>4
  <2>12. Dist(g, C, B(u)) = u - v
    BY <2>2, <2>5, <2>6, <2>7, <2>8, <2>10
  <2> QED
    BY <2>11, <2>12 DEF v
<1>6. Local(g, C)
  <2> SUFFICES ASSUME NEW p \in 0 .. C - 1, g[p] # None, Dist(g, C, p) # 0
               PROVE  g[Back(C, p)] # None /\ Dist(g, C, Back(C, p)) >= Dist(g, C, p) - 1
    BY DEF Local
  <2> DEFINE u == Off(C, first, p)
  <2>1. u \in 0 .. C - 1 /\ B(u) = p
    BY <1>3
  <2> HIDE DEF u
  <2>2. V(y(u)) \in 0 .. u /\ Dist(g, C, p) = u - V(y(u))
    BY <1>5, <2>1
  <2>3. V(y(u)) < u /\ u \in 1 .. C - 1 /\ u - 1 \in 0 .. C - 1
    <3> HIDE DEF V, B
    <3> QED
      BY <1>1, <2>1, <2>2
  <2>4. y(u - 1) # None /\ V(y(u - 1)) <= V(y(u)) /\ Back(C, p) = B(u - 1)
    BY <1>2, <1>3, <2>1, <2>3
  <2>5. V(y(u - 1)) \in 0 .. u - 1 /\ Dist(g, C, B(u - 1)) = (u - 1) - V(y(u - 1))
    BY <1>5, <2>3, <2>4
  <2> HIDE DEF V, B
  <2> QED
    BY <2>2, <2>3, <2>4, <2>5
<1>7. Entries(g, C) = Entries(ix, c)
  <2>1. ASSUME NEW e \in Entries(g, C)
        PROVE  e \in Entries(ix, c)
    <3>1. PICK p \in 0 .. C - 1 : g[p] # None /\ g[p] = e
      BY DEF Entries
    <3>2. PICK u \in 0 .. C - 1 : B(u) = p
      BY <1>3
    <3>3. PICK x \in 0 .. c - 1 : y(u) = E(x)
      BY <1>2, <3>1, <3>2
    <3> QED
      BY <1>4, <3>1, <3>2, <3>3 DEF Entries
  <2>2. ASSUME NEW e \in Entries(ix, c)
        PROVE  e \in Entries(g, C)
    <3>1. PICK p \in 0 .. c - 1 : ix[p] # None /\ ix[p] = e
      BY DEF Entries
    <3>2. PICK x \in 0 .. c - 1 : A(x) = p
      BY <1>4
    <3>3. PICK u \in 0 .. C - 1 : y(u) = E(x)
      BY <1>2, <3>1, <3>2
    <3> QED
      BY <1>3, <3>1, <3>2, <3>3 DEF Entries
  <2> QED
    BY <2>1, <2>2
<1> QED
  BY <1>2, <1>6, <1>7 DEF C

(***************************************************************************)
(* Slots and the index.                                                    *)
(***************************************************************************)

Header == [name : DOMAIN NameLen, value : DOMAIN ValueLen, sensitive : BOOLEAN]
SlotRec == [hash : Nat, header : Header, next : (0 .. Width - 1) \union {None}]

\* the slot a stored index names, and the stored index of a slot
SlotAt(ins, a) == ((a + ins) % Width) + 1
Stored(ins, i) == ((i - 1) - ins) % Width

Same(s, i, j) == s[i].header.name = s[j].header.name
Oldest(s, i) == \A j \in 1 .. Len(s) : Same(s, i, j) => j <= i

\* `next` of every slot is the next newer slot of its name
Links(s, ins) ==
    \A i \in 1 .. Len(s) :
        IF s[i].next = None THEN \A j \in 1 .. i - 1 : ~Same(s, i, j)
        ELSE LET n == SlotAt(ins, s[i].next)
             IN  n \in 1 .. i - 1 /\ Same(s, i, n) /\ \A j \in n + 1 .. i - 1 : ~Same(s, i, j)

Typed(ix, c, s, ins) ==
    /\ c \in Nat \ {0} /\ ix \in Indices(c) /\ s \in Seq(SlotRec) /\ ins \in 0 .. Width - 1
    /\ Len(s) <= Width
    /\ \A i \in 1 .. Len(s) : s[i].hash = Hash[s[i].header.name]

\* the entries of the index are the oldest slots of the names
Heads(E, s, ins) ==
    /\ \A e \in E : LET i == SlotAt(ins, e.index)
                    IN  i \in 1 .. Len(s) /\ Oldest(s, i) /\ e.hash = s[i].hash
    /\ \A i \in 1 .. Len(s) : Oldest(s, i) => \E e \in E : SlotAt(ins, e.index) = i

Sound(ix, c, s, ins) ==
    /\ Typed(ix, c, s, ins)
    /\ Heads(Entries(ix, c), s, ins)
    /\ Distinct(ix, c) /\ Local(ix, c)
    /\ Links(s, ins)

\* None is no position and no number.
LEMMA NonePos == None \notin Pos /\ Width \in Nat \ {0} /\ None \notin Nat
<1>1. Width \in Nat \ {0} /\ None \notin Nat /\ None \notin [index : Nat, hash : Nat]
  BY TableAssumption
<1>2. Pos \subseteq [index : Nat, hash : Nat]
  BY <1>1 DEF Pos
<1> QED
  BY <1>1, <1>2

\* A stored index and the slot it names.
LEMMA StoredFacts ==
    ASSUME NEW ins \in 0 .. Width - 1
    PROVE  /\ \A a \in 0 .. Width - 1 : SlotAt(ins, a) \in 1 .. Width /\ Stored(ins, SlotAt(ins, a)) = a
           /\ \A i \in 1 .. Width : Stored(ins, i) \in 0 .. Width - 1 /\ SlotAt(ins, Stored(ins, i)) = i
<1>1. Width \in Nat \ {0}
  BY NonePos
<1>2. /\ \A a \in 0 .. Width - 1 : At(Width, ins, a) \in 0 .. Width - 1 /\ Off(Width, ins, At(Width, ins, a)) = a
      /\ \A p \in 0 .. Width - 1 : Off(Width, ins, p) \in 0 .. Width - 1 /\ At(Width, ins, Off(Width, ins, p)) = p
  BY <1>1, RingMap
<1>3. ASSUME NEW a \in 0 .. Width - 1
      PROVE  SlotAt(ins, a) \in 1 .. Width /\ Stored(ins, SlotAt(ins, a)) = a
  <2>1. a + ins = ins + a
    BY <1>1
  <2>2. SlotAt(ins, a) = At(Width, ins, a) + 1
    BY <2>1 DEF SlotAt, At
  <2>3. At(Width, ins, a) \in 0 .. Width - 1
    BY <1>2
  <2>4. (At(Width, ins, a) + 1) - 1 = At(Width, ins, a) /\ At(Width, ins, a) + 1 \in 1 .. Width
    BY <1>1, <2>3
  <2>5. Stored(ins, SlotAt(ins, a)) = Off(Width, ins, At(Width, ins, a))
    BY <2>2, <2>4 DEF Stored, Off
  <2> QED
    BY <1>2, <2>2, <2>4, <2>5
<1>4. ASSUME NEW i \in 1 .. Width
      PROVE  Stored(ins, i) \in 0 .. Width - 1 /\ SlotAt(ins, Stored(ins, i)) = i
  <2>1. i - 1 \in 0 .. Width - 1
    BY <1>1
  <2>2. Stored(ins, i) = Off(Width, ins, i - 1)
    BY DEF Stored, Off
  <2> DEFINE a == Off(Width, ins, i - 1)
  <2>3. a \in 0 .. Width - 1 /\ At(Width, ins, a) = i - 1
    BY <1>2, <2>1
  <2> HIDE DEF a
  <2>4. a + ins = ins + a
    BY <1>1, <2>3
  <2>5. SlotAt(ins, a) = (i - 1) + 1
    BY <2>3, <2>4 DEF SlotAt, At
  <2>6. (i - 1) + 1 = i
    BY <1>1
  <2> QED
    BY <2>2, <2>3, <2>5, <2>6 DEF a
<1> QED
  BY <1>3, <1>4

\* A sequence without its last element (pop_back).
LEMMA FrontFacts ==
    ASSUME NEW S, NEW s \in Seq(S), Len(s) # 0
    PROVE  /\ Front(s) \in Seq(S) /\ Len(Front(s)) = Len(s) - 1
           /\ \A i \in 1 .. Len(s) - 1 : Front(s)[i] = s[i]
           /\ Last(s) = s[Len(s)] /\ s[Len(s)] \in S /\ Len(s) \in Nat \ {0}
<1>1. Len(s) \in Nat \ {0} /\ s[Len(s)] \in S
  OBVIOUS
<1> DEFINE n == Len(s) - 1
<1>2. n \in Nat /\ 1 \in Int /\ n \in Int /\ \A i \in 1 .. n : s[i] \in S
  BY <1>1
<1>3. Front(s) = SubSeq(s, 1, n)
  BY DEF Front
<1> HIDE DEF n
<1>4. /\ SubSeq(s, 1, n) \in Seq(S) /\ Len(SubSeq(s, 1, n)) = (IF 1 <= n THEN (n - 1) + 1 ELSE 0)
      /\ \A i \in 1 .. (n - 1) + 1 : SubSeq(s, 1, n)[i] = s[(1 + i) - 1]
  BY <1>2, SubSeqProperties
<1>5. Len(Front(s)) = n
  BY <1>2, <1>3, <1>4
<1>6. ASSUME NEW i \in 1 .. n
      PROVE  Front(s)[i] = s[i]
  <2>1. i \in 1 .. (n - 1) + 1 /\ (1 + i) - 1 = i
    BY <1>2
  <2> QED
    BY <1>3, <1>4, <2>1
<1> QED
  BY <1>1, <1>3, <1>4, <1>5, <1>6 DEF Last, n

\* A sequence with one element more in front (push_front).
LEMMA PrependFacts ==
    ASSUME NEW S, NEW s \in Seq(S), NEW x \in S
    PROVE  /\ <<x>> \o s \in Seq(S) /\ Len(<<x>> \o s) = Len(s) + 1
           /\ (<<x>> \o s)[1] = x /\ \A i \in 1 .. Len(s) : (<<x>> \o s)[i + 1] = s[i]
           /\ \A i \in 2 .. Len(s) + 1 : (<<x>> \o s)[i] = s[i - 1]
OBVIOUS

\* The place of an entry is found from its hash.
LEMMA PlaceOf ==
    ASSUME NEW c \in Nat \ {0}, NEW ix \in Indices(c), Distinct(ix, c),
           NEW e \in Entries(ix, c),
           NEW steps, steps = {k \in 0 .. c - 1 : ix[At(c, e.hash, k)] # None /\ ix[At(c, e.hash, k)].index = e.index}
    PROVE  LET place == At(c, e.hash, Min(steps))
           IN  place \in 0 .. c - 1 /\ ix[place] = e
<1>1. PICK p \in 0 .. c - 1 : ix[p] # None /\ ix[p] = e
  BY DEF Entries
<1>2. e.hash \in Int /\ Dist(ix, c, p) \in 0 .. c - 1
  BY <1>1, DistType
<1>3. At(c, e.hash, Dist(ix, c, p)) = p
  BY <1>1, <1>2, RingInverse DEF Dist
<1>4. Dist(ix, c, p) \in steps
  BY <1>1, <1>2, <1>3
<1>5. steps \in SUBSET Nat /\ steps # {}
  BY <1>4
<1>6. Min(steps) \in steps
  BY <1>5, MinFacts
<1> DEFINE q == At(c, e.hash, Min(steps))
<1>7. q \in 0 .. c - 1
  BY <1>2, <1>6, RingInverse
<1>8. ix[q] # None /\ ix[q].index = e.index
  BY <1>6
<1> HIDE DEF q
<1>9. q = p
  BY <1>1, <1>7, <1>8 DEF Distinct
<1> QED
  BY <1>1, <1>9 DEF q

\* what is left in r is not further from its own place than what was there
Lower(r, ix, c) ==
    \A p \in 0 .. c - 1 : r[p] # None => ix[p] # None /\ Dist(r, c, p) <= Dist(ix, c, p)

\* An entry that gets another index stays where it is.
LEMMA RenamedFacts ==
    ASSUME NEW c \in Nat \ {0}, NEW ix \in Indices(c), Local(ix, c), Distinct(ix, c),
           NEW place \in 0 .. c - 1, ix[place] # None, NEW a \in 0 .. Width - 1,
           \A x \in Entries(ix, c) : x.index # a,
           NEW e, e = [index |-> a, hash |-> ix[place].hash],
           NEW r, r = [ix EXCEPT ![place] = e]
    PROVE  /\ r \in Indices(c) /\ Local(r, c) /\ Distinct(r, c)
           /\ Entries(r, c) = (Entries(ix, c) \ {ix[place]}) \union {e}
           /\ Lower(r, ix, c)
<1>1. ix \in [0 .. c - 1 -> Pos \union {None}] /\ ix[place] \in Pos
  BY DistType DEF Indices
<1>2. e \in Pos /\ e # None
  <2>1. e \in Pos
    BY <1>1 DEF Pos
  <2> QED
    BY <2>1, NonePos
<1>4. /\ r \in Indices(c) /\ r[place] = e
      /\ \A p \in 0 .. c - 1 : p # place => r[p] = ix[p]
  BY <1>1, <1>2 DEF Indices
<1>5. \A p \in 0 .. c - 1 : (r[p] # None <=> ix[p] # None) /\ r[p].hash = ix[p].hash
  <2>1. e.hash = ix[place].hash
    OBVIOUS
  <2> QED
    BY <1>2, <1>4, <2>1
<1>6. \A p \in 0 .. c - 1 : Dist(r, c, p) = Dist(ix, c, p)
  BY <1>5 DEF Dist
<1>7. Local(r, c)
  <2>1. \A p \in 0 .. c - 1 : Back(c, p) \in 0 .. c - 1
    BY RingNext
  <2> QED
    BY <1>5, <1>6, <2>1 DEF Local
<1>8. Distinct(r, c)
  <2>1. e.index = a
    OBVIOUS
  <2>2. \A p \in 0 .. c - 1 : ix[p] # None => ix[p].index # a
    BY DEF Entries
  <2>3. ASSUME NEW p \in 0 .. c - 1, NEW q \in 0 .. c - 1,
               r[p] # None, r[q] # None, r[p].index = r[q].index
        PROVE  p = q
    <3>1. CASE p = place
      BY <1>4, <2>1, <2>2, <2>3, <3>1
    <3>2. CASE q = place
      BY <1>4, <2>1, <2>2, <2>3, <3>2
    <3>3. CASE p # place /\ q # place
      BY <1>4, <2>3, <3>3 DEF Distinct
    <3> QED
      BY <3>1, <3>2, <3>3
  <2> QED
    BY <2>3 DEF Distinct
<1>9. Entries(r, c) = (Entries(ix, c) \ {ix[place]}) \union {e}
  <2>1. ASSUME NEW x \in Entries(r, c)
        PROVE  x \in (Entries(ix, c) \ {ix[place]}) \union {e}
    <3>1. PICK p \in 0 .. c - 1 : r[p] # None /\ r[p] = x
      BY DEF Entries
    <3>2. CASE p = place
      BY <1>4, <3>1, <3>2
    <3>3. CASE p # place
      <4>1. ix[p] = x /\ x # None
        BY <1>4, <3>1, <3>3
      <4>2. x # ix[place]
        BY <3>3, <4>1 DEF Distinct
      <4> QED
        BY <4>1, <4>2 DEF Entries
    <3> QED
      BY <3>2, <3>3
  <2>2. e \in Entries(r, c)
    BY <1>2, <1>4 DEF Entries
  <2>3. ASSUME NEW x \in Entries(ix, c), x # ix[place]
        PROVE  x \in Entries(r, c)
    <3>1. PICK p \in 0 .. c - 1 : ix[p] # None /\ ix[p] = x
      BY DEF Entries
    <3> QED
      BY <1>4, <2>3, <3>1 DEF Entries
  <2> QED
    BY <2>1, <2>2, <2>3
<1>10. Lower(r, ix, c)
  <2>1. \A p \in 0 .. c - 1 : ix[p] # None => Dist(ix, c, p) <= Dist(ix, c, p)
    <3>1. \A p \in 0 .. c - 1 : ix[p] # None => Dist(ix, c, p) \in 0 .. c - 1
      BY DistType
    <3> QED
      BY <3>1
  <2> QED
    BY <1>5, <1>6, <2>1 DEF Lower
<1> QED
  BY <1>4, <1>7, <1>8, <1>9, <1>10

\* evict() on positions
Evicted(ix, c, s, ins) ==
    LET slot == s[Len(s)]
        steps == {k \in 0 .. c - 1 : /\ ix[At(c, slot.hash, k)] # None
                                     /\ ix[At(c, slot.hash, k)].index = Stored(ins, Len(s))}
        place == At(c, slot.hash, Min(steps))
    IN  IF slot.next # None THEN [ix EXCEPT ![place].index = slot.next]
        ELSE Removed([ix EXCEPT ![place] = None], c, place)

\* evict() keeps the index sound, and the free places free.
LEMMA EvictSound ==
    ASSUME NEW ix, NEW c, NEW s, NEW ins, Sound(ix, c, s, ins), HasFree(ix, c), Len(s) # 0,
           NEW r, r = Evicted(ix, c, s, ins)
    PROVE  Sound(r, c, Front(s), ins) /\ HasFree(r, c) /\ Lower(r, ix, c)
<1> DEFINE n == Len(s)
           slot == s[n]
           f == Front(s)
           a == Stored(ins, n)
           E == Entries(ix, c)
<1>0. Typed(ix, c, s, ins) /\ Heads(E, s, ins) /\ Distinct(ix, c) /\ Local(ix, c) /\ Links(s, ins)
  BY DEF Sound
<1>1. c \in Nat \ {0} /\ ix \in Indices(c) /\ s \in Seq(SlotRec) /\ ins \in 0 .. Width - 1
      /\ n \in 1 .. Width /\ Width \in Nat /\ \A i \in 1 .. n : s[i].hash = Hash[s[i].header.name]
  BY <1>0, NonePos DEF Typed
<1>2. f \in Seq(SlotRec) /\ Len(f) = n - 1 /\ \A i \in 1 .. n - 1 : f[i] = s[i]
  BY <1>1, FrontFacts
<1>3. slot \in SlotRec /\ slot.hash \in Nat
  <2>1. slot \in SlotRec
    BY <1>1, FrontFacts
  <2> HIDE DEF slot
  <2> QED
    BY <2>1 DEF SlotRec
<1>4. Oldest(s, n)
  BY <1>1 DEF Oldest
<1>5. PICK e \in E : SlotAt(ins, e.index) = n
  BY <1>0, <1>1, <1>4 DEF Heads
<1>6. \A x \in E : x \in Pos /\ x.index \in 0 .. Width - 1
  BY <1>1, DistType DEF Entries, Pos
<1>7. e.hash = slot.hash /\ e.index = a /\ a \in 0 .. Width - 1
  <2>1. e.hash = slot.hash
    BY <1>0, <1>5 DEF Heads
  <2>2. Stored(ins, SlotAt(ins, e.index)) = e.index
    BY <1>1, <1>5, <1>6, StoredFacts
  <2> QED
    BY <1>5, <1>6, <2>1, <2>2
<1>8. PICK place \in 0 .. c - 1 :
         /\ ix[place] = e
         /\ r = IF slot.next # None THEN [ix EXCEPT ![place].index = slot.next]
                ELSE Removed([ix EXCEPT ![place] = None], c, place)
  <2> DEFINE steps == {k \in 0 .. c - 1 : /\ ix[At(c, slot.hash, k)] # None
                                          /\ ix[At(c, slot.hash, k)].index = a}
             place == At(c, slot.hash, Min(steps))
  <2>1. steps = {k \in 0 .. c - 1 : ix[At(c, e.hash, k)] # None /\ ix[At(c, e.hash, k)].index = e.index}
    BY <1>7
  <2>2. At(c, e.hash, Min(steps)) \in 0 .. c - 1 /\ ix[At(c, e.hash, Min(steps))] = e
    <3> HIDE DEF steps
    <3> QED
      BY <1>0, <1>1, <2>1, PlaceOf
  <2>3. place \in 0 .. c - 1 /\ ix[place] = e
    BY <1>7, <2>2
  <2>4. r = IF slot.next # None THEN [ix EXCEPT ![place].index = slot.next]
                ELSE Removed([ix EXCEPT ![place] = None], c, place)
    BY DEF Evicted
  <2> HIDE DEF place, slot
  <2> QED
    BY <2>3, <2>4
<1>9. e # None /\ e \in Pos
  BY <1>6, NonePos
\* the slots that are left
<1>10. Links(f, ins)
  <2> SUFFICES ASSUME NEW i \in 1 .. n - 1
               PROVE  IF f[i].next = None THEN \A j \in 1 .. i - 1 : ~Same(f, i, j)
                      ELSE LET m == SlotAt(ins, f[i].next)
                           IN  m \in 1 .. i - 1 /\ Same(f, i, m) /\ \A j \in m + 1 .. i - 1 : ~Same(f, i, j)
    BY <1>2 DEF Links
  <2>1. i \in 1 .. n /\ f[i] = s[i] /\ \A j \in 1 .. i - 1 : f[j] = s[j]
    BY <1>1, <1>2
  <2>2. \A j \in 1 .. i - 1 : Same(f, i, j) <=> Same(s, i, j)
    BY <2>1 DEF Same
  <2>3. CASE s[i].next = None
    BY <1>0, <2>1, <2>2, <2>3 DEF Links
  <2>4. CASE s[i].next # None
    <3> DEFINE m == SlotAt(ins, s[i].next)
    <3>1. m \in 1 .. i - 1 /\ Same(s, i, m) /\ \A j \in m + 1 .. i - 1 : ~Same(s, i, j)
      BY <1>0, <2>1, <2>4 DEF Links
    <3> HIDE DEF m
    <3>2. \A j \in m + 1 .. i - 1 : j \in 1 .. i - 1
      BY <3>1
    <3> QED
      BY <2>1, <2>2, <2>4, <3>1, <3>2 DEF m
  <2> QED
    BY <2>3, <2>4
<1>11. \A i \in 1 .. n - 1 : Oldest(f, i) <=> (Oldest(s, i) \/ (Same(s, n, i) /\ \A j \in i + 1 .. n - 1 : ~Same(s, n, j)))
  <2> SUFFICES ASSUME NEW i \in 1 .. n - 1
               PROVE  Oldest(f, i) <=> (Oldest(s, i) \/ (Same(s, n, i) /\ \A j \in i + 1 .. n - 1 : ~Same(s, n, j)))
    OBVIOUS
  <2>1. Oldest(f, i) <=> \A j \in 1 .. n - 1 : s[i].header.name = s[j].header.name => j <= i
    BY <1>2 DEF Oldest, Same
  <2>2. \A j \in 1 .. n : j \in 1 .. n - 1 \/ j = n
    BY <1>1
  <2>3. \A j \in i + 1 .. n - 1 : j \in 1 .. n - 1 /\ ~(j <= i)
    BY <1>1
  <2>4. n \in 1 .. n /\ ~(n <= i)
    BY <1>1
  <2>5. Oldest(s, i) <=> (s[i].header.name # s[n].header.name /\ \A j \in 1 .. n - 1 : s[i].header.name = s[j].header.name => j <= i)
    BY <1>1, <2>2, <2>4 DEF Oldest, Same
  <2>6. \A j \in 1 .. n - 1 : j <= i \/ j \in i + 1 .. n - 1
    BY <1>1
  <2> QED
    BY <2>1, <2>3, <2>5, <2>6 DEF Same
<1>12. Typed(r, c, f, ins) <=> r \in Indices(c)
  <2>1. \A i \in 1 .. n - 1 : i \in 1 .. n
    BY <1>1
  <2>2. Len(f) <= Width
    BY <1>1, <1>2
  <2> QED
    BY <1>1, <1>2, <2>1, <2>2 DEF Typed
<1>13. \A x \in E : x # e => SlotAt(ins, x.index) \in 1 .. n - 1 /\ ~Same(s, n, SlotAt(ins, x.index))
  <2> SUFFICES ASSUME NEW x \in E, x # e
               PROVE  SlotAt(ins, x.index) \in 1 .. n - 1 /\ ~Same(s, n, SlotAt(ins, x.index))
    OBVIOUS
  <2>1. SlotAt(ins, x.index) \in 1 .. n /\ Oldest(s, SlotAt(ins, x.index))
    BY <1>0 DEF Heads
  <2>2. x.index # a
    <3>1. PICK p \in 0 .. c - 1 : ix[p] # None /\ ix[p] = x
      BY DEF Entries
    <3> QED
      BY <1>0, <1>7, <1>8, <1>9, <2>1, <3>1 DEF Distinct
  <2>3. SlotAt(ins, x.index) # n
    BY <1>1, <1>6, <2>2, StoredFacts
  <2>4. SlotAt(ins, x.index) \in 1 .. n - 1
    BY <1>1, <2>1, <2>3
  <2>5. n \in 1 .. n /\ ~(n <= SlotAt(ins, x.index))
    BY <1>1, <2>4
  <2>6. ~Same(s, SlotAt(ins, x.index), n)
    BY <2>1, <2>5 DEF Oldest
  <2> QED
    BY <2>4, <2>6 DEF Same
<1>14. CASE slot.next # None
  <2> DEFINE b == slot.next
             m == SlotAt(ins, b)
             e1 == [index |-> b, hash |-> e.hash]
  <2>1. b \in 0 .. Width - 1
    BY <1>3, <1>14 DEF SlotRec
  <2>2. m \in 1 .. n - 1 /\ Same(s, n, m) /\ \A j \in m + 1 .. n - 1 : ~Same(s, n, j)
    <3>1. n \in 1 .. n
      BY <1>1
    <3> QED
      BY <1>0, <1>14, <3>1 DEF Links
  <2>3. \A x \in E : x.index # b
    <3>1. SlotAt(ins, e.index) # m
      BY <1>1, <1>5, <2>2
    <3>2. \A x \in E : x # e => SlotAt(ins, x.index) # m
      BY <1>13, <2>2
    <3> QED
      BY <3>1, <3>2
  <2>4. r = [ix EXCEPT ![place].index = b]
    BY <1>8, <1>14
  <2>5. /\ r \in Indices(c) /\ Local(r, c) /\ Distinct(r, c)
        /\ Entries(r, c) = (E \ {e}) \union {e1} /\ Lower(r, ix, c)
    <3>1. ix[place] # None
      BY <1>8, <1>9
    <3>2. ix[place] \in Pos /\ ix \in [0 .. c - 1 -> Pos \union {None}]
      BY <1>1, <1>8, <1>9 DEF Indices
    <3>3. [ix[place] EXCEPT !.index = b] = e1 /\ e1 = [index |-> b, hash |-> ix[place].hash]
      BY <1>8, <3>2 DEF Pos
    <3>4. r = [ix EXCEPT ![place] = e1]
      BY <2>4, <3>3
    <3>5. c \in Nat \ {0} /\ ix \in Indices(c) /\ Local(ix, c) /\ Distinct(ix, c)
      BY <1>0, <1>1
    <3>6. \A x \in Entries(ix, c) : x.index # b
      BY <2>3
    <3> HIDE DEF b, e1
    <3>7. /\ r \in Indices(c) /\ Local(r, c) /\ Distinct(r, c)
          /\ Entries(r, c) = (Entries(ix, c) \ {ix[place]}) \union {e1}
          /\ Lower(r, ix, c)
      BY <2>1, <3>1, <3>3, <3>4, <3>5, <3>6, RenamedFacts
    <3> QED
      BY <1>8, <3>7
  <2>6. e1.index = b /\ e1.hash = e.hash
    OBVIOUS
  <2> HIDE DEF e1
  <2>7. Heads(Entries(r, c), f, ins)
    <3>1. ASSUME NEW x \in E, x # e
          PROVE  LET i == SlotAt(ins, x.index)
                 IN  i \in 1 .. Len(f) /\ Oldest(f, i) /\ x.hash = f[i].hash
      <4> DEFINE i == SlotAt(ins, x.index)
      <4>1. i \in 1 .. n - 1
        BY <1>13, <3>1
      <4>2. Oldest(s, i) /\ x.hash = s[i].hash
        BY <1>0 DEF Heads
      <4> HIDE DEF i
      <4> QED
        BY <1>2, <1>11, <4>1, <4>2 DEF i
    <3>2. m \in 1 .. Len(f) /\ Oldest(f, m) /\ e1.hash = f[m].hash
      <4>1. Oldest(f, m)
        BY <1>11, <2>2
      <4>2. e.hash = f[m].hash
        <5>1. f[m] = s[m] /\ m \in 1 .. n /\ n \in 1 .. n
          BY <1>1, <1>2, <2>2, SMTT(30)
        <5>2. s[m].hash = s[n].hash
          BY <1>1, <2>2, <5>1 DEF Same
        <5> QED
          BY <1>7, <5>1, <5>2
      <4> QED
        BY <1>2, <2>2, <2>6, <4>1, <4>2
    <3>3. ASSUME NEW i \in 1 .. n - 1, Oldest(f, i)
          PROVE  \E x \in Entries(r, c) : SlotAt(ins, x.index) = i
      <4>1. CASE Oldest(s, i)
        <5>1. i \in 1 .. n /\ i # n
          BY <1>1
        <5>2. PICK x \in E : SlotAt(ins, x.index) = i
          BY <1>0, <4>1, <5>1 DEF Heads
        <5>3. x # e
          BY <1>5, <5>1, <5>2
        <5> QED
          BY <2>5, <5>2, <5>3
      <4>2. CASE Same(s, n, i) /\ \A j \in i + 1 .. n - 1 : ~Same(s, n, j)
        <5>1. ~(m \in i + 1 .. n - 1) /\ ~(i \in m + 1 .. n - 1)
          BY <2>2, <4>2
        <5>2. i = m
          <6> HIDE DEF m
          <6> QED
            BY <1>1, <2>2, <5>1
        <5> QED
          BY <2>5, <2>6, <5>2
      <4> QED
        BY <1>11, <3>3, <4>1, <4>2
    <3> QED
      BY <1>2, <2>5, <2>6, <3>1, <3>2, <3>3 DEF Heads
  <2>8. HasFree(r, c)
    BY <2>5 DEF HasFree, Lower
  <2> QED
    BY <1>10, <1>12, <2>5, <2>7, <2>8 DEF Sound
<1>15. CASE slot.next = None
  <2>1. \A j \in 1 .. n - 1 : ~Same(s, n, j)
    <3>1. n \in 1 .. n
      BY <1>1
    <3> QED
      BY <1>0, <1>15, <3>1 DEF Links
  <2>2. r = Removed([ix EXCEPT ![place] = None], c, place)
    BY <1>8, <1>15
  <2>3. /\ r \in Indices(c) /\ Local(r, c) /\ Distinct(r, c)
        /\ Entries(r, c) = E \ {e} /\ Lower(r, ix, c)
    <3>1. ix[place] # None
      BY <1>8, <1>9
    <3>2. /\ r \in Indices(c) /\ Local(r, c) /\ Distinct(r, c)
          /\ Entries(r, c) = Entries(ix, c) \ {ix[place]}
          /\ \A p \in 0 .. c - 1 : r[p] # None => ix[p] # None /\ Dist(r, c, p) <= Dist(ix, c, p)
      BY <1>0, <1>1, <2>2, <3>1, RemovedFacts
    <3> QED
      BY <1>8, <3>2 DEF Lower
  <2>4. \A i \in 1 .. n - 1 : Oldest(f, i) <=> Oldest(s, i)
    BY <1>11, <2>1
  <2>5. Heads(Entries(r, c), f, ins)
    <3>1. ASSUME NEW x \in E, x # e
          PROVE  LET i == SlotAt(ins, x.index)
                 IN  i \in 1 .. Len(f) /\ Oldest(f, i) /\ x.hash = f[i].hash
      <4> DEFINE i == SlotAt(ins, x.index)
      <4>1. i \in 1 .. n - 1
        BY <1>13, <3>1
      <4>2. Oldest(s, i) /\ x.hash = s[i].hash
        BY <1>0 DEF Heads
      <4> HIDE DEF i
      <4> QED
        BY <1>2, <2>4, <4>1, <4>2 DEF i
    <3>2. ASSUME NEW i \in 1 .. n - 1, Oldest(f, i)
          PROVE  \E x \in Entries(r, c) : SlotAt(ins, x.index) = i
      <4>1. i \in 1 .. n /\ i # n
        BY <1>1
      <4>2. PICK x \in E : SlotAt(ins, x.index) = i
        BY <1>0, <2>4, <3>2, <4>1 DEF Heads
      <4>3. x # e
        BY <1>5, <4>1, <4>2
      <4> QED
        BY <2>3, <4>2, <4>3
    <3> QED
      BY <1>2, <2>3, <3>1, <3>2 DEF Heads
  <2>6. HasFree(r, c)
    BY <2>3 DEF HasFree, Lower
  <2> QED
    BY <1>10, <1>12, <2>3, <2>5, <2>6 DEF Sound
<1> QED
  BY <1>14, <1>15

\* With fewer slots than places a place is free.
LEMMA FreePlace ==
    ASSUME NEW ix, NEW c, NEW s, NEW ins, Sound(ix, c, s, ins), Len(s) < c
    PROVE  HasFree(ix, c)
<1> SUFFICES ASSUME ~HasFree(ix, c) PROVE FALSE
  OBVIOUS
<1>1. c \in Nat \ {0} /\ ix \in Indices(c) /\ s \in Seq(SlotRec) /\ ins \in 0 .. Width - 1 /\ Len(s) \in Nat
  BY DEF Sound, Typed
<1>2. \A p \in 0 .. c - 1 : ix[p] # None /\ ix[p] \in Entries(ix, c) /\ ix[p].index \in 0 .. Width - 1
  <2>1. \A p \in 0 .. c - 1 : ix[p] # None
    BY DEF HasFree
  <2>2. \A p \in 0 .. c - 1 : ix[p] \in Pos
    BY <1>1, <2>1, DistType
  <2> QED
    BY <2>1, <2>2 DEF Entries, Pos
<1> DEFINE f == [p \in 0 .. c - 1 |-> SlotAt(ins, ix[p].index)]
<1>3. f \in [0 .. c - 1 -> 1 .. Len(s)]
  BY <1>2 DEF Sound, Heads
<1>4. IsFiniteSet(0 .. c - 1) /\ Cardinality(0 .. c - 1) = c
  <2>1. 0 \in Int /\ c - 1 \in Int /\ ~(0 > c - 1) /\ (c - 1) - 0 + 1 = c
    BY <1>1
  <2> QED
    BY <2>1, FS_Interval
<1>5. IsFiniteSet(1 .. Len(s)) /\ Cardinality(1 .. Len(s)) = Len(s)
  <2>1. 1 \in Int /\ Len(s) \in Int /\ (IF 1 > Len(s) THEN 0 ELSE Len(s) - 1 + 1) = Len(s)
    BY <1>1
  <2> QED
    BY <2>1, FS_Interval
<1>6. PICK p \in 0 .. c - 1, q \in 0 .. c - 1 : p # q /\ f[p] = f[q]
  <2> HIDE DEF f
  <2> QED
    BY <1>3, <1>4, <1>5, FS_PigeonHole
<1>7. SlotAt(ins, ix[p].index) = SlotAt(ins, ix[q].index)
  BY <1>6
<1>8. ix[p].index = ix[q].index
  <2>1. \A a \in 0 .. Width - 1 : Stored(ins, SlotAt(ins, a)) = a
    BY <1>1, StoredFacts
  <2>2. ix[p].index \in 0 .. Width - 1 /\ ix[q].index \in 0 .. Width - 1
    BY <1>2
  <2> QED
    BY <1>7, <2>1, <2>2
<1> QED
  BY <1>2, <1>6, <1>8 DEF Sound, Distinct

\* An insertion moves every slot by one.
LEMMA InsertedFacts ==
    ASSUME NEW ins \in 0 .. Width - 1, NEW ins1, ins1 = (ins + 1) % Width
    PROVE  /\ ins1 \in 0 .. Width - 1
           /\ \A a \in 0 .. Width - 1 : SlotAt(ins, a) # Width => SlotAt(ins1, a) = SlotAt(ins, a) + 1
           /\ \A a \in 0 .. Width - 1 : SlotAt(ins, a) = Width => SlotAt(ins1, a) = 1
           /\ Stored(ins1, 1) = (-1 - ins) % Width
           /\ \A i \in Int : Stored(ins1, i + 1) = Stored(ins, i)
<1>1. Width \in Nat \ {0} /\ ins \in Int /\ ins + 1 \in Int
  BY NonePos
<1>2. ins1 \in 0 .. Width - 1
  BY <1>1, DivMod
<1>3. ASSUME NEW a \in 0 .. Width - 1
      PROVE  /\ SlotAt(ins, a) # Width => SlotAt(ins1, a) = SlotAt(ins, a) + 1
             /\ SlotAt(ins, a) = Width => SlotAt(ins1, a) = 1
  <2>1. a \in Int /\ a + ins \in Int
    BY <1>1
  <2>2. (a + ((ins + 1) % Width)) % Width = ((ins + 1) + a) % Width
    BY <1>1, <2>1, ModSum
  <2>3. (ins + 1) + a = (a + ins) + 1
    BY <1>1, <2>1
  <2>4. ((a + ins) + 1) % Width = IF (a + ins) % Width = Width - 1 THEN 0 ELSE ((a + ins) % Width) + 1
    BY <1>1, <2>1, ModStep
  <2>5. (a + ins) % Width \in 0 .. Width - 1
    BY <1>1, <2>1, DivMod
  <2>6. SlotAt(ins1, a) = (((a + ins) + 1) % Width) + 1
    BY <2>2, <2>3 DEF SlotAt
  <2> DEFINE x == (a + ins) % Width
  <2>7. SlotAt(ins, a) = x + 1 /\ x \in 0 .. Width - 1
    BY <2>5 DEF SlotAt
  <2>8. SlotAt(ins1, a) = (IF x = Width - 1 THEN 0 ELSE x + 1) + 1
    BY <2>4, <2>6
  <2> HIDE DEF x
  <2> QED
    BY <1>1, <2>7, <2>8
<1>4. ASSUME NEW i \in Int
      PROVE  Stored(ins1, i + 1) = Stored(ins, i)
  <2>1. (i + 1) - 1 = i /\ i \in Int
    OBVIOUS
  <2>2. (i - ((ins + 1) % Width)) % Width = (i - (ins + 1)) % Width
    BY <1>1, <2>1, ModSum
  <2>3. i - (ins + 1) = (i - 1) - ins
    BY <1>1
  <2> QED
    BY <2>1, <2>2, <2>3 DEF Stored
<1>5. Stored(ins1, 1) = (-1 - ins) % Width
  <2>1. 0 \in Int /\ 0 + 1 = 1 /\ 0 - 1 = -1
    OBVIOUS
  <2>2. Stored(ins1, 0 + 1) = Stored(ins, 0)
    BY <1>4, <2>1
  <2>3. Stored(ins, 0) = ((0 - 1) - ins) % Width
    BY DEF Stored
  <2> QED
    BY <2>1, <2>2, <2>3
<1> QED
  BY <1>2, <1>3, <1>4, <1>5

\* a sequence of slots with the next one of a slot set
Relinked(s, pos, a) == [i \in 1 .. Len(s) |-> IF i = pos THEN [s[i] EXCEPT !.next = a] ELSE s[i]]

\* the slots after insert() and the link from the slot at `pos`
Ahead(s, pos, a, slot) == <<slot>> \o Relinked(s, pos, a)

\* The slots after a slot was pushed in front and a link was set to it.
LEMMA AheadFacts ==
    ASSUME NEW s, NEW pos, NEW a, NEW slot, NEW z,
           s \in Seq(SlotRec), pos \in Int, a \in 0 .. Width - 1, slot \in SlotRec,
           z = Ahead(s, pos, a, slot)
    PROVE  /\ z \in Seq(SlotRec) /\ Len(z) = Len(s) + 1 /\ Len(s) \in Nat
           /\ z[1] = slot
           /\ \A i \in 1 .. Len(s) :
                 /\ z[i + 1].hash = s[i].hash /\ z[i + 1].header = s[i].header
                 /\ (i = pos => z[i + 1].next = a) /\ (i = pos \/ z[i + 1] = s[i])
<1> DEFINE y == Relinked(s, pos, a)
<1>1. \A i \in 1 .. Len(s) : s[i] \in SlotRec
  OBVIOUS
<1>2. \A i \in 1 .. Len(s) : [s[i] EXCEPT !.next = a] \in SlotRec
  BY <1>1 DEF SlotRec
<1>3. \A i \in 1 .. Len(s) : y[i] = IF i = pos THEN [s[i] EXCEPT !.next = a] ELSE s[i]
  BY DEF Relinked
<1>4. Len(s) \in Nat /\ y = [i \in 1 .. Len(s) |-> y[i]]
  BY DEF Relinked
<1>5. \A i \in 1 .. Len(s) : y[i] \in SlotRec
  BY <1>1, <1>2, <1>3
<1> HIDE DEF y
<1>6. y \in Seq(SlotRec) /\ Len(y) = Len(s)
  BY <1>4, <1>5
<1>7. z = <<slot>> \o y
  BY DEF Ahead, y
<1>8. z \in Seq(SlotRec) /\ Len(z) = Len(s) + 1 /\ z[1] = slot /\ \A i \in 1 .. Len(s) : z[i + 1] = y[i]
  BY <1>6, <1>7, PrependFacts
<1>9. ASSUME NEW i \in 1 .. Len(s)
      PROVE  /\ z[i + 1].hash = s[i].hash /\ z[i + 1].header = s[i].header
             /\ (i = pos => z[i + 1].next = a) /\ (i = pos \/ z[i + 1] = s[i])
  <2>1. s[i] \in SlotRec /\ z[i + 1] = y[i]
    BY <1>1, <1>8
  <2>2. CASE i = pos
    <3>1. y[i] = [s[i] EXCEPT !.next = a]
      BY <1>3, <2>2
    <3> QED
      BY <2>1, <2>2, <3>1 DEF SlotRec
  <2>3. CASE i # pos
    BY <1>3, <2>1, <2>3
  <2> QED
    BY <2>2, <2>3
<1> QED
  BY <1>4, <1>8, <1>9

\* slot `pos` is the newest one with the name of the new slot, or none is
NewestAt(s, pos, slot) ==
    \/ pos \in 1 .. Len(s) /\ s[pos].header.name = slot.header.name /\ s[pos].next = None
    \/ pos = 0 /\ \A i \in 1 .. Len(s) : s[i].header.name # slot.header.name

\* The new slot continues the links of its name, or begins them.
LEMMA AheadLinks ==
    ASSUME NEW ix, NEW c, NEW s, NEW ins, Typed(ix, c, s, ins), Links(s, ins), Len(s) < Width,
           NEW slot \in SlotRec, slot.hash = Hash[slot.header.name], slot.next = None,
           NEW pos \in Nat, NewestAt(s, pos, slot),
           NEW ins1, ins1 = (ins + 1) % Width,
           NEW z, z = Ahead(s, pos, Stored(ins1, 1), slot)
    PROVE  /\ Typed(ix, c, z, ins1) /\ Links(z, ins1)
           /\ \A i \in 1 .. Len(s) : Oldest(z, i + 1) <=> Oldest(s, i)
           /\ Oldest(z, 1) <=> pos = 0
           /\ SlotAt(ins1, Stored(ins1, 1)) = 1 /\ Stored(ins1, 1) \in 0 .. Width - 1
           /\ z[1] = slot /\ Len(z) = Len(s) + 1
           /\ \A i \in 1 .. Len(s) : z[i + 1].hash = s[i].hash
<1> DEFINE a == Stored(ins1, 1)
           n == Len(s)
           name == slot.header.name
<1>1. c \in Nat \ {0} /\ ix \in Indices(c) /\ s \in Seq(SlotRec) /\ ins \in 0 .. Width - 1
      /\ \A i \in 1 .. n : s[i].hash = Hash[s[i].header.name]
  BY DEF Typed
<1>2. n \in Nat /\ Width \in Nat \ {0} /\ n < Width /\ None \notin Nat
  BY <1>1, NonePos
<1>3. ins1 \in 0 .. Width - 1 /\ a \in 0 .. Width - 1 /\ SlotAt(ins1, a) = 1
  <2>1. ins1 \in 0 .. Width - 1
    BY <1>1, InsertedFacts
  <2>2. 1 \in 1 .. Width
    BY <1>2
  <2> QED
    BY <2>1, <2>2, StoredFacts
<1>4. \A b \in 0 .. Width - 1 : SlotAt(ins, b) \in 1 .. n => SlotAt(ins1, b) = SlotAt(ins, b) + 1
  <2>1. \A b \in 0 .. Width - 1 : SlotAt(ins, b) # Width => SlotAt(ins1, b) = SlotAt(ins, b) + 1
    BY <1>1, InsertedFacts
  <2> QED
    BY <1>2, <2>1
<1>5. pos \in Int
  BY <1>2 DEF NewestAt
<1>6. /\ z \in Seq(SlotRec) /\ Len(z) = n + 1 /\ z[1] = slot
      /\ \A i \in 1 .. n :
            /\ z[i + 1].hash = s[i].hash /\ z[i + 1].header = s[i].header
            /\ (i = pos => z[i + 1].next = a) /\ (i # pos => z[i + 1].next = s[i].next)
  <2>1. z = Ahead(s, pos, a, slot)
    OBVIOUS
  <2>2. s \in Seq(SlotRec) /\ a \in 0 .. Width - 1 /\ pos \in Int
    BY <1>1, <1>3, <1>5
  <2> HIDE DEF a, n
  <2>3. z \in Seq(SlotRec) /\ Len(z) = Len(s) + 1 /\ z[1] = slot
    BY <2>1, <2>2, AheadFacts
  <2>4. ASSUME NEW i \in 1 .. Len(s)
        PROVE  /\ z[i + 1].hash = s[i].hash /\ z[i + 1].header = s[i].header
               /\ (i = pos => z[i + 1].next = a) /\ (i # pos => z[i + 1].next = s[i].next)
    <3>1. z[i + 1].hash = s[i].hash
      BY <2>1, <2>2, AheadFacts
    <3>2. z[i + 1].header = s[i].header
      BY <2>1, <2>2, AheadFacts
    <3>3. (i = pos => z[i + 1].next = a)
      BY <2>1, <2>2, AheadFacts
    <3>4. i = pos \/ z[i + 1] = s[i]
      BY <2>1, <2>2, AheadFacts, SMTT(30)
    <3> QED
      BY <3>1, <3>2, <3>3, <3>4
  <2> QED
    BY <2>3, <2>4 DEF n
<1> HIDE DEF a, n
<1>7. \A j \in 1 .. n + 1 : j = 1 \/ (j - 1 \in 1 .. n /\ (j - 1) + 1 = j)
  BY <1>2
<1>8. /\ \A i, j \in 1 .. n : Same(z, i + 1, j + 1) <=> Same(s, i, j)
      /\ \A i \in 1 .. n : Same(z, i + 1, 1) <=> s[i].header.name = name
      /\ \A i \in 1 .. n : Same(z, 1, i + 1) <=> s[i].header.name = name
  BY <1>6 DEF Same
\* at most one slot of the name has no newer one
<1>9. \A i \in 1 .. n : i # pos /\ s[i].header.name = name => s[i].next # None
  <2> SUFFICES ASSUME NEW i \in 1 .. n, i # pos, s[i].header.name = name, s[i].next = None
               PROVE  FALSE
    OBVIOUS
  <2>1. pos \in 1 .. n /\ s[pos].header.name = name /\ s[pos].next = None
    BY DEF NewestAt, n
  <2>2. \A j \in 1 .. i - 1 : ~Same(s, i, j)
    BY DEF Links, n
  <2>3. \A j \in 1 .. pos - 1 : ~Same(s, pos, j)
    BY <2>1 DEF Links, n
  <2>4. i \in 1 .. pos - 1 \/ pos \in 1 .. i - 1
    BY <1>2, <1>5, <2>1
  <2> QED
    BY <2>1, <2>2, <2>3, <2>4 DEF Same
<1>10. ASSUME NEW i \in 1 .. n, z[i + 1].next = None
       PROVE  \A j \in 1 .. (i + 1) - 1 : ~Same(z, i + 1, j)
  <2>1. i # pos /\ s[i].next = None
    BY <1>2, <1>3, <1>6, <1>10
  <2>2. s[i].header.name # name
    BY <1>9, <2>1
  <2>3. \A j \in 1 .. i - 1 : ~Same(s, i, j)
    BY <2>1 DEF Links, n
  <2>4. ASSUME NEW j \in 1 .. (i + 1) - 1
        PROVE  ~Same(z, i + 1, j)
    <3>1. CASE j = 1
      BY <1>8, <2>2, <3>1
    <3>2. CASE j # 1
      <4>1. j - 1 \in 1 .. i - 1 /\ j - 1 \in 1 .. n /\ (j - 1) + 1 = j
        BY <1>2, <3>2
      <4> QED
        BY <1>8, <2>3, <4>1
    <3> QED
      BY <3>1, <3>2
  <2> QED
    BY <2>4
<1>11. ASSUME NEW i \in 1 .. n, z[i + 1].next # None
       PROVE  LET m == SlotAt(ins1, z[i + 1].next)
              IN  /\ m \in 1 .. (i + 1) - 1 /\ Same(z, i + 1, m)
                  /\ \A j \in m + 1 .. (i + 1) - 1 : ~Same(z, i + 1, j)
  <2>1. CASE i = pos
    <3>1. SlotAt(ins1, z[i + 1].next) = 1
      BY <1>3, <1>6, <2>1
    <3>2. s[i].header.name = name /\ s[i].next = None
      BY <1>2, <2>1 DEF NewestAt, n
    <3>3. \A j \in 1 .. i - 1 : ~Same(s, i, j)
      BY <3>2 DEF Links, n
    <3>4. ASSUME NEW j \in 1 + 1 .. (i + 1) - 1
          PROVE  ~Same(z, i + 1, j)
      <4>1. j - 1 \in 1 .. i - 1 /\ j - 1 \in 1 .. n /\ (j - 1) + 1 = j
        BY <1>2
      <4> QED
        BY <1>8, <3>3, <4>1
    <3>5. 1 \in 1 .. (i + 1) - 1 /\ Same(z, i + 1, 1)
      BY <1>2, <1>8, <3>2
    <3> QED
      BY <3>1, <3>4, <3>5
  <2>2. CASE i # pos
    <3> DEFINE m == SlotAt(ins, s[i].next)
    <3>1. s[i].next = z[i + 1].next /\ s[i].next # None
      BY <1>6, <1>11, <2>2
    <3>2. m \in 1 .. i - 1 /\ Same(s, i, m) /\ \A j \in m + 1 .. i - 1 : ~Same(s, i, j)
      BY <3>1 DEF Links, n
    <3>3. s[i].next \in 0 .. Width - 1
      <4>1. s[i] \in SlotRec
        BY <1>1 DEF n
      <4> QED
        BY <3>1, <4>1 DEF SlotRec
    <3> HIDE DEF m
    <3>4. m \in 1 .. n
      BY <1>2, <3>2
    <3>5. SlotAt(ins1, z[i + 1].next) = m + 1
      BY <1>4, <3>1, <3>3, <3>4 DEF m
    <3>6. Same(z, i + 1, m + 1) /\ m + 1 \in 1 .. (i + 1) - 1
      BY <1>2, <1>8, <3>2, <3>4
    <3>7. ASSUME NEW j \in (m + 1) + 1 .. (i + 1) - 1
          PROVE  ~Same(z, i + 1, j)
      <4>1. j - 1 \in m + 1 .. i - 1 /\ j - 1 \in 1 .. n /\ (j - 1) + 1 = j
        BY <1>2, <3>2
      <4> QED
        BY <1>8, <3>2, <4>1
    <3> QED
      BY <3>5, <3>6, <3>7
  <2> QED
    BY <2>1, <2>2
<1>12. Links(z, ins1)
  <2> SUFFICES ASSUME NEW k \in 1 .. n + 1
               PROVE  IF z[k].next = None THEN \A j \in 1 .. k - 1 : ~Same(z, k, j)
                      ELSE LET m == SlotAt(ins1, z[k].next)
                           IN  m \in 1 .. k - 1 /\ Same(z, k, m) /\ \A j \in m + 1 .. k - 1 : ~Same(z, k, j)
    BY <1>6 DEF Links
  <2>1. CASE k = 1
    BY <1>6, <2>1
  <2>2. CASE k # 1
    <3>1. k - 1 \in 1 .. n /\ (k - 1) + 1 = k
      BY <1>7, <2>2
    <3> DEFINE i == k - 1
    <3>2. i \in 1 .. n /\ k = i + 1
      BY <3>1
    <3> HIDE DEF i
    <3> QED
      BY <1>10, <1>11, <3>2
  <2> QED
    BY <2>1, <2>2
<1>13. ASSUME NEW i \in 1 .. n
       PROVE  Oldest(z, i + 1) <=> Oldest(s, i)
  <2>1. \A j \in 1 .. n : j + 1 \in 1 .. n + 1 /\ (j + 1 <= i + 1 <=> j <= i)
    BY <1>2
  <2>2. 1 <= i + 1
    BY <1>2
  <2>3. Oldest(s, i) <=> \A j \in 1 .. n : Same(s, i, j) => j <= i
    BY DEF Oldest, n
  <2>4. Oldest(z, i + 1) <=> \A j \in 1 .. n + 1 : Same(z, i + 1, j) => j <= i + 1
    BY <1>6 DEF Oldest
  <2>5. ASSUME Oldest(s, i), NEW j \in 1 .. n + 1, Same(z, i + 1, j)
        PROVE  j <= i + 1
    <3>1. CASE j = 1
      BY <2>2, <3>1
    <3>2. CASE j # 1
      <4>1. j - 1 \in 1 .. n /\ (j - 1) + 1 = j
        BY <1>7, <3>2
      <4>2. Same(s, i, j - 1)
        BY <1>8, <2>5, <4>1
      <4>3. j - 1 <= i
        BY <2>3, <2>5, <4>1, <4>2
      <4> QED
        BY <1>2, <4>1, <4>3
    <3> QED
      BY <3>1, <3>2
  <2>6. ASSUME Oldest(z, i + 1), NEW j \in 1 .. n, Same(s, i, j)
        PROVE  j <= i
    BY <1>8, <2>1, <2>4, <2>6
  <2> QED
    BY <2>3, <2>4, <2>5, <2>6
<1>14. Oldest(z, 1) <=> pos = 0
  <2>1. Oldest(z, 1) <=> \A j \in 1 .. n + 1 : Same(z, 1, j) => j <= 1
    BY <1>6 DEF Oldest
  <2>2. CASE pos = 0
    <3>1. \A i \in 1 .. n : s[i].header.name # name
      BY <1>2, <2>2 DEF NewestAt, n
    <3>2. \A j \in 1 .. n + 1 : Same(z, 1, j) => j = 1
      BY <1>7, <1>8, <3>1
    <3> QED
      BY <2>1, <2>2, <3>2
  <2>3. CASE pos # 0
    <3>1. pos \in 1 .. n /\ s[pos].header.name = name
      BY <2>3 DEF NewestAt, n
    <3>2. pos + 1 \in 1 .. n + 1 /\ ~(pos + 1 <= 1) /\ Same(z, 1, pos + 1)
      BY <1>2, <1>8, <3>1
    <3> QED
      BY <2>1, <2>3, <3>2
  <2> QED
    BY <2>2, <2>3
<1>15. Typed(ix, c, z, ins1)
  <2>1. Len(z) <= Width
    BY <1>2, <1>6
  <2>2. ASSUME NEW k \in 1 .. n + 1
        PROVE  z[k].hash = Hash[z[k].header.name]
    <3>1. CASE k = 1
      BY <1>6, <3>1
    <3>2. CASE k # 1
      <4>1. k - 1 \in 1 .. n /\ (k - 1) + 1 = k
        BY <1>7, <3>2
      <4>2. z[(k - 1) + 1].hash = s[k - 1].hash /\ z[(k - 1) + 1].header = s[k - 1].header
        BY <1>6, <4>1
      <4>3. s[k - 1].hash = Hash[s[k - 1].header.name]
        BY <1>1, <4>1 DEF n
      <4> QED
        BY <4>1, <4>2, <4>3
    <3> QED
      BY <3>1, <3>2
  <2> QED
    BY <1>1, <1>3, <1>6, <2>1, <2>2 DEF Typed
<1> QED
  BY <1>3, <1>6, <1>12, <1>13, <1>14, <1>15 DEF n, a

\* The slot of a name that has others: the index stays as it is.
LEMMA AheadSound ==
    ASSUME NEW ix, NEW c, NEW s, NEW ins, Sound(ix, c, s, ins), Len(s) < Width,
           NEW slot \in SlotRec, slot.hash = Hash[slot.header.name], slot.next = None,
           NEW pos \in Nat, NewestAt(s, pos, slot), pos # 0,
           NEW ins1, ins1 = (ins + 1) % Width,
           NEW z, z = Ahead(s, pos, Stored(ins1, 1), slot)
    PROVE  Sound(ix, c, z, ins1)
<1> DEFINE n == Len(s)
           E == Entries(ix, c)
<1>1. Typed(ix, c, s, ins) /\ Heads(E, s, ins) /\ Distinct(ix, c) /\ Local(ix, c) /\ Links(s, ins)
  BY DEF Sound
<1>2. /\ Typed(ix, c, z, ins1) /\ Links(z, ins1)
      /\ \A i \in 1 .. n : Oldest(z, i + 1) <=> Oldest(s, i)
      /\ ~Oldest(z, 1) /\ Len(z) = n + 1
      /\ \A i \in 1 .. n : z[i + 1].hash = s[i].hash
  BY <1>1, AheadLinks
<1>3. n \in Nat /\ Width \in Nat \ {0} /\ ins \in 0 .. Width - 1 /\ ix \in Indices(c) /\ c \in Nat \ {0}
  BY <1>1, NonePos DEF Typed
<1>4. \A x \in E : x.index \in 0 .. Width - 1
  BY <1>3, DistType DEF Entries, Pos
<1>5. \A x \in E : SlotAt(ins, x.index) \in 1 .. n /\ SlotAt(ins1, x.index) = SlotAt(ins, x.index) + 1
  <2>1. \A b \in 0 .. Width - 1 : SlotAt(ins, b) # Width => SlotAt(ins1, b) = SlotAt(ins, b) + 1
    BY <1>3, InsertedFacts
  <2>2. \A x \in E : SlotAt(ins, x.index) \in 1 .. n
    BY <1>1 DEF Heads
  <2> QED
    BY <1>3, <1>4, <2>1, <2>2
<1>6. Heads(E, z, ins1)
  <2>1. ASSUME NEW x \in E
        PROVE  LET i == SlotAt(ins1, x.index)
               IN  i \in 1 .. n + 1 /\ Oldest(z, i) /\ x.hash = z[i].hash
    <3> DEFINE i == SlotAt(ins, x.index)
    <3>1. i \in 1 .. n /\ SlotAt(ins1, x.index) = i + 1 /\ Oldest(s, i) /\ x.hash = s[i].hash
      BY <1>1, <1>5 DEF Heads
    <3> HIDE DEF i
    <3>2. i + 1 \in 1 .. n + 1
      BY <1>3, <3>1
    <3> QED
      BY <1>2, <3>1, <3>2
  <2>2. ASSUME NEW k \in 1 .. n + 1, Oldest(z, k)
        PROVE  \E x \in E : SlotAt(ins1, x.index) = k
    <3>1. k - 1 \in 1 .. n /\ (k - 1) + 1 = k
      BY <1>2, <1>3, <2>2
    <3>2. Oldest(s, k - 1)
      BY <1>2, <2>2, <3>1
    <3>3. PICK x \in E : SlotAt(ins, x.index) = k - 1
      BY <1>1, <3>1, <3>2 DEF Heads
    <3> QED
      BY <1>5, <3>1, <3>3
  <2> QED
    BY <1>2, <2>1, <2>2 DEF Heads
<1> QED
  BY <1>1, <1>2, <1>6 DEF Sound

\* The first slot of a name: a new entry at its place.
LEMMA PlaceSound ==
    ASSUME NEW ix, NEW c, NEW s, NEW ins, Sound(ix, c, s, ins), HasFree(ix, c), Len(s) < Width,
           NEW slot \in SlotRec, slot.hash = Hash[slot.header.name], slot.next = None,
           NewestAt(s, 0, slot),
           NEW d \in 0 .. c - 1, NEW place, place = At(c, slot.hash, d),
           ix[place] = None \/ Dist(ix, c, place) <= d,
           d # 0 => ix[Back(c, place)] # None /\ Dist(ix, c, Back(c, place)) >= d - 1,
           NEW ins1, ins1 = (ins + 1) % Width,
           NEW e, e = [index |-> Stored(ins1, 1), hash |-> slot.hash],
           NEW z, z = Ahead(s, 0, Stored(ins1, 1), slot),
           NEW r, r = Placed(ix, c, place, e)
    PROVE  Sound(r, c, z, ins1)
<1> DEFINE n == Len(s)
           E == Entries(ix, c)
<1>1. Typed(ix, c, s, ins) /\ Heads(E, s, ins) /\ Distinct(ix, c) /\ Local(ix, c) /\ Links(s, ins)
  BY DEF Sound
<1>2. /\ Typed(ix, c, z, ins1) /\ Links(z, ins1)
      /\ \A i \in 1 .. n : Oldest(z, i + 1) <=> Oldest(s, i)
      /\ Oldest(z, 1) /\ Len(z) = n + 1 /\ z[1] = slot
      /\ SlotAt(ins1, Stored(ins1, 1)) = 1 /\ Stored(ins1, 1) \in 0 .. Width - 1
      /\ \A i \in 1 .. n : z[i + 1].hash = s[i].hash
  BY <1>1, AheadLinks
<1>3. n \in Nat /\ Width \in Nat \ {0} /\ ins \in 0 .. Width - 1 /\ ix \in Indices(c) /\ c \in Nat \ {0}
  BY <1>1, NonePos DEF Typed
<1>4. \A x \in E : x.index \in 0 .. Width - 1
  BY <1>3, DistType DEF Entries, Pos
<1>5. \A x \in E : SlotAt(ins, x.index) \in 1 .. n /\ SlotAt(ins1, x.index) = SlotAt(ins, x.index) + 1
  <2>1. \A b \in 0 .. Width - 1 : SlotAt(ins, b) # Width => SlotAt(ins1, b) = SlotAt(ins, b) + 1
    BY <1>3, InsertedFacts
  <2>2. \A x \in E : SlotAt(ins, x.index) \in 1 .. n
    BY <1>1 DEF Heads
  <2> QED
    BY <1>3, <1>4, <2>1, <2>2
<1>6. e \in Pos /\ e.index = Stored(ins1, 1) /\ e.hash = slot.hash
  <2>1. slot.hash \in Nat
    BY DEF SlotRec
  <2> QED
    BY <1>2, <2>1 DEF Pos
<1>7. \A x \in E : x.index # e.index
  <2>1. \A x \in E : SlotAt(ins1, x.index) # 1
    BY <1>3, <1>5
  <2> QED
    BY <1>2, <1>6, <2>1
<1>8. /\ r \in Indices(c) /\ Local(r, c) /\ Distinct(r, c) /\ Entries(r, c) = E \union {e}
  <2>1. place = At(c, e.hash, d)
    BY <1>6
  <2> QED
    BY <1>1, <1>3, <1>6, <1>7, <2>1, NonePos, PlacedFacts
<1>9. Heads(Entries(r, c), z, ins1)
  <2>1. ASSUME NEW x \in E
        PROVE  LET i == SlotAt(ins1, x.index)
               IN  i \in 1 .. n + 1 /\ Oldest(z, i) /\ x.hash = z[i].hash
    <3> DEFINE i == SlotAt(ins, x.index)
    <3>1. i \in 1 .. n /\ SlotAt(ins1, x.index) = i + 1 /\ Oldest(s, i) /\ x.hash = s[i].hash
      BY <1>1, <1>5 DEF Heads
    <3> HIDE DEF i
    <3>2. i + 1 \in 1 .. n + 1
      BY <1>3, <3>1
    <3> QED
      BY <1>2, <3>1, <3>2
  <2>2. 1 \in 1 .. n + 1 /\ SlotAt(ins1, e.index) = 1 /\ Oldest(z, 1) /\ e.hash = z[1].hash
    BY <1>2, <1>3, <1>6
  <2>3. ASSUME NEW k \in 1 .. n + 1, Oldest(z, k)
        PROVE  \E x \in E \union {e} : SlotAt(ins1, x.index) = k
    <3>1. CASE k = 1
      BY <2>2, <3>1
    <3>2. CASE k # 1
      <4>1. k - 1 \in 1 .. n /\ (k - 1) + 1 = k
        BY <1>3, <3>2
      <4>2. Oldest(s, k - 1)
        BY <1>2, <2>3, <4>1
      <4>3. PICK x \in E : SlotAt(ins, x.index) = k - 1
        BY <1>1, <4>1, <4>2 DEF Heads
      <4> QED
        BY <1>5, <4>1, <4>3
    <3> QED
      BY <3>1, <3>2
  <2>4. Entries(r, c) = E \union {e} /\ Len(z) = n + 1
    BY <1>2, <1>8
  <2> HIDE DEF n
  <2>5. \A x \in E \union {e} : LET i == SlotAt(ins1, x.index)
                               IN  i \in 1 .. n + 1 /\ Oldest(z, i) /\ x.hash = z[i].hash
    BY <2>1, <2>2, Zenon
  <2> QED
    BY <2>3, <2>4, <2>5, ZenonT(30) DEF Heads
<1>10. Typed(r, c, z, ins1)
  BY <1>2, <1>8 DEF Typed
<1> QED
  BY <1>2, <1>8, <1>9, <1>10 DEF Sound

\* An empty table.
LEMMA EmptySound ==
    ASSUME NEW c \in Nat \ {0}, NEW ins \in 0 .. Width - 1, NEW ix, ix = [p \in 0 .. c - 1 |-> None]
    PROVE  Sound(ix, c, <<>>, ins) /\ HasFree(ix, c)
<1>1. ix \in Indices(c) /\ \A p \in 0 .. c - 1 : ix[p] = None
  BY DEF Indices
<1>2. Entries(ix, c) = {} /\ Distinct(ix, c) /\ Local(ix, c) /\ HasFree(ix, c)
  BY <1>1 DEF Entries, Distinct, Local, HasFree
<1>3. Len(<<>>) = 0 /\ <<>> \in Seq(SlotRec) /\ 1 .. 0 = {}
  OBVIOUS
<1>4. Typed(ix, c, <<>>, ins)
  BY <1>1, <1>3, NonePos DEF Typed
<1>5. Heads({}, <<>>, ins) /\ Links(<<>>, ins)
  BY <1>3 DEF Heads, Links
<1> QED
  BY <1>2, <1>4, <1>5 DEF Sound

\* grow() only changes places.
LEMMA GrowSound ==
    ASSUME NEW ix, NEW c, NEW s, NEW ins, Sound(ix, c, s, ins),
           NEW d \in Nat \ {0}, NEW r \in Indices(d), Local(r, d), Distinct(r, d),
           Entries(r, d) = Entries(ix, c)
    PROVE  Sound(r, d, s, ins)
<1>1. Typed(ix, c, s, ins) /\ Heads(Entries(ix, c), s, ins) /\ Links(s, ins)
  BY DEF Sound
<1>2. Typed(r, d, s, ins)
  BY <1>1 DEF Typed
<1> QED
  BY <1>1, <1>2 DEF Sound

\* A bounded set of natural numbers has a greatest element.
LEMMA MaxFacts ==
    ASSUME NEW S, NEW n, n \in Nat, S \in SUBSET (0 .. n), S # {}
    PROVE  Max(S) \in S /\ \A j \in S : j <= Max(S)
<1> DEFINE T == {n - j : j \in S}
<1>1. T \in SUBSET Nat /\ T # {}
  <2>1. \A j \in S : j \in 0 .. n
    OBVIOUS
  <2>2. \A j \in S : n - j \in Nat
    BY <2>1
  <2>3. PICK j \in S : TRUE
    OBVIOUS
  <2>4. n - j \in T
    BY <2>3
  <2> QED
    BY <2>2, <2>4
<1>2. PICK k \in T : \A m \in T : k <= m
  <2> HIDE DEF T
  <2> QED
    BY <1>1, Least
<1>3. PICK x \in S : k = n - x
  BY <1>2
<1>4. ASSUME NEW y \in S
      PROVE  x >= y
  <2>1. n - y \in T
    OBVIOUS
  <2>2. n - x <= n - y
    BY <1>2, <1>3, <2>1
  <2> QED
    BY <2>2
<1>5. \E w \in S : \A y \in S : w >= y
  BY <1>4
<1>6. Max(S) \in S /\ \A y \in S : Max(S) >= y
  BY <1>5, Zenon DEF Max
<1>7. ASSUME NEW y \in S
      PROVE  y <= Max(S)
  BY <1>6
<1> QED
  BY <1>6, <1>7

\* Every name in the table has an oldest slot.
LEMMA HasOldest ==
    ASSUME NEW s, s \in Seq(SlotRec), NEW i, i \in 1 .. Len(s)
    PROVE  \E o \in 1 .. Len(s) : Same(s, i, o) /\ Oldest(s, o)
<1> DEFINE S == {j \in 1 .. Len(s) : Same(s, i, j)}
<1>1. Len(s) \in Nat
  OBVIOUS
<1>2. i \in S
  BY DEF Same
<1>3. S \in SUBSET (0 .. Len(s)) /\ S # {}
  BY <1>1, <1>2
<1>4. Max(S) \in S /\ \A j \in S : j <= Max(S)
  <2> HIDE DEF S
  <2> QED
    BY <1>1, <1>3, MaxFacts
<1> DEFINE o == Max(S)
<1>5. o \in 1 .. Len(s) /\ Same(s, i, o) /\ \A j \in 1 .. Len(s) : Same(s, i, j) => j <= o
  BY <1>4
<1> HIDE DEF o
<1>6. Oldest(s, o)
  BY <1>5 DEF Oldest, Same
<1> QED
  BY <1>5, <1>6

\* the conditions of the loop of index_dynamic() k places after the desired one
Robs(ix, c, hash, k) ==
    ix[At(c, hash, k)] = None \/ Dist(ix, c, At(c, hash, k)) < k

Hits(ix, c, s, ins, name, k) ==
    /\ ix[At(c, Hash[name], k)] # None
    /\ ix[At(c, Hash[name], k)].hash = Hash[name]
    /\ s[SlotAt(ins, ix[At(c, Hash[name], k)].index)].header.name = name

ProbeEnd(ix, c, s, ins, name) ==
    Min({k \in 0 .. c - 1 : Robs(ix, c, Hash[name], k) \/ Hits(ix, c, s, ins, name, k)})

\* The probe loop ends; it finds the oldest slot of the name if there is one.
LEMMA ProbeFacts ==
    ASSUME NEW ix, NEW c, NEW s, NEW ins, Sound(ix, c, s, ins), HasFree(ix, c),
           NEW name \in DOMAIN NameLen, NEW d, d = ProbeEnd(ix, c, s, ins, name)
    PROVE  /\ d \in 0 .. c - 1 /\ Hash[name] \in Nat
           /\ \A k \in 0 .. d - 1 : ~Robs(ix, c, Hash[name], k)
           /\ Robs(ix, c, Hash[name], d) => \A i \in 1 .. Len(s) : s[i].header.name # name
           /\ ~Robs(ix, c, Hash[name], d) =>
                LET e == ix[At(c, Hash[name], d)]
                IN  /\ e \in Pos /\ SlotAt(ins, e.index) \in 1 .. Len(s)
                    /\ s[SlotAt(ins, e.index)].header.name = name
<1> DEFINE h == Hash[name]
           R(k) == Robs(ix, c, h, k)
           M(k) == Hits(ix, c, s, ins, name, k)
           S == {k \in 0 .. c - 1 : R(k) \/ M(k)}
           E == Entries(ix, c)
<1>1. Typed(ix, c, s, ins) /\ Heads(E, s, ins) /\ Distinct(ix, c) /\ Local(ix, c) /\ Links(s, ins)
  BY DEF Sound
<1>2. c \in Nat \ {0} /\ ix \in Indices(c) /\ s \in Seq(SlotRec) /\ ins \in 0 .. Width - 1
      /\ \A i \in 1 .. Len(s) : s[i].hash = Hash[s[i].header.name]
  BY <1>1 DEF Typed
<1>3. h \in Nat
  BY TableAssumption
<1>4. \A p \in 0 .. c - 1 : Off(c, h, p) \in 0 .. c - 1 /\ At(c, h, Off(c, h, p)) = p
  <2>1. h \in Int
    BY <1>3
  <2> HIDE DEF h
  <2> QED
    BY <1>2, <2>1, RingInverse
<1>5. S \in SUBSET Nat /\ S # {}
  <2>1. PICK f \in 0 .. c - 1 : ix[f] = None
    BY DEF HasFree
  <2>2. Off(c, h, f) \in S
    BY <1>4, <2>1 DEF Robs
  <2> QED
    BY <2>2
<1>6. d \in S /\ \A j \in S : d <= j
  <2>1. d = Min(S)
    BY DEF ProbeEnd
  <2> HIDE DEF S
  <2> QED
    BY <1>5, <2>1, MinFacts
<1>7. d \in 0 .. c - 1 /\ (R(d) \/ M(d))
  BY <1>6
<1>8. \A k \in 0 .. d - 1 : ~R(k) /\ ~M(k)
  <2> SUFFICES ASSUME NEW k \in 0 .. d - 1 PROVE k \notin S
    <3>1. \A k \in 0 .. d - 1 : k \in 0 .. c - 1
      BY <1>2, <1>7
    <3> QED
      BY <3>1
  <2>1. ~(d <= k)
    BY <1>2, <1>7
  <2> QED
    BY <1>6, <2>1
<1> HIDE DEF S
<1>9. ASSUME R(d), NEW i \in 1 .. Len(s), s[i].header.name = name
      PROVE  FALSE
  <2>1. PICK o \in 1 .. Len(s) : Same(s, i, o) /\ Oldest(s, o)
    BY <1>2, HasOldest
  <2>2. s[o].header.name = name /\ s[o].hash = h
    BY <1>2, <1>9, <2>1 DEF Same
  <2>3. PICK e \in E : SlotAt(ins, e.index) = o
    BY <1>1, <2>1 DEF Heads
  <2>4. e.hash = h
    BY <1>1, <2>2, <2>3 DEF Heads
  <2>5. PICK p \in 0 .. c - 1 : ix[p] # None /\ ix[p] = e
    BY DEF Entries
  <2> DEFINE k == Dist(ix, c, p)
  <2>6. k \in 0 .. c - 1 /\ At(c, h, k) = p
    BY <1>4, <2>4, <2>5 DEF Dist
  <2>7. M(k)
    BY <2>2, <2>3, <2>4, <2>5, <2>6 DEF Hits
  <2>8. k \notin 0 .. d - 1
    BY <1>8, <2>7
  <2> HIDE DEF k
  <2>9. d \in 0 .. k
    BY <1>2, <1>7, <2>6, <2>8
  <2>10. d \in 0 .. Dist(ix, c, p)
    BY <2>9 DEF k
  <2>11. LET q == At(c, ix[p].hash, d) IN ix[q] # None /\ Dist(ix, c, q) >= d /\ q \in 0 .. c - 1
    BY <1>1, <1>2, <2>5, <2>10, LocalReach
  <2>12. ix[At(c, h, d)] # None /\ Dist(ix, c, At(c, h, d)) >= d /\ At(c, h, d) \in 0 .. c - 1
    BY <2>4, <2>5, <2>11
  <2>13. Dist(ix, c, At(c, h, d)) \in 0 .. c - 1
    BY <1>2, <2>12, DistType
  <2>14. ~(Dist(ix, c, At(c, h, d)) < d)
    BY <1>2, <1>7, <2>12, <2>13
  <2> QED
    BY <1>9, <2>12, <2>14 DEF Robs
<1>10. ASSUME ~R(d)
       PROVE  LET e == ix[At(c, h, d)]
              IN  /\ e \in Pos /\ SlotAt(ins, e.index) \in 1 .. Len(s)
                  /\ s[SlotAt(ins, e.index)].header.name = name
  <2>1. M(d)
    BY <1>7, <1>10
  <2>2. At(c, h, d) \in 0 .. c - 1
    <3>1. h \in Int
      BY <1>3
    <3> HIDE DEF h
    <3> QED
      BY <1>2, <1>7, <3>1, RingInverse
  <2>3. ix[At(c, h, d)] \in E /\ ix[At(c, h, d)] \in Pos
    BY <1>2, <2>1, <2>2, DistType DEF Hits, Entries
  <2>4. SlotAt(ins, ix[At(c, h, d)].index) \in 1 .. Len(s)
    BY <1>1, <2>3 DEF Heads
  <2> QED
    BY <2>1, <2>3, <2>4 DEF Hits
<1> QED
  BY <1>3, <1>7, <1>8, <1>9, <1>10

\* stored indices of slots of a name
Chain(s, ins, name) ==
    {None} \union {a \in 0 .. Width - 1 : SlotAt(ins, a) \in 1 .. Len(s) /\ s[SlotAt(ins, a)].header.name = name}

\* The next of a slot of a name is one too, and newer.
LEMMA ChainNext ==
    ASSUME NEW s, NEW ins, s \in Seq(SlotRec), Links(s, ins), NEW name,
           NEW a, a \in Chain(s, ins, name), a # None
    PROVE  /\ s[SlotAt(ins, a)].next \in Chain(s, ins, name)
           /\ s[SlotAt(ins, a)].next # None =>
                SlotAt(ins, s[SlotAt(ins, a)].next) \in 1 .. SlotAt(ins, a) - 1
<1> DEFINE i == SlotAt(ins, a)
           b == s[i].next
<1>1. i \in 1 .. Len(s) /\ s[i].header.name = name
  BY DEF Chain
<1>2. s[i] \in SlotRec
  BY <1>1
<1>3. b \in (0 .. Width - 1) \union {None}
  BY <1>2 DEF SlotRec
<1>4. CASE b = None
  BY <1>4 DEF Chain
<1>5. CASE b # None
  <2>1. SlotAt(ins, b) \in 1 .. i - 1 /\ Same(s, i, SlotAt(ins, b))
    BY <1>1, <1>5 DEF Links
  <2>2. SlotAt(ins, b) \in 1 .. Len(s)
    <3> HIDE DEF i, b
    <3> QED
      BY <1>1, <2>1
  <2>3. s[SlotAt(ins, b)].header.name = name
    BY <1>1, <2>1 DEF Same
  <2> QED
    BY <1>3, <1>5, <2>1, <2>2, <2>3 DEF Chain
<1> QED
  BY <1>4, <1>5

\* ch lists the slots of a name from head.
Walks(ch, s, ins, name, head) ==
    /\ ch \in [1 .. Len(s) -> Chain(s, ins, name)] /\ ch[1] = head
    /\ \A k \in 2 .. Len(s) : ch[k] = IF ch[k - 1] = None THEN None ELSE s[SlotAt(ins, ch[k - 1])].next
Linked(ch) == {k \in DOMAIN ch : ch[k] # None}

\* The walk of index_occupied() along the slots of a name ends at the newest.
LEMMA ChainFacts ==
    ASSUME NEW s, NEW ins, s \in Seq(SlotRec), Links(s, ins), NEW name,
           NEW ch, NEW head, head \in Chain(s, ins, name), head # None,
           Walks(ch, s, ins, name, head), NEW L, L = Linked(ch)
    PROVE  /\ L # {} /\ Max(L) \in L /\ L \subseteq 1 .. Len(s)
           /\ ch[Max(L)] \in Chain(s, ins, name) \ {None}
           /\ s[SlotAt(ins, ch[Max(L)])].next = None
<1> USE DEF Walks, Linked
<1> DEFINE n == Len(s)
           P(k) == SlotAt(ins, ch[k])
           S == {k \in 0 .. n - 1 : ch[k + 1] # None => P(k + 1) \in 1 .. n - k}
<1>1. SlotAt(ins, head) \in 1 .. n /\ n \in Nat
  BY DEF Chain
<1>2. n \in Nat \ {0}
  BY <1>1
<1>3. 0 \in S
  <2>1. 0 + 1 = 1 /\ n - 0 = n /\ 0 \in 0 .. n - 1
    BY <1>2
  <2> QED
    BY <1>1, <2>1
<1>4. ASSUME NEW k \in 1 .. n - 1, k - 1 \in S
      PROVE  k \in S
  <2>1. k + 1 \in 2 .. n /\ (k + 1) - 1 = k /\ (k - 1) + 1 = k /\ k \in 1 .. n /\ k \in 0 .. n - 1
    BY <1>2
  <2>2. ch[k + 1] = IF ch[k] = None THEN None ELSE s[P(k)].next
    BY <2>1
  <2>3. CASE ch[k + 1] = None
    BY <2>1, <2>3
  <2>4. CASE ch[k + 1] # None
    <3>1. ch[k] # None /\ ch[k + 1] = s[P(k)].next
      BY <2>2, <2>4
    <3>2. P(k) \in 1 .. n - (k - 1)
      BY <1>4, <2>1, <3>1
    <3>3. ch[k] \in Chain(s, ins, name)
      BY <2>1
    <3>4. P(k + 1) \in 1 .. P(k) - 1
      BY <2>4, <3>1, <3>3, ChainNext
    <3>5. P(k + 1) \in 1 .. n - k
      <4> HIDE DEF P
      <4> QED
        BY <1>2, <2>1, <3>2, <3>4
    <3> QED
      BY <2>1, <3>5
  <2> QED
    BY <2>3, <2>4
<1>5. \A k \in 0 .. n - 1 : k \in S
  <2>1. n - 1 \in Nat
    BY <1>2
  <2> HIDE DEF S
  <2> QED
    BY <1>3, <1>4, <2>1, UpTo
<1>6. L \in SUBSET (0 .. n) /\ L \subseteq 1 .. n /\ 1 \in L
  BY <1>2
<1> DEFINE m == Max(L)
<1>7. m \in L /\ \A j \in L : j <= m
  BY <1>2, <1>6, MaxFacts
<1> HIDE DEF m
<1>8. m \in 1 .. n /\ ch[m] # None /\ ch[m] \in Chain(s, ins, name)
  BY <1>6, <1>7
<1>9. s[P(m)].next = None
  <2>1. CASE m = n
    <3>1. n - 1 \in 0 .. n - 1 /\ (n - 1) + 1 = n /\ n - (n - 1) = 1
      BY <1>2
    <3>2. P(n) \in 1 .. 1
      BY <1>5, <1>8, <2>1, <3>1
    <3>3. s[P(m)].next # None => SlotAt(ins, s[P(m)].next) \in 1 .. P(m) - 1
      BY <1>8, ChainNext
    <3>4. P(m) = 1
      BY <2>1, <3>2
    <3>5. 1 .. P(m) - 1 = {}
      BY <3>4
    <3> QED
      BY <3>3, <3>5
  <2>2. CASE m # n
    <3>1. m + 1 \in 2 .. n /\ (m + 1) - 1 = m /\ m + 1 \in 1 .. n /\ ~(m + 1 <= m)
      BY <1>2, <1>8, <2>2
    <3>2. m + 1 \notin L
      BY <1>7, <3>1
    <3>3. ch[m + 1] = None
      BY <3>1, <3>2
    <3>4. ch[m + 1] = s[P(m)].next
      BY <1>8, <3>1
    <3> QED
      BY <3>3, <3>4
  <2> QED
    BY <2>1, <2>2
<1> QED
  BY <1>6, <1>7, <1>8, <1>9 DEF m

(***************************************************************************)
(* The table as a record.                                                  *)
(***************************************************************************)

TableSet(c) == [indices : Indices(c), cap : {c}, slots : Seq(SlotRec),
                inserted : 0 .. Width - 1, size : Int, max : Nat]

Tbl(ix, c, s, ins, z, m) ==
    [indices |-> ix, cap |-> c, slots |-> s, inserted |-> ins, size |-> z, max |-> m]

\* A table is the record of its fields.
LEMMA TblFields ==
    ASSUME NEW c, NEW t, t \in TableSet(c)
    PROVE  /\ t = Tbl(t.indices, c, t.slots, t.inserted, t.size, t.max)
           /\ t.indices \in Indices(c) /\ t.cap = c /\ t.slots \in Seq(SlotRec)
           /\ t.inserted \in 0 .. Width - 1 /\ t.size \in Int /\ t.max \in Nat
BY DEF TableSet, Tbl

\* The tables the methods make of a table.
WithIndices(t, f) == [t EXCEPT !.indices = f]
WithSlots(t, f, y) == [t EXCEPT !.slots = f, !.size = y]
WithFirst(t, f, y) == [t EXCEPT !.inserted = y, !.slots = f]
WithCap(t, f, y) == [t EXCEPT !.cap = y, !.indices = f]
WithPos(t, x, a) == [t EXCEPT !.indices[x] = a]
WithIndex(t, x, a) == [t EXCEPT !.indices[x].index = a]
WithSize(t, f) == [t EXCEPT !.size = f]
WithMax(t, f) == [t EXCEPT !.max = f]
WithNext(t, i, f) == [t EXCEPT !.slots[i].next = f]

\* An index and slots with a new value at one place.
SetPos(ix, x, a) == [ix EXCEPT ![x] = a]
SetIndex(ix, x, a) == [ix EXCEPT ![x].index = a]
SetNext(s, i, a) == [s EXCEPT ![i].next = a]

\* Their fields.
LEMMA TblWith ==
    ASSUME NEW ix, NEW c, NEW s, NEW ins, NEW z, NEW m, NEW t, t = Tbl(ix, c, s, ins, z, m), NEW f, NEW y
    PROVE  /\ WithIndices(t, f) = Tbl(f, c, s, ins, z, m)
           /\ WithSlots(t, f, y) = Tbl(ix, c, f, ins, y, m)
           /\ WithFirst(t, f, y) = Tbl(ix, c, f, y, z, m)
           /\ WithCap(t, f, y) = Tbl(f, y, s, ins, z, m)
           /\ WithPos(t, f, y) = Tbl(SetPos(ix, f, y), c, s, ins, z, m)
           /\ WithIndex(t, f, y) = Tbl(SetIndex(ix, f, y), c, s, ins, z, m)
           /\ WithSize(t, f) = Tbl(ix, c, s, ins, f, m)
           /\ WithMax(t, f) = Tbl(ix, c, s, ins, z, f)
           /\ WithNext(t, f, y) = Tbl(ix, c, SetNext(s, f, y), ins, z, m)
<1>1. WithSlots(t, f, y) = Tbl(ix, c, f, ins, y, m)
  <2>1. \A u, v : [u EXCEPT !.slots = f, !.size = y] = [[u EXCEPT !.slots = f] EXCEPT !.size = y]
    OBVIOUS
  <2>2. [t EXCEPT !.slots = f] = Tbl(ix, c, f, ins, z, m)
    BY DEF Tbl
  <2>3. \A u : u = Tbl(ix, c, f, ins, z, m) => [u EXCEPT !.size = y] = Tbl(ix, c, f, ins, y, m)
    BY DEF Tbl
  <2> QED
    BY <2>1, <2>2, <2>3, Zenon DEF WithSlots
<1>2. WithFirst(t, f, y) = Tbl(ix, c, f, y, z, m)
  <2>1. \A u, v : [u EXCEPT !.inserted = y, !.slots = f] = [[u EXCEPT !.inserted = y] EXCEPT !.slots = f]
    OBVIOUS
  <2>2. [t EXCEPT !.inserted = y] = Tbl(ix, c, s, y, z, m)
    BY DEF Tbl
  <2>3. \A u : u = Tbl(ix, c, s, y, z, m) => [u EXCEPT !.slots = f] = Tbl(ix, c, f, y, z, m)
    BY DEF Tbl
  <2> QED
    BY <2>1, <2>2, <2>3, Zenon DEF WithFirst
<1>3. WithCap(t, f, y) = Tbl(f, y, s, ins, z, m)
  <2>1. \A u, v : [u EXCEPT !.cap = y, !.indices = f] = [[u EXCEPT !.cap = y] EXCEPT !.indices = f]
    OBVIOUS
  <2>2. [t EXCEPT !.cap = y] = Tbl(ix, y, s, ins, z, m)
    BY DEF Tbl
  <2>3. \A u : u = Tbl(ix, y, s, ins, z, m) => [u EXCEPT !.indices = f] = Tbl(f, y, s, ins, z, m)
    BY DEF Tbl
  <2> QED
    BY <2>1, <2>2, <2>3, Zenon DEF WithCap
<1>4. WithIndices(t, f) = Tbl(f, c, s, ins, z, m)
  BY DEF Tbl, WithIndices
<1>5. WithPos(t, f, y) = Tbl(SetPos(ix, f, y), c, s, ins, z, m)
  BY DEF Tbl, WithPos, SetPos
<1>6. WithIndex(t, f, y) = Tbl(SetIndex(ix, f, y), c, s, ins, z, m)
  BY DEF Tbl, WithIndex, SetIndex
<1>7. WithSize(t, f) = Tbl(ix, c, s, ins, f, m) /\ WithMax(t, f) = Tbl(ix, c, s, ins, z, f)
  BY DEF Tbl, WithSize, WithMax
<1>8. WithNext(t, f, y) = Tbl(ix, c, SetNext(s, f, y), ins, z, m)
  BY DEF Tbl, WithNext, SetNext
<1> QED
  BY <1>1, <1>2, <1>3, <1>4, <1>5, <1>6, <1>7, <1>8

\* The ones with one new field.
LEMMA TblOne ==
    ASSUME NEW ix, NEW c, NEW s, NEW ins, NEW z, NEW m, NEW t, t = Tbl(ix, c, s, ins, z, m), NEW f
    PROVE  /\ WithIndices(t, f) = Tbl(f, c, s, ins, z, m)
           /\ WithSize(t, f) = Tbl(ix, c, s, ins, f, m)
           /\ WithMax(t, f) = Tbl(ix, c, s, ins, z, f)
BY DEF Tbl, WithIndices, WithSize, WithMax

\* What evict() leaves of the table `popped`, the one without the oldest slot.
AfterEvict(popped, place, slot, index, prev, new) ==
    IF slot.next # None THEN WithIndex(popped, place, slot.next)
    ELSE IF index = prev THEN WithIndex(popped, place, new)
    ELSE RemovePhaseTwo(WithPos(popped, place, None), place)

\* The steps of the probe loop of evict() that find the slot.
StepsTo(t, slot, index) ==
    {k \in 0..(t.cap - 1) : /\ t.indices[Probe(t, slot.hash, k)] # None
                            /\ t.indices[Probe(t, slot.hash, k)].index = index}

\* The names of evict().
EvictParts(t, index, slot, steps, place, popped, new) ==
    /\ index = StoredIdx(t, Len(t.slots) - 1) /\ slot = Last(t.slots)
    /\ steps = StepsTo(t, slot, index) /\ place = Probe(t, slot.hash, Min(steps))
    /\ new = StoredIdx(t, -1)
    /\ popped = WithSlots(t, Front(t.slots), t.size - HeaderLen(slot.header))

\* evict(), with names for its parts.
LEMMA EvictSteps ==
    ASSUME NEW t, NEW prev, NEW index, NEW slot, NEW steps, NEW place, NEW popped, NEW new,
           EvictParts(t, index, slot, steps, place, popped, new)
    PROVE  Evict(t, prev) = AfterEvict(popped, place, slot, index, prev, new)
BY SMT DEF Evict, WithSlots, WithIndex, WithPos, AfterEvict, StepsTo, EvictParts

\* remove_phase_two() is Removed.
LEMMA RemoveIs ==
    ASSUME NEW ix, NEW c, NEW s, NEW ins, NEW z, NEW m, NEW place,
           ix \in Indices(c), c \in Nat \ {0}
    PROVE  RemovePhaseTwo(Tbl(ix, c, s, ins, z, m), place) = Tbl(Removed(ix, c, place), c, s, ins, z, m)
<1> DEFINE t == Tbl(ix, c, s, ins, z, m)
<1>1. t.indices = ix /\ t.cap = c /\ DOMAIN ix = 0 .. c - 1
  BY DEF Tbl, Indices
<1>2. \A f : [t EXCEPT !.indices = f] = Tbl(f, c, s, ins, z, m)
  BY DEF Tbl
<1>3. \A p : Free(t, p) <=> ix[p] = None
  BY <1>1 DEF Free
<1>4. \A p : Distance(t, p) = Dist(ix, c, p)
  BY <1>1 DEF Distance, Dist, Off
<1> DEFINE moved == Min({i \in 0..(t.cap - 1) : Free(t, (place + (i + 1)) % t.cap) \/ Distance(t, (place + (i + 1)) % t.cap) = 0})
<1>5. moved = MovedBack(ix, c, place)
  <2>1. \A i \in 0 .. c - 1 : (Free(t, (place + (i + 1)) % t.cap) \/ Distance(t, (place + (i + 1)) % t.cap) = 0)
            <=> (ix[At(c, place, i + 1)] = None \/ Dist(ix, c, At(c, place, i + 1)) = 0)
    BY <1>1, <1>3, <1>4 DEF At
  <2>2. {i \in 0..(t.cap - 1) : Free(t, (place + (i + 1)) % t.cap) \/ Distance(t, (place + (i + 1)) % t.cap) = 0}
      = {i \in 0 .. c - 1 : ix[At(c, place, i + 1)] = None \/ Dist(ix, c, At(c, place, i + 1)) = 0}
    BY <1>1, <2>1
  <2> QED
    BY <2>2 DEF MovedBack
<1> DEFINE f == [p \in DOMAIN t.indices |->
                    IF (p - place) % t.cap < moved THEN t.indices[(place + (((p - place) % t.cap) + 1)) % t.cap]
                    ELSE IF (p - place) % t.cap = moved THEN None ELSE t.indices[p]]
<1>6. RemovePhaseTwo(t, place) = [t EXCEPT !.indices = f]
  BY DEF RemovePhaseTwo
<1>7. f = Removed(ix, c, place)
  <2> HIDE DEF moved, t
  <2>1. f = [p \in 0 .. c - 1 |->
                    IF (p - place) % c < moved THEN ix[(place + (((p - place) % c) + 1)) % c]
                    ELSE IF (p - place) % c = moved THEN None ELSE ix[p]]
    BY <1>1
  <2> QED
    BY <1>5, <2>1 DEF Removed, Off, At
<1> HIDE DEF f
<1> QED
  BY <1>2, <1>6, <1>7

\* evict(): what it does to the slots and the size, and where it looks.
LEMMA EvictIs ==
    ASSUME NEW ix, NEW c, NEW s, NEW ins, NEW z, NEW m, NEW prev, NEW t, NEW slot, NEW index, NEW steps, NEW place,
           ix \in Indices(c), c \in Nat \ {0}, t = Tbl(ix, c, s, ins, z, m),
           slot = s[Len(s)], index = Stored(ins, Len(s)),
           steps = {k \in 0 .. c - 1 : /\ ix[At(c, slot.hash, k)] # None
                                       /\ ix[At(c, slot.hash, k)].index = index},
           place = At(c, slot.hash, Min(steps))
    PROVE  /\ slot.next # None => Evict(t, prev) =
                Tbl(SetIndex(ix, place, slot.next), c, Front(s), ins, z - HeaderLen(slot.header), m)
           /\ slot.next = None /\ index = prev => Evict(t, prev) =
                Tbl(SetIndex(ix, place, (-1 - ins) % Width), c, Front(s), ins, z - HeaderLen(slot.header), m)
           /\ slot.next = None /\ index # prev => Evict(t, prev) =
                Tbl(Removed(SetPos(ix, place, None), c, place), c, Front(s), ins, z - HeaderLen(slot.header), m)
<1>1. /\ t.indices = ix /\ t.cap = c /\ t.slots = s /\ t.inserted = ins /\ t.size = z
  BY DEF Tbl
<1>2. index = StoredIdx(t, Len(t.slots) - 1) /\ slot = Last(t.slots)
  BY <1>1 DEF StoredIdx, Stored, Last
<1>3. \A h, k : Probe(t, h, k) = At(c, h, k)
  BY <1>1 DEF Probe, At
<1>4. steps = StepsTo(t, slot, index)
  BY <1>1, <1>3 DEF StepsTo
<1>5. place = Probe(t, slot.hash, Min(steps))
  BY <1>3
<1> DEFINE new == (-1 - ins) % Width
           f == Front(s)
           y == z - HeaderLen(slot.header)
           popped == WithSlots(t, Front(t.slots), t.size - HeaderLen(slot.header))
<1>6. new = StoredIdx(t, -1)
  BY <1>1 DEF StoredIdx
<1>7. f = Front(t.slots) /\ y = t.size - HeaderLen(slot.header)
  BY <1>1
<1>8. popped = WithSlots(t, Front(t.slots), t.size - HeaderLen(slot.header))
  OBVIOUS
<1> HIDE DEF f, y, new, popped
<1>9. popped = Tbl(ix, c, f, ins, y, m)
  BY <1>7, <1>8, TblWith
<1>10. Evict(t, prev) =
             IF slot.next # None THEN WithIndex(popped, place, slot.next)
             ELSE IF index = prev THEN WithIndex(popped, place, new)
             ELSE RemovePhaseTwo(WithPos(popped, place, None), place)
  <2>2. EvictParts(t, index, slot, steps, place, popped, new)
    BY <1>2, <1>4, <1>5, <1>6, <1>8, Zenon DEF EvictParts
  <2>1. Evict(t, prev) = AfterEvict(popped, place, slot, index, prev, new)
    BY <2>2, EvictSteps
  <2> QED
    BY <2>1, Zenon DEF AfterEvict
<1>11. \A a : WithIndex(popped, place, a) = Tbl(SetIndex(ix, place, a), c, f, ins, y, m)
  BY <1>9, TblWith
<1>12. WithPos(popped, place, None) = Tbl(SetPos(ix, place, None), c, f, ins, y, m)
  BY <1>9, TblWith
<1>13. SetPos(ix, place, None) \in Indices(c)
  BY DEF Indices, SetPos
<1>14. RemovePhaseTwo(WithPos(popped, place, None), place)
         = Tbl(Removed(SetPos(ix, place, None), c, place), c, f, ins, y, m)
  BY <1>12, <1>13, RemoveIs
<1>15. CASE slot.next # None
  BY <1>10, <1>11, <1>15, Zenon DEF f, y
<1>16. CASE slot.next = None /\ index = prev
  BY <1>10, <1>11, <1>16, Zenon DEF f, y, new
<1>17. CASE slot.next = None /\ index # prev
  BY <1>10, <1>14, <1>17, Zenon DEF f, y
<1> QED
  BY <1>15, <1>16, <1>17

\* With no slot being inserted.
LEMMA EvictVacant ==
    ASSUME NEW ix, NEW c, NEW s, NEW ins, NEW z, NEW m, NEW t,
           ix \in Indices(c), c \in Nat \ {0}, t = Tbl(ix, c, s, ins, z, m),
           s \in Seq(SlotRec), Len(s) # 0, Len(s) <= Width, ins \in 0 .. Width - 1
    PROVE  Evict(t, None) = Tbl(Evicted(ix, c, s, ins), c, Front(s), ins, z - HeaderLen(s[Len(s)].header), m)
<1> DEFINE slot == s[Len(s)]
           index == Stored(ins, Len(s))
           steps == {k \in 0 .. c - 1 : /\ ix[At(c, slot.hash, k)] # None
                                        /\ ix[At(c, slot.hash, k)].index = index}
           place == At(c, slot.hash, Min(steps))
<1>1. Len(s) \in 1 .. Width
  BY NonePos
<1>2. index # None
  <2>1. index \in 0 .. Width - 1
    BY <1>1, StoredFacts
  <2> HIDE DEF index
  <2> QED
    BY <2>1, NonePos
<1>3. Evicted(ix, c, s, ins) = IF slot.next # None THEN SetIndex(ix, place, slot.next)
                               ELSE Removed(SetPos(ix, place, None), c, place)
  BY DEF Evicted, SetPos, SetIndex
<1>4. /\ slot = s[Len(s)] /\ index = Stored(ins, Len(s))
      /\ steps = {k \in 0 .. c - 1 : /\ ix[At(c, slot.hash, k)] # None
                                       /\ ix[At(c, slot.hash, k)].index = index}
      /\ place = At(c, slot.hash, Min(steps))
  OBVIOUS
<1> HIDE DEF place, steps, index, slot
<1>5.      /\ slot.next # None => Evict(t, None) =
                Tbl(SetIndex(ix, place, slot.next), c, Front(s), ins, z - HeaderLen(slot.header), m)
           /\ slot.next = None /\ index # None => Evict(t, None) =
                Tbl(Removed(SetPos(ix, place, None), c, place), c, Front(s), ins, z - HeaderLen(slot.header), m)
  BY <1>4, EvictIs
<1>6. CASE slot.next # None
  BY <1>3, <1>5, <1>6, Zenon DEF slot
<1>7. CASE slot.next = None
  BY <1>2, <1>3, <1>5, <1>7, Zenon DEF slot
<1> QED
  BY <1>6, <1>7

\* The slots with the one being inserted, without the oldest one.
LEMMA AheadFront ==
    ASSUME NEW s, NEW pos, NEW a, NEW slot, s \in Seq(SlotRec), Len(s) # 0,
           pos \in Nat, a \in 0 .. Width - 1, slot \in SlotRec
    PROVE  Front(Ahead(s, pos, a, slot)) = Ahead(Front(s), pos, a, slot)
<1> DEFINE Upd(x) == [x EXCEPT !.next = a]
           n == Len(s)
           f == Front(s)
           y == Relinked(s, pos, a)
           w == Relinked(f, pos, a)
<1>1. n \in Nat \ {0} /\ f \in Seq(SlotRec) /\ Len(f) = n - 1 /\ \A i \in 1 .. n - 1 : f[i] = s[i]
  BY FrontFacts
<1>2. /\ y = [i \in 1 .. n |-> IF i = pos THEN Upd(s[i]) ELSE s[i]]
      /\ w = [i \in 1 .. n - 1 |-> IF i = pos THEN Upd(f[i]) ELSE f[i]]
  BY <1>1 DEF Relinked
<1>3. \A i \in 1 .. n : s[i] \in SlotRec /\ Upd(s[i]) \in SlotRec
  <2>1. \A x \in SlotRec : Upd(x) \in SlotRec
    BY DEF SlotRec
  <2>2. \A i \in 1 .. n : s[i] \in SlotRec
    BY <1>1
  <2> QED
    BY <2>1, <2>2, Zenon
<1>4. y \in Seq(SlotRec) /\ Len(y) = n
  BY <1>1, <1>2, <1>3
<1>5. w \in Seq(SlotRec) /\ Len(w) = n - 1 /\ \A i \in 1 .. n - 1 : w[i] = y[i]
  <2>1. \A i \in 1 .. n - 1 : i \in 1 .. n
    BY <1>1
  <2>2. \A i \in 1 .. n - 1 : w[i] = y[i] /\ w[i] \in SlotRec
    <3> SUFFICES ASSUME NEW i \in 1 .. n - 1 PROVE w[i] = y[i] /\ w[i] \in SlotRec
      OBVIOUS
    <3>1. f[i] = s[i] /\ i \in 1 .. n
      BY <1>1, <2>1
    <3>2. w[i] = IF i = pos THEN Upd(f[i]) ELSE f[i]
      BY <1>2
    <3>3. y[i] = IF i = pos THEN Upd(s[i]) ELSE s[i]
      BY <1>2, <3>1
    <3>4. s[i] \in SlotRec /\ Upd(s[i]) \in SlotRec
      BY <1>3, <3>1, Zenon
    <3> HIDE DEF w, y, f, Upd
    <3>5. w[i] = y[i]
      BY <3>1, <3>2, <3>3
    <3>6. y[i] \in SlotRec
      BY <3>3, <3>4, Zenon
    <3> QED
      BY <3>5, <3>6
  <2>3. n - 1 \in Nat /\ w = [i \in 1 .. n - 1 |-> w[i]]
    BY <1>1, <1>2
  <2> HIDE DEF w, y
  <2> QED
    BY <2>2, <2>3
<1> HIDE DEF y, w, f
<1> DEFINE A == <<slot>> \o y
           B == <<slot>> \o w
<1>6. A \in Seq(SlotRec) /\ Len(A) = n + 1 /\ A[1] = slot /\ \A i \in 2 .. n + 1 : A[i] = y[i - 1]
  BY <1>4, PrependFacts
<1>7. B \in Seq(SlotRec) /\ Len(B) = n /\ B[1] = slot /\ \A i \in 2 .. n : B[i] = w[i - 1]
  <2>1. (n - 1) + 1 = n
    BY <1>1
  <2> QED
    BY <1>5, <2>1, PrependFacts
<1> HIDE DEF A, B
<1>8. Front(A) \in Seq(SlotRec) /\ Len(Front(A)) = n /\ \A i \in 1 .. n : Front(A)[i] = A[i]
  <2>1. (n + 1) - 1 = n /\ n + 1 # 0
    BY <1>1
  <2>2. Len(A) # 0 /\ Len(A) - 1 = n
    BY <1>6, <2>1
  <2>3. Front(A) \in Seq(SlotRec) /\ Len(Front(A)) = Len(A) - 1 /\ \A i \in 1 .. Len(A) - 1 : Front(A)[i] = A[i]
    BY <1>6, <2>2, FrontFacts
  <2> QED
    BY <2>2, <2>3
<1>9. \A i \in 1 .. n : Front(A)[i] = B[i]
  <2> SUFFICES ASSUME NEW i \in 1 .. n PROVE Front(A)[i] = B[i]
    OBVIOUS
  <2>1. CASE i = 1
    BY <1>6, <1>7, <1>8, <2>1
  <2>2. CASE i # 1
    <3>1. i \in 2 .. n /\ i \in 2 .. n + 1 /\ i - 1 \in 1 .. n - 1
      BY <1>1, <2>2
    <3> QED
      BY <1>5, <1>6, <1>7, <1>8, <3>1
  <2> QED
    BY <2>1, <2>2
<1>10. Front(A) = B
  BY <1>7, <1>8, <1>9, SeqEqual
<1> QED
  BY <1>10 DEF A, B, Ahead, y, w, f

\* With a slot of the name of `last` being inserted.
LEMMA EvictOccupied ==
    ASSUME NEW ix, NEW c, NEW s, NEW ins, NEW z, NEW m, NEW t, NEW last, NEW slot, NEW pos, NEW ins1, NEW y,
           ix \in Indices(c), c \in Nat \ {0}, t = Tbl(ix, c, s, ins, z, m),
           s \in Seq(SlotRec), Len(s) # 0, Len(s) < Width, ins \in 0 .. Width - 1,
           last \in 0 .. Width - 1, slot \in SlotRec, pos = SlotAt(ins, last),
           pos \in 1 .. Len(s) => s[pos].next = None,
           ins1 = (ins + 1) % Width, y = Ahead(s, pos, Stored(ins1, 1), slot)
    PROVE  Evict(t, last) = Tbl(Evicted(ix, c, y, ins1), c, Front(s), ins, z - HeaderLen(s[Len(s)].header), m)
<1> DEFINE n == Len(s)
           u == s[n]
           index == Stored(ins, n)
           steps == {k \in 0 .. c - 1 : /\ ix[At(c, u.hash, k)] # None
                                        /\ ix[At(c, u.hash, k)].index = index}
           place == At(c, u.hash, Min(steps))
           a == Stored(ins1, 1)
<1>1. n \in 1 .. Width /\ Width \in Nat \ {0} /\ n \in Int /\ None \notin Nat
  BY NonePos
<1>2. pos \in 1 .. Width /\ pos \in Int /\ Stored(ins, pos) = last
  BY <1>1, StoredFacts
<1>3. ins1 \in 0 .. Width - 1 /\ a = (-1 - ins) % Width /\ Stored(ins1, n + 1) = Stored(ins, n)
  BY <1>1, InsertedFacts
<1>4. a \in 0 .. Width - 1
  BY <1>1, <1>3, StoredFacts, 1 \in 1 .. Width
<1>5. /\ Len(y) = n + 1
      /\ y[n + 1].hash = s[n].hash
      /\ (n = pos => y[n + 1].next = a) /\ (n = pos \/ y[n + 1] = s[n])
  <2>1. y = Ahead(s, pos, a, slot)
    OBVIOUS
  <2>2. n \in 1 .. Len(s)
    BY <1>1
  <2> HIDE DEF a
  <2>3. /\ Len(y) = Len(s) + 1
        /\ \A i \in 1 .. Len(s) :
                 /\ y[i + 1].hash = s[i].hash
                 /\ (i = pos => y[i + 1].next = a) /\ (i = pos \/ y[i + 1] = s[i])
    <3> HIDE DEF n
    <3> QED
      BY <1>2, <1>4, <2>1, AheadFacts, SMTT(30)
  <2> QED
    BY <2>2, <2>3
<1>6. Stored(ins, n) = last <=> n = pos
  <2>1. SlotAt(ins, Stored(ins, n)) = n
    BY <1>1, StoredFacts
  <2> QED
    BY <1>2, <2>1
<1>7. Evicted(ix, c, y, ins1) = IF y[n + 1].next # None THEN SetIndex(ix, place, y[n + 1].next)
                               ELSE Removed(SetPos(ix, place, None), c, place)
  <2>1. {k \in 0 .. c - 1 : /\ ix[At(c, s[n].hash, k)] # None
                            /\ ix[At(c, s[n].hash, k)].index = Stored(ins, n)}
        = {k \in 0 .. c - 1 : /\ ix[At(c, y[Len(y)].hash, k)] # None
                              /\ ix[At(c, y[Len(y)].hash, k)].index = Stored(ins1, Len(y))}
    BY <1>3, <1>5
  <2> QED
    BY <1>3, <1>5, <2>1 DEF Evicted, SetPos, SetIndex
<1>11. /\ u = s[Len(s)] /\ index = Stored(ins, Len(s))
       /\ steps = {k \in 0 .. c - 1 : /\ ix[At(c, u.hash, k)] # None
                                      /\ ix[At(c, u.hash, k)].index = index}
       /\ place = At(c, u.hash, Min(steps))
  OBVIOUS
<1> HIDE DEF u, index, steps, place
<1>8.      /\ u.next # None => Evict(t, last) =
                Tbl(SetIndex(ix, place, u.next), c, Front(s), ins, z - HeaderLen(u.header), m)
           /\ u.next = None /\ index = last => Evict(t, last) =
                Tbl(SetIndex(ix, place, (-1 - ins) % Width), c, Front(s), ins, z - HeaderLen(u.header), m)
           /\ u.next = None /\ index # last => Evict(t, last) =
                Tbl(Removed(SetPos(ix, place, None), c, place), c, Front(s), ins, z - HeaderLen(u.header), m)
  BY <1>11, EvictIs
<1> HIDE DEF a
<1>9. CASE n = pos
  <2>1. s[n].next = None
    BY <1>1, <1>9
  <2>2. y[n + 1].next = a /\ a # None
    BY <1>1, <1>4, <1>5, <1>9
  <2>3. Evicted(ix, c, y, ins1) = SetIndex(ix, place, a)
    BY <1>7, <2>2, Zenon
  <2>4. u.next = None /\ index = last
    BY <1>6, <1>9, <2>1 DEF u, index
  <2>5. Evict(t, last) = Tbl(SetIndex(ix, place, a), c, Front(s), ins, z - HeaderLen(u.header), m)
    BY <1>3, <1>8, <2>4
  <2> QED
    BY <2>3, <2>5 DEF u
<1>10. CASE n # pos
  <2>1. y[n + 1] = u /\ index # last
    BY <1>5, <1>6, <1>10 DEF u, index
  <2>2. CASE u.next # None
    <3>1. Evicted(ix, c, y, ins1) = SetIndex(ix, place, u.next)
      BY <1>7, <2>1, <2>2
    <3> QED
      BY <1>8, <2>2, <3>1 DEF u
  <2>3. CASE u.next = None
    <3>1. Evicted(ix, c, y, ins1) = Removed(SetPos(ix, place, None), c, place)
      BY <1>7, <2>1, <2>3
    <3> QED
      BY <1>8, <2>1, <2>3, <3>1 DEF u
  <2> QED
    BY <2>2, <2>3
<1> QED
  BY <1>9, <1>10

(***************************************************************************)
(* Sizes.                                                                  *)
(***************************************************************************)

\* f adds the lengths of the headers up, newest first.
Adds(f, s) ==
    /\ f \in [0 .. Len(s) -> Nat]
    /\ f[0] = 0 /\ \A i \in 1 .. Len(s) : f[i] = f[i - 1] + HeaderLen(s[i].header)

\* The lengths of the headers in s add up to total.
Sums(s, total) == \E f : Adds(f, s) /\ f[Len(s)] = total

\* A header is not empty: 32 bytes count for an entry.
LEMMA HeaderLenType ==
    ASSUME NEW h \in Header
    PROVE  HeaderLen(h) \in Nat \ {0}
BY TableAssumption DEF Header, HeaderLen

\* The header of a slot.
LEMMA SlotHeader ==
    ASSUME NEW s, s \in Seq(SlotRec), NEW i, i \in 1 .. Len(s)
    PROVE  s[i] \in SlotRec /\ s[i].header \in Header /\ HeaderLen(s[i].header) \in Nat \ {0}
<1>1. s[i] \in SlotRec
  OBVIOUS
<1>2. s[i].header \in Header
  BY <1>1 DEF SlotRec
<1> QED
  BY <1>1, <1>2, HeaderLenType

\* No slots.
LEMMA SumsEmpty == Sums(<<>>, 0)
<1> DEFINE f == [i \in 0 .. 0 |-> 0]
<1>1. Len(<<>>) = 0
  OBVIOUS
<1>2. Adds(f, <<>>) /\ f[Len(<<>>)] = 0
  BY <1>1 DEF Adds
<1> QED
  BY <1>2 DEF Sums

\* The sum is no less than the number of slots.
LEMMA SumsBound ==
    ASSUME NEW s, s \in Seq(SlotRec), NEW total, Sums(s, total)
    PROVE  total \in Nat /\ Len(s) <= total /\ (Len(s) = 0 => total = 0)
<1>1. PICK f : Adds(f, s) /\ f[Len(s)] = total
  BY DEF Sums
<1>2. Len(s) \in Nat /\ f \in [0 .. Len(s) -> Nat] /\ f[0] = 0
  BY <1>1 DEF Adds
<1> DEFINE S == {k \in 0 .. Len(s) : k <= f[k]}
<1>3. 0 \in S
  BY <1>2
<1>4. ASSUME NEW k \in 1 .. Len(s), k - 1 \in S
      PROVE  k \in S
  <2>1. f[k] = f[k - 1] + HeaderLen(s[k].header)
    BY <1>1 DEF Adds
  <2>2. HeaderLen(s[k].header) \in Nat \ {0}
    BY SlotHeader
  <2>3. k - 1 \in 0 .. Len(s) /\ k \in 0 .. Len(s) /\ f[k - 1] \in Nat /\ k - 1 <= f[k - 1]
    BY <1>2, <1>4
  <2> QED
    BY <2>1, <2>2, <2>3
<1>5. Len(s) \in S
  <2> HIDE DEF S
  <2>1. \A k \in 0 .. Len(s) : k \in S
    BY <1>2, <1>3, <1>4, UpTo
  <2> QED
    BY <1>2, <2>1
<1> QED
  BY <1>1, <1>2, <1>5

\* Without the oldest slot.
LEMMA SumsFront ==
    ASSUME NEW s, s \in Seq(SlotRec), Len(s) # 0, NEW total, Sums(s, total)
    PROVE  Sums(Front(s), total - HeaderLen(s[Len(s)].header))
<1>1. PICK f : Adds(f, s) /\ f[Len(s)] = total
  BY DEF Sums
<1> DEFINE n == Len(s)
           u == Front(s)
           g == [i \in 0 .. n - 1 |-> f[i]]
<1>2. n \in Nat \ {0} /\ u \in Seq(SlotRec) /\ Len(u) = n - 1 /\ \A i \in 1 .. n - 1 : u[i] = s[i]
  BY FrontFacts
<1>3. f \in [0 .. n -> Nat] /\ f[0] = 0 /\ \A i \in 1 .. n : f[i] = f[i - 1] + HeaderLen(s[i].header)
  BY <1>1 DEF Adds
<1> HIDE DEF u
<1>4. g \in [0 .. n - 1 -> Nat] /\ g[0] = 0
  BY <1>2, <1>3
<1>5. \A i \in 1 .. n - 1 : g[i] = g[i - 1] + HeaderLen(u[i].header)
  BY <1>2, <1>3
<1>6. g[n - 1] = total - HeaderLen(s[n].header)
  <2>1. HeaderLen(s[n].header) \in Nat
    BY <1>2, SlotHeader
  <2>3. n \in 1 .. n /\ n - 1 \in 0 .. n /\ n - 1 \in 0 .. n - 1
    BY <1>2
  <2>2. f[n] = f[n - 1] + HeaderLen(s[n].header) /\ f[n - 1] \in Nat
    BY <1>3, <2>3
  <2> QED
    BY <1>1, <2>1, <2>2, <2>3
<1> HIDE DEF g
<1>7. Adds(g, u)
  BY <1>2, <1>4, <1>5 DEF Adds
<1> QED
  BY <1>2, <1>6, <1>7 DEF Sums, u

\* With a newer slot; links do not count.
LEMMA SumsAhead ==
    ASSUME NEW s, s \in Seq(SlotRec), NEW total, Sums(s, total),
           NEW y, y \in Seq(SlotRec), Len(y) = Len(s) + 1,
           \A i \in 1 .. Len(s) : y[i + 1].header = s[i].header
    PROVE  Sums(y, total + HeaderLen(y[1].header))
<1>1. PICK f : Adds(f, s) /\ f[Len(s)] = total
  BY DEF Sums
<1> DEFINE n == Len(s)
           x == HeaderLen(y[1].header)
           g == [i \in 0 .. n + 1 |-> IF i = 0 THEN 0 ELSE f[i - 1] + x]
<1>2. n \in Nat /\ x \in Nat
  BY SlotHeader
<1>3. f \in [0 .. n -> Nat] /\ f[0] = 0 /\ \A i \in 1 .. n : f[i] = f[i - 1] + HeaderLen(s[i].header)
  BY <1>1 DEF Adds
<1>4. \A i \in 1 .. n : HeaderLen(y[i + 1].header) = HeaderLen(s[i].header) /\ HeaderLen(s[i].header) \in Nat
  BY SlotHeader
<1>5. \A i \in 1 .. n + 1 : g[i] = g[i - 1] + HeaderLen(y[i].header)
  <2> SUFFICES ASSUME NEW i \in 1 .. n + 1 PROVE g[i] = g[i - 1] + HeaderLen(y[i].header)
    OBVIOUS
  <2>1. CASE i = 1
    <3>1. g[1] = f[0] + x /\ g[0] = 0
      BY <1>2
    <3> QED
      BY <1>2, <1>3, <2>1, <3>1
  <2>2. CASE i # 1
    <3>1. i - 1 \in 1 .. n /\ (i - 1) + 1 = i /\ i \in 0 .. n + 1 /\ i - 1 \in 0 .. n + 1
      BY <1>2, <2>2
    <3>2. g[i] = f[i - 1] + x /\ g[i - 1] = f[(i - 1) - 1] + x
      BY <1>2, <2>2, <3>1
    <3>3. HeaderLen(y[i].header) = HeaderLen(s[i - 1].header)
      BY <1>4, <3>1
    <3>4. f[i - 1] = f[(i - 1) - 1] + HeaderLen(s[i - 1].header)
      BY <1>3, <3>1
    <3>6. (i - 1) - 1 \in 0 .. n
      BY <1>2, <3>1
    <3>7. f[(i - 1) - 1] \in Nat
      BY <1>3, <3>6
    <3>5. f[(i - 1) - 1] \in Nat /\ HeaderLen(s[i - 1].header) \in Nat
      BY <1>4, <3>1, <3>7
    <3> HIDE DEF g, x
    <3> QED
      BY <1>2, <3>2, <3>3, <3>4, <3>5
  <2> QED
    BY <2>1, <2>2
<1>6. g \in [0 .. n + 1 -> Nat] /\ g[0] = 0 /\ g[n + 1] = total + x
  BY <1>1, <1>2, <1>3
<1> HIDE DEF g
<1>7. Adds(g, y)
  BY <1>5, <1>6 DEF Adds
<1> QED
  BY <1>6, <1>7 DEF Sums

(***************************************************************************)
(* The loop of converge().                                                 *)
(***************************************************************************)

\* The turns of the loop, when they stay within a set of tables.
LEMMA ConvergeTurns ==
    ASSUME NEW T, NEW t, NEW prev, t \in T, NEW n, n \in Nat, n = Len(t.slots),
           \A u \in T : EvictOver(u, prev) \in T
    PROVE  \E g \in [0 .. n -> T] :
              /\ g[0] = t /\ \A k \in 1 .. n : g[k] = EvictOver(g[k - 1], prev)
              /\ Converge(t, prev) = g[n]
<1> DEFINE F == [x \in (1 .. n) \X T |-> EvictOver(x[2], prev)]
           Eq(g) == g = [k \in 0 .. n |-> IF k = 0 THEN t ELSE EvictOver(g[k - 1], prev)]
           c == CHOOSE g : Eq(g)
<1>1. F \in [(1 .. n) \X T -> T]
  <2>1. \A x \in (1 .. n) \X T : x[2] \in T
    OBVIOUS
  <2>2. \A x \in (1 .. n) \X T : EvictOver(x[2], prev) \in T
    BY <2>1, Zenon
  <2> QED
    BY <2>2
<1>9. Steps(F, n, T)
  BY <1>1 DEF Steps
<1>10. PICK g : Follows(g, n, T, t, F)
  <2> HIDE DEF F
  <2> QED
    BY <1>9, Recursion
<1>2. g \in [0 .. n -> T] /\ g[0] = t /\ \A k \in 1 .. n : g[k] = F[<<k, g[k - 1]>>]
  <2> HIDE DEF F
  <2> QED
    BY <1>10 DEF Follows
<1>3. \A k \in 1 .. n : g[k] = EvictOver(g[k - 1], prev)
  <2> SUFFICES ASSUME NEW k \in 1 .. n PROVE g[k] = EvictOver(g[k - 1], prev)
    OBVIOUS
  <2>1. g[k - 1] \in T /\ <<k, g[k - 1]>> \in (1 .. n) \X T
    BY <1>2
  <2>2. F[<<k, g[k - 1]>>] = EvictOver(g[k - 1], prev)
    BY <2>1
  <2> QED
    BY <1>2, <2>2
<1>4. Eq(g)
  BY <1>2, <1>3
<1>5. Eq(c)
  <2> HIDE DEF Eq
  <2> QED
    BY <1>4
<1>6. c[0] = t /\ \A k \in 1 .. n : c[k] = EvictOver(c[k - 1], prev)
  <2> HIDE DEF c
  <2> QED
    BY <1>5
<1>7. \A k \in 0 .. n : c[k] = g[k]
  <2> DEFINE S == {k \in 0 .. n : c[k] = g[k]}
  <2> HIDE DEF c
  <2>1. 0 \in S
    BY <1>2, <1>6
  <2>2. ASSUME NEW k \in 1 .. n, k - 1 \in S
        PROVE  k \in S
    <3>1. c[k - 1] = g[k - 1] /\ k \in 0 .. n
      BY <2>2
    <3>2. c[k] = EvictOver(c[k - 1], prev) /\ g[k] = EvictOver(g[k - 1], prev)
      BY <1>3, <1>6
    <3> QED
      BY <3>1, <3>2
  <2> HIDE DEF S
  <2>3. \A k \in 0 .. n : k \in S
    BY <2>1, <2>2, UpTo
  <2> QED
    BY <2>3 DEF S
<1>8. Converge(t, prev) = c[n]
  BY DEF Converge
<1> HIDE DEF c, F
<1> QED
  BY <1>2, <1>3, <1>7, <1>8

\* What a set of tables needs for the loop to end in it: a turn stays in it,
\* takes a slot while the size is too large, and without slots it is not.
Loops(T, prev) ==
    \A u \in T : /\ EvictOver(u, prev) \in T
                 /\ u.size \in Int /\ u.max \in Int /\ Len(u.slots) \in Nat
                 /\ u.size > u.max => Len(EvictOver(u, prev).slots) = Len(u.slots) - 1
                 /\ Len(u.slots) = 0 => u.size <= u.max

\* The loop ends with a size that fits.
LEMMA ConvergeEnds ==
    ASSUME NEW T, NEW t, NEW prev, t \in T, Loops(T, prev), NEW r, r = Converge(t, prev)
    PROVE  r \in T /\ r.size <= r.max
<1> DEFINE n == Len(t.slots)
<1>1. n \in Nat /\ \A u \in T : EvictOver(u, prev) \in T
  BY DEF Loops
<1>2. PICK g \in [0 .. n -> T] :
              /\ g[0] = t /\ \A k \in 1 .. n : g[k] = EvictOver(g[k - 1], prev)
              /\ Converge(t, prev) = g[n]
  <2>1. n = Len(t.slots)
    OBVIOUS
  <2> HIDE DEF n
  <2> QED
    BY <1>1, <2>1, ConvergeTurns
<1> DEFINE S == {k \in 0 .. n : g[k].size <= g[k].max \/ Len(g[k].slots) <= n - k}
<1>3. 0 \in S
  BY <1>1, <1>2
<1>4. ASSUME NEW k \in 1 .. n, k - 1 \in S
      PROVE  k \in S
  <2>1. k - 1 \in 0 .. n /\ k \in 0 .. n
    BY <1>1
  <2> DEFINE u == g[k - 1]
             v == g[k]
  <2>2. u \in T /\ v = EvictOver(u, prev)
    BY <1>2, <2>1
  <2>3. u.size <= u.max \/ Len(u.slots) <= n - (k - 1)
    BY <1>4
  <2>4. u.size \in Int /\ u.max \in Int /\ Len(u.slots) \in Nat /\ (u.size > u.max => Len(v.slots) = Len(u.slots) - 1)
    <3> HIDE DEF u, v, n, S
    <3> QED
      BY <2>2 DEF Loops
  <2>5. u.size <= u.max => v = u
    <3> HIDE DEF u, v, n, S
    <3> QED
      BY <2>2 DEF EvictOver
  <2>6. v.size <= v.max \/ Len(v.slots) <= n - k
    <3> HIDE DEF u, v, n, S
    <3>1. CASE u.size <= u.max
      BY <2>5, <3>1
    <3>2. CASE u.size > u.max
      BY <1>1, <2>3, <2>4, <3>2
    <3> QED
      BY <2>4, <3>1, <3>2
  <2> QED
    BY <2>1, <2>6
<1>5. \A k \in 0 .. n : k \in S
  <2> HIDE DEF S, n
  <2> QED
    BY <1>1, <1>3, <1>4, UpTo
<1>6. n \in 0 .. n /\ g[n] \in T
  BY <1>1
<1>7. g[n].size <= g[n].max \/ Len(g[n].slots) <= n - n
  BY <1>5, <1>6
<1>8. g[n].size <= g[n].max
  <2> DEFINE w == g[n]
  <2>1. Len(w.slots) \in Nat /\ (Len(w.slots) = 0 => w.size <= w.max)
    BY <1>6 DEF Loops
  <2> HIDE DEF n, w
  <2>2. w.size <= w.max \/ Len(w.slots) <= 0
    BY <1>1, <1>7 DEF w
  <2> QED
    BY <2>1, <2>2 DEF w
<1> QED
  BY <1>2, <1>6, <1>8

(***************************************************************************)
(* Evictions that make room for a slot of a new name, or for none.         *)
(***************************************************************************)

\* Distances do not grow, over several steps.
LEMMA LowerTrans ==
    ASSUME NEW c, c \in Nat \ {0}, NEW a, NEW b, NEW d, a \in Indices(c), b \in Indices(c), d \in Indices(c),
           Lower(a, b, c), Lower(b, d, c)
    PROVE  Lower(a, d, c)
<1> SUFFICES ASSUME NEW p \in 0 .. c - 1, a[p] # None
             PROVE  d[p] # None /\ Dist(a, c, p) <= Dist(d, c, p)
  BY DEF Lower
<1>1. b[p] # None /\ Dist(a, c, p) <= Dist(b, c, p)
  BY DEF Lower
<1>2. d[p] # None /\ Dist(b, c, p) <= Dist(d, c, p)
  BY <1>1 DEF Lower
<1>3. Dist(a, c, p) \in Int /\ Dist(b, c, p) \in Int /\ Dist(d, c, p) \in Int
  BY <1>1, <1>2, DistType
<1> QED
  BY <1>1, <1>2, <1>3

\* Lower() is reflexive.
LEMMA LowerSame ==
    ASSUME NEW c, c \in Nat \ {0}, NEW a, a \in Indices(c)
    PROVE  Lower(a, a, c)
<1> SUFFICES ASSUME NEW p \in 0 .. c - 1, a[p] # None
             PROVE  Dist(a, c, p) <= Dist(a, c, p)
  BY DEF Lower
<1>1. Dist(a, c, p) \in Int
  BY DistType
<1> QED
  BY <1>1

\* The slots of s are the newest ones of s0.
Newest(s, s0) == Len(s) <= Len(s0) /\ \A i \in 1 .. Len(s) : s[i] = s0[i]

\* The oldest slot goes: the ones that stay are the newest.
LEMMA NewestFront ==
    ASSUME NEW s, NEW s0, s \in Seq(SlotRec), s0 \in Seq(SlotRec), Len(s) # 0, Newest(s, s0)
    PROVE  Newest(Front(s), s0) /\ Len(Front(s)) < Len(s0) /\ Len(Front(s)) = Len(s) - 1
<1>1. Front(s) \in Seq(SlotRec) /\ Len(Front(s)) = Len(s) - 1 /\ Len(s) \in Nat \ {0}
      /\ \A i \in 1 .. Len(s) - 1 : Front(s)[i] = s[i]
  BY FrontFacts
<1>2. Len(s0) \in Nat /\ Len(s) <= Len(s0) /\ \A i \in 1 .. Len(s) : s[i] = s0[i]
  BY DEF Newest
<1>3. \A i \in 1 .. Len(s) - 1 : i \in 1 .. Len(s)
  BY <1>1
<1>4. \A i \in 1 .. Len(Front(s)) : Front(s)[i] = s0[i]
  BY <1>1, <1>2, <1>3
<1> QED
  BY <1>1, <1>2, <1>4 DEF Newest

\* The slot of t that u lost last did not fit.
Tight(u, t) ==
    Len(u.slots) < Len(t.slots) => u.size + HeaderLen(t.slots[Len(u.slots) + 1].header) > t.max

\* The tables between t and the room that the loop makes for len bytes.
Rooms(t, c, len) ==
    {u \in TableSet(c) :
        /\ u.inserted = t.inserted /\ u.max = t.max
        /\ Sound(u.indices, c, u.slots, u.inserted) /\ HasFree(u.indices, c)
        /\ Sums(u.slots, u.size - len)
        /\ Lower(u.indices, t.indices, c) /\ Newest(u.slots, t.slots)
        /\ Tight(u, t)
        /\ Len(u.slots) = Len(t.slots) => u = t}

\* One turn of the loop.
LEMMA RoomTurn ==
    ASSUME NEW t, NEW c, NEW len, t \in TableSet(c), c \in Nat \ {0}, len \in Nat, len <= t.max,
           NEW u, u \in Rooms(t, c, len)
    PROVE  /\ EvictOver(u, None) \in Rooms(t, c, len)
           /\ u.size > u.max => Len(EvictOver(u, None).slots) = Len(u.slots) - 1
           /\ Len(u.slots) = 0 => u.size <= u.max
<1>1. /\ u \in TableSet(c) /\ u.inserted = t.inserted /\ u.max = t.max
      /\ Sound(u.indices, c, u.slots, u.inserted) /\ HasFree(u.indices, c)
      /\ Sums(u.slots, u.size - len)
      /\ Lower(u.indices, t.indices, c) /\ Newest(u.slots, t.slots)
  BY DEF Rooms
<1> DEFINE ix == u.indices
           s == u.slots
           ins == u.inserted
           z == u.size
           m == u.max
<1>2. /\ u = Tbl(ix, c, s, ins, z, m) /\ ix \in Indices(c) /\ s \in Seq(SlotRec)
      /\ ins \in 0 .. Width - 1 /\ z \in Int /\ m \in Nat
  BY <1>1, TblFields
<1>3. t.indices \in Indices(c) /\ t.slots \in Seq(SlotRec) /\ t.max \in Nat
  BY TblFields
<1>4. Len(s) \in Nat /\ (Len(s) = 0 => z <= m)
  <2>1. Len(s) \in Nat /\ (Len(s) = 0 => z - len = 0)
    BY <1>1, <1>2, SumsBound
  <2> QED
    BY <1>1, <1>2, <2>1
<1>5. CASE z <= m
  <2>1. EvictOver(u, None) = u
    BY <1>5 DEF EvictOver
  <2> QED
    BY <1>2, <1>4, <1>5, <2>1
<1>6. CASE ~(z <= m)
  <2>1. EvictOver(u, None) = Evict(u, None)
    BY <1>6 DEF EvictOver
  <2>2. Len(s) # 0 /\ Len(s) <= Width
    <3>1. Len(s) <= Width
      BY <1>1 DEF Sound, Typed
    <3> QED
      BY <1>4, <1>6, <3>1
  <2> DEFINE r == Evicted(ix, c, s, ins)
             f == Front(s)
             y == z - HeaderLen(s[Len(s)].header)
             w == Tbl(r, c, f, ins, y, m)
  <2>3. Evict(u, None) = w
    <3> HIDE DEF ix, s, ins, z, m
    <3> QED
      BY <1>2, <2>2, EvictVacant
  <2>4. Sound(r, c, f, ins) /\ HasFree(r, c) /\ Lower(r, ix, c)
    <3>1. r = Evicted(ix, c, s, ins)
      OBVIOUS
    <3> HIDE DEF ix, s, ins, z, m, r
    <3> QED
      BY <1>1, <2>2, <3>1, EvictSound DEF ix, s, ins
  <2>5. f \in Seq(SlotRec) /\ Newest(f, t.slots) /\ Len(f) < Len(t.slots) /\ Len(f) = Len(s) - 1
    <3>1. f \in Seq(SlotRec)
      BY <1>2, <2>2, FrontFacts
    <3> QED
      BY <1>1, <1>2, <1>3, <2>2, <3>1, NewestFront
  <2>6. y \in Int /\ Sums(f, y - len)
    <3>1. HeaderLen(s[Len(s)].header) \in Nat
      BY <1>2, <1>4, <2>2, SlotHeader, SMTT(30)
    <3>2. Sums(f, (z - len) - HeaderLen(s[Len(s)].header))
      BY <1>1, <1>2, <2>2, SumsFront
    <3>3. (z - len) - HeaderLen(s[Len(s)].header) = y - len
      BY <1>2, <3>1
    <3> QED
      BY <1>2, <3>1, <3>2, <3>3
  <2>7. r \in Indices(c)
    BY <2>4 DEF Sound, Typed
  <2>8. Lower(r, t.indices, c)
    <3> HIDE DEF r, ix
    <3> QED
      BY <1>1, <1>2, <1>3, <2>4, <2>7, LowerTrans DEF ix
  <2> HIDE DEF r, f, y
  <2>9. w.indices = r /\ w.cap = c /\ w.slots = f /\ w.inserted = ins /\ w.size = y /\ w.max = m
    BY DEF Tbl
  <2>10. w \in TableSet(c)
    BY <1>2, <2>5, <2>6, <2>7 DEF Tbl, TableSet
  <2>11. Len(f) \in Nat /\ Len(t.slots) \in Nat /\ Len(f) # Len(t.slots)
    BY <1>3, <2>5
  <2>13. Tight(w, t)
    <3>1. (Len(s) - 1) + 1 = Len(s) /\ s[Len(s)] = t.slots[Len(s)]
      BY <1>1, <1>4, <2>2 DEF Newest
    <3>2. HeaderLen(s[Len(s)].header) \in Nat
      <4>1. Len(s) \in 1 .. Len(s)
        BY <1>4, <2>2
      <4> HIDE DEF s
      <4> QED
        BY <1>2, <4>1, SlotHeader
    <3>3. y + HeaderLen(s[Len(s)].header) = z
      BY <1>2, <3>2 DEF y
    <3>4. Len(w.slots) + 1 = Len(s) /\ w.size = y
      BY <2>9, <2>5, <3>1
    <3>5. t.max = m
      BY <1>1
    <3> HIDE DEF s, z, m, w
    <3> QED
      <4>1. HeaderLen(t.slots[Len(w.slots) + 1].header) = HeaderLen(s[Len(s)].header)
        BY <3>1, <3>4, Zenon
      <4>2. w.size + HeaderLen(s[Len(s)].header) = z
        BY <3>3, <3>4
      <4>3. z > t.max
        BY <1>2, <1>6, <3>5
      <4> QED
        BY <4>1, <4>2, <4>3 DEF Tight
  <2> HIDE DEF w
  <2>12. w \in Rooms(t, c, len)
    BY <1>1, <2>4, <2>5, <2>6, <2>8, <2>9, <2>10, <2>11, <2>13 DEF Rooms
  <2> QED
    BY <1>2, <1>4, <1>6, <2>1, <2>2, <2>3, <2>5, <2>9, <2>12
<1> QED
  BY <1>5, <1>6

\* t is in Rooms(t, c, len) when it is sound.
LEMMA RoomsFirst ==
    ASSUME NEW t, NEW c, NEW len, t \in TableSet(c), c \in Nat \ {0},
           Sound(t.indices, c, t.slots, t.inserted), HasFree(t.indices, c), Sums(t.slots, t.size - len)
    PROVE  t \in Rooms(t, c, len)
<1>1. t.indices \in Indices(c) /\ t.slots \in Seq(SlotRec)
  BY TblFields
<1>2. Lower(t.indices, t.indices, c)
  BY <1>1, LowerSame
<1>3. Newest(t.slots, t.slots)
  BY <1>1 DEF Newest
<1> QED
  BY <1>2, <1>3, <1>1 DEF Rooms, Tight

\* The loop makes room and keeps the index sound.
LEMMA ConvergeVacant ==
    ASSUME NEW t, NEW c, NEW len, t \in TableSet(c), c \in Nat \ {0}, len \in Nat, len <= t.max,
           Sound(t.indices, c, t.slots, t.inserted), HasFree(t.indices, c), Sums(t.slots, t.size - len),
           NEW r, r = Converge(t, None)
    PROVE  r \in Rooms(t, c, len) /\ r.size <= r.max
<1> DEFINE T == Rooms(t, c, len)
<1>1. t \in T
  BY RoomsFirst
<1>2. Loops(T, None)
  <2> SUFFICES ASSUME NEW u \in T
               PROVE  /\ EvictOver(u, None) \in T
                      /\ u.size \in Int /\ u.max \in Int /\ Len(u.slots) \in Nat
                      /\ u.size > u.max => Len(EvictOver(u, None).slots) = Len(u.slots) - 1
                      /\ Len(u.slots) = 0 => u.size <= u.max
    BY DEF Loops
  <2>1. u \in TableSet(c)
    BY DEF Rooms
  <2>2. u.size \in Int /\ u.max \in Int /\ Len(u.slots) \in Nat
    BY <2>1, TblFields
  <2> QED
    BY <2>2, RoomTurn
<1> HIDE DEF T
<1>3. r \in T /\ r.size <= r.max
  BY <1>1, <1>2, ConvergeEnds
<1> QED
  BY <1>3 DEF T

(***************************************************************************)
(* Evictions that make room for a slot of the name of the slot `last`.     *)
(***************************************************************************)

\* Where the newest slot of the name is, or was, and the index of the slot
\* to come.
Behind(t, last) == SlotAt(t.inserted, last)
Coming(t) == Stored((t.inserted + 1) % Width, 1)

\* The slots of u when the new one is in front.
Fronted(u, t, last, slot) == Ahead(u.slots, Behind(t, last), Coming(t), slot)

NameRooms(t, c, len, last, slot) ==
    {u \in TableSet(c) :
        /\ u.inserted = t.inserted /\ u.max = t.max
        /\ Sound(u.indices, c, Fronted(u, t, last, slot), (t.inserted + 1) % Width) /\ HasFree(u.indices, c)
        /\ Sums(u.slots, u.size - len)
        /\ Newest(u.slots, t.slots) /\ Tight(u, t)}

\* One turn of the loop.
LEMMA NameRoomTurn ==
    ASSUME NEW t, NEW c, NEW len, t \in TableSet(c), c \in Nat \ {0}, len \in Nat, len <= t.max,
           Len(t.slots) < Width,
           NEW last, last \in 0 .. Width - 1, NEW slot, slot \in SlotRec,
           Behind(t, last) \in 1 .. Len(t.slots), t.slots[Behind(t, last)].next = None,
           NEW u, u \in NameRooms(t, c, len, last, slot)
    PROVE  /\ EvictOver(u, last) \in NameRooms(t, c, len, last, slot)
           /\ u.size > u.max => Len(EvictOver(u, last).slots) = Len(u.slots) - 1
           /\ Len(u.slots) = 0 => u.size <= u.max
<1> DEFINE ix == u.indices
           s == u.slots
           ins == u.inserted
           z == u.size
           m == u.max
           pos == Behind(t, last)
           a == Coming(t)
           ins1 == (t.inserted + 1) % Width
           x == Ahead(s, pos, a, slot)
<1>1. /\ u \in TableSet(c) /\ u.inserted = t.inserted /\ u.max = t.max
      /\ Sound(ix, c, x, ins1) /\ HasFree(ix, c)
      /\ Sums(s, u.size - len) /\ Newest(s, t.slots)
  BY DEF NameRooms, Fronted
<1>2. /\ u = Tbl(ix, c, s, ins, z, m) /\ ix \in Indices(c) /\ s \in Seq(SlotRec)
      /\ ins \in 0 .. Width - 1 /\ z \in Int /\ m \in Nat
  BY <1>1, TblFields
<1>3. t.indices \in Indices(c) /\ t.slots \in Seq(SlotRec) /\ t.max \in Nat /\ t.inserted \in 0 .. Width - 1
  BY TblFields
<1>4. Len(s) \in Nat /\ (Len(s) = 0 => z <= m)
  <2>1. Len(s) \in Nat /\ (Len(s) = 0 => z - len = 0)
    BY <1>1, <1>2, SumsBound
  <2> QED
    BY <1>1, <1>2, <2>1
<1>5. CASE z <= m
  <2>1. EvictOver(u, last) = u
    BY <1>5 DEF EvictOver
  <2> QED
    BY <1>2, <1>4, <1>5, <2>1
<1>6. CASE ~(z <= m)
  <2>1. EvictOver(u, last) = Evict(u, last)
    BY <1>6 DEF EvictOver
  <2>2. Len(s) # 0 /\ Len(s) < Width
    <3>1. Len(s) <= Len(t.slots) /\ Len(t.slots) \in Nat
      BY <1>1, <1>3 DEF Newest
    <3> QED
      BY <1>4, <1>6, <3>1, NonePos
  <2> DEFINE r == Evicted(ix, c, x, ins1)
             f == Front(s)
             y == z - HeaderLen(s[Len(s)].header)
             w == Tbl(r, c, f, ins, y, m)
  <2>3. pos = SlotAt(ins, last) /\ ins1 = (ins + 1) % Width /\ a = Stored(ins1, 1) /\ pos \in Nat
    BY <1>1 DEF Behind, Coming
  <2>4. pos \in 1 .. Len(s) => s[pos].next = None
    BY <1>1, <1>3, <1>4 DEF Newest
  <2>5. a \in 0 .. Width - 1 /\ ins1 \in 0 .. Width - 1
    <3>1. ins1 \in 0 .. Width - 1
      BY <1>2, <2>3, InsertedFacts
    <3>2. 1 \in 1 .. Width
      BY NonePos
    <3> QED
      BY <2>3, <3>1, <3>2, StoredFacts
  <2>6. Evict(u, last) = w
    <3>1. x = Ahead(s, pos, Stored(ins1, 1), slot)
      BY <2>3
    <3> HIDE DEF ix, s, ins, z, m, pos, a, ins1, x
    <3> QED
      BY <1>2, <2>2, <2>3, <2>4, <3>1, EvictOccupied
  <2>7. Len(x) # 0
    <3>1. x = Ahead(s, pos, a, slot)
      OBVIOUS
    <3> HIDE DEF ix, s, ins, z, m, pos, a, ins1, x
    <3>2. Len(x) = Len(s) + 1
      BY <1>2, <2>3, <2>5, <3>1, AheadFacts
    <3> QED
      BY <1>4, <3>2
  <2>8. Sound(r, c, Front(x), ins1) /\ HasFree(r, c)
    <3>1. r = Evicted(ix, c, x, ins1)
      OBVIOUS
    <3> HIDE DEF ix, x, ins1, r
    <3> QED
      BY <1>1, <2>7, <3>1, EvictSound
  <2>9. Front(x) = Ahead(f, pos, a, slot)
    <3> HIDE DEF pos, a, s
    <3> QED
      BY <1>2, <2>2, <2>3, <2>5, AheadFront
  <2>10. f \in Seq(SlotRec) /\ Newest(f, t.slots) /\ Len(f) = Len(s) - 1
    <3>1. f \in Seq(SlotRec)
      BY <1>2, <2>2, FrontFacts
    <3> QED
      BY <1>1, <1>2, <1>3, <2>2, <3>1, NewestFront
  <2>11. y \in Int /\ Sums(f, y - len)
    <3>1. HeaderLen(s[Len(s)].header) \in Nat
      <4>1. Len(s) \in 1 .. Len(s)
        BY <1>4, <2>2
      <4> HIDE DEF s
      <4> QED
        BY <1>2, <4>1, SlotHeader
    <3>2. Sums(f, (z - len) - HeaderLen(s[Len(s)].header))
      BY <1>1, <1>2, <2>2, SumsFront
    <3>3. (z - len) - HeaderLen(s[Len(s)].header) = y - len
      BY <1>2, <3>1
    <3> QED
      BY <1>2, <3>1, <3>2, <3>3
  <2>12. r \in Indices(c)
    BY <2>8 DEF Sound, Typed
  <2> HIDE DEF r, f, y
  <2>13. w.indices = r /\ w.cap = c /\ w.slots = f /\ w.inserted = ins /\ w.size = y /\ w.max = m
    BY DEF Tbl
  <2>14. w \in TableSet(c)
    BY <1>2, <2>10, <2>11, <2>12 DEF Tbl, TableSet
  <2>17. Tight(w, t)
    <3>1. (Len(s) - 1) + 1 = Len(s) /\ s[Len(s)] = t.slots[Len(s)]
      BY <1>1, <1>4, <2>2 DEF Newest
    <3>2. HeaderLen(s[Len(s)].header) \in Nat
      <4>1. Len(s) \in 1 .. Len(s)
        BY <1>4, <2>2
      <4> HIDE DEF s
      <4> QED
        BY <1>2, <4>1, SlotHeader
    <3>3. y + HeaderLen(s[Len(s)].header) = z
      BY <1>2, <3>2 DEF y
    <3>4. Len(w.slots) + 1 = Len(s) /\ w.size = y
      BY <2>13, <2>10, <3>1
    <3>5. t.max = m
      BY <1>1
    <3> HIDE DEF s, z, m, w
    <3> QED
      <4>1. HeaderLen(t.slots[Len(w.slots) + 1].header) = HeaderLen(s[Len(s)].header)
        BY <3>1, <3>4, Zenon
      <4>2. w.size + HeaderLen(s[Len(s)].header) = z
        BY <3>3, <3>4
      <4>3. z > t.max
        BY <1>2, <1>6, <3>5
      <4> QED
        BY <4>1, <4>2, <4>3 DEF Tight
  <2> HIDE DEF w
  <2>15. Fronted(w, t, last, slot) = Front(x)
    BY <2>9, <2>13 DEF Fronted
  <2>16. w \in NameRooms(t, c, len, last, slot)
    <3> HIDE DEF x, s, ix
    <3> QED
      BY <1>1, <2>8, <2>10, <2>11, <2>13, <2>14, <2>15, <2>17 DEF NameRooms
  <2> QED
    BY <1>2, <1>4, <1>6, <2>1, <2>2, <2>6, <2>10, <2>13, <2>16
<1> QED
  BY <1>5, <1>6

\* The loop makes room, and the index is sound for the slots with the new one.
LEMMA ConvergeOccupied ==
    ASSUME NEW t, NEW c, NEW len, t \in TableSet(c), c \in Nat \ {0}, len \in Nat, len <= t.max,
           Len(t.slots) < Width,
           Sound(t.indices, c, t.slots, t.inserted), HasFree(t.indices, c), Sums(t.slots, t.size - len),
           NEW slot, slot \in SlotRec, slot.hash = Hash[slot.header.name], slot.next = None,
           NEW last, last \in 0 .. Width - 1,
           Behind(t, last) \in 1 .. Len(t.slots), t.slots[Behind(t, last)].next = None,
           t.slots[Behind(t, last)].header.name = slot.header.name,
           NEW r, r = Converge(t, last)
    PROVE  r \in NameRooms(t, c, len, last, slot) /\ r.size <= r.max
<1> DEFINE T == NameRooms(t, c, len, last, slot)
           pos == Behind(t, last)
           ins1 == (t.inserted + 1) % Width
           x == Ahead(t.slots, pos, Stored(ins1, 1), slot)
<1>1. t.indices \in Indices(c) /\ t.slots \in Seq(SlotRec)
  BY TblFields
<1>2. Newest(t.slots, t.slots)
  BY <1>1 DEF Newest
<1>3. Sound(t.indices, c, x, ins1)
  <2>1. pos \in Nat /\ NewestAt(t.slots, pos, slot) /\ pos # 0
    BY <1>1 DEF NewestAt
  <2>2. ins1 = (t.inserted + 1) % Width /\ x = Ahead(t.slots, pos, Stored(ins1, 1), slot)
    OBVIOUS
  <2> HIDE DEF pos, ins1, x
  <2> QED
    BY <2>1, <2>2, AheadSound
<1>4. x = Fronted(t, t, last, slot)
  BY DEF Fronted, Coming
<1>5. t \in T
  <2> HIDE DEF x
  <2> QED
    BY <1>1, <1>2, <1>3, <1>4 DEF NameRooms, Tight
<1>6. Loops(T, last)
  <2> SUFFICES ASSUME NEW u \in T
               PROVE  /\ EvictOver(u, last) \in T
                      /\ u.size \in Int /\ u.max \in Int /\ Len(u.slots) \in Nat
                      /\ u.size > u.max => Len(EvictOver(u, last).slots) = Len(u.slots) - 1
                      /\ Len(u.slots) = 0 => u.size <= u.max
    BY DEF Loops
  <2>1. u \in TableSet(c)
    BY DEF NameRooms
  <2>2. u.size \in Int /\ u.max \in Int /\ Len(u.slots) \in Nat
    BY <2>1, TblFields
  <2>3. /\ EvictOver(u, last) \in T
        /\ u.size > u.max => Len(EvictOver(u, last).slots) = Len(u.slots) - 1
        /\ Len(u.slots) = 0 => u.size <= u.max
    <3> HIDE DEF pos, ins1, x
    <3> QED
      BY NameRoomTurn
  <2> QED
    BY <2>2, <2>3
<1> HIDE DEF T
<1>7. r \in T /\ r.size <= r.max
  BY <1>5, <1>6, ConvergeEnds
<1> QED
  BY <1>7 DEF T

(***************************************************************************)
(* Insertions.                                                             *)
(***************************************************************************)

\* The slot insert() makes.
NewSlot(h) == [hash |-> Hash[h.name], header |-> h, next |-> None]

\* A slot for a header.
LEMMA NewSlotFacts ==
    ASSUME NEW h, h \in Header
    PROVE  /\ NewSlot(h) \in SlotRec /\ NewSlot(h).hash = Hash[NewSlot(h).header.name]
           /\ NewSlot(h).header = h /\ NewSlot(h).next = None /\ NewSlot(h).hash = Hash[h.name]
           /\ h.name \in DOMAIN NameLen /\ Hash[h.name] \in Nat
<1>1. h.name \in DOMAIN NameLen
  BY DEF Header
<1>2. Hash[h.name] \in Nat
  BY <1>1, TableAssumption
<1> QED
  BY <1>1, <1>2 DEF NewSlot, SlotRec

\* insert()
LEMMA InsertIs ==
    ASSUME NEW ix, NEW c, NEW s, NEW ins, NEW z, NEW m, NEW t, t = Tbl(ix, c, s, ins, z, m), NEW h
    PROVE  Insert(t, h) = Tbl(ix, c, <<NewSlot(h)>> \o s, (ins + 1) % Width, z, m)
<1> DEFINE f == <<NewSlot(h)>> \o s
           y == (ins + 1) % Width
<1>1. t.slots = s /\ t.inserted = ins
  BY DEF Tbl
<1>2. Insert(t, h) = [t EXCEPT !.inserted = (t.inserted + 1) % Width, !.slots = <<NewSlot(h)>> \o t.slots]
  BY DEF Insert, NewSlot
<1>3. Insert(t, h) = WithFirst(t, f, y)
  BY <1>1, <1>2, Zenon DEF WithFirst
<1> HIDE DEF f, y
<1>4. Insert(t, h) = Tbl(ix, c, f, y, z, m)
  BY <1>3, TblWith
<1> QED
  BY <1>4 DEF f, y

\* update_size()
LEMMA UpdateSizeIs ==
    ASSUME NEW ix, NEW c, NEW s, NEW ins, NEW z, NEW m, NEW t, t = Tbl(ix, c, s, ins, z, m), NEW len, NEW prev
    PROVE  UpdateSize(t, len, prev) = Converge(Tbl(ix, c, s, ins, z + len, m), prev)
<1> DEFINE y == z + len
<1>1. t.size = z
  BY DEF Tbl
<1>2. UpdateSize(t, len, prev) = Converge(WithSize(t, y), prev)
  BY <1>1 DEF UpdateSize, WithSize
<1> HIDE DEF y
<1>3. WithSize(t, y) = Tbl(ix, c, s, ins, y, m)
  BY TblOne
<1> QED
  BY <1>2, <1>3 DEF y

\* The shift that puts the newest slot in the index is Placed.
LEMMA PlaceIs ==
    ASSUME NEW ix, NEW c, NEW s, NEW ins, NEW z, NEW m, NEW t, t = Tbl(ix, c, s, ins, z, m),
           ix \in Indices(c), c \in Nat \ {0}, ins \in 0 .. Width - 1, NEW place,
           NEW e, e = [index |-> Stored(ins, 1), hash |-> s[1].hash]
    PROVE  PlaceNewest(t, place) = Tbl(Placed(ix, c, place, e), c, s, ins, z, m)
<1>1. t.indices = ix /\ t.cap = c /\ t.slots = s /\ t.inserted = ins /\ DOMAIN ix = 0 .. c - 1
  BY DEF Tbl, Indices
<1>2. StoredIdx(t, 0) = Stored(ins, 1)
  BY <1>1, NonePos DEF StoredIdx, Stored
<1> DEFINE run == Min({i \in 0..(t.cap - 1) : Free(t, (place + i) % t.cap)})
<1>3. run = Run(ix, c, place)
  <2>1. \A p : Free(t, p) <=> ix[p] = None
    BY <1>1 DEF Free
  <2>2. {i \in 0..(t.cap - 1) : Free(t, (place + i) % t.cap)} = {i \in 0 .. c - 1 : ix[At(c, place, i)] = None}
    BY <1>1, <2>1 DEF At
  <2> QED
    BY <2>2 DEF Run
<1> DEFINE f == [p \in DOMAIN t.indices |->
                    IF (p - place) % t.cap = 0 THEN [index |-> StoredIdx(t, 0), hash |-> t.slots[1].hash]
                    ELSE IF (p - place) % t.cap <= run THEN t.indices[(place + (((p - place) % t.cap) - 1)) % t.cap]
                    ELSE t.indices[p]]
<1>4. PlaceNewest(t, place) = WithIndices(t, f)
  BY DEF PlaceNewest, WithIndices
<1>5. f = Placed(ix, c, place, e)
  <2>1. [index |-> StoredIdx(t, 0), hash |-> t.slots[1].hash] = e
    BY <1>1, <1>2
  <2> HIDE DEF run
  <2>2. f = [p \in 0 .. c - 1 |->
                    IF (p - place) % c = 0 THEN e
                    ELSE IF (p - place) % c <= run THEN ix[(place + (((p - place) % c) - 1)) % c]
                    ELSE ix[p]]
    BY <1>1, <2>1
  <2> QED
    BY <1>3, <2>2 DEF Placed, Off, At
<1> HIDE DEF f
<1>6. WithIndices(t, f) = Tbl(f, c, s, ins, z, m)
  BY TblOne
<1> QED
  BY <1>4, <1>5, <1>6

\* No slot to link.
LEMMA AheadNone ==
    ASSUME NEW s, NEW a, NEW slot, s \in Seq(SlotRec), slot \in SlotRec, a \in 0 .. Width - 1
    PROVE  Ahead(s, 0, a, slot) = <<slot>> \o s
<1>1. Relinked(s, 0, a) = [i \in 1 .. Len(s) |-> s[i]]
  BY DEF Relinked
<1>2. s = [i \in 1 .. Len(s) |-> s[i]]
  OBVIOUS
<1> QED
  BY <1>1, <1>2 DEF Ahead

\* The walk back after evictions ends at the first place that a probe can
\* take, and the one before it is not one.
LEMMA WalkBackFacts ==
    ASSUME NEW ix, NEW c, NEW hash, NEW d, d \in Nat,
           NEW S, S = {x \in 0 .. d : \A j \in x .. (d - 1) : Robs(ix, c, hash, j)},
           Robs(ix, c, hash, d)
    PROVE  Min(S) \in 0 .. d /\ Robs(ix, c, hash, Min(S)) /\ (Min(S) # 0 => ~Robs(ix, c, hash, Min(S) - 1))
<1>1. d \in S
  OBVIOUS
<1>2. S \in SUBSET Nat
  OBVIOUS
<1> DEFINE x == Min(S)
<1>3. x \in S /\ \A j \in S : x <= j
  <2> HIDE DEF x
  <2> QED
    BY <1>1, <1>2, MinFacts DEF x
<1>4. x \in 0 .. d /\ \A j \in x .. (d - 1) : Robs(ix, c, hash, j)
  <2> HIDE DEF x
  <2> QED
    BY <1>3
<1> HIDE DEF x
<1>5. Robs(ix, c, hash, x)
  <2>1. CASE x = d
    BY <2>1
  <2>2. CASE x # d
    BY <1>4, <2>2
  <2> QED
    BY <2>1, <2>2
<1>6. ASSUME x # 0 PROVE ~Robs(ix, c, hash, x - 1)
  <2> SUFFICES ASSUME Robs(ix, c, hash, x - 1) PROVE FALSE
    OBVIOUS
  <2>1. x - 1 \in 0 .. d /\ x - 1 < x
    BY <1>4, <1>6
  <2>2. \A j \in (x - 1) .. (d - 1) : j = x - 1 \/ j \in x .. (d - 1)
    BY <1>4
  <2>3. \A j \in (x - 1) .. (d - 1) : Robs(ix, c, hash, j)
    BY <1>4, <2>2
  <2>4. x - 1 \in S
    BY <2>1, <2>3
  <2>5. x <= x - 1
    BY <1>3, <2>4
  <2> QED
    BY <1>4, <2>5
<1> QED
  BY <1>4, <1>5, <1>6 DEF x

\* A table that the methods can be called on.
Valid(t) ==
    /\ t.cap \in Nat /\ t \in TableSet(t.cap)
    /\ t.cap = 0 => t.slots = <<>>
    /\ t.cap # 0 => t.cap >= 4 /\ Sound(t.indices, t.cap, t.slots, t.inserted)
    /\ Len(t.slots) <= Capacity(t.cap)
    /\ Sums(t.slots, t.size) /\ t.size <= t.max /\ t.max < Width

\* The table w is t with the header h in front, and with as many of the
\* headers of t as fit.
Inserts(w, t, h) ==
    /\ w.max = t.max /\ Len(w.slots) \in 1 .. Len(t.slots) + 1
    /\ w.slots[1].header = h
    /\ \A i \in 1 .. Len(w.slots) - 1 : w.slots[i + 1].header = t.slots[i].header
    /\ Len(w.slots) <= Len(t.slots) => w.size + HeaderLen(t.slots[Len(w.slots)].header) > t.max

\* A valid table with places, in parts.
LEMMA ValidFacts ==
    ASSUME NEW t, Valid(t), NEW c, c = t.cap, c # 0
    PROVE  /\ c \in Nat \ {0} /\ c >= 4 /\ t \in TableSet(c)
           /\ t = Tbl(t.indices, c, t.slots, t.inserted, t.size, t.max)
           /\ t.indices \in Indices(c) /\ t.slots \in Seq(SlotRec)
           /\ t.inserted \in 0 .. Width - 1 /\ t.size \in Nat /\ t.max \in Nat
           /\ Len(t.slots) \in Nat /\ Len(t.slots) <= t.size /\ Len(t.slots) < Width
           /\ Sound(t.indices, c, t.slots, t.inserted) /\ HasFree(t.indices, c)
           /\ Sums(t.slots, t.size) /\ t.size <= t.max /\ t.max < Width
           /\ Len(t.slots) <= Capacity(c)
<1>1. c \in Nat \ {0} /\ c >= 4 /\ t \in TableSet(c)
  BY DEF Valid
<1>2. /\ t = Tbl(t.indices, c, t.slots, t.inserted, t.size, t.max)
      /\ t.indices \in Indices(c) /\ t.slots \in Seq(SlotRec)
      /\ t.inserted \in 0 .. Width - 1 /\ t.max \in Nat /\ Len(t.slots) \in Nat
  BY <1>1, TblFields
<1>3. /\ Sound(t.indices, c, t.slots, t.inserted)
      /\ Sums(t.slots, t.size) /\ t.size <= t.max /\ t.max < Width /\ Len(t.slots) <= Capacity(c)
  BY DEF Valid
<1>4. t.size \in Nat /\ Len(t.slots) <= t.size
  BY <1>2, <1>3, SumsBound
<1>5. Capacity(c) < c
  BY <1>1 DEF Capacity
<1>6. Capacity(c) \in Int
  BY <1>1 DEF Capacity
<1>7. Len(t.slots) < c /\ Len(t.slots) < Width
  BY <1>1, <1>2, <1>3, <1>4, <1>5, <1>6, NonePos
<1>8. HasFree(t.indices, c)
  BY <1>3, <1>7, FreePlace
<1> QED
  BY <1>1, <1>2, <1>3, <1>4, <1>7, <1>8

\* The place before a place that a hash is probed at.
LEMMA PlaceBefore ==
    ASSUME NEW c, c \in Nat \ {0}, NEW p, p \in Int, NEW i, i \in Int, NEW place, place = At(c, p, i)
    PROVE  Back(c, place) = At(c, p, i - 1)
BY RingStep, Zenon

\* index_vacant() for a header that goes in the table.
LEMMA VacantSound ==
    ASSUME NEW t, Valid(t), NEW c, c = t.cap, c # 0, Len(t.slots) < Capacity(c),
           NEW h, h \in Header, HeaderLen(h) <= t.max,
           NEW d, d = ProbeEnd(t.indices, c, t.slots, t.inserted, h.name),
           Robs(t.indices, c, Hash[h.name], d),
           NEW room, room = UpdateSize(t, HeaderLen(h), None),
           NEW dd, dd = IF Len(room.slots) < Len(t.slots) THEN WalkBack(room, Hash[h.name], d) ELSE d,
           NEW w, w = PlaceNewest(Insert(room, h), Probe(t, Hash[h.name], dd))
    PROVE  Valid(w) /\ Inserts(w, t, h)
<1> DEFINE ix == t.indices
           s == t.slots
           ins == t.inserted
           len == HeaderLen(h)
           hash == Hash[h.name]
           slot == NewSlot(h)
           t1 == Tbl(ix, c, s, ins, t.size + len, t.max)
<1>1. /\ c \in Nat \ {0} /\ c >= 4 /\ t \in TableSet(c)
      /\ t = Tbl(ix, c, s, ins, t.size, t.max)
      /\ ix \in Indices(c) /\ s \in Seq(SlotRec)
      /\ ins \in 0 .. Width - 1 /\ t.size \in Nat /\ t.max \in Nat
      /\ Len(s) \in Nat /\ Len(s) <= t.size /\ Len(s) < Width
      /\ Sound(ix, c, s, ins) /\ HasFree(ix, c)
      /\ Sums(s, t.size) /\ t.size <= t.max /\ t.max < Width
  BY ValidFacts
<1>2. /\ slot \in SlotRec /\ slot.hash = Hash[slot.header.name]
      /\ slot.header = h /\ slot.next = None /\ slot.hash = hash
      /\ h.name \in DOMAIN NameLen /\ hash \in Nat
  BY NewSlotFacts
<1>3. len \in Nat \ {0}
  BY HeaderLenType
<1>4. /\ d \in 0 .. c - 1
      /\ \A k \in 0 .. d - 1 : ~Robs(ix, c, hash, k)
      /\ \A i \in 1 .. Len(s) : s[i].header.name # h.name
  <2> HIDE DEF ix, s, ins
  <2> QED
    BY <1>1, <1>2, ProbeFacts, SMTT(30) DEF ix, s, ins
<1>5. /\ t1.indices = ix /\ t1.slots = s /\ t1.inserted = ins /\ t1.size = t.size + len /\ t1.max = t.max
      /\ t1 \in TableSet(c) /\ t1.size - len = t.size
  BY <1>1, <1>3 DEF Tbl, TableSet
<1>6. room = Converge(t1, None)
  <2> HIDE DEF ix, s, ins, len
  <2> QED
    BY <1>1, UpdateSizeIs DEF len
<1> HIDE DEF t1, slot, hash, len
<1>7. room \in Rooms(t1, c, len) /\ room.size <= room.max
  <2>1. Sums(t1.slots, t1.size - len) /\ Sound(t1.indices, c, t1.slots, t1.inserted) /\ HasFree(t1.indices, c)
    BY <1>1, <1>5
  <2>2. len \in Nat /\ len <= t1.max
    BY <1>3, <1>5 DEF len
  <2> QED
    BY <1>1, <1>5, <1>6, <2>1, <2>2, ConvergeVacant
<1> DEFINE rx == room.indices
           rs == room.slots
           rz == room.size
<1>27. hash \in Int /\ \A i \in 0 .. c - 1 : At(c, hash, i) \in 0 .. c - 1
  <2>1. hash \in Int
    BY <1>2
  <2> QED
    BY <1>1, <2>1, RingInverse
<1>8. /\ room \in TableSet(c) /\ room.inserted = ins /\ room.max = t.max
      /\ Sound(rx, c, rs, ins) /\ HasFree(rx, c)
      /\ Sums(rs, rz - len)
      /\ Lower(rx, ix, c) /\ Newest(rs, s) /\ Tight(room, t1)
      /\ Len(rs) = Len(s) => room = t1
  BY <1>5, <1>7 DEF Rooms
<1>9. /\ room = Tbl(rx, c, rs, ins, rz, t.max) /\ rx \in Indices(c) /\ rs \in Seq(SlotRec) /\ rz \in Int
  BY <1>8, TblFields
<1>10. Len(rs) \in Nat /\ Len(rs) <= Len(s) /\ \A i \in 1 .. Len(rs) : rs[i] = s[i] /\ i \in 1 .. Len(s)
  BY <1>1, <1>8, <1>9 DEF Newest
<1>11. Robs(rx, c, hash, d)
  <2> DEFINE p == At(c, hash, d)
  <2>1. Robs(ix, c, hash, d)
    BY DEF hash
  <2>2. p \in 0 .. c - 1
    BY <1>4, <1>27
  <2>3. ix[p] = None \/ Dist(ix, c, p) < d
    BY <2>1 DEF Robs
  <2>4. rx[p] # None => ix[p] # None /\ Dist(rx, c, p) <= Dist(ix, c, p)
    BY <1>8, <2>2 DEF Lower
  <2> HIDE DEF p, rx, ix
  <2>5. rx[p] # None => Dist(rx, c, p) \in Int /\ Dist(ix, c, p) \in Int
    BY <1>1, <1>9, <2>2, <2>4, DistType
  <2>6. rx[p] = None \/ Dist(rx, c, p) < d
    BY <1>4, <2>3, <2>4, <2>5
  <2> QED
    BY <2>6 DEF Robs, p
<1>12. dd \in 0 .. d /\ Robs(rx, c, hash, dd) /\ (dd # 0 => ~Robs(rx, c, hash, dd - 1))
  <2>1. CASE Len(rs) < Len(s)
    <3>1. dd = WalkBack(room, hash, d)
      BY <2>1 DEF hash
    <3>2. room.indices = rx /\ room.cap = c
      BY <1>9 DEF Tbl
    <3>3. \A j : (Free(room, Probe(room, hash, j)) \/ Distance(room, Probe(room, hash, j)) < j) <=> Robs(rx, c, hash, j)
      BY <3>2 DEF Free, Probe, Distance, Robs, Dist, Off, At
    <3>4. {x \in 0..d : \A j \in x..(d - 1) : Free(room, Probe(room, hash, j)) \/ Distance(room, Probe(room, hash, j)) < j}
          = {x \in 0 .. d : \A j \in x .. (d - 1) : Robs(rx, c, hash, j)}
      BY <3>3
    <3>5. dd = Min({x \in 0 .. d : \A j \in x .. (d - 1) : Robs(rx, c, hash, j)})
      BY <3>1, <3>4 DEF WalkBack
    <3> HIDE DEF rx
    <3> QED
      BY <1>4, <1>11, <3>5, WalkBackFacts
  <2>2. CASE ~(Len(rs) < Len(s))
    <3>1. dd = d
      BY <2>2
    <3>2. room = t1
      BY <1>1, <1>8, <1>10, <2>2
    <3>3. rx = ix
      BY <1>5, <3>2
    <3>4. d # 0 => d - 1 \in 0 .. d - 1
      BY <1>4
    <3> QED
      BY <1>4, <1>11, <3>1, <3>3, <3>4
  <2> QED
    BY <2>1, <2>2
<1> DEFINE place == At(c, hash, dd)
<1>13. dd \in 0 .. c - 1 /\ place \in 0 .. c - 1
  <2>1. dd \in 0 .. c - 1
    BY <1>1, <1>4, <1>12
  <2> QED
    BY <2>1, <1>27
<1>14. rx[place] = None \/ Dist(rx, c, place) <= dd
  <2> HIDE DEF rx
  <2>1. rx[place] # None => Dist(rx, c, place) \in Int
    BY <1>1, <1>9, <1>13, DistType
  <2> QED
    BY <1>12, <1>13, <2>1 DEF Robs
<1>15. dd # 0 => rx[Back(c, place)] # None /\ Dist(rx, c, Back(c, place)) >= dd - 1
  <2> SUFFICES ASSUME dd # 0 PROVE rx[Back(c, place)] # None /\ Dist(rx, c, Back(c, place)) >= dd - 1
    OBVIOUS
  <2>1. Back(c, place) = At(c, hash, dd - 1)
    <3>1. dd \in Int /\ hash \in Int /\ c \in Nat \ {0}
      BY <1>1, <1>13, <1>27
    <3>2. place = At(c, hash, dd)
      OBVIOUS
    <3> HIDE DEF hash, place
    <3> QED
      BY <3>1, <3>2, PlaceBefore
  <2> DEFINE q == Back(c, place)
  <2>2. rx[q] # None /\ ~(Dist(rx, c, q) < dd - 1)
    BY <1>12, <2>1 DEF Robs
  <2>3. q \in 0 .. c - 1
    BY <1>1, <1>13, RingNext
  <2> HIDE DEF rx, q, place
  <2>4. Dist(rx, c, q) \in Int
    BY <1>1, <1>9, <2>2, <2>3, DistType
  <2> QED
    BY <1>13, <2>2, <2>4 DEF q
<1> DEFINE ins1 == (ins + 1) % Width
           e == [index |-> Stored(ins1, 1), hash |-> slot.hash]
           y == Ahead(rs, 0, Stored(ins1, 1), slot)
           px == Placed(rx, c, place, e)
<1>16. ins1 \in 0 .. Width - 1 /\ Stored(ins1, 1) \in 0 .. Width - 1
  <2>1. ins1 \in 0 .. Width - 1
    BY <1>1, InsertedFacts
  <2>2. 1 \in 1 .. Width
    BY NonePos
  <2> HIDE DEF ins1
  <2> QED
    BY <2>1, <2>2, StoredFacts
<1>17. Sound(px, c, y, ins1)
  <2>1. NewestAt(rs, 0, slot)
    BY <1>2, <1>4, <1>10 DEF NewestAt
  <2>2. Len(rs) < Width
    BY <1>1, <1>10, NonePos
  <2>3. place = At(c, slot.hash, dd) /\ ins1 = (ins + 1) % Width
    BY <1>2
  <2>4. e = [index |-> Stored(ins1, 1), hash |-> slot.hash] /\ y = Ahead(rs, 0, Stored(ins1, 1), slot)
        /\ px = Placed(rx, c, place, e)
    OBVIOUS
  <2> HIDE DEF rx, rs, place, ins1, e, y, px, ins
  <2> QED
    BY <1>2, <1>8, <1>13, <1>14, <1>15, <2>1, <2>2, <2>3, <2>4, PlaceSound
<1>18. y = <<slot>> \o rs
  BY <1>2, <1>9, <1>16, AheadNone
<1>19. /\ y \in Seq(SlotRec) /\ Len(y) = Len(rs) + 1 /\ y[1] = slot
       /\ \A i \in 1 .. Len(rs) : y[i + 1] = rs[i]
  <2> HIDE DEF y, rs
  <2> QED
    BY <1>2, <1>9, <1>18, PrependFacts
<1>20. w = Tbl(px, c, y, ins1, rz, t.max)
  <2>1. Insert(room, h) = Tbl(rx, c, y, ins1, rz, t.max)
    <3> HIDE DEF rx, rs, rz, ins, y
    <3> QED
      BY <1>9, <1>18, InsertIs DEF slot
  <2>2. Probe(t, hash, dd) = place
    BY <1>1 DEF Probe, At
  <2>3. w = PlaceNewest(Insert(room, h), place)
    BY <2>2 DEF hash
  <2>4. e = [index |-> Stored(ins1, 1), hash |-> y[1].hash]
    BY <1>19
  <2> DEFINE v == Insert(room, h)
  <2> HIDE DEF v, rx, rs, rz, ins, y, place, ins1, e
  <2>5. PlaceNewest(v, place) = Tbl(px, c, y, ins1, rz, t.max)
    BY <1>1, <1>9, <1>16, <2>1, <2>4, PlaceIs, SMTT(30) DEF v
  <2> QED
    BY <2>3, <2>5 DEF v
<1>21. px \in Indices(c)
  BY <1>17 DEF Sound, Typed
<1> HIDE DEF px, y, ins1, rz
<1>22. /\ w.indices = px /\ w.cap = c /\ w.slots = y /\ w.inserted = ins1 /\ w.size = rz /\ w.max = t.max
  BY <1>20 DEF Tbl
<1>23. w \in TableSet(c)
  BY <1>1, <1>9, <1>16, <1>19, <1>20, <1>21 DEF Tbl, TableSet
<1>24. Sums(y, rz)
  <2>1. \A i \in 1 .. Len(rs) : y[i + 1].header = rs[i].header
    BY <1>19
  <2>2. HeaderLen(y[1].header) = len
    BY <1>2, <1>19 DEF len
  <2>3. Sums(y, (rz - len) + len)
    <3> HIDE DEF rs
    <3> QED
      BY <1>8, <1>9, <1>19, <2>1, <2>2, SumsAhead
  <2>4. (rz - len) + len = rz
    BY <1>3, <1>9
  <2> QED
    BY <2>3, <2>4
<1>25. Valid(w)
  <2>1. Len(y) <= Capacity(c)
    <3>1. Capacity(c) \in Int
      BY <1>1 DEF Capacity
    <3> QED
      BY <1>1, <1>10, <1>19, <3>1
  <2>2. rz <= t.max
    BY <1>7, <1>8 DEF rz
  <2> QED
    BY <1>1, <1>17, <1>22, <1>23, <1>24, <2>1, <2>2 DEF Valid
<1>26. Inserts(w, t, h)
  <2>1. Len(y) \in 1 .. Len(s) + 1 /\ Len(y) - 1 = Len(rs) /\ Len(y) = Len(rs) + 1
    BY <1>1, <1>10, <1>19
  <2>2. \A i \in 1 .. Len(y) - 1 : y[i + 1].header = s[i].header
    BY <1>10, <1>19, <2>1
  <2>3. Len(y) <= Len(s) => rz + HeaderLen(s[Len(y)].header) > t.max
    <3>1. Len(rs) < Len(s) => rz + HeaderLen(s[Len(rs) + 1].header) > t.max
      BY <1>5, <1>8 DEF Tight, rz
    <3> QED
      BY <1>1, <1>10, <2>1, <3>1
  <2>4. w.max = t.max /\ w.slots = y /\ w.size = rz /\ y[1].header = h
    BY <1>2, <1>19, <1>22
  <2> QED
    BY <2>1, <2>2, <2>3, <2>4, ZenonT(30) DEF Inserts
<1> QED
  BY <1>25, <1>26

\* A sequence with a new first element.
First(x, s) == <<x>> \o s

\* Linking the slot behind is Ahead.
LEMMA LinkAhead ==
    ASSUME NEW s, NEW pos, NEW a, NEW slot, NEW y, s \in Seq(SlotRec), slot \in SlotRec, a \in 0 .. Width - 1,
           pos \in Nat \ {0}, y = First(slot, s),
           NEW x, x = Ahead(s, pos, a, slot)
    PROVE  /\ pos \in 1 .. Len(s) => SetNext(y, pos + 1, a) = x
           /\ pos > Len(s) => y = x
<1> DEFINE n == Len(s)
<1>1. /\ y \in Seq(SlotRec) /\ Len(y) = n + 1 /\ y[1] = slot /\ n \in Nat
      /\ \A i \in 2 .. n + 1 : y[i] = s[i - 1]
  BY PrependFacts DEF First
<1> DEFINE Upd(r) == [r EXCEPT !.next = a]
           q == Relinked(s, pos, a)
<1>2. q = [i \in 1 .. n |-> IF i = pos THEN Upd(s[i]) ELSE s[i]]
  BY DEF Relinked
<1>3. \A r \in SlotRec : Upd(r) \in SlotRec
  BY DEF SlotRec
<1>4. \A i \in 1 .. n : s[i] \in SlotRec
  OBVIOUS
<1> HIDE DEF Upd, q
<1>5. \A i \in 1 .. n : q[i] = (IF i = pos THEN Upd(s[i]) ELSE s[i]) /\ q[i] \in SlotRec
  BY <1>2, <1>3, <1>4
<1>6. q = [i \in 1 .. n |-> q[i]] /\ n \in Nat
  BY <1>1, <1>2
<1>7. q \in Seq(SlotRec) /\ Len(q) = n
  BY <1>5, <1>6
<1>8. x = <<slot>> \o q
  BY DEF Ahead, q
<1>9. /\ x \in Seq(SlotRec) /\ Len(x) = n + 1 /\ x[1] = slot
      /\ \A i \in 2 .. n + 1 : x[i] = q[i - 1]
  BY <1>7, <1>8, PrependFacts
<1>10. \A i \in 2 .. n + 1 : i - 1 \in 1 .. n /\ (i - 1 = pos <=> i = pos + 1)
  BY <1>1
<1>11. \A i \in 2 .. n + 1 : x[i] = IF i = pos + 1 THEN Upd(y[i]) ELSE y[i]
  BY <1>1, <1>5, <1>9, <1>10
<1>12. \A i \in 1 .. n + 1 : i = 1 \/ i \in 2 .. n + 1
  BY <1>1
<1>13. ASSUME pos \in 1 .. n PROVE SetNext(y, pos + 1, a) = x
  <2> DEFINE v == [i \in DOMAIN y |-> IF i = pos + 1 THEN Upd(y[pos + 1]) ELSE y[i]]
  <2>1. SetNext(y, pos + 1, a) = v
    BY DEF SetNext, Upd
  <2>2. DOMAIN y = 1 .. n + 1 /\ DOMAIN x = 1 .. n + 1 /\ x = [i \in 1 .. n + 1 |-> x[i]]
    BY <1>1, <1>9
  <2>3. \A i \in 1 .. n + 1 : v[i] = x[i]
    <3> SUFFICES ASSUME NEW i \in 1 .. n + 1 PROVE v[i] = x[i]
      OBVIOUS
    <3>1. v[i] = IF i = pos + 1 THEN Upd(y[i]) ELSE y[i]
      BY <2>2
    <3> HIDE DEF v
    <3>2. CASE i = 1
      BY <1>1, <1>9, <3>1, <3>2
    <3>3. CASE i \in 2 .. n + 1
      BY <1>11, <3>1, <3>3
    <3> QED
      BY <1>12, <3>2, <3>3
  <2>4. v = [i \in 1 .. n + 1 |-> v[i]]
    BY <2>2
  <2> HIDE DEF v
  <2> QED
    BY <2>1, <2>2, <2>3, <2>4
<1>14. ASSUME pos > n PROVE y = x
  <2>1. \A i \in 1 .. n + 1 : y[i] = x[i]
    <3> SUFFICES ASSUME NEW i \in 1 .. n + 1 PROVE y[i] = x[i]
      OBVIOUS
    <3>1. CASE i = 1
      BY <1>1, <1>9, <3>1
    <3>2. CASE i \in 2 .. n + 1
      <4>1. i # pos + 1
        BY <1>1, <1>14, <3>2
      <4> QED
        BY <1>11, <3>2, <4>1
    <3> QED
      BY <1>12, <3>1, <3>2
  <2> QED
    BY <1>1, <1>9, <2>1, SeqEqual
<1> QED
  BY <1>13, <1>14

\* index_occupied() for a header that goes in the table.
LEMMA OccupiedSound ==
    ASSUME NEW t, Valid(t), NEW c, c = t.cap, c # 0, Len(t.slots) < Capacity(c),
           NEW h, h \in Header, HeaderLen(h) <= t.max,
           NEW last, last \in 0 .. Width - 1, Behind(t, last) \in 1 .. Len(t.slots),
           t.slots[Behind(t, last)].next = None, t.slots[Behind(t, last)].header.name = h.name,
           NEW w, w = LinkNewest(Insert(UpdateSize(t, HeaderLen(h), last), h), last)
    PROVE  Valid(w) /\ Inserts(w, t, h)
<1> DEFINE ix == t.indices
           s == t.slots
           ins == t.inserted
           len == HeaderLen(h)
           slot == NewSlot(h)
           t1 == Tbl(ix, c, s, ins, t.size + len, t.max)
           room == UpdateSize(t, len, last)
           pos == Behind(t, last)
<1>1. /\ c \in Nat \ {0} /\ c >= 4 /\ t \in TableSet(c)
      /\ t = Tbl(ix, c, s, ins, t.size, t.max)
      /\ ix \in Indices(c) /\ s \in Seq(SlotRec)
      /\ ins \in 0 .. Width - 1 /\ t.size \in Nat /\ t.max \in Nat
      /\ Len(s) \in Nat /\ Len(s) <= t.size /\ Len(s) < Width
      /\ Sound(ix, c, s, ins) /\ HasFree(ix, c)
      /\ Sums(s, t.size) /\ t.size <= t.max /\ t.max < Width
  BY ValidFacts
<1>2. /\ slot \in SlotRec /\ slot.hash = Hash[slot.header.name]
      /\ slot.header = h /\ slot.next = None
  BY NewSlotFacts
<1>3. len \in Nat \ {0}
  BY HeaderLenType
<1>4. /\ t1.indices = ix /\ t1.slots = s /\ t1.inserted = ins /\ t1.size = t.size + len /\ t1.max = t.max
      /\ t1 \in TableSet(c) /\ t1.size - len = t.size
  BY <1>1, <1>3 DEF Tbl, TableSet
<1>5. room = Converge(t1, last)
  <2> HIDE DEF ix, s, ins, len
  <2> QED
    BY <1>1, UpdateSizeIs DEF len
<1>6. Behind(t1, last) = pos /\ pos \in Nat \ {0} /\ pos \in 1 .. Len(s) /\ s[pos].next = None /\ s[pos].header.name = slot.header.name
  BY <1>2, <1>4 DEF Behind
<1>18. w = LinkNewest(Insert(room, h), last) /\ len <= t.max
  OBVIOUS
<1> HIDE DEF t1, slot, len, room
<1>7. room \in NameRooms(t1, c, len, last, slot) /\ room.size <= room.max
  <2>1. Sums(t1.slots, t1.size - len) /\ Sound(t1.indices, c, t1.slots, t1.inserted) /\ HasFree(t1.indices, c)
    BY <1>1, <1>4
  <2>2. len \in Nat /\ len <= t1.max /\ Len(t1.slots) < Width
    BY <1>1, <1>3, <1>4, <1>18
  <2>3. /\ Behind(t1, last) \in 1 .. Len(t1.slots) /\ t1.slots[Behind(t1, last)].next = None
        /\ t1.slots[Behind(t1, last)].header.name = slot.header.name
    BY <1>4, <1>6
  <2> QED
    BY <1>1, <1>2, <1>4, <1>5, <2>1, <2>2, <2>3, ConvergeOccupied
<1> DEFINE rx == room.indices
           rs == room.slots
           rz == room.size
           ins1 == (ins + 1) % Width
           a == Stored(ins1, 1)
           y == Ahead(rs, pos, a, slot)
<1>8. /\ room \in TableSet(c) /\ room.inserted = ins /\ room.max = t.max
      /\ Sound(rx, c, y, ins1)
      /\ Sums(rs, rz - len) /\ Newest(rs, s) /\ Tight(room, t1)
  <2>1. Fronted(room, t1, last, slot) = y /\ (t1.inserted + 1) % Width = ins1
    BY <1>4, <1>6 DEF Fronted, Coming
  <2> HIDE DEF y, ins1
  <2> QED
    BY <1>4, <1>7, <2>1 DEF NameRooms
<1>9. /\ room = Tbl(rx, c, rs, ins, rz, t.max) /\ rx \in Indices(c) /\ rs \in Seq(SlotRec) /\ rz \in Int
  BY <1>8, TblFields
<1>10. Len(rs) \in Nat /\ Len(rs) <= Len(s) /\ \A i \in 1 .. Len(rs) : rs[i] = s[i] /\ i \in 1 .. Len(s)
  BY <1>1, <1>8, <1>9 DEF Newest
<1>11. ins1 \in 0 .. Width - 1 /\ a \in 0 .. Width - 1
  <2>1. ins1 \in 0 .. Width - 1
    BY <1>1, InsertedFacts
  <2>2. 1 \in 1 .. Width
    BY NonePos
  <2> HIDE DEF ins1
  <2> QED
    BY <2>1, <2>2, StoredFacts
<1>12. SlotAt(ins1, last) = pos + 1
  <2>1. pos = SlotAt(ins, last)
    BY DEF Behind
  <2>2. pos # Width
    BY <1>1, <1>6, NonePos
  <2>3. ins1 = (ins + 1) % Width
    OBVIOUS
  <2> HIDE DEF pos, ins, ins1
  <2> QED
    BY <1>1, <2>1, <2>2, <2>3, InsertedFacts
<1>13. w = Tbl(rx, c, y, ins1, rz, t.max)
  <2> DEFINE v == Insert(room, h)
             x == <<slot>> \o rs
  <2>1. v = Tbl(rx, c, x, ins1, rz, t.max)
    <3> HIDE DEF rx, rs, rz, ins
    <3> QED
      BY <1>9, InsertIs DEF slot
  <2>2. v.slots = x /\ v.inserted = ins1
    <3> HIDE DEF x, ins1, v
    <3> QED
      BY <2>1 DEF Tbl
  <2>3. Len(x) = Len(rs) + 1
    BY <1>2, <1>9, PrependFacts
  <2>4. RealIdx(v, last) + 1 = pos + 1 /\ RealIdx(v, last) = pos
    <3>1. RealIdx(v, last) = (last + ins1) % Width
      BY <2>2 DEF RealIdx
    <3>2. (last + ins1) % Width \in Int
      BY <1>11, NonePos
    <3> QED
      BY <1>6, <1>12, <3>1, <3>2 DEF SlotAt
  <2>5. StoredIdx(v, 0) = a
    BY <1>11, <2>2, NonePos DEF StoredIdx, Stored
  <2> HIDE DEF v, x, y, a, pos
  <2>6. w = IF pos < Len(x) THEN WithNext(v, pos + 1, a) ELSE v
    BY <1>18, <2>2, <2>4, <2>5 DEF LinkNewest, WithNext, v
  <2>7. WithNext(v, pos + 1, a) = Tbl(rx, c, SetNext(x, pos + 1, a), ins1, rz, t.max)
    BY <2>1, TblWith
  <2>8. /\ pos \in 1 .. Len(rs) => SetNext(x, pos + 1, a) = y
        /\ pos > Len(rs) => x = y
    <3>1. x = First(slot, rs) /\ y = Ahead(rs, pos, a, slot) /\ pos \in Nat \ {0} /\ rs \in Seq(SlotRec)
      BY <1>6, <1>9 DEF x, y, First
    <3> HIDE DEF rs
    <3>2. /\ pos \in 1 .. Len(rs) => SetNext(x, pos + 1, a) = y
          /\ pos > Len(rs) => x = y
      <4>1. slot \in SlotRec /\ a \in 0 .. Width - 1
        BY <1>2, <1>11
      <4> HIDE DEF ins1, ins, ix, s
      <4> QED
        BY <3>1, <4>1, LinkAhead
    <3> QED
      BY <3>1, <3>2
  <2>9. CASE pos <= Len(rs)
    BY <1>6, <1>10, <2>3, <2>6, <2>7, <2>8, <2>9
  <2>10. CASE pos > Len(rs)
    BY <1>6, <1>10, <2>1, <2>3, <2>6, <2>8, <2>10
  <2> QED
    BY <1>6, <1>10, <2>9, <2>10
<1>14. /\ y \in Seq(SlotRec) /\ Len(y) = Len(rs) + 1 /\ y[1] = slot
       /\ \A i \in 1 .. Len(rs) : y[i + 1].header = rs[i].header
  <2>1. y = Ahead(rs, pos, a, slot) /\ pos \in Int
    BY <1>6
  <2> HIDE DEF y, pos, a, rs
  <2> QED
    BY <1>2, <1>9, <1>11, <2>1, AheadFacts
<1> HIDE DEF y, ins1, rz
<1>15. /\ w.indices = rx /\ w.cap = c /\ w.slots = y /\ w.inserted = ins1 /\ w.size = rz /\ w.max = t.max
  BY <1>13 DEF Tbl
<1>16. w \in TableSet(c)
  BY <1>1, <1>9, <1>11, <1>13, <1>14 DEF Tbl, TableSet
<1>17. Sums(y, rz)
  <2>2. HeaderLen(y[1].header) = len
    BY <1>2, <1>14 DEF len
  <2>3. Sums(y, (rz - len) + len)
    <3> HIDE DEF rs
    <3> QED
      BY <1>8, <1>9, <1>14, <2>2, SumsAhead
  <2>4. (rz - len) + len = rz
    BY <1>3, <1>9
  <2> QED
    BY <2>3, <2>4
<1>25. Valid(w)
  <2>1. Len(y) <= Capacity(c)
    <3>1. Capacity(c) \in Int
      BY <1>1 DEF Capacity
    <3> QED
      BY <1>1, <1>10, <1>14, <3>1
  <2>2. rz <= t.max
    BY <1>7, <1>8 DEF rz
  <2> QED
    BY <1>1, <1>8, <1>15, <1>16, <1>17, <2>1, <2>2 DEF Valid
<1>26. Inserts(w, t, h)
  <2>1. Len(y) \in 1 .. Len(s) + 1 /\ Len(y) - 1 = Len(rs) /\ Len(y) = Len(rs) + 1
    BY <1>1, <1>10, <1>14
  <2>2. \A i \in 1 .. Len(y) - 1 : y[i + 1].header = s[i].header
    BY <1>10, <1>14, <2>1
  <2>3. Len(y) <= Len(s) => rz + HeaderLen(s[Len(y)].header) > t.max
    <3>1. Len(rs) < Len(s) => rz + HeaderLen(s[Len(rs) + 1].header) > t.max
      BY <1>4, <1>8 DEF Tight, rz
    <3> QED
      BY <1>1, <1>10, <2>1, <3>1
  <2> QED
    BY <1>2, <1>14, <1>15, <2>1, <2>2, <2>3 DEF Inserts
<1> QED
  BY <1>25, <1>26

\* The slots of a name, from the oldest one: the walk of index_occupied().
ChainEq(ch, t, head) ==
    ch = [n \in 1 .. Len(t.slots) |->
            IF n = 1 THEN head ELSE IF ch[n - 1] = None THEN None ELSE Slot(t, ch[n - 1]).next]
ChainOf(t, head) == CHOOSE ch : ChainEq(ch, t, head)

\* ChainOf() walks through the slots of a name, oldest first.
LEMMA ChainOfFacts ==
    ASSUME NEW t, NEW s, NEW ins, s = t.slots, ins = t.inserted, s \in Seq(SlotRec), Links(s, ins),
           NEW name, NEW head, head \in Chain(s, ins, name), head # None,
           NEW ch, ch = ChainOf(t, head)
    PROVE  Walks(ch, s, ins, name, head)
<1> DEFINE N == Len(s)
           n == N - 1
           T == Chain(s, ins, name)
           Nxt(a) == IF a = None THEN None ELSE s[SlotAt(ins, a)].next
           F == [x \in (1 .. n) \X T |-> Nxt(x[2])]
<1>1. N \in Nat /\ N >= 1 /\ n \in Nat
  BY DEF Chain
<1>2. \A a \in T : Nxt(a) \in T
  <2> SUFFICES ASSUME NEW a \in T PROVE Nxt(a) \in T
    OBVIOUS
  <2>1. CASE a = None
    BY <2>1
  <2>2. CASE a # None
    <3>1. s[SlotAt(ins, a)].next \in T
      BY <2>2, ChainNext
    <3> QED
      BY <2>2, <3>1
  <2> QED
    BY <2>1, <2>2
<1>3. \A a : Slot(t, a).next = s[SlotAt(ins, a)].next
  BY DEF Slot, RealIdx, SlotAt
<1> HIDE DEF N, T, Nxt
<1>4. Steps(F, n, T)
  <2>1. \A x \in (1 .. n) \X T : x[2] \in T
    OBVIOUS
  <2>2. \A x \in (1 .. n) \X T : Nxt(x[2]) \in T
    BY <1>2, <2>1, Zenon
  <2> QED
    BY <2>2 DEF Steps
<1>5. PICK g : Follows(g, n, T, head, F)
  <2>1. head \in T
    BY DEF T
  <2> HIDE DEF F, n
  <2> QED
    BY <1>1, <1>4, <2>1, Recursion
<1>6. g \in [0 .. n -> T] /\ g[0] = head /\ \A k \in 1 .. n : g[k] = F[<<k, g[k - 1]>>]
  <2> HIDE DEF F, n
  <2> QED
    BY <1>5 DEF Follows
<1>7. \A k \in 1 .. n : g[k] = Nxt(g[k - 1])
  <2> SUFFICES ASSUME NEW k \in 1 .. n PROVE g[k] = Nxt(g[k - 1])
    OBVIOUS
  <2>1. g[k - 1] \in T /\ <<k, g[k - 1]>> \in (1 .. n) \X T
    BY <1>1, <1>6
  <2>2. F[<<k, g[k - 1]>>] = Nxt(g[k - 1])
    BY <2>1
  <2> QED
    BY <1>6, <2>2
<1> DEFINE b == [k \in 1 .. N |-> g[k - 1]]
<1>8. \A k \in 1 .. N : k - 1 \in 0 .. n /\ b[k] = g[k - 1] /\ b[k] \in T
  BY <1>1, <1>6
<1>9. b[1] = head /\ \A k \in 2 .. N : b[k] = Nxt(b[k - 1])
  <2>1. \A k \in 2 .. N : k - 1 \in 1 .. n /\ k - 1 \in 1 .. N /\ k \in 1 .. N
    BY <1>1
  <2>2. 1 \in 1 .. N
    BY <1>1
  <2> QED
    BY <1>6, <1>7, <1>8, <2>1, <2>2
<1> DEFINE Body(f) == [k \in 1 .. N |-> IF k = 1 THEN head ELSE Nxt(f[k - 1])]
<1>10. \A f : ChainEq(f, t, head) <=> f = Body(f)
  <2>1. \A f, k : (IF f[k - 1] = None THEN None ELSE Slot(t, f[k - 1]).next) = Nxt(f[k - 1])
    BY <1>3 DEF Nxt
  <2>2. 1 .. Len(t.slots) = 1 .. N
    BY DEF N
  <2> SUFFICES ASSUME NEW f PROVE ChainEq(f, t, head) <=> f = Body(f)
    OBVIOUS
  <2> DEFINE e == [k \in 1 .. Len(t.slots) |->
                     IF k = 1 THEN head ELSE IF f[k - 1] = None THEN None ELSE Slot(t, f[k - 1]).next]
  <2>3. e = Body(f)
    BY <2>1, <2>2
  <2>4. ChainEq(f, t, head) <=> f = e
    BY DEF ChainEq
  <2> HIDE DEF e, Body
  <2> QED
    BY <2>3, <2>4
<1>11. b = Body(b)
  <2>1. \A k \in 1 .. N : b[k] = IF k = 1 THEN head ELSE Nxt(b[k - 1])
    <3>1. \A k \in 1 .. N : k = 1 \/ k \in 2 .. N
      BY <1>1
    <3> HIDE DEF b
    <3> QED
      BY <1>9, <3>1
  <2>2. b = [k \in 1 .. N |-> b[k]]
    OBVIOUS
  <2> HIDE DEF b
  <2> QED
    BY <2>1, <2>2
<1>12. ChainEq(b, t, head)
  <2> HIDE DEF b, Body
  <2> QED
    BY <1>10, <1>11
<1>13. ChainEq(ch, t, head)
  BY <1>12 DEF ChainOf
<1>14. ch = Body(ch)
  BY <1>10, <1>13
<1>15. ch[1] = head /\ \A k \in 2 .. N : ch[k] = Nxt(ch[k - 1])
  <2>1. \A k \in 1 .. N : ch[k] = Body(ch)[k]
    BY <1>14
  <2>2. 1 \in 1 .. N /\ \A k \in 2 .. N : k \in 1 .. N /\ k # 1
    BY <1>1
  <2> QED
    BY <2>1, <2>2
<1>16. DOMAIN ch = 1 .. N /\ ch = [k \in 1 .. N |-> ch[k]]
  BY <1>14
<1>17. \A k \in 1 .. N : ch[k] \in T
  <2> DEFINE S == {k \in 0 .. n : ch[k + 1] \in T}
  <2>1. 0 \in S
    BY <1>1, <1>15 DEF T
  <2>2. ASSUME NEW k \in 1 .. n, k - 1 \in S PROVE k \in S
    <3>1. k + 1 \in 2 .. N /\ (k + 1) - 1 = k /\ (k - 1) + 1 = k /\ k \in 0 .. n
      BY <1>1
    <3>2. ch[k] \in T
      BY <2>2, <3>1
    <3>3. ch[k + 1] = Nxt(ch[k])
      BY <1>15, <3>1
    <3> QED
      BY <1>2, <3>1, <3>2, <3>3
  <2>3. \A k \in 0 .. n : k \in S
    <3> HIDE DEF S, n
    <3> QED
      BY <1>1, <2>1, <2>2, UpTo
  <2>4. \A k \in 1 .. N : k - 1 \in 0 .. n /\ (k - 1) + 1 = k
    BY <1>1
  <2> QED
    BY <2>3, <2>4
<1>18. ch \in [1 .. N -> T]
  BY <1>16, <1>17
<1> QED
  BY <1>15, <1>18 DEF N, T, Nxt, Walks

\* index_occupied(): an entry with the value, or the newest slot of the name.
LEMMA OccupiedIs ==
    ASSUME NEW t, NEW s, NEW ins, s = t.slots, ins = t.inserted, s \in Seq(SlotRec), Links(s, ins),
           NEW h, NEW statik, NEW head, head \in Chain(s, ins, h.name), head # None,
           NEW res, res = IndexOccupied(t, h, head, statik)
    PROVE  \/ \E a \in Chain(s, ins, h.name) \ {None} :
                 /\ ValueEq(s[SlotAt(ins, a)].header, h)
                 /\ res = Result(t, "Indexed", RealIdx(t, a) + DYN_OFFSET)
           \/ \E a \in Chain(s, ins, h.name) \ {None} :
                 /\ s[SlotAt(ins, a)].next = None
                 /\ h.sensitive => res = Result(t, "Name", RealIdx(t, a) + DYN_OFFSET)
                 /\ ~h.sensitive => res =
                      Result(LinkNewest(Insert(UpdateSize(t, HeaderLen(h), a), h), a), "InsertedValue",
                             IF statik # None THEN statik.n ELSE RealIdx(t, a) + DYN_OFFSET)
<1> DEFINE ch == ChainOf(t, head)
           T == Chain(s, ins, h.name)
           L == {n \in DOMAIN ch : ch[n] # None}
           same == {n \in L : ValueEq(Slot(t, ch[n]).header, h)}
           last == ch[Max(L)]
<1>1. Walks(ch, s, ins, h.name, head)
  <2>1. ch = ChainOf(t, head)
    OBVIOUS
  <2> HIDE DEF ch
  <2> QED
    BY <2>1, ChainOfFacts
<1>2. /\ L # {} /\ Max(L) \in L /\ L \subseteq 1 .. Len(s)
      /\ last \in T \ {None} /\ s[SlotAt(ins, last)].next = None
  <2>1. L = Linked(ch)
    BY DEF Linked
  <2> HIDE DEF ch, L
  <2> QED
    BY <1>1, <2>1, ChainFacts
<1>3. res = IF same # {}
            THEN Result(t, "Indexed", RealIdx(t, ch[Min(same)]) + DYN_OFFSET)
            ELSE IF h.sensitive THEN Result(t, "Name", RealIdx(t, last) + DYN_OFFSET)
            ELSE Result(LinkNewest(Insert(UpdateSize(t, HeaderLen(h), last), h), last), "InsertedValue",
                        IF statik # None THEN statik.n ELSE RealIdx(t, last) + DYN_OFFSET)
  BY DEF IndexOccupied, ChainOf, ChainEq
<1>4. CASE same # {}
  <2> DEFINE a == ch[Min(same)]
  <2>1. same \in SUBSET Nat
    BY <1>2
  <2>2. Min(same) \in same
    <3> HIDE DEF same
    <3> QED
      BY <1>4, <2>1, MinFacts
  <2>3. Min(same) \in L /\ ValueEq(Slot(t, ch[Min(same)]).header, h)
    BY <2>2
  <2>4. a \in T \ {None}
    BY <1>1, <1>2, <2>3 DEF Walks
  <2>5. Slot(t, a) = s[SlotAt(ins, a)]
    BY DEF Slot, RealIdx, SlotAt
  <2>6. ValueEq(s[SlotAt(ins, a)].header, h)
    BY <2>3, <2>5
  <2>7. res = Result(t, "Indexed", RealIdx(t, a) + DYN_OFFSET)
    BY <1>3, <1>4
  <2> HIDE DEF a
  <2> QED
    BY <2>4, <2>6, <2>7
<1>5. CASE same = {}
  <2>1. /\ h.sensitive => res = Result(t, "Name", RealIdx(t, last) + DYN_OFFSET)
        /\ ~h.sensitive => res =
                      Result(LinkNewest(Insert(UpdateSize(t, HeaderLen(h), last), h), last), "InsertedValue",
                             IF statik # None THEN statik.n ELSE RealIdx(t, last) + DYN_OFFSET)
    <3> HIDE DEF last, same
    <3> QED
      BY <1>3, <1>5, Zenon
  <2> HIDE DEF last
  <2> QED
    BY <1>2, <2>1
<1> QED
  BY <1>4, <1>5

(***************************************************************************)
(* reserve_one().                                                          *)
(***************************************************************************)

\* reinsert_entry_in_order() is Reinserted.
LEMMA ReinsertIs ==
    ASSUME NEW g, NEW c, NEW s, NEW ins, NEW z, NEW m, NEW u, u = Tbl(g, c, s, ins, z, m), NEW e
    PROVE  Reinsert(u, e) = Tbl(Reinserted(g, c, e), c, s, ins, z, m)
<1>1. u.indices = g /\ u.cap = c
  BY DEF Tbl
<1>2. \A i : (Free(u, Probe(u, e.hash, i)) <=> g[At(c, e.hash, i)] = None) /\ Probe(u, e.hash, i) = At(c, e.hash, i)
  BY <1>1 DEF Free, Probe, At
<1> DEFINE A == {i \in 0..(u.cap - 1) : Free(u, Probe(u, e.hash, i))}
           B == {i \in 0 .. c - 1 : g[At(c, e.hash, i)] = None}
           p == At(c, e.hash, Min(B))
<1>3. A = B
  BY <1>1, <1>2
<1>4. Reinsert(u, e) = IF e = None THEN u ELSE WithPos(u, Probe(u, e.hash, Min(A)), e)
  BY DEF Reinsert, WithPos
<1>5. Probe(u, e.hash, Min(A)) = p
  BY <1>2, <1>3
<1>6. Reinserted(g, c, e) = IF e = None THEN g ELSE SetPos(g, p, e)
  BY DEF Reinserted, SetPos
<1> HIDE DEF A, B, p
<1>7. WithPos(u, p, e) = Tbl(SetPos(g, p, e), c, s, ins, z, m)
  BY TblWith
<1> QED
  BY <1>4, <1>5, <1>6, <1>7

\* reinsert_entry_in_order() leaves an index of the same size.
LEMMA ReinsertedType ==
    ASSUME NEW g, NEW c, g \in Indices(c), NEW e, e \in Pos \union {None}
    PROVE  Reinserted(g, c, e) \in Indices(c)
<1>1. \A p : [g EXCEPT ![p] = e] \in Indices(c)
  BY DEF Indices
<1> QED
  BY <1>1 DEF Reinserted

\* Nothing is in the new index at first.
LEMMA MovedUpFirst ==
    ASSUME NEW ix, NEW c, NEW first, c \in Nat \ {0}, first \in 0 .. c - 1,
           NEW g, g = [p \in 0 .. 2 * c - 1 |-> None]
    PROVE  MovedUp(ix, c, first, 0, g)
<1>1. g \in Indices(2 * c)
  BY DEF Indices
<1>2. \A p \in 0 .. 2 * c - 1 : g[p] = None
  OBVIOUS
<1>3. \A u \in 0 .. 2 * c - 1 : At(2 * c, first, u) \in 0 .. 2 * c - 1
  BY RingTwice
<1>4. \A u \in 0 .. 2 * c - 1 : g[At(2 * c, first, u)] = None
  BY <1>2, <1>3
<1>5. \A u \in 1 .. 2 * c - 1 : u \in 0 .. 2 * c - 1
  OBVIOUS
<1>6. Distinct(g, 2 * c)
  BY <1>2 DEF Distinct
<1> HIDE DEF MovedUp
<1>7. \A x \in 0 .. 0 - 1 : FALSE
  OBVIOUS
<1> QED
  BY <1>1, <1>4, <1>5, <1>6, <1>7 DEF MovedUp

\* The turns of grow().
LEMMA GrowIs ==
    ASSUME NEW ix, NEW c, NEW s, NEW ins, NEW z, NEW m, NEW t, t = Tbl(ix, c, s, ins, z, m),
           c \in Nat \ {0}, ix \in Indices(c), Local(ix, c), Distinct(ix, c), HasFree(ix, c),
           NEW p0, p0 \in 0 .. c - 1, ix[p0] # None
    PROVE  \E g : /\ Grow(t, 2 * c) = Tbl(g, 2 * c, s, ins, z, m)
                  /\ g \in Indices(2 * c) /\ Local(g, 2 * c) /\ Distinct(g, 2 * c)
                  /\ Entries(g, 2 * c) = Entries(ix, c)
<1> DEFINE b == 2 * c
           ideal == {p \in 0..(t.cap - 1) : ~Free(t, p) /\ Distance(t, p) = 0}
           first == IF ideal = {} THEN 0 ELSE Min(ideal)
           none == [p \in 0 .. b - 1 |-> None]
           e(n) == t.indices[(first + n - 1) % t.cap]
           empty == [t EXCEPT !.cap = b, !.indices = [p \in 0..(b - 1) |-> None]]
           Eq(f) == f = [n \in 0..t.cap |-> IF n = 0 THEN empty ELSE Reinsert(f[n - 1], e(n))]
           turn == CHOOSE f : Eq(f)
<1>1. t.indices = ix /\ t.cap = c /\ b \in Nat \ {0}
  BY DEF Tbl
<1>2. \A p : (~Free(t, p) <=> ix[p] # None) /\ Distance(t, p) = Dist(ix, c, p)
  BY <1>1 DEF Free, Distance, Dist, Off
<1>3. first \in 0 .. c - 1 /\ ix[first] # None /\ Dist(ix, c, first) = 0
  <2>1. \E q \in 0 .. c - 1 : ix[q] # None /\ Dist(ix, c, q) = 0
    BY IdealExists
  <2>2. ideal # {} /\ ideal \in SUBSET Nat
    BY <1>1, <1>2, <2>1
  <2>3. Min(ideal) \in ideal
    <3> HIDE DEF ideal
    <3> QED
      BY <2>2, MinFacts
  <2>4. first = Min(ideal)
    BY <2>2
  <2>5. first \in ideal
    BY <2>3, <2>4
  <2> HIDE DEF first
  <2> QED
    BY <1>1, <1>2, <2>5
<1>4. Grow(t, b) = turn[t.cap]
  BY DEF Grow
<1> HIDE DEF first
<1>5. empty = Tbl(none, b, s, ins, z, m)
  <2>1. empty = WithCap(t, none, b)
    BY DEF WithCap
  <2> HIDE DEF none, b, empty
  <2> QED
    BY <2>1, TblWith
<1>6. \A n \in 1 .. c : e(n) = ix[At(c, first, n - 1)] /\ e(n) \in Pos \union {None}
  <2> SUFFICES ASSUME NEW n \in 1 .. c PROVE e(n) = ix[At(c, first, n - 1)] /\ e(n) \in Pos \union {None}
    OBVIOUS
  <2>1. first + n - 1 = first + (n - 1)
    BY <1>3
  <2>2. e(n) = ix[At(c, first, n - 1)]
    BY <1>1, <2>1 DEF At
  <2>3. n - 1 \in 0 .. c - 1
    OBVIOUS
  <2>4. At(c, first, n - 1) \in 0 .. c - 1
    BY <1>3, <2>3, RingMap
  <2>5. ix[At(c, first, n - 1)] \in Pos \union {None}
    BY <2>4 DEF Indices
  <2> QED
    BY <2>2, <2>5
<1> HIDE DEF e, empty, none
<1> DEFINE M(g) == Tbl(g, b, s, ins, z, m)
           T == {M(g) : g \in Indices(b)}
           F == [x \in (1 .. c) \X T |-> Reinsert(x[2], e(x[1]))]
<1>7. \A g, x : Reinsert(M(g), x) = M(Reinserted(g, b, x))
  <2> SUFFICES ASSUME NEW g, NEW x PROVE Reinsert(M(g), x) = M(Reinserted(g, b, x))
    OBVIOUS
  <2> DEFINE u == M(g)
  <2>1. u = Tbl(g, b, s, ins, z, m)
    OBVIOUS
  <2> HIDE DEF u, b
  <2>2. Reinsert(u, x) = Tbl(Reinserted(g, b, x), b, s, ins, z, m)
    BY <2>1, ReinsertIs
  <2> QED
    BY <2>2 DEF u
<1> HIDE DEF M, b
<1>8. none \in Indices(b) /\ empty \in T /\ empty = M(none)
  <2>1. none \in Indices(b)
    BY DEF none, Indices
  <2>2. empty = M(none)
    BY <1>5 DEF M
  <2> QED
    BY <2>1, <2>2
<1>9. \A u \in T, n \in 1 .. c : Reinsert(u, e(n)) \in T
  <2> SUFFICES ASSUME NEW g \in Indices(b), NEW n \in 1 .. c PROVE Reinsert(M(g), e(n)) \in T
    OBVIOUS
  <2>1. Reinserted(g, b, e(n)) \in Indices(b)
    BY <1>6, ReinsertedType
  <2> QED
    BY <1>7, <2>1
<1>10. Steps(F, c, T)
  <2> HIDE DEF T
  <2>1. \A x \in (1 .. c) \X T : x[1] \in 1 .. c /\ x[2] \in T
    OBVIOUS
  <2>2. \A x \in (1 .. c) \X T : Reinsert(x[2], e(x[1])) \in T
    BY <1>9, <2>1, Zenon
  <2> QED
    BY <2>2 DEF Steps
<1>11. PICK f : Follows(f, c, T, empty, F)
  <2> HIDE DEF F, T
  <2> QED
    BY <1>8, <1>10, Recursion
<1>12. f \in [0 .. c -> T] /\ f[0] = empty /\ \A k \in 1 .. c : f[k] = F[<<k, f[k - 1]>>]
  <2> HIDE DEF F, T
  <2> QED
    BY <1>11 DEF Follows
<1>13. \A k \in 1 .. c : f[k] = Reinsert(f[k - 1], e(k))
  <2> HIDE DEF T
  <2> SUFFICES ASSUME NEW k \in 1 .. c PROVE f[k] = Reinsert(f[k - 1], e(k))
    OBVIOUS
  <2>1. f[k - 1] \in T /\ <<k, f[k - 1]>> \in (1 .. c) \X T
    BY <1>12
  <2>2. F[<<k, f[k - 1]>>] = Reinsert(f[k - 1], e(k))
    BY <2>1
  <2> QED
    BY <1>12, <2>2
<1>14. Eq(f)
  <2>1. \A k \in 0 .. c : f[k] = IF k = 0 THEN empty ELSE Reinsert(f[k - 1], e(k))
    <3>1. \A k \in 0 .. c : k = 0 \/ k \in 1 .. c
      OBVIOUS
    <3> QED
      BY <1>12, <1>13, <3>1
  <2>2. f = [k \in 0 .. c |-> f[k]]
    BY <1>12
  <2>3. f = [k \in 0 .. c |-> IF k = 0 THEN empty ELSE Reinsert(f[k - 1], e(k))]
    BY <2>1, <2>2
  <2> QED
    BY <1>1, <2>3
<1>15. Eq(turn)
  <2> HIDE DEF Eq
  <2> QED
    BY <1>14
<1> HIDE DEF turn
<1>16. turn[0] = empty /\ \A k \in 1 .. c : turn[k] = Reinsert(turn[k - 1], e(k))
  BY <1>1, <1>15
<1> DEFINE S == {n \in 0 .. c : \E g : turn[n] = M(g) /\ MovedUp(ix, c, first, n, g)}
<1>17. 0 \in S
  <2>1. MovedUp(ix, c, first, 0, none)
    BY <1>3, MovedUpFirst DEF none, b
  <2> QED
    BY <1>8, <1>16, <2>1
<1>18. ASSUME NEW n \in 1 .. c, n - 1 \in S PROVE n \in S
  <2>1. PICK g : turn[n - 1] = M(g) /\ MovedUp(ix, c, first, n - 1, g)
    BY <1>18
  <2> DEFINE x == ix[At(c, first, n - 1)]
             r == Reinserted(g, b, x)
  <2>2. turn[n] = M(r)
    BY <1>6, <1>7, <1>16, <2>1
  <2>3. n - 1 \in 0 .. c - 1 /\ (n - 1) + 1 = n /\ n \in 0 .. c
    OBVIOUS
  <2>4. None \notin Pos
    BY NonePos
  <2>5. MovedUp(ix, c, first, (n - 1) + 1, r)
    BY <1>3, <2>1, <2>3, <2>4, ReinsertStep DEF b
  <2> HIDE DEF r
  <2> QED
    BY <2>2, <2>3, <2>5
<1>19. c \in S
  <2> HIDE DEF S
  <2>1. \A k \in 0 .. c : k \in S
    BY <1>17, <1>18, UpTo
  <2> QED
    BY <2>1
<1>20. PICK g : turn[c] = M(g) /\ MovedUp(ix, c, first, c, g)
  BY <1>19
<1>21. /\ g \in Indices(b) /\ Local(g, b) /\ Distinct(g, b) /\ Entries(g, b) = Entries(ix, c)
  BY <1>3, <1>20, NonePos, MovedUpAll DEF b
<1>22. Grow(t, b) = Tbl(g, b, s, ins, z, m)
  BY <1>1, <1>4, <1>20 DEF M
<1> QED
  BY <1>21, <1>22 DEF b

\* The tables that hold the same headers.
Holds(r, t) == r.slots = t.slots /\ r.size = t.size /\ r.max = t.max

\* The capacity of an index.
LEMMA CapacityFacts ==
    /\ Capacity(0) = 0
    /\ \A c \in Nat : c >= 4 => Capacity(c) \in Nat /\ Capacity(c) >= 3 /\ Capacity(c) < c /\ Capacity(c) < Capacity(2 * c)
BY DEF Capacity

\* The fields of a table.
LEMMA TblIs ==
    ASSUME NEW r, NEW ix, NEW c, NEW s, NEW ins, NEW z, NEW m, r = Tbl(ix, c, s, ins, z, m)
    PROVE  /\ r.indices = ix /\ r.cap = c /\ r.slots = s /\ r.inserted = ins /\ r.size = z /\ r.max = m
BY DEF Tbl

\* An index without entries.
NoIndex(c) == [p \in 0..(c - 1) |-> None]

\* A table without slots gets an index.
LEMMA ReserveFirst ==
    ASSUME NEW t, Valid(t), t.slots = <<>>, NEW r, NEW c, c \in Nat, c >= 4,
           r = WithCap(t, NoIndex(c), c)
    PROVE  Valid(r) /\ Holds(r, t) /\ r.cap = c
<1> DEFINE none == NoIndex(c)
           s == t.slots
           ins == t.inserted
           z == t.size
           m == t.max
<1>1. /\ t \in TableSet(t.cap) /\ Sums(t.slots, t.size) /\ t.size <= t.max /\ t.max < Width
  BY DEF Valid
<1>2. /\ t = Tbl(t.indices, t.cap, s, ins, z, m) /\ s \in Seq(SlotRec)
      /\ ins \in 0 .. Width - 1 /\ z \in Int /\ m \in Nat
  BY <1>1, TblFields
<1>3. r = WithCap(t, none, c)
  OBVIOUS
<1> HIDE DEF none
<1>4. r = Tbl(none, c, s, ins, z, m)
  <2> HIDE DEF s, ins, z, m
  <2> QED
    BY <1>2, <1>3, TblWith
<1>5. Sound(none, c, s, ins) /\ HasFree(none, c)
  <2>1. c \in Nat \ {0} /\ none = [p \in 0 .. c - 1 |-> None] /\ s = <<>>
    BY DEF none, NoIndex
  <2> HIDE DEF s, ins
  <2> QED
    BY <1>2, <2>1, EmptySound
<1>6. none \in Indices(c)
  BY DEF none, NoIndex, Indices
<1>7. /\ r.indices = none /\ r.cap = c /\ r.slots = s /\ r.inserted = ins /\ r.size = z /\ r.max = m
  <2> HIDE DEF s, ins, z, m
  <2> QED
    BY <1>4, TblIs
<1>8. r \in TableSet(c)
  <2>1. c \in {c} /\ z \in Int /\ m \in Nat
    BY <1>2
  <2> HIDE DEF s, ins, z, m
  <2> QED
    BY <1>2, <1>4, <1>6, <2>1 DEF Tbl, TableSet
<1>9. Len(s) = 0
  OBVIOUS
<1>10. Len(s) <= Capacity(c)
  BY <1>9, CapacityFacts
<1> QED
  BY <1>1, <1>5, <1>7, <1>8, <1>10 DEF Valid, Holds

\* reserve_one() leaves a table with room for a slot.
LEMMA ReserveSound ==
    ASSUME NEW t, Valid(t), NEW r, r = ReserveOne(t)
    PROVE  Valid(r) /\ Holds(r, t) /\ r.cap # 0 /\ Len(r.slots) < Capacity(r.cap)
<1> DEFINE c == t.cap
           s == t.slots
<1>1. c \in Nat /\ t \in TableSet(c) /\ Len(s) <= Capacity(c) /\ (c = 0 => s = <<>>) /\ (c # 0 => c >= 4)
  BY DEF Valid
<1>2. s \in Seq(SlotRec) /\ Len(s) \in Nat
  BY <1>1, TblFields
<1>3. CASE Len(s) # Capacity(c)
  <2>1. r = t
    BY <1>3 DEF ReserveOne
  <2>2. c # 0
    <3> SUFFICES ASSUME c = 0 PROVE FALSE
      OBVIOUS
    <3>1. Len(s) = 0
      BY <1>1
    <3> QED
      BY <1>3, <3>1, CapacityFacts
  <2>3. Capacity(c) \in Nat
    BY <1>1, <2>2, CapacityFacts
  <2> QED
    BY <1>1, <1>2, <1>3, <2>1, <2>2, <2>3 DEF Holds
<1>4. CASE Len(s) = Capacity(c) /\ s = <<>>
  <2>1. r = [t EXCEPT !.cap = RawCap, !.indices = [p \in 0..(RawCap - 1) |-> None]]
    BY <1>4 DEF ReserveOne
  <2>0. r = WithCap(t, NoIndex(RawCap), RawCap)
    BY <2>1 DEF WithCap, NoIndex
  <2>2. RawCap \in Nat /\ RawCap >= 4
    BY TableAssumption
  <2>3. Valid(r) /\ Holds(r, t) /\ r.cap = RawCap
    BY <1>4, <2>0, <2>2, ReserveFirst
  <2>4. Len(r.slots) = 0
    BY <1>4, <2>3 DEF Holds
  <2>5. Capacity(RawCap) >= 3 /\ Capacity(RawCap) \in Nat /\ RawCap # 0
    BY <2>2, CapacityFacts
  <2> QED
    BY <2>3, <2>4, <2>5
<1>5. CASE Len(s) = Capacity(c) /\ s # <<>>
  <2>1. r = Grow(t, 2 * c)
    BY <1>5 DEF ReserveOne
  <2>2. c # 0 /\ Len(s) # 0
    BY <1>1, <1>2, <1>5
  <2> DEFINE ix == t.indices
             ins == t.inserted
             z == t.size
             m == t.max
  <2>3. /\ c \in Nat \ {0} /\ c >= 4 /\ t \in TableSet(c)
        /\ t = Tbl(ix, c, s, ins, z, m) /\ ix \in Indices(c)
        /\ ins \in 0 .. Width - 1 /\ z \in Nat /\ m \in Nat
        /\ Sound(ix, c, s, ins) /\ HasFree(ix, c)
        /\ Sums(s, z) /\ z <= m /\ m < Width
    BY <2>2, ValidFacts
  <2>4. Local(ix, c) /\ Distinct(ix, c) /\ Heads(Entries(ix, c), s, ins)
    BY <2>3 DEF Sound
  <2>5. \E p \in 0 .. c - 1 : ix[p] # None
    <3>1. PICK o \in 1 .. Len(s) : Same(s, 1, o) /\ Oldest(s, o)
      <4>1. 1 \in 1 .. Len(s)
        BY <1>2, <2>2
      <4> QED
        BY <1>2, <4>1, HasOldest
    <3>2. \E x \in Entries(ix, c) : TRUE
      BY <2>4, <3>1 DEF Heads
    <3> QED
      BY <3>2 DEF Entries
  <2>6. PICK p0 \in 0 .. c - 1 : ix[p0] # None
    BY <2>5
  <2>7. PICK g : /\ Grow(t, 2 * c) = Tbl(g, 2 * c, s, ins, z, m)
                 /\ g \in Indices(2 * c) /\ Local(g, 2 * c) /\ Distinct(g, 2 * c)
                 /\ Entries(g, 2 * c) = Entries(ix, c)
    <3> HIDE DEF c, s, ix, ins, z, m
    <3> QED
      BY <2>3, <2>4, <2>6, GrowIs
  <2> DEFINE d == 2 * c
  <2>8. d \in Nat \ {0} /\ d >= 4 /\ d # 0
    BY <2>3
  <2>9. Sound(g, d, s, ins)
    <3>1. g \in Indices(d) /\ Local(g, d) /\ Distinct(g, d) /\ Entries(g, d) = Entries(ix, c)
      BY <2>7
    <3> HIDE DEF d, c, s, ix, ins
    <3> QED
      BY <2>3, <2>8, <3>1, GrowSound
  <2>10. r = Tbl(g, d, s, ins, z, m) /\ g \in Indices(d)
    BY <2>1, <2>7
  <2>11. Len(s) < Capacity(d)
    BY <1>1, <1>5, <2>3, CapacityFacts
  <2> HIDE DEF d
  <2>12. /\ r.indices = g /\ r.cap = d /\ r.slots = s /\ r.inserted = ins /\ r.size = z /\ r.max = m
    BY <2>10 DEF Tbl
  <2>13. r \in TableSet(d)
    BY <1>2, <2>3, <2>10 DEF Tbl, TableSet
  <2>14. Len(s) <= Capacity(d)
    <3>1. Capacity(d) \in Nat
      BY <2>8, CapacityFacts
    <3> QED
      BY <1>2, <2>11, <3>1
  <2> QED
    BY <2>3, <2>8, <2>9, <2>11, <2>12, <2>13, <2>14 DEF Valid, Holds
<1> QED
  BY <1>3, <1>4, <1>5

(***************************************************************************)
(* index().                                                                *)
(***************************************************************************)

\* The slot of t that a dynamic index names has the name of h.
Names(t, h, idx) == \E i \in 1 .. Len(t.slots) : idx = i + 61 /\ t.slots[i].header.name = h.name

\* What index() gives: a table that holds the same headers and how to write
\* the header with them, or a table with the header inserted and how to
\* write that.
Indexes(res, t, h, statik) ==
    /\ Valid(res.table)
    /\ \/ /\ Holds(res.table, t)
          /\ \/ res.index = NewIndex(statik)
             \/ \E i \in 1 .. Len(t.slots) :
                  /\ t.slots[i].header.name = h.name /\ t.slots[i].header.value = h.value
                  /\ res.index = [kind |-> "Indexed", idx |-> i + 61]
             \/ \E idx : Names(t, h, idx) /\ res.index = [kind |-> "Name", idx |-> idx]
       \/ /\ Inserts(res.table, t, h) /\ HeaderLen(h) <= t.max
          /\ \/ statik # None /\ res.index = [kind |-> "InsertedValue", idx |-> statik.n]
             \/ statik = None /\ res.index = [kind |-> "Inserted", idx |-> 0]
             \/ /\ statik = None
                /\ \E idx : Names(t, h, idx) /\ res.index = [kind |-> "InsertedValue", idx |-> idx]

\* A table that holds the same headers will do.
LEMMA IndexesHeld ==
    ASSUME NEW res, NEW r, NEW t, NEW h, NEW statik, Holds(r, t), Indexes(res, r, h, statik)
    PROVE  Indexes(res, t, h, statik)
<1>1. r.slots = t.slots /\ r.size = t.size /\ r.max = t.max
  BY DEF Holds
<1>2. \A w : Holds(w, r) <=> Holds(w, t)
  BY <1>1 DEF Holds
<1>3. \A w : Inserts(w, r, h) <=> Inserts(w, t, h)
  BY <1>1 DEF Inserts
<1>4. \A idx : Names(r, h, idx) <=> Names(t, h, idx)
  BY <1>1 DEF Names
<1> QED
  BY <1>1, <1>2, <1>3, <1>4 DEF Indexes

\* The loop of index_dynamic() and what follows it.
LEMMA ProbeSound ==
    ASSUME NEW r, Valid(r), NEW h, h \in Header, NEW statik, HeaderLen(h) <= r.max,
           ~h.sensitive => r.cap # 0 /\ Len(r.slots) < Capacity(r.cap),
           NEW res, res = ProbeLoop(r, h, statik)
    PROVE  Indexes(res, r, h, statik)
<1> DEFINE hash == Hash[h.name]
           c == r.cap
           ix == r.indices
           s == r.slots
           ins == r.inserted
           d == ProbeEnd(ix, c, s, ins, h.name)
           e == ix[At(c, hash, d)]
<1>1. Holds(r, r)
  BY DEF Holds
<1>2. CASE c = 0
  <2>1. res = [table |-> r, index |-> NewIndex(statik)]
    BY <1>2 DEF ProbeLoop
  <2> QED
    BY <1>1, <2>1 DEF Indexes
<1>3. CASE c # 0
  <2>1. /\ c \in Nat \ {0} /\ c >= 4 /\ r \in TableSet(c)
        /\ r = Tbl(ix, c, s, ins, r.size, r.max)
        /\ ix \in Indices(c) /\ s \in Seq(SlotRec)
        /\ ins \in 0 .. Width - 1 /\ Len(s) \in Nat
        /\ Sound(ix, c, s, ins) /\ HasFree(ix, c)
    BY <1>3, ValidFacts
  <2>2. h.name \in DOMAIN NameLen
    BY DEF Header
  <2>3. /\ d \in 0 .. c - 1
        /\ Robs(ix, c, hash, d) => \A i \in 1 .. Len(s) : s[i].header.name # h.name
        /\ ~Robs(ix, c, hash, d) =>
                  /\ e \in Pos /\ SlotAt(ins, e.index) \in 1 .. Len(s)
                  /\ s[SlotAt(ins, e.index)].header.name = h.name
    <3>1. d = ProbeEnd(ix, c, s, ins, h.name)
      OBVIOUS
    <3> HIDE DEF d, ix, c, s, ins
    <3> QED
      BY <2>1, <2>2, <3>1, ProbeFacts
  <2> DEFINE AtR(k) == r.indices[Probe(r, hash, k)]
             Matches(k) == AtR(k) # None /\ AtR(k).hash = hash /\ Slot(r, AtR(k).index).header.name = h.name
             Robbed(k) == AtR(k) = None \/ Distance(r, Probe(r, hash, k)) < k
             dist == Min({k \in 0..(r.cap - 1) : Robbed(k) \/ Matches(k)})
  <2>4. \A k : Robbed(k) <=> Robs(ix, c, hash, k)
    BY DEF Robs, Probe, Distance, At, Dist, Off
  <2>5. \A k : Matches(k) <=> Hits(ix, c, s, ins, h.name, k)
    BY DEF Hits, Probe, Slot, RealIdx, SlotAt, At
  <2>6. {k \in 0..(r.cap - 1) : Robbed(k) \/ Matches(k)}
        = {k \in 0 .. c - 1 : Robs(ix, c, hash, k) \/ Hits(ix, c, s, ins, h.name, k)}
    BY <2>4, <2>5
  <2>7. dist = d
    BY <2>6 DEF ProbeEnd
  <2>8. AtR(dist) = e
    BY <2>7 DEF Probe, At
  <2>9. res = IF Robbed(dist) THEN IndexVacant(r, h, dist, statik)
              ELSE IndexOccupied(r, h, AtR(dist).index, statik)
    BY <1>3 DEF ProbeLoop
  <2>10. res = IF Robs(ix, c, hash, d) THEN IndexVacant(r, h, d, statik) ELSE IndexOccupied(r, h, e.index, statik)
    <3> HIDE DEF dist, Robbed, AtR, d, e
    <3> QED
      BY <2>4, <2>7, <2>8, <2>9
  <2>11. CASE Robs(ix, c, hash, d)
    <3>1. res = IndexVacant(r, h, d, statik)
      BY <2>10, <2>11
    <3>2. CASE h.sensitive
      <4>1. res = [table |-> r, index |-> NewIndex(statik)]
        BY <3>1, <3>2 DEF IndexVacant
      <4> QED
        BY <1>1, <4>1 DEF Indexes
    <3>3. CASE ~h.sensitive
      <4> DEFINE room == UpdateSize(r, HeaderLen(h), None)
                 dd == IF Len(room.slots) < Len(r.slots) THEN WalkBack(room, Hash[h.name], d) ELSE d
                 w == PlaceNewest(Insert(room, h), Probe(r, Hash[h.name], dd))
      <4>1. res = Result(w, IF statik # None THEN "InsertedValue" ELSE "Inserted", IF statik # None THEN statik.n ELSE 0)
        BY <3>1, <3>3 DEF IndexVacant
      <4>2. Valid(w) /\ Inserts(w, r, h)
        <5>1. /\ d = ProbeEnd(r.indices, c, r.slots, r.inserted, h.name)
              /\ room = UpdateSize(r, HeaderLen(h), None)
              /\ dd = IF Len(room.slots) < Len(r.slots) THEN WalkBack(room, Hash[h.name], d) ELSE d
              /\ w = PlaceNewest(Insert(room, h), Probe(r, Hash[h.name], dd))
          OBVIOUS
        <5>2. Len(r.slots) < Capacity(c) /\ Robs(r.indices, c, Hash[h.name], d) /\ c = r.cap
          BY <2>11, <3>3
        <5> HIDE DEF d, room, dd, w, c, ix, s, ins
        <5> QED
          BY <1>3, <5>1, <5>2, VacantSound
      <4> HIDE DEF w
      <4>3. res.table = w /\ res.index = [kind |-> IF statik # None THEN "InsertedValue" ELSE "Inserted",
                                          idx |-> IF statik # None THEN statik.n ELSE 0]
        BY <4>1 DEF Result
      <4>4. CASE statik # None
        <5>1. res.index = [kind |-> "InsertedValue", idx |-> statik.n]
          BY <4>3, <4>4
        <5> QED
          BY <4>2, <4>3, <4>4, <5>1 DEF Indexes
      <4>5. CASE statik = None
        <5>1. res.index = [kind |-> "Inserted", idx |-> 0]
          BY <4>3, <4>5
        <5> QED
          BY <4>2, <4>3, <4>5, <5>1 DEF Indexes
      <4> QED
        BY <4>4, <4>5
    <3> QED
      BY <3>2, <3>3
  <2>12. CASE ~Robs(ix, c, hash, d)
    <3> DEFINE head == e.index
    <3>1. res = IndexOccupied(r, h, head, statik)
      BY <2>10, <2>12
    <3>2. Links(s, ins)
      BY <2>1 DEF Sound
    <3>3. head \in Chain(s, ins, h.name) /\ head # None
      <4>1. head \in 0 .. Width - 1
        BY <2>3, <2>12 DEF Pos
      <4>2. head # None
        BY <4>1, NonePos
      <4> QED
        BY <2>3, <2>12, <4>1, <4>2 DEF Chain
    <3>4. \A a \in Chain(s, ins, h.name) \ {None} :
            /\ a \in 0 .. Width - 1 /\ SlotAt(ins, a) \in 1 .. Len(s) /\ s[SlotAt(ins, a)].header.name = h.name
            /\ RealIdx(r, a) + DYN_OFFSET = SlotAt(ins, a) + 61
      <4> SUFFICES ASSUME NEW a \in Chain(s, ins, h.name) \ {None}
                   PROVE  /\ a \in 0 .. Width - 1 /\ SlotAt(ins, a) \in 1 .. Len(s) /\ s[SlotAt(ins, a)].header.name = h.name
                          /\ RealIdx(r, a) + DYN_OFFSET = SlotAt(ins, a) + 61
        OBVIOUS
      <4>1. a \in 0 .. Width - 1 /\ SlotAt(ins, a) \in 1 .. Len(s) /\ s[SlotAt(ins, a)].header.name = h.name
        BY DEF Chain
      <4>2. RealIdx(r, a) = (a + ins) % Width /\ (a + ins) % Width \in Int
        BY <2>1, <4>1, NonePos DEF RealIdx
      <4>3. RealIdx(r, a) + DYN_OFFSET = SlotAt(ins, a) + 61
        BY <4>2 DEF SlotAt, DYN_OFFSET
      <4> QED
        BY <4>1, <4>3
    <3> HIDE DEF head, d, e
    <3>5.  \/ \E a \in Chain(s, ins, h.name) \ {None} :
                 /\ ValueEq(s[SlotAt(ins, a)].header, h)
                 /\ res = Result(r, "Indexed", RealIdx(r, a) + DYN_OFFSET)
           \/ \E a \in Chain(s, ins, h.name) \ {None} :
                 /\ s[SlotAt(ins, a)].next = None
                 /\ h.sensitive => res = Result(r, "Name", RealIdx(r, a) + DYN_OFFSET)
                 /\ ~h.sensitive => res =
                      Result(LinkNewest(Insert(UpdateSize(r, HeaderLen(h), a), h), a), "InsertedValue",
                             IF statik # None THEN statik.n ELSE RealIdx(r, a) + DYN_OFFSET)
      <4>1. s = r.slots /\ ins = r.inserted
        OBVIOUS
      <4> HIDE DEF s, ins
      <4> QED
        BY <2>1, <3>1, <3>2, <3>3, <4>1, OccupiedIs
    <3>6. ASSUME NEW a \in Chain(s, ins, h.name) \ {None}, ValueEq(s[SlotAt(ins, a)].header, h),
                 res = Result(r, "Indexed", RealIdx(r, a) + DYN_OFFSET)
          PROVE  Indexes(res, r, h, statik)
      <4> DEFINE i == SlotAt(ins, a)
      <4>1. i \in 1 .. Len(s) /\ s[i].header.name = h.name /\ RealIdx(r, a) + DYN_OFFSET = i + 61
        BY <3>4
      <4>2. s[i].header.value = h.value
        BY <3>6 DEF ValueEq
      <4> HIDE DEF i
      <4>3. res.table = r /\ res.index = [kind |-> "Indexed", idx |-> i + 61]
        BY <3>6, <4>1 DEF Result
      <4> QED
        BY <1>1, <4>1, <4>2, <4>3 DEF Indexes
    <3>7. ASSUME NEW a \in Chain(s, ins, h.name) \ {None}, s[SlotAt(ins, a)].next = None,
                 h.sensitive => res = Result(r, "Name", RealIdx(r, a) + DYN_OFFSET),
                 ~h.sensitive => res =
                      Result(LinkNewest(Insert(UpdateSize(r, HeaderLen(h), a), h), a), "InsertedValue",
                             IF statik # None THEN statik.n ELSE RealIdx(r, a) + DYN_OFFSET)
          PROVE  Indexes(res, r, h, statik)
      <4> DEFINE idx == SlotAt(ins, a) + 61
      <4>1. Names(r, h, idx) /\ RealIdx(r, a) + DYN_OFFSET = idx
        BY <3>4 DEF Names
      <4>2. CASE h.sensitive
        <5> HIDE DEF idx
        <5>1. res.table = r /\ res.index = [kind |-> "Name", idx |-> idx]
          BY <3>7, <4>1, <4>2 DEF Result
        <5> QED
          BY <1>1, <4>1, <5>1 DEF Indexes
      <4>3. CASE ~h.sensitive
        <5> DEFINE w == LinkNewest(Insert(UpdateSize(r, HeaderLen(h), a), h), a)
        <5>1. Valid(w) /\ Inserts(w, r, h)
          <6>1. w = LinkNewest(Insert(UpdateSize(r, HeaderLen(h), a), h), a)
            OBVIOUS
          <6>2. /\ a \in 0 .. Width - 1 /\ Behind(r, a) \in 1 .. Len(r.slots)
                /\ r.slots[Behind(r, a)].next = None /\ r.slots[Behind(r, a)].header.name = h.name
            BY <3>4, <3>7 DEF Behind
          <6>3. Len(r.slots) < Capacity(c) /\ c = r.cap
            BY <4>3
          <6> HIDE DEF w, c, s, ins, ix
          <6> QED
            BY <1>3, <6>1, <6>2, <6>3, OccupiedSound
        <5> HIDE DEF w, idx
        <5>2. res = Result(w, "InsertedValue", IF statik # None THEN statik.n ELSE idx)
          BY <3>7, <4>1, <4>3 DEF w
        <5>3. res.table = w /\ res.index = [kind |-> "InsertedValue", idx |-> IF statik # None THEN statik.n ELSE idx]
          BY <5>2 DEF Result
        <5>4. CASE statik # None
          <6>1. res.index = [kind |-> "InsertedValue", idx |-> statik.n]
            BY <5>3, <5>4
          <6> QED
            BY <5>1, <5>3, <5>4, <6>1 DEF Indexes
        <5>5. CASE statik = None
          <6>1. res.index = [kind |-> "InsertedValue", idx |-> idx]
            BY <5>3, <5>5
          <6> QED
            BY <4>1, <5>1, <5>3, <5>5, <6>1 DEF Indexes
        <5> QED
          BY <5>4, <5>5
      <4> QED
        BY <4>2, <4>3
    <3> QED
      BY <3>5, <3>6, <3>7
  <2> QED
    BY <2>11, <2>12
<1> QED
  BY <1>2, <1>3

\* index()
LEMMA IndexOutcome ==
    ASSUME NEW t, Valid(t), NEW h, h \in Header, NEW res, res = Index(t, h)
    PROVE  Indexes(res, t, h, IndexStatic(h.name, h.value))
<1> DEFINE statik == IndexStatic(h.name, h.value)
           r == IF HeaderLen(h) + t.size < t.max \/ ~h.sensitive THEN ReserveOne(t) ELSE t
<1>1. Holds(t, t)
  BY DEF Holds
<1>2. CASE SkipValueIndex(h) \/ (statik # None /\ statik.full) \/ 4 * HeaderLen(h) > 3 * t.max
  <2>1. res = [table |-> t, index |-> NewIndex(statik)]
    BY <1>2 DEF Index
  <2> HIDE DEF statik
  <2>2. Indexes(res, t, h, statik)
    BY <1>1, <2>1 DEF Indexes
  <2> QED
    BY <2>2 DEF statik
<1>3. CASE ~(SkipValueIndex(h) \/ (statik # None /\ statik.full) \/ 4 * HeaderLen(h) > 3 * t.max)
  <2>1. res = ProbeLoop(r, h, statik)
    BY <1>3 DEF Index, IndexDynamic
  <2>2. /\ Valid(r) /\ Holds(r, t)
        /\ ~h.sensitive => r.cap # 0 /\ Len(r.slots) < Capacity(r.cap)
    <3>1. CASE HeaderLen(h) + t.size < t.max \/ ~h.sensitive
      <4>1. r = ReserveOne(t)
        BY <3>1
      <4> HIDE DEF r
      <4> QED
        BY <4>1, ReserveSound
    <3>2. CASE ~(HeaderLen(h) + t.size < t.max \/ ~h.sensitive)
      <4>1. r = t /\ h.sensitive
        BY <3>2
      <4> QED
        BY <1>1, <4>1
    <3> QED
      BY <3>1, <3>2
  <2>3. HeaderLen(h) <= r.max
    <3>1. HeaderLen(h) \in Nat
      BY HeaderLenType
    <3>2. t.max \in Nat /\ r.max = t.max
      <4>1. t \in TableSet(t.cap)
        BY DEF Valid
      <4> QED
        BY <2>2, <4>1, TblFields DEF Holds
    <3> QED
      BY <1>3, <3>1, <3>2
  <2> HIDE DEF r, statik
  <2>4. Indexes(res, r, h, statik)
    BY <2>1, <2>2, <2>3, ProbeSound
  <2>5. Indexes(res, t, h, statik)
    BY <2>2, <2>4, IndexesHeld
  <2> QED
    BY <2>5 DEF statik
<1> QED
  BY <1>2, <1>3

(***************************************************************************)
(* resize().                                                               *)
(***************************************************************************)

\* The table r has the maximum m and as many headers of t as fit.
Shrinks(r, t, m) ==
    /\ r.max = m /\ Len(r.slots) <= Len(t.slots)
    /\ \A i \in 1 .. Len(r.slots) : r.slots[i].header = t.slots[i].header
    /\ Len(r.slots) < Len(t.slots) => r.size + HeaderLen(t.slots[Len(r.slots) + 1].header) > m

Cleared(t, f) == [t EXCEPT !.max = 0, !.size = 0, !.slots = <<>>, !.inserted = 0, !.indices = f]

\* The fields of a cleared table.
LEMMA TblCleared ==
    ASSUME NEW ix, NEW c, NEW s, NEW ins, NEW z, NEW m, NEW t, t = Tbl(ix, c, s, ins, z, m), NEW f
    PROVE  Cleared(t, f) = Tbl(f, c, <<>>, 0, 0, 0)
<1>1. \A u : [u EXCEPT !.max = 0, !.size = 0, !.slots = <<>>, !.inserted = 0, !.indices = f]
           = [[[[[u EXCEPT !.max = 0] EXCEPT !.size = 0] EXCEPT !.slots = <<>>] EXCEPT !.inserted = 0] EXCEPT !.indices = f]
  OBVIOUS
<1>2. [t EXCEPT !.max = 0] = Tbl(ix, c, s, ins, z, 0)
  BY DEF Tbl
<1>3. \A u : u = Tbl(ix, c, s, ins, z, 0) => [u EXCEPT !.size = 0] = Tbl(ix, c, s, ins, 0, 0)
  BY DEF Tbl
<1>4. \A u : u = Tbl(ix, c, s, ins, 0, 0) => [u EXCEPT !.slots = <<>>] = Tbl(ix, c, <<>>, ins, 0, 0)
  BY DEF Tbl
<1>5. \A u : u = Tbl(ix, c, <<>>, ins, 0, 0) => [u EXCEPT !.inserted = 0] = Tbl(ix, c, <<>>, 0, 0, 0)
  BY DEF Tbl
<1>6. \A u : u = Tbl(ix, c, <<>>, 0, 0, 0) => [u EXCEPT !.indices = f] = Tbl(f, c, <<>>, 0, 0, 0)
  BY DEF Tbl
<1> QED
  BY <1>1, <1>2, <1>3, <1>4, <1>5, <1>6, ZenonT(30) DEF Cleared

\* A table without slots is valid.
LEMMA EmptyValid ==
    ASSUME NEW c, c \in Nat, c = 0 \/ c >= 4, NEW f, f = NoIndex(c), NEW m, m \in Nat, m < Width,
           NEW r, r = Tbl(f, c, <<>>, 0, 0, m)
    PROVE  Valid(r) /\ r.slots = <<>> /\ r.size = 0 /\ r.max = m
<1>1. Width \in Nat \ {0} /\ 0 \in 0 .. Width - 1
  BY NonePos
<1>2. f \in Indices(c)
  BY DEF NoIndex, Indices
<1>3. /\ r.indices = f /\ r.cap = c /\ r.slots = <<>> /\ r.inserted = 0 /\ r.size = 0 /\ r.max = m
  BY TblIs
<1>4. <<>> \in Seq(SlotRec)
  OBVIOUS
<1>5. r \in TableSet(c)
  BY <1>1, <1>2, <1>4 DEF TableSet, Tbl
<1>6. c # 0 => Sound(f, c, <<>>, 0)
  <2> SUFFICES ASSUME c # 0 PROVE Sound(f, c, <<>>, 0)
    OBVIOUS
  <2>1. c \in Nat \ {0} /\ f = [p \in 0 .. c - 1 |-> None]
    BY DEF NoIndex
  <2> QED
    BY <1>1, <2>1, EmptySound
<1>7. Len(r.slots) <= Capacity(c)
  <2>1. Len(r.slots) = 0
    BY <1>3
  <2> QED
    BY <2>1, CapacityFacts
<1>8. Sums(r.slots, r.size)
  BY <1>3, SumsEmpty
<1> QED
  BY <1>3, <1>5, <1>6, <1>7, <1>8 DEF Valid

\* A table whose size is in bounds does not change.
LEMMA ConvergeFits ==
    ASSUME NEW t, Len(t.slots) \in Nat, t.size \in Int, t.max \in Int, t.size <= t.max, NEW prev
    PROVE  Converge(t, prev) = t
<1> DEFINE T == {t}
           r == Converge(t, prev)
<1>1. t \in T /\ Loops(T, prev)
  BY DEF EvictOver, Loops
<1>2. r = Converge(t, prev)
  OBVIOUS
<1>3. r \in T
  <2> HIDE DEF T, r
  <2> QED
    BY <1>1, <1>2, ConvergeEnds
<1> QED
  BY <1>3

\* resize() keeps the table valid and as many headers as fit.
LEMMA ResizeSound ==
    ASSUME NEW t, Valid(t), NEW m, m \in Nat, m < Width, NEW r, r = Resize(t, m)
    PROVE  Valid(r) /\ Shrinks(r, t, m)
<1> DEFINE c == t.cap
           s == t.slots
           ix == t.indices
           ins == t.inserted
           z == t.size
           mx == t.max
<1>1. c \in Nat /\ t \in TableSet(c) /\ (c = 0 \/ c >= 4) /\ Sums(s, z) /\ (c = 0 => s = <<>>)
  BY DEF Valid
<1>2. /\ t = Tbl(ix, c, s, ins, z, mx) /\ ix \in Indices(c) /\ s \in Seq(SlotRec) /\ Len(s) \in Nat
      /\ ins \in 0 .. Width - 1 /\ z \in Int /\ mx \in Nat
  BY <1>1, TblFields
<1>3. CASE m = 0
  <2> DEFINE f == NoIndex(c)
  <2>1. DOMAIN t.indices = 0 .. c - 1
    BY <1>2 DEF Indices
  <2>2. r = Cleared(t, [p \in DOMAIN t.indices |-> None])
    BY <1>3 DEF Resize, Cleared
  <2>3. r = Cleared(t, f)
    BY <2>1, <2>2 DEF NoIndex
  <2>4. r = Tbl(f, c, <<>>, 0, 0, 0)
    <3> HIDE DEF f, c, s, ix, ins, z, mx
    <3> QED
      BY <1>2, <2>3, TblCleared
  <2>5. Valid(r) /\ r.slots = <<>> /\ r.size = 0 /\ r.max = 0
    <3>1. 0 \in Nat /\ 0 < Width
      BY <1>3
    <3> HIDE DEF c
    <3> QED
      BY <1>1, <2>4, <3>1, EmptyValid DEF f
  <2>6. Len(r.slots) = 0
    BY <2>5
  <2>7. ASSUME Len(s) # 0
        PROVE  HeaderLen(s[1].header) > 0
    <3>1. 1 \in 1 .. Len(s)
      BY <1>2, <2>7
    <3>2. s[1].header \in Header
      BY <1>2, <3>1, SlotHeader
    <3> QED
      BY <3>2, HeaderLenType
  <2>8. Len(r.slots) < Len(s) => r.size + HeaderLen(s[Len(r.slots) + 1].header) > m
    <3> SUFFICES ASSUME Len(r.slots) < Len(s)
                 PROVE  r.size + HeaderLen(s[Len(r.slots) + 1].header) > m
      OBVIOUS
    <3>1. Len(s) # 0 /\ Len(r.slots) + 1 = 1
      BY <1>2, <2>6
    <3>2. 1 \in 1 .. Len(s)
      BY <1>2, <3>1
    <3>3. HeaderLen(s[1].header) \in Nat
      BY <1>2, <3>2, SlotHeader
    <3> QED
      BY <1>3, <2>5, <2>7, <3>1, <3>3
  <2>9. Len(r.slots) <= Len(s) /\ \A i \in 1 .. Len(r.slots) : r.slots[i].header = s[i].header
    BY <1>2, <2>6
  <2> QED
    BY <1>3, <2>5, <2>8, <2>9 DEF Shrinks
<1>4. CASE m # 0
  <2> DEFINE t2 == WithMax(t, m)
  <2>1. r = Converge(t2, None)
    BY <1>4 DEF Resize, WithMax
  <2>2. t2 = Tbl(ix, c, s, ins, z, m)
    <3>1. t2 = WithMax(t, m)
      OBVIOUS
    <3> HIDE DEF t2, c, s, ix, ins, z, mx
    <3> QED
      BY <1>2, <3>1, TblOne
  <2> HIDE DEF t2
  <2>3. t2.indices = ix /\ t2.cap = c /\ t2.slots = s /\ t2.inserted = ins /\ t2.size = z /\ t2.max = m
    <3> HIDE DEF c, s, ix, ins, z, mx
    <3> QED
      BY <2>2, TblIs
  <2>4. t2 \in TableSet(c)
    <3>1. c \in {c} /\ z \in Int /\ m \in Nat
      BY <1>2
    <3> HIDE DEF c, s, ix, ins, z, mx
    <3> QED
      BY <1>2, <2>2, <3>1 DEF Tbl, TableSet
  <2>5. CASE c = 0
    <3>1. s = <<>> /\ z = 0 /\ Len(s) = 0
      <4>1. s = <<>>
        BY <1>1, <2>5
      <4>2. Len(s) = 0
        BY <4>1
      <4>3. z = 0
        BY <1>1, <4>2 DEF Sums, Adds
      <4> QED
        BY <4>1, <4>2, <4>3
    <3>2. r = t2
      <4>1. Len(t2.slots) \in Nat /\ t2.size <= t2.max /\ t2.size \in Int /\ t2.max \in Int
        BY <1>2, <2>3, <3>1
      <4> QED
        BY <2>1, <4>1, ConvergeFits
    <3>3. Len(t2.slots) <= Capacity(0)
      BY <2>3, <3>1, CapacityFacts
    <3>4. Valid(t2)
      BY <1>1, <2>3, <2>4, <2>5, <3>1, <3>3 DEF Valid
    <3> QED
      BY <2>3, <3>1, <3>2, <3>4 DEF Shrinks
  <2>6. CASE c # 0
    <3>1. /\ c \in Nat \ {0} /\ Sound(ix, c, s, ins) /\ HasFree(ix, c) /\ Len(s) <= Capacity(c)
      BY <2>6, ValidFacts
    <3>2. Sums(t2.slots, t2.size - 0) /\ 0 \in Nat /\ 0 <= t2.max
      <4>1. z - 0 = z
        BY <1>2
      <4> QED
        BY <1>1, <2>3, <4>1
    <3>3. r \in Rooms(t2, c, 0) /\ r.size <= r.max
      <4>1. Sound(t2.indices, c, t2.slots, t2.inserted) /\ HasFree(t2.indices, c)
        BY <2>3, <3>1
      <4> HIDE DEF c
      <4> QED
        BY <2>1, <2>4, <3>1, <3>2, <4>1, ConvergeVacant
    <3>4. /\ r \in TableSet(c) /\ r.max = m /\ Sound(r.indices, c, r.slots, r.inserted)
          /\ Sums(r.slots, r.size - 0) /\ Newest(r.slots, s) /\ Tight(r, t2)
      BY <2>3, <3>3 DEF Rooms
    <3>5. /\ r.cap = c /\ r.size \in Int /\ Len(r.slots) \in Nat
      BY <3>4, TblFields
    <3>6. Len(r.slots) <= Len(s) /\ \A i \in 1 .. Len(r.slots) : r.slots[i] = s[i]
      BY <3>4 DEF Newest
    <3>7. Len(r.slots) <= Capacity(c)
      <4>1. Capacity(c) \in Nat
        BY <1>1, <2>6, CapacityFacts
      <4> QED
        BY <1>2, <3>1, <3>5, <3>6, <4>1
    <3>8. r.size - 0 = r.size
      BY <3>5
    <3>9. Valid(r)
      BY <1>1, <2>6, <3>3, <3>4, <3>5, <3>7, <3>8 DEF Valid
    <3>10. Len(r.slots) < Len(s) => r.size + HeaderLen(s[Len(r.slots) + 1].header) > m
      BY <2>3, <3>4 DEF Tight
    <3> QED
      BY <3>4, <3>6, <3>9, <3>10 DEF Shrinks
  <2> QED
    BY <2>5, <2>6
<1> QED
  BY <1>3, <1>4

(***************************************************************************)
(* The encoder.                                                            *)
(***************************************************************************)

\* A valid table has a sound index.
LEMMA ValidIndexSound ==
    ASSUME Valid(enc)
    PROVE  IndexSound
<1> DEFINE c == enc.cap
           s == enc.slots
           ix == enc.indices
           ins == enc.inserted
           Used == {p \in 0..(enc.cap - 1) : ~Free(enc, p)}
           SlotOf(p) == RealIdx(enc, enc.indices[p].index) + 1
           Named(i) == {j \in DOMAIN enc.slots : enc.slots[j].header.name = enc.slots[i].header.name}
           Newer(i) == {j \in Named(i) : j < i}
           Older(i) == {j \in Named(i) : j > i}
           Spot(i, k) == Probe(enc, Hash[enc.slots[i].header.name], k)
           P1 == enc.cap > 0 => \E p \in 0..(enc.cap - 1) : Free(enc, p)
           P2(p) == /\ SlotOf(p) \in DOMAIN enc.slots /\ Older(SlotOf(p)) = {}
                    /\ enc.indices[p].hash = Hash[enc.slots[SlotOf(p)].header.name]
                    /\ \A q \in Used : SlotOf(p) = SlotOf(q) => p = q
           P3(i) == Older(i) = {} =>
                      \E k \in 0..(enc.cap - 1) :
                         /\ Spot(i, k) \in Used /\ SlotOf(Spot(i, k)) = i
                         /\ \A j \in 0..k : Spot(i, j) \in Used /\ Distance(enc, Spot(i, j)) >= j
           P4(i) == IF Newer(i) = {} THEN enc.slots[i].next = None
                    ELSE /\ enc.slots[i].next # None
                         /\ RealIdx(enc, enc.slots[i].next) + 1 = Max(Newer(i))
<1>1. c \in Nat /\ enc \in TableSet(c) /\ (c = 0 => s = <<>>) /\ (c # 0 => c >= 4 /\ Sound(ix, c, s, ins))
  BY DEF Valid
<1>2. s \in Seq(SlotRec) /\ Len(s) \in Nat /\ DOMAIN enc.slots = 1 .. Len(s)
  BY <1>1, TblFields
<1>3. CASE c = 0
  <2>1. Used = {} /\ DOMAIN enc.slots = {} /\ ~(enc.cap > 0)
    BY <1>1, <1>3
  <2>2. P1 /\ (\A p \in Used : P2(p)) /\ (\A i \in DOMAIN enc.slots : P3(i) /\ P4(i))
    BY <2>1
  <2> QED
    BY <2>2 DEF IndexSound
<1>4. CASE c # 0
  <2>1. /\ c \in Nat \ {0} /\ ix \in Indices(c) /\ ins \in 0 .. Width - 1
        /\ HasFree(ix, c) /\ Len(s) < Width
    BY <1>4, ValidFacts
  <2>2. /\ Heads(Entries(ix, c), s, ins) /\ Distinct(ix, c) /\ Local(ix, c) /\ Links(s, ins)
        /\ \A i \in 1 .. Len(s) : s[i].hash = Hash[s[i].header.name]
    BY <1>1, <1>4 DEF Sound, Typed
  <2>3. /\ \A p : p \in Used <=> p \in 0 .. c - 1 /\ ix[p] # None
        /\ \A p : SlotOf(p) = SlotAt(ins, ix[p].index)
        /\ \A a : RealIdx(enc, a) + 1 = SlotAt(ins, a)
    BY DEF Free, RealIdx, SlotAt
  <2>4. \A i \in 1 .. Len(s) : \A j : j \in Named(i) <=> j \in 1 .. Len(s) /\ Same(s, i, j)
    BY <1>2 DEF Same
  <2>5. \A i \in 1 .. Len(s) : Older(i) = {} <=> Oldest(s, i)
    BY <1>2, <2>4 DEF Oldest
  <2>6. P1
    BY <2>1 DEF HasFree, Free
  <2>7. ASSUME NEW p \in Used
        PROVE  P2(p)
    <3>1. p \in 0 .. c - 1 /\ ix[p] # None
      BY <2>3
    <3>2. ix[p] \in Entries(ix, c)
      BY <3>1 DEF Entries
    <3>3. SlotOf(p) \in 1 .. Len(s) /\ Oldest(s, SlotOf(p)) /\ ix[p].hash = s[SlotOf(p)].hash
      BY <2>2, <2>3, <3>2 DEF Heads
    <3>4. ASSUME NEW q \in Used, SlotOf(p) = SlotOf(q)
          PROVE  p = q
      <4>1. q \in 0 .. c - 1 /\ ix[q] # None
        BY <2>3
      <4>2. ix[p] \in Pos /\ ix[q] \in Pos
        BY <2>1, <3>1, <4>1, DistType
      <4>3. ix[p].index \in 0 .. Width - 1 /\ ix[q].index \in 0 .. Width - 1
        BY <4>2 DEF Pos
      <4>4. SlotAt(ins, ix[p].index) = SlotAt(ins, ix[q].index)
        BY <2>3, <3>4
      <4>5. /\ Stored(ins, SlotAt(ins, ix[p].index)) = ix[p].index
            /\ Stored(ins, SlotAt(ins, ix[q].index)) = ix[q].index
        BY <2>1, <4>3, StoredFacts
      <4>6. ix[p].index = ix[q].index
        BY <4>4, <4>5
      <4> QED
        BY <2>2, <3>1, <4>1, <4>6 DEF Distinct
    <3>5. SlotOf(p) \in DOMAIN enc.slots
      BY <1>2, <3>3
    <3>6. Older(SlotOf(p)) = {}
      BY <2>5, <3>3
    <3>7. enc.indices[p].hash = Hash[enc.slots[SlotOf(p)].header.name]
      BY <2>2, <3>3
    <3> QED
      BY <3>4, <3>5, <3>6, <3>7
  <2>8. ASSUME NEW i \in DOMAIN enc.slots
        PROVE  P3(i)
    <3> SUFFICES ASSUME Older(i) = {}
                 PROVE  \E k \in 0..(enc.cap - 1) :
                         /\ Spot(i, k) \in Used /\ SlotOf(Spot(i, k)) = i
                         /\ \A j \in 0..k : Spot(i, j) \in Used /\ Distance(enc, Spot(i, j)) >= j
      OBVIOUS
    <3>1. i \in 1 .. Len(s) /\ Oldest(s, i)
      BY <1>2, <2>5
    <3>2. PICK e \in Entries(ix, c) : SlotAt(ins, e.index) = i
      BY <2>2, <3>1 DEF Heads
    <3>3. PICK p \in 0 .. c - 1 : ix[p] # None /\ e = ix[p]
      BY DEF Entries
    <3>4. ix[p].hash = Hash[s[i].header.name]
      BY <2>2, <3>1, <3>2, <3>3 DEF Heads
    <3>5. ix[p].hash \in Int /\ Dist(ix, c, p) \in 0 .. c - 1
      BY <2>1, <3>3, DistType
    <3> DEFINE k == Dist(ix, c, p)
    <3>6. \A j : Spot(i, j) = At(c, ix[p].hash, j)
      BY <3>4 DEF Probe, At
    <3>7. \A q : Distance(enc, q) = Dist(ix, c, q)
      BY DEF Distance, Dist, Off
    <3>8. Spot(i, k) = p
      <4>1. At(c, ix[p].hash, Off(c, ix[p].hash, p)) = p
        BY <2>1, <3>3, <3>5, RingInverse
      <4> QED
        BY <3>6, <4>1 DEF Dist
    <3>9. ASSUME NEW j \in 0 .. k
          PROVE  Spot(i, j) \in Used /\ Distance(enc, Spot(i, j)) >= j
      <4>1. LET q == At(c, ix[p].hash, j) IN q \in 0 .. c - 1 /\ ix[q] # None /\ Dist(ix, c, q) >= j
        <5> HIDE DEF c, ix
        <5> QED
          BY <2>1, <2>2, <3>3, LocalReach
      <4> QED
        BY <2>3, <3>6, <3>7, <4>1
    <3>10. p \in Used /\ SlotOf(p) = i
      BY <2>3, <3>2, <3>3
    <3>11. k \in 0 .. enc.cap - 1
      BY <3>5
    <3> QED
      BY <3>8, <3>9, <3>10, <3>11
  <2>9. ASSUME NEW i \in DOMAIN enc.slots
        PROVE  P4(i)
    <3>1. i \in 1 .. Len(s)
      BY <1>2
    <3>2. \A j : j \in Newer(i) <=> j \in 1 .. i - 1 /\ Same(s, i, j)
      BY <1>2, <2>4, <3>1
    <3>3. CASE s[i].next = None
      <4>1. \A j \in 1 .. i - 1 : ~Same(s, i, j)
        BY <2>2, <3>1, <3>3 DEF Links
      <4>2. Newer(i) = {}
        BY <3>2, <4>1
      <4> QED
        BY <3>3, <4>2
    <3>4. CASE s[i].next # None
      <4> DEFINE n == SlotAt(ins, s[i].next)
                 N == Newer(i)
      <4>1. n \in 1 .. i - 1 /\ Same(s, i, n) /\ \A j \in n + 1 .. i - 1 : ~Same(s, i, j)
        BY <2>2, <3>1, <3>4 DEF Links
      <4>2. n \in N /\ N \in SUBSET (0 .. Len(s)) /\ N # {}
        BY <1>2, <3>1, <3>2, <4>1
      <4>3. Max(N) \in N /\ \A j \in N : j <= Max(N)
        <5> HIDE DEF N, s
        <5> QED
          BY <1>2, <4>2, MaxFacts
      <4>4. n <= Max(N) /\ Max(N) \in 1 .. i - 1 /\ Same(s, i, Max(N))
        BY <3>2, <4>2, <4>3
      <4>5. Max(N) = n
        BY <1>2, <3>1, <4>1, <4>4
      <4>6. RealIdx(enc, s[i].next) + 1 = n
        BY <2>3
      <4> QED
        BY <3>4, <4>2, <4>5, <4>6
    <3> QED
      BY <3>3, <3>4
  <2> QED
    BY <2>6, <2>7, <2>8, <2>9 DEF IndexSound
<1> QED
  BY <1>3, <1>4

\* The size updates that wait for a block.
Updates(u) ==
    \/ u = <<>>
    \/ \E a \in 0 .. MaxTable : u = <<a>>
    \/ \E a, b \in 0 .. MaxTable : u = <<a, b>>

EncoderInv ==
    /\ Valid(enc) /\ enc.max \in 0 .. MaxTable
    /\ Updates(update)

\* The smaller of two numbers.
LEMMA MinOfTwo ==
    ASSUME NEW a \in Nat, NEW b \in Nat
    PROVE  Min({a, b}) = (IF a <= b THEN a ELSE b)
<1> DEFINE S == {a, b}
<1>1. S \in SUBSET Nat /\ S # {}
  OBVIOUS
<1>2. Min(S) \in S /\ \A j \in S : Min(S) <= j
  <2> HIDE DEF S
  <2> QED
    BY <1>1, MinFacts
<1> QED
  BY <1>2

\* update_max_size() keeps at most two sizes.
LEMMA QueueUpdateType ==
    ASSUME NEW u, Updates(u), NEW v, v \in 0 .. MaxTable
    PROVE  Updates(QueueUpdate(u, v))
<1> DEFINE q == QueueUpdate(u, v)
<1>1. CASE u = <<>>
  <2>1. q = IF v # enc.max THEN <<v>> ELSE <<>>
    BY <1>1 DEF QueueUpdate
  <2> QED
    BY <2>1 DEF Updates
<1>2. ASSUME NEW a \in 0 .. MaxTable, u = <<a>>
      PROVE  Updates(q)
  <2>1. Len(u) = 1 /\ u # <<>> /\ u[1] = a
    BY <1>2
  <2>2. q = IF v > a /\ a <= enc.max THEN <<a, v>> ELSE <<v>>
    BY <2>1 DEF QueueUpdate
  <2> QED
    BY <2>2 DEF Updates
<1>3. ASSUME NEW a \in 0 .. MaxTable, NEW b \in 0 .. MaxTable, u = <<a, b>>
      PROVE  Updates(q)
  <2>1. Len(u) = 2 /\ u # <<>> /\ u[1] = a
    BY <1>3
  <2>2. q = IF v < a THEN <<v>> ELSE <<a, v>>
    BY <2>1 DEF QueueUpdate
  <2> QED
    BY <2>2 DEF Updates
<1> QED
  BY <1>1, <1>2, <1>3 DEF Updates

\* encode_size_updates() leaves a valid table.
LEMMA ResizedValid ==
    ASSUME EncoderInv
    PROVE  Valid(Resized) /\ Resized.max \in 0 .. MaxTable
<1>1. MaxTable \in Nat /\ MaxTable < Width /\ Width \in Nat
  BY HpackAssumption, NonePos
<1>2. \A a \in 0 .. MaxTable : a \in Nat /\ a < Width
  BY <1>1
<1>3. CASE update = <<>>
  <2>1. Resized = enc
    BY <1>3 DEF Resized
  <2> QED
    BY <2>1 DEF EncoderInv
<1>4. ASSUME NEW a \in 0 .. MaxTable, update = <<a>>
      PROVE  Valid(Resized) /\ Resized.max \in 0 .. MaxTable
  <2>1. Len(update) = 1 /\ update # <<>> /\ update[1] = a
    BY <1>4
  <2>2. Resized = Resize(enc, a)
    BY <2>1 DEF Resized
  <2>3. Valid(Resized) /\ Shrinks(Resized, enc, a)
    BY <1>2, <2>2, ResizeSound DEF EncoderInv
  <2> QED
    BY <2>3 DEF Shrinks
<1>5. ASSUME NEW a \in 0 .. MaxTable, NEW b \in 0 .. MaxTable, update = <<a, b>>
      PROVE  Valid(Resized) /\ Resized.max \in 0 .. MaxTable
  <2>1. Len(update) = 2 /\ update # <<>> /\ update[1] = a /\ update[2] = b
    BY <1>5
  <2> DEFINE m == Resize(enc, a)
  <2>2. Resized = Resize(m, b)
    BY <2>1 DEF Resized
  <2>3. m = Resize(enc, a)
    OBVIOUS
  <2> HIDE DEF m
  <2>4. Valid(m)
    BY <1>2, <2>3, ResizeSound DEF EncoderInv
  <2>5. Valid(Resized) /\ Shrinks(Resized, m, b)
    BY <1>2, <2>2, <2>4, ResizeSound
  <2> QED
    BY <2>5 DEF Shrinks
<1> QED
  BY <1>3, <1>4, <1>5 DEF EncoderInv, Updates

\* encode() leaves the table that index() makes of the resized one.
LEMMA EncodeTable ==
    ASSUME NEW h, NEW more
    PROVE  Encode(h, more).table = Index(Resized, h).table
BY DEF Encode

\* index() leaves a valid table with the same maximum.
LEMMA IndexValid ==
    ASSUME NEW t, Valid(t), NEW h, h \in Header, NEW r, r = Index(t, h).table
    PROVE  Valid(r) /\ r.max = t.max
<1> DEFINE res == Index(t, h)
           statik == IndexStatic(h.name, h.value)
<1>1. Indexes(res, t, h, statik)
  <2>1. res = Index(t, h)
    OBVIOUS
  <2> HIDE DEF res
  <2> QED
    BY <2>1, IndexOutcome
<1>2. r = res.table
  OBVIOUS
<1> HIDE DEF res, statik
<1> QED
  BY <1>1, <1>2 DEF Indexes, Holds, Inserts

\* A block leaves a valid table.
LEMMA EncodeValid ==
    ASSUME EncoderInv, NEW block \in Blocks, EncodeBlock(block[1], block[2])
    PROVE  EncoderInv'
<1> DEFINE h == block[1]
           t == Resized
<1>1. h \in Header
  BY HpackAssumption DEF Header
<1>2. enc' = Encode(h, block[2]).table /\ update' = <<>>
  BY DEF EncodeBlock, Send
<1>3. enc' = Index(t, h).table
  BY <1>2, EncodeTable
<1>4. Valid(t) /\ t.max \in 0 .. MaxTable
  BY ResizedValid
<1> HIDE DEF h, t
<1>5. Valid(enc') /\ (enc').max = t.max
  BY <1>1, <1>3, <1>4, IndexValid
<1>6. Updates(update')
  BY <1>2 DEF Updates
<1> QED
  BY <1>4, <1>5, <1>6 DEF EncoderInv, Valid, TableSet, Updates, Sound, Typed, Sums, Adds

\* The first table.
LEMMA NewTableValid ==
    ASSUME NEW t, t = NewTable(MaxTable)
    PROVE  Valid(t) /\ t.slots = <<>> /\ t.size = 0 /\ t.max = MaxTable
<1>1. MaxTable \in Nat /\ MaxTable < Width
  BY HpackAssumption
<1>2. <<>> = NoIndex(0)
  BY DEF NoIndex
<1>3. t = Tbl(<<>>, 0, <<>>, 0, 0, MaxTable)
  BY DEF NewTable, Tbl
<1> QED
  BY <1>1, <1>2, <1>3, EmptyValid

\* The encoder keeps its table valid whatever it inserts, evicts and resizes.
THEOREM EncoderInvariant == Spec => []EncoderInv
<1>1. Init => EncoderInv
  <2> SUFFICES ASSUME Init PROVE EncoderInv
    OBVIOUS
  <2>1. enc = NewTable(MaxTable) /\ update = <<>>
    BY DEF Init
  <2>2. Valid(enc) /\ enc.max = MaxTable
    BY <2>1, NewTableValid
  <2> QED
    BY <2>1, <2>2, HpackAssumption DEF EncoderInv, Updates
<1>2. EncoderInv /\ [Next]_vars => EncoderInv'
  <2> SUFFICES ASSUME EncoderInv, [Next]_vars PROVE EncoderInv'
    OBVIOUS
  <2>1. CASE UNCHANGED vars
    BY <2>1 DEF EncoderInv, vars, Valid
  <2>2. ASSUME NEW val \in Sizes, SetSendHeaderTableSize(val)
        PROVE  EncoderInv'
    <3>1. enc' = enc /\ update' = QueueUpdate(update, Min({val, MaxTable}))
      BY <2>2 DEF SetSendHeaderTableSize
    <3>2. val \in Nat /\ MaxTable \in Nat
      BY HpackAssumption
    <3> DEFINE v == Min({val, MaxTable})
    <3>3. v \in 0 .. MaxTable
      BY <3>2, MinOfTwo
    <3> HIDE DEF v
    <3>4. Updates(update')
      BY <3>1, <3>3, QueueUpdateType DEF EncoderInv, v
    <3> QED
      BY <3>1, <3>4 DEF EncoderInv
  <2> QED
    BY <2>1, <2>2, EncodeValid DEF Next
<1> QED
  BY <1>1, <1>2, PTL DEF Spec

\* The index is sound (Table::index, evict, grow, resize): whatever is
\* inserted, evicted and resized, the probe loop finds the oldest slot of
\* every name and the links lead from there to the newest.
THEOREM IndexAlwaysSound == Spec => []IndexSound
<1>1. EncoderInv => IndexSound
  BY ValidIndexSound DEF EncoderInv
<1> QED
  BY <1>1, EncoderInvariant, PTL

(***************************************************************************)
(* Integers.                                                               *)
(***************************************************************************)

\* The digits of a number, 7 bits each.
LEMMA Digits ==
    ASSUME NEW v \in Nat, v < 268435456
    PROVE  /\ v \div 1 = v
           /\ (v % 128) + (v \div 128) * 128 = v
           /\ (v % 128) + ((v \div 128) % 128) * 128 + (v \div 16384) * 16384 = v
           /\ (v % 128) + ((v \div 128) % 128) * 128 + ((v \div 16384) % 128) * 16384 + (v \div 2097152) * 2097152 = v
           /\ v % 128 \in 0 .. 127 /\ (v \div 128) % 128 \in 0 .. 127 /\ (v \div 16384) % 128 \in 0 .. 127
           /\ v < 128 => v \div 1 \in 0 .. 127
           /\ v < 16384 => v \div 128 \in 0 .. 127
           /\ v < 2097152 => v \div 16384 \in 0 .. 127
           /\ v \div 2097152 \in 0 .. 127
BY SMT

\* A function on 1 .. n is a sequence.
LEMMA FunSeq ==
    ASSUME NEW S, NEW n, n \in Nat, NEW f, f \in [1 .. n -> S]
    PROVE  f \in Seq(S) /\ Len(f) = n
OBVIOUS

\* The least number of a set.
LEMMA MinIs ==
    ASSUME NEW S, S \in SUBSET Nat, S # {}, NEW m, m = Min(S)
    PROVE  m \in S /\ \A j \in S : m <= j
BY MinFacts

Octet == 0 .. 255

\* An octet is a number, and so are its last bits.
LEMMA OctetFacts ==
    ASSUME NEW x, x \in Octet
    PROVE  x \in Int /\ 0 <= x /\ x <= 255 /\ x % 128 \in Int /\ 0 <= x % 128 /\ x % 128 <= 127
BY SMT DEF Octet

\* The value of the first bytes of a varint.
Value1(b) == b[1] % 128
Value2(b) == Value1(b) + (b[2] % 128) * 128
Value3(b) == Value2(b) + (b[3] % 128) * 16384
Value4(b) == Value3(b) + (b[4] % 128) * 2097152

\* The bytes of a varint.
IsVarint(b, v) ==
    /\ 1 <= Len(b) /\ Len(b) <= 4 /\ b \in Seq(Octet)
    /\ b[Len(b)] < 128 /\ \A k \in 1 .. Len(b) - 1 : b[k] >= 128
    /\ Len(b) = 1 => Value1(b) = v
    /\ Len(b) = 2 => Value2(b) = v
    /\ Len(b) = 3 => Value3(b) = v
    /\ Len(b) = 4 => Value4(b) = v

\* A varint of one byte.
LEMMA IsVarint1 ==
    ASSUME NEW b, b \in [1 .. 1 -> Octet], b[1] < 128,
           NEW v, v = Value1(b)
    PROVE  IsVarint(b, v)
<1>1. 1 \in Nat /\ b \in [1 .. 1 -> Octet]
  OBVIOUS
<1>2. Len(b) = 1 /\ b \in Seq(Octet)
  BY <1>1, FunSeq
<1>3. \A k \in 1 .. Len(b) - 1 : FALSE
  BY SMT, <1>2
<1>4. \A k \in 1 .. Len(b) - 1 : b[k] >= 128
  BY SMT, <1>3
<1>5. 1 <= Len(b) /\ Len(b) <= 4 /\ b[Len(b)] < 128
  BY SMT, <1>2
<1> QED
  BY SMT, <1>2, <1>4, <1>5 DEF IsVarint

\* A varint of two bytes.
LEMMA IsVarint2 ==
    ASSUME NEW b, b \in [1 .. 2 -> Octet], b[1] >= 128, b[2] < 128,
           NEW v, v = Value2(b)
    PROVE  IsVarint(b, v)
<1>1. 2 \in Nat /\ b \in [1 .. 2 -> Octet]
  OBVIOUS
<1>2. Len(b) = 2 /\ b \in Seq(Octet)
  BY <1>1, FunSeq
<1>3. \A k \in 1 .. Len(b) - 1 : k = 1
  BY SMT, <1>2
<1>4. \A k \in 1 .. Len(b) - 1 : b[k] >= 128
  BY SMT, <1>3
<1>5. 1 <= Len(b) /\ Len(b) <= 4 /\ b[Len(b)] < 128
  BY SMT, <1>2
<1> QED
  BY SMT, <1>2, <1>4, <1>5 DEF IsVarint

\* A varint of three bytes.
LEMMA IsVarint3 ==
    ASSUME NEW b, b \in [1 .. 3 -> Octet], b[1] >= 128, b[2] >= 128, b[3] < 128,
           NEW v, v = Value3(b)
    PROVE  IsVarint(b, v)
<1>1. 3 \in Nat /\ b \in [1 .. 3 -> Octet]
  OBVIOUS
<1>2. Len(b) = 3 /\ b \in Seq(Octet)
  BY <1>1, FunSeq
<1>3. \A k \in 1 .. Len(b) - 1 : k = 1 \/ k = 2
  BY SMT, <1>2
<1>4. \A k \in 1 .. Len(b) - 1 : b[k] >= 128
  BY SMT, <1>3
<1>5. 1 <= Len(b) /\ Len(b) <= 4 /\ b[Len(b)] < 128
  BY SMT, <1>2
<1> QED
  BY SMT, <1>2, <1>4, <1>5 DEF IsVarint

\* A varint of four bytes.
LEMMA IsVarint4 ==
    ASSUME NEW b, b \in [1 .. 4 -> Octet], b[1] >= 128, b[2] >= 128, b[3] >= 128, b[4] < 128,
           NEW v, v = Value4(b)
    PROVE  IsVarint(b, v)
<1>1. 4 \in Nat /\ b \in [1 .. 4 -> Octet]
  OBVIOUS
<1>2. Len(b) = 4 /\ b \in Seq(Octet)
  BY <1>1, FunSeq, ZenonT(30)
<1>3. \A k \in 1 .. Len(b) - 1 : k = 1 \/ k = 2 \/ k = 3
  BY SMT, <1>2
<1>4. \A k \in 1 .. Len(b) - 1 : b[k] >= 128
  BY SMT, <1>3
<1>5. 1 <= Len(b) /\ Len(b) <= 4 /\ b[Len(b)] < 128
  BY SMT, <1>2
<1> QED
  BY SMT, <1>2, <1>4, <1>5 DEF IsVarint

\* The number of bytes.
LEMMA VarintLen ==
    ASSUME NEW v \in Nat, v < Shift[5],
           NEW S, S = {k \in 1..4 : v < Shift[k + 1]} \cup {5}, NEW last, last = Min(S)
    PROVE  last = (IF v < 128 THEN 1 ELSE IF v < 16384 THEN 2 ELSE IF v < 2097152 THEN 3 ELSE 4)
<1>1. Shift[1 + 1] = 128 /\ Shift[2 + 1] = 16384 /\ Shift[3 + 1] = 2097152 /\ Shift[4 + 1] = 268435456
  BY SMT DEF Shift
<1>2. /\ 1 \in S <=> v < 128
      /\ 2 \in S <=> v < 16384
      /\ 3 \in S <=> v < 2097152
      /\ 4 \in S
  BY SMT, <1>1, S = {k \in 1..4 : v < Shift[k + 1]} \cup {5}
<1>3. S \in SUBSET Nat /\ S # {} /\ S \in SUBSET (1 .. 5)
  BY SMT
<1>5. last \in S /\ \A j \in S : last <= j
  BY <1>3, MinIs
<1>6. last \in 1 .. 5
  BY SMT, <1>3, <1>5
<1> QED
  BY SMT, <1>2, <1>5, <1>6

\* The varint part of encode_int().
LEMMA VarintBytes ==
    ASSUME NEW v \in Nat, v < Shift[5], NEW b, b = Varint(v)
    PROVE  IsVarint(b, v)
<1> DEFINE S == {k \in 1..4 : v < Shift[k + 1]} \cup {5}
           last == Min(S)
<1>0. v < 268435456
  BY SMT DEF Shift
<1>1. last = (IF v < 128 THEN 1 ELSE IF v < 16384 THEN 2 ELSE IF v < 2097152 THEN 3 ELSE 4)
  <2>1. S = {k \in 1..4 : v < Shift[k + 1]} \cup {5} /\ last = Min(S)
    OBVIOUS
  <2> HIDE DEF S, last
  <2> QED
    BY SMT, <2>1, VarintLen
<1>2. b = [k \in 1..last |-> IF k < last THEN 128 + ((v \div Shift[k]) % 128) ELSE v \div Shift[k]]
  BY SMT DEF Varint
<1> HIDE DEF last
<1>3. Shift[1] = 1 /\ Shift[2] = 128 /\ Shift[3] = 16384 /\ Shift[4] = 2097152
  BY SMT DEF Shift
<1>4. CASE v < 128
  <2>1. last = 1
    BY SMT, <1>1, <1>4
  <2>2. DOMAIN b = 1 .. 1 /\ b[1] = v /\ b = [k \in 1 .. 1 |-> b[k]]
    BY SMT, <1>2, <1>3, <2>1, <1>0, Digits
  <2>3. b \in [1 .. 1 -> Octet]
    BY SMT, <1>4, <2>2 DEF Octet
  <2>4. v = Value1(b)
    BY SMT, <1>4, <2>2 DEF Value1
  <2> QED
    <3>1. b[1] < 128
      BY SMT, <1>4, <2>2
    <3> QED
      BY SMT, <2>3, <2>4, <3>1, IsVarint1
<1>5. CASE v >= 128 /\ v < 16384
  <2>1. last = 2
    BY SMT, <1>1, <1>5
  <2>2. DOMAIN b = 1 .. 2 /\ b[1] = 128 + (v % 128) /\ b[2] = v \div 128
    BY SMT, <1>2, <1>3, <2>1, <1>0, Digits
  <2>3. v % 128 \in 0 .. 127 /\ v \div 128 \in 0 .. 127 /\ (v % 128) + (v \div 128) * 128 = v
    BY SMT, <1>5, <1>0, Digits
  <2>4. b[1] \in 128 .. 255 /\ b[2] \in 0 .. 127 /\ b[1] % 128 = v % 128 /\ b[2] % 128 = v \div 128
    BY SMT, <2>2, <2>3
  <2>5. b = [k \in 1 .. 2 |-> b[k]]
    BY SMT, <1>2, <2>1
  <2>6. b \in [1 .. 2 -> Octet]
    BY SMT, <2>4, <2>5 DEF Octet
  <2>7. v = Value2(b)
    <3>1. Value2(b) = (b[1] % 128) + (b[2] % 128) * 128
      BY SMT DEF Value1, Value2
    <3> QED
      BY SMT, <2>2, <2>3, <2>4, <3>1
  <2>8. b[1] >= 128 /\ b[2] < 128
    BY SMT, <2>4
  <2> QED
    BY SMT, <2>6, <2>7, <2>8, IsVarint2
<1>6. CASE v >= 16384 /\ v < 2097152
  <2>1. last = 3
    BY SMT, <1>1, <1>6
  <2>2. DOMAIN b = 1 .. 3 /\ b[1] = 128 + (v % 128) /\ b[2] = 128 + ((v \div 128) % 128) /\ b[3] = v \div 16384
    BY SMT, <1>2, <1>3, <2>1, <1>0, Digits
  <2>3. /\ v % 128 \in 0 .. 127 /\ (v \div 128) % 128 \in 0 .. 127 /\ v \div 16384 \in 0 .. 127
        /\ (v % 128) + ((v \div 128) % 128) * 128 + (v \div 16384) * 16384 = v
    BY SMT, <1>6, <1>0, Digits
  <2>4. /\ b[1] \in 128 .. 255 /\ b[2] \in 128 .. 255 /\ b[3] \in 0 .. 127
        /\ b[1] % 128 = v % 128 /\ b[2] % 128 = (v \div 128) % 128 /\ b[3] % 128 = v \div 16384
    BY SMT, <2>2, <2>3
  <2>5. b = [k \in 1 .. 3 |-> b[k]]
    BY SMT, <1>2, <2>1
  <2>6. b \in [1 .. 3 -> Octet]
    BY SMT, <2>4, <2>5 DEF Octet
  <2>7. v = Value3(b)
    <3>1. Value3(b) = (b[1] % 128) + (b[2] % 128) * 128 + (b[3] % 128) * 16384
      BY SMT DEF Value1, Value2, Value3
    <3> QED
      BY SMT, <2>2, <2>3, <2>4, <3>1
  <2>8. b[1] >= 128 /\ b[2] >= 128 /\ b[3] < 128
    BY SMT, <2>4
  <2> QED
    BY SMT, <2>6, <2>7, <2>8, IsVarint3
<1>7. CASE v >= 2097152
  <2>1. last = 4
    BY SMT, <1>1, <1>7
  <2>2. /\ DOMAIN b = 1 .. 4 /\ b[1] = 128 + (v % 128) /\ b[2] = 128 + ((v \div 128) % 128)
        /\ b[3] = 128 + ((v \div 16384) % 128) /\ b[4] = v \div 2097152
    BY SMT, <1>2, <1>3, <2>1, <1>0, Digits
  <2>3. /\ v % 128 \in 0 .. 127 /\ (v \div 128) % 128 \in 0 .. 127 /\ (v \div 16384) % 128 \in 0 .. 127
        /\ v \div 2097152 \in 0 .. 127
        /\ (v % 128) + ((v \div 128) % 128) * 128 + ((v \div 16384) % 128) * 16384 + (v \div 2097152) * 2097152 = v
    BY SMT, <1>0, Digits
  <2>4. /\ b[1] \in 128 .. 255 /\ b[2] \in 128 .. 255 /\ b[3] \in 128 .. 255 /\ b[4] \in 0 .. 127
        /\ b[1] % 128 = v % 128 /\ b[2] % 128 = (v \div 128) % 128
        /\ b[3] % 128 = (v \div 16384) % 128 /\ b[4] % 128 = v \div 2097152
    BY SMT, <2>2, <2>3
  <2>5. b = [k \in 1 .. 4 |-> b[k]]
    BY SMT, <1>2, <2>1
  <2>6. b \in [1 .. 4 -> Octet]
    BY SMT, <2>4, <2>5 DEF Octet
  <2>7. v = Value4(b)
    <3>1. Value4(b) = (b[1] % 128) + (b[2] % 128) * 128 + (b[3] % 128) * 16384 + (b[4] % 128) * 2097152
      BY SMT DEF Value1, Value2, Value3, Value4
    <3> QED
      BY SMT, <2>2, <2>3, <2>4, <3>1
  <2>8. b[1] >= 128 /\ b[2] >= 128 /\ b[3] >= 128 /\ b[4] < 128
    BY SMT, <2>4
  <2> QED
    BY SMT, <2>6, <2>7, <2>8, IsVarint4
<1> QED
  BY SMT, <1>4, <1>5, <1>6, <1>7

\* What a byte adds to the value.
Part(b, k) == (b[k] % 128) * Shift[k]

\* The parts of a varint.
LEMMA PartFacts ==
    ASSUME NEW b
    PROVE  /\ b[1] % 128 \in Int => Part(b, 1) \in Int /\ Value1(b) = Part(b, 1)
           /\ b[2] % 128 \in Int => Part(b, 2) \in Int
           /\ b[3] % 128 \in Int => Part(b, 3) \in Int
           /\ b[4] % 128 \in Int => Part(b, 4) \in Int
           /\ Value2(b) = Value1(b) + Part(b, 2)
           /\ Value3(b) = Value2(b) + Part(b, 3)
           /\ Value4(b) = Value3(b) + Part(b, 4)
<1>1. Shift[1] = 1 /\ Shift[2] = 128 /\ Shift[3] = 16384 /\ Shift[4] = 2097152
  BY SMT DEF Shift
<1>2. \A x : x \in Int => x * 1 = x
  OBVIOUS
<1>3. /\ Part(b, 1) = (b[1] % 128) * 1 /\ Part(b, 2) = (b[2] % 128) * 128
      /\ Part(b, 3) = (b[3] % 128) * 16384 /\ Part(b, 4) = (b[4] % 128) * 2097152
  BY SMT, <1>1 DEF Part
<1> QED
  BY SMT, <1>2, <1>3 DEF Value1, Value2, Value3, Value4

\* What decode_int() adds for a byte, and what it should give.
Adding(T, b, n, k) == T = IF k <= n THEN Part(b, k) ELSE 0
ValueOf(b, n, v) ==
    /\ n = 1 => v = Value1(b)
    /\ n = 2 => v = Value2(b)
    /\ n = 3 => v = Value3(b)
    /\ n = 4 => v = Value4(b)
BytesOf(b, n) == \A k \in 1 .. n : b[k] % 128 \in Int

\* The bytes after the last one add nothing.
LEMMA TermSum ==
    ASSUME NEW b, NEW n, n \in Int, 1 <= n, n <= 4, BytesOf(b, n),
           NEW T2, Adding(T2, b, n, 1), NEW T3, Adding(T3, b, n, 2),
           NEW T4, Adding(T4, b, n, 3), NEW T5, Adding(T5, b, n, 4),
           NEW p, p \in Int, NEW v, ValueOf(b, n, v)
    PROVE  p + T2 + T3 + T4 + T5 = p + v
<1>1. n = 1 \/ n = 2 \/ n = 3 \/ n = 4
  OBVIOUS
<1>2. CASE n = 1
  <2>1. Part(b, 1) \in Int /\ v = Part(b, 1)
    BY <1>2, PartFacts DEF BytesOf, ValueOf
  <2> QED
    BY <1>2, <2>1 DEF Adding
<1>3. CASE n = 2
  <2>1. Part(b, 1) \in Int /\ Part(b, 2) \in Int /\ v = Part(b, 1) + Part(b, 2)
    BY <1>3, PartFacts DEF BytesOf, ValueOf
  <2> QED
    BY <1>3, <2>1 DEF Adding
<1>4. CASE n = 3
  <2>1. Part(b, 1) \in Int /\ Part(b, 2) \in Int /\ Part(b, 3) \in Int /\ v = Part(b, 1) + Part(b, 2) + Part(b, 3)
    BY <1>4, PartFacts DEF BytesOf, ValueOf
  <2> QED
    BY <1>4, <2>1 DEF Adding
<1>5. CASE n = 4
  <2>1. /\ Part(b, 1) \in Int /\ Part(b, 2) \in Int /\ Part(b, 3) \in Int /\ Part(b, 4) \in Int
        /\ v = Part(b, 1) + Part(b, 2) + Part(b, 3) + Part(b, 4)
    BY <1>5, PartFacts DEF BytesOf, ValueOf
  <2> QED
    BY <1>5, <2>1 DEF Adding
<1> QED
  BY <1>1, <1>2, <1>3, <1>4, <1>5

Decoded(d, value) == d.error = "" /\ d.value = value
Power(prefix, P) == P = Pow2[prefix]
Filled(f, P) == f % P = P - 1

\* decode_int() of a first byte that is full and a varint.
LEMMA DecodeVarint ==
    ASSUME NEW b, NEW n, n = Len(b), NEW v, v \in Nat, IsVarint(b, v), NEW f, f \in Octet, NEW prefix, NEW P, Power(prefix, P),
           P \in Nat, Filled(f, P), NEW w, w = First(f, b), NEW d, d = DecodeInt(w, prefix),
           NEW sum, sum = (P - 1) + v
    PROVE  Decoded(d, sum)
<1>0. n \in Int /\ 1 <= n /\ n <= 4
  BY DEF IsVarint
<1>1. 1 <= n /\ n <= 4 /\ b \in Seq(Octet) /\ b[n] < 128 /\ \A k \in 1 .. n - 1 : b[k] >= 128
  BY DEF IsVarint
<1> DEFINE m == n + 1
<1>2. m \in 2 .. 5 /\ Len(w) = m /\ w[1] = f /\ w # <<>> /\ \A k \in 2 .. m : w[k] = b[k - 1]
  <2>1. /\ <<f>> \o b \in Seq(Octet) /\ Len(<<f>> \o b) = n + 1
        /\ (<<f>> \o b)[1] = f /\ \A i \in 2 .. n + 1 : (<<f>> \o b)[i] = b[i - 1]
    BY <1>1
  <2>2. w = <<f>> \o b
    BY DEF First
  <2>3. Len(w) = m /\ w[1] = f /\ \A k \in 2 .. m : w[k] = b[k - 1]
    BY <2>1, <2>2
  <2>4. m \in 2 .. 5
    BY <1>0
  <2>5. w # <<>>
    BY <2>3, <2>4
  <2> QED
    BY <2>3, <2>4, <2>5
<1> DEFINE ends == {k \in 2..MaxBytes : k <= Len(w) /\ w[k] < 128}
<1>3. ends = {m}
  <2>1. MaxBytes = 5
    BY DEF MaxBytes
  <2>2. \A k \in 2 .. m : k - 1 \in 1 .. n /\ b[k - 1] \in Nat
    <3>1. Octet \subseteq Nat
      BY DEF Octet
    <3>2. \A k \in 2 .. m : k - 1 \in 1 .. n
      BY <1>1
    <3>3. \A i \in 1 .. n : b[i] \in Octet
      BY <1>1
    <3> QED
      BY <3>1, <3>2, <3>3
  <2>3. m \in ends
    BY <1>1, <1>2, <2>1
  <2>4. ASSUME NEW k \in ends
        PROVE  k = m
    <3>1. k \in 2 .. m /\ w[k] < 128
      BY <1>2, <2>1
    <3>2. b[k - 1] < 128 /\ b[k - 1] \in Nat
      BY <1>2, <2>2, <3>1
    <3>3. CASE k < m
      <4>1. k - 1 \in 1 .. n - 1
        BY <1>1, <3>1, <3>3
      <4>2. b[k - 1] >= 128
        BY <1>1, <4>1
      <4> QED
        BY <3>2, <4>2
    <3> QED
      BY <1>2, <3>1, <3>3
  <2> QED
    BY <2>3, <2>4
<1>4. Min(ends) = m
  <2> DEFINE S == ends
  <2>1. S \in SUBSET Nat /\ S # {} /\ Min(S) = Min(S) /\ \A x \in S : x = m
    <3>1. m \in Nat
      BY <1>2
    <3> QED
      BY <1>3, <3>1
  <2>2. Min(S) \in S
    <3> HIDE DEF S
    <3> QED
      BY <2>1, MinIs
  <2> QED
    BY <2>1, <2>2
<1> DEFINE Term(k) == IF k <= Min(ends) THEN (w[k] % 128) * Shift[k - 1] ELSE 0
<1>5. d = [error |-> "", value |-> (Pow2[prefix] - 1) + Term(2) + Term(3) + Term(4) + Term(5), read |-> Min(ends)]
  <2>2. ends # {} /\ ~(w[1] % Pow2[prefix] < Pow2[prefix] - 1) /\ w # <<>>
    <3>1. ends # {} /\ w[1] = f /\ w # <<>>
      BY <1>2, <1>3
    <3>2. f % Pow2[prefix] = Pow2[prefix] - 1 /\ Pow2[prefix] \in Nat
      BY DEF Filled, Power
    <3>3. ~(Pow2[prefix] - 1 < Pow2[prefix] - 1)
      BY <3>2
    <3> QED
      BY <3>1, <3>2, <3>3, Zenon
  <2> HIDE DEF m
  <2> QED
    BY <2>2, Zenon DEF DecodeInt
<1> HIDE DEF ends
<1>6. /\ Adding(Term(2), b, n, 1)
      /\ Adding(Term(3), b, n, 2)
      /\ Adding(Term(4), b, n, 3)
      /\ Adding(Term(5), b, n, 4)
  <2>1. 2 - 1 = 1 /\ 3 - 1 = 2 /\ 4 - 1 = 3 /\ 5 - 1 = 4
    OBVIOUS
  <2>2. /\ 2 <= m => w[2] = b[1]
        /\ 3 <= m => w[3] = b[2]
        /\ 4 <= m => w[4] = b[3]
        /\ 5 <= m => w[5] = b[4]
    BY <1>2
  <2> QED
    BY <1>0, <1>4, <2>1, <2>2 DEF Part, Adding
<1> HIDE DEF Term
<1>7. d.error = "" /\ d.value = (P - 1) + Term(2) + Term(3) + Term(4) + Term(5)
  <2>1. P = Pow2[prefix]
    BY DEF Power
  <2> DEFINE e == ""
             x == (P - 1) + Term(2) + Term(3) + Term(4) + Term(5)
             y == Min(ends)
  <2>2. d = [error |-> e, value |-> x, read |-> y]
    BY <1>5, <2>1, Zenon
  <2> HIDE DEF e, x, y
  <2>3. d.error = e /\ d.value = x
    BY <2>2
  <2> QED
    BY <2>3, Zenon DEF e, x
<1>8. ValueOf(b, n, v)
  BY DEF IsVarint, ValueOf
<1>9. BytesOf(b, n)
  <2>1. \A k \in 1 .. n : b[k] \in Octet
    BY <1>1
  <2> QED
    BY <2>1, OctetFacts DEF BytesOf
<1> QED
  <2> DEFINE T2 == Term(2)
             T3 == Term(3)
             T4 == Term(4)
             T5 == Term(5)
             p == P - 1
  <2>1. p \in Int
    OBVIOUS
  <2>2. p + T2 + T3 + T4 + T5 = p + v
    <3>1. Adding(T2, b, n, 1) /\ Adding(T3, b, n, 2) /\ Adding(T4, b, n, 3) /\ Adding(T5, b, n, 4)
      BY <1>6
    <3> HIDE DEF T2, T3, T4, T5, p
    <3> QED
      BY <1>0, <1>8, <1>9, <2>1, <3>1, TermSum
  <2> QED
    BY <1>7, <2>2 DEF Decoded

\* The bits of `first` are above the prefix.
Above(first, P) ==
    /\ first \in Nat /\ first + P <= 256
    /\ \A x \in 0 .. P - 1 : (first + x) % P = x

\* An integer on the wire: the bits above the prefix are those of `first`, and
\* decode_int() gives the value.
Encodes(w, value, prefix, first, P) ==
    /\ w[1] \in Int /\ first <= w[1] /\ w[1] <= first + P - 1
    /\ DecodeInt(w, prefix).error = "" /\ DecodeInt(w, prefix).value = value

\* decode_int() undoes encode_int().
LEMMA EncodeIntIs ==
    ASSUME NEW value, value \in Nat, value < Shift[5], NEW prefix, NEW first, NEW P, Power(prefix, P), P \in Nat, P >= 2,
           Above(first, P), NEW w, w = EncodeInt(value, prefix, first)
    PROVE  Encodes(w, value, prefix, first, P)
<1> DEFINE low == P - 1
           d == DecodeInt(w, prefix)
<1>1. first \in Nat /\ first + P <= 256 /\ low \in Nat /\ low = P - 1
  BY DEF Above
<1>2. w = IF value < low THEN <<first + value>> ELSE First(first + low, Varint(value - low))
  BY DEF EncodeInt, Power, First
<1>3. CASE value < low
  <2> DEFINE f == first + value
  <2>1. w = <<f>> /\ w[1] = f /\ w # <<>>
    BY <1>2, <1>3
  <2>2. value \in 0 .. P - 1 /\ f \in Int /\ first <= f /\ f <= first + P - 1
    BY <1>1, <1>3
  <2>3. f % P = value
    BY <2>2 DEF Above
  <2>4. w[1] % Pow2[prefix] < Pow2[prefix] - 1 /\ w[1] % Pow2[prefix] = value
    <3>1. P = Pow2[prefix]
      BY DEF Power
    <3>2. w[1] % P = value /\ value < P - 1
      BY <1>3, <2>1, <2>3, Zenon
    <3> QED
      BY <3>1, <3>2, Zenon
  <2>5. d = [error |-> "", value |-> w[1] % Pow2[prefix], read |-> 1]
    <3> HIDE DEF f
    <3> QED
      BY <2>1, <2>4, Zenon DEF DecodeInt
  <2> DEFINE x == w[1] % Pow2[prefix]
  <2>6. d.error = "" /\ d.value = x
    <3> HIDE DEF x, d
    <3>1. d = [error |-> "", value |-> x, read |-> 1]
      BY <2>5 DEF x
    <3> QED
      BY <3>1
  <2>7. d.error = "" /\ d.value = value
    BY <2>4, <2>6, Zenon
  <2>8. w[1] \in Int /\ first <= w[1] /\ w[1] <= first + P - 1
    BY <2>1, <2>2, Zenon
  <2> QED
    BY <2>7, <2>8, Zenon DEF Encodes
<1>4. CASE ~(value < low)
  <2> DEFINE f == first + low
             v == value - low
             b == Varint(v)
             n == Len(b)
  <2>1. v \in Nat /\ v <= value /\ low + v = value
    BY <1>1, <1>4
  <2>2. v < Shift[5]
    <3>1. Shift[5] \in Int
      BY SMT DEF Shift
    <3> HIDE DEF v
    <3> QED
      BY <2>1, <3>1
  <2>3. b = Varint(v) /\ n = Len(b) /\ w = First(f, b)
    BY <1>2, <1>4
  <2>4. f \in Octet /\ f \in Int /\ first <= f /\ f <= first + P - 1
    BY <1>1 DEF Octet
  <2>5. Filled(f, P)
    <3>1. P - 1 \in 0 .. P - 1
      BY <1>1
    <3> QED
      BY <3>1 DEF Above, Filled
  <2> HIDE DEF f, v, b, n, low
  <2>6. IsVarint(b, v)
    BY <2>1, <2>2, <2>3, VarintBytes
  <2>7. d.error = "" /\ d.value = (P - 1) + v
    <3> DEFINE sum == (P - 1) + v
    <3>1. d = DecodeInt(w, prefix) /\ sum = (P - 1) + v
      OBVIOUS
    <3>2. v \in Nat /\ n = Len(b) /\ w = First(f, b) /\ f \in Octet
      BY <2>1, <2>3, <2>4
    <3> HIDE DEF d, sum
    <3>3. Decoded(d, sum)
      BY <2>5, <2>6, <3>1, <3>2, DecodeVarint
    <3> QED
      BY <3>3 DEF sum, Decoded
  <2>8. d.value = value
    BY <2>1, <2>7 DEF low
  <2>9. w[1] = f
    <3>1. b \in Seq(Octet)
      BY <2>6 DEF IsVarint
    <3>2. (<<f>> \o b)[1] = f
      BY <2>4, <3>1
    <3> QED
      BY <2>3, <3>2 DEF First
  <2> QED
    BY <2>4, <2>7, <2>8, <2>9, Zenon DEF Encodes
<1> QED
  BY <1>3, <1>4

\* The prefixes of the representations.
LEMMA Prefix7 == Power(7, 128) /\ Above(128, 128)
BY SMT DEF Power, Pow2, Above

\* The prefix of a literal with indexing.
LEMMA Prefix6 == Power(6, 64) /\ Above(64, 64)
BY SMT DEF Power, Pow2, Above

\* The prefix of a size update.
LEMMA Prefix5 == Power(5, 32) /\ Above(32, 32)
BY SMT DEF Power, Pow2, Above

\* The prefix of a literal without indexing.
LEMMA Prefix4 == Power(4, 16) /\ Above(16, 16) /\ Above(0, 16)
BY SMT DEF Power, Pow2, Above

\* The kind of the first byte.
LEMMA Kinds ==
    ASSUME NEW x, x \in Int, 0 <= x
    PROVE  /\ 128 <= x => Representation(x) = "Indexed"
           /\ 64 <= x /\ x <= 127 => Representation(x) = "LiteralWithIndexing"
           /\ 32 <= x /\ x <= 63 => Representation(x) = "SizeUpdate"
           /\ 16 <= x /\ x <= 31 => Representation(x) = "LiteralNeverIndexed"
           /\ x <= 15 => Representation(x) = "LiteralWithoutIndexing"
BY SMT DEF Representation

\* What the decoder reads at the head of a representation.
Reads(w, kind, prefix, value) ==
    /\ Representation(w[1]) = kind
    /\ DecodeInt(w, prefix).error = "" /\ DecodeInt(w, prefix).value = value

\* decode_int() reads the index of an indexed header as it was written.
LEMMA ReadsIndexed ==
    ASSUME NEW v, v \in Nat, v < Shift[5], NEW w, w = EncodeInt(v, 7, 128)
    PROVE  Reads(w, "Indexed", 7, v)
<1> DEFINE prefix == 7
           P == 128
<1>1. Power(prefix, P) /\ Above(P, P) /\ P \in Nat /\ P >= 2 /\ w = EncodeInt(v, prefix, P)
  BY SMT, Prefix7
<1>2. Encodes(w, v, prefix, P, P)
  <2> HIDE DEF prefix, P
  <2> QED
    BY <1>1, EncodeIntIs
<1> DEFINE x == w[1]
<1>3. /\ x \in Int /\ P <= x /\ x <= P + P - 1
  <2> HIDE DEF prefix, P
  <2> QED
    BY <1>2, Zenon DEF Encodes
<1>6. DecodeInt(w, prefix).error = "" /\ DecodeInt(w, prefix).value = v
  BY <1>2, Zenon DEF Encodes
<1> HIDE DEF x
<1>4. 0 <= x /\ 128 <= x /\ x \in Int
  BY SMT, <1>3
<1>5. Representation(x) = "Indexed"
  BY SMT, <1>4, Kinds
<1> QED
  BY <1>5, <1>6, Zenon DEF Reads, x

\* decode_int() reads the index of a literal with indexing as it was written.
LEMMA ReadsInsert ==
    ASSUME NEW v, v \in Nat, v < Shift[5], NEW w, w = EncodeInt(v, 6, 64)
    PROVE  Reads(w, "LiteralWithIndexing", 6, v)
<1> DEFINE prefix == 6
           P == 64
<1>1. Power(prefix, P) /\ Above(P, P) /\ P \in Nat /\ P >= 2 /\ w = EncodeInt(v, prefix, P)
  BY SMT, Prefix6
<1>2. Encodes(w, v, prefix, P, P)
  <2> HIDE DEF prefix, P
  <2> QED
    BY <1>1, EncodeIntIs
<1> DEFINE x == w[1]
<1>3. /\ x \in Int /\ P <= x /\ x <= P + P - 1
  <2> HIDE DEF prefix, P
  <2> QED
    BY <1>2, Zenon DEF Encodes
<1>6. DecodeInt(w, prefix).error = "" /\ DecodeInt(w, prefix).value = v
  BY <1>2, Zenon DEF Encodes
<1> HIDE DEF x
<1>4. 0 <= x /\ 64 <= x /\ x <= 127 /\ x \in Int
  BY SMT, <1>3
<1>5. Representation(x) = "LiteralWithIndexing"
  BY SMT, <1>4, Kinds
<1> QED
  BY <1>5, <1>6, Zenon DEF Reads, x

\* decode_int() reads a table size as it was written.
LEMMA ReadsSizeUpdate ==
    ASSUME NEW v, v \in Nat, v < Shift[5], NEW w, w = EncodeInt(v, 5, 32)
    PROVE  Reads(w, "SizeUpdate", 5, v)
<1> DEFINE prefix == 5
           P == 32
<1>1. Power(prefix, P) /\ Above(P, P) /\ P \in Nat /\ P >= 2 /\ w = EncodeInt(v, prefix, P)
  BY SMT, Prefix5
<1>2. Encodes(w, v, prefix, P, P)
  <2> HIDE DEF prefix, P
  <2> QED
    BY <1>1, EncodeIntIs
<1> DEFINE x == w[1]
<1>3. /\ x \in Int /\ P <= x /\ x <= P + P - 1
  <2> HIDE DEF prefix, P
  <2> QED
    BY <1>2, Zenon DEF Encodes
<1>6. DecodeInt(w, prefix).error = "" /\ DecodeInt(w, prefix).value = v
  BY <1>2, Zenon DEF Encodes
<1> HIDE DEF x
<1>4. 0 <= x /\ 32 <= x /\ x <= 63 /\ x \in Int
  BY SMT, <1>3
<1>5. Representation(x) = "SizeUpdate"
  BY SMT, <1>4, Kinds
<1> QED
  BY <1>5, <1>6, Zenon DEF Reads, x

\* decode_int() reads the index of a literal without indexing as it was written.
LEMMA ReadsNotIndexed ==
    ASSUME NEW v, v \in Nat, v < Shift[5], NEW sensitive, NEW w, w = EncodeInt(v, 4, IF sensitive THEN 16 ELSE 0)
    PROVE  Reads(w, "LiteralWithoutIndexing", 4, v) \/ Reads(w, "LiteralNeverIndexed", 4, v)
<1> DEFINE prefix == 4
           P == 16
           first == IF sensitive THEN 16 ELSE 0
<1>1. Power(prefix, P) /\ Above(first, P) /\ P \in Nat /\ P >= 2 /\ w = EncodeInt(v, prefix, first)
  BY SMT, Prefix4
<1>2. Encodes(w, v, prefix, first, P)
  <2> HIDE DEF prefix, P, first
  <2> QED
    BY <1>1, EncodeIntIs
<1> DEFINE x == w[1]
<1>3. /\ x \in Int /\ first <= x /\ x <= first + P - 1
  <2> HIDE DEF prefix, P, first
  <2> QED
    BY <1>2, Zenon DEF Encodes
<1>6. DecodeInt(w, prefix).error = "" /\ DecodeInt(w, prefix).value = v
  BY <1>2, Zenon DEF Encodes
<1> HIDE DEF x
<1>4. 0 <= x /\ ((16 <= x /\ x <= 31) \/ x <= 15) /\ x \in Int
  BY SMT, <1>3
<1>5. Representation(x) = "LiteralWithoutIndexing" \/ Representation(x) = "LiteralNeverIndexed"
  BY SMT, <1>4, Kinds
<1> QED
  BY <1>5, <1>6, Zenon DEF Reads, x

\* A name and a value to insert.
LEMMA ReadsInsertNew == Reads(<<64>>, "LiteralWithIndexing", 6, 0)
<1> DEFINE v == 0
           w == EncodeInt(v, 6, 64)
<1>1. w = <<64>>
  BY SMT DEF EncodeInt, Pow2
<1>2. v \in Nat /\ v < Shift[5] /\ w = EncodeInt(v, 6, 64)
  BY SMT DEF Shift
<1>3. Reads(w, "LiteralWithIndexing", 6, v)
  <2> HIDE DEF v, w
  <2> QED
    BY SMT, <1>2, ReadsInsert
<1> QED
  BY <1>1, <1>3, Zenon

(***************************************************************************)
(* The static table.                                                       *)
(***************************************************************************)

\* An arm of index_static() and the entry of get_static() agree.
NameAt(n, name) == n \in 1 .. 61 /\ GetStatic[n][1] = name
ValueArm(arm) == arm[3] \in 1 .. 61 /\ GetStatic[arm[3]] = <<arm[1], arm[2]>>

\* The names agree.
LEMMA StaticNamesAgree == \A arm \in StaticNames : NameAt(arm[2], arm[1])
<1>1. /\ NameAt(1, ":authority")
      /\ NameAt(2, ":method")
      /\ NameAt(4, ":path")
      /\ NameAt(6, ":scheme")
      /\ NameAt(8, ":status")
      /\ NameAt(15, "accept-charset")
  BY DEF GetStatic, NameAt
<1>2. /\ NameAt(16, "accept-encoding")
      /\ NameAt(17, "accept-language")
      /\ NameAt(18, "accept-ranges")
      /\ NameAt(19, "accept")
      /\ NameAt(20, "access-control-allow-origin")
      /\ NameAt(21, "age")
  BY DEF GetStatic, NameAt
<1>3. /\ NameAt(22, "allow")
      /\ NameAt(23, "authorization")
      /\ NameAt(24, "cache-control")
      /\ NameAt(25, "content-disposition")
      /\ NameAt(26, "content-encoding")
      /\ NameAt(27, "content-language")
  BY DEF GetStatic, NameAt
<1>4. /\ NameAt(28, "content-length")
      /\ NameAt(29, "content-location")
      /\ NameAt(30, "content-range")
      /\ NameAt(31, "content-type")
      /\ NameAt(32, "cookie")
      /\ NameAt(33, "date")
  BY DEF GetStatic, NameAt
<1>5. /\ NameAt(34, "etag")
      /\ NameAt(35, "expect")
      /\ NameAt(36, "expires")
      /\ NameAt(37, "from")
      /\ NameAt(38, "host")
      /\ NameAt(39, "if-match")
  BY DEF GetStatic, NameAt
<1>6. /\ NameAt(40, "if-modified-since")
      /\ NameAt(41, "if-none-match")
      /\ NameAt(42, "if-range")
      /\ NameAt(43, "if-unmodified-since")
      /\ NameAt(44, "last-modified")
      /\ NameAt(45, "link")
  BY DEF GetStatic, NameAt
<1>7. /\ NameAt(46, "location")
      /\ NameAt(47, "max-forwards")
      /\ NameAt(48, "proxy-authenticate")
      /\ NameAt(49, "proxy-authorization")
      /\ NameAt(50, "range")
      /\ NameAt(51, "referer")
  BY DEF GetStatic, NameAt
<1>8. /\ NameAt(52, "refresh")
      /\ NameAt(53, "retry-after")
      /\ NameAt(54, "server")
      /\ NameAt(55, "set-cookie")
      /\ NameAt(56, "strict-transport-security")
      /\ NameAt(57, "transfer-encoding")
  BY DEF GetStatic, NameAt
<1>9. /\ NameAt(58, "user-agent")
      /\ NameAt(59, "vary")
      /\ NameAt(60, "via")
      /\ NameAt(61, "www-authenticate")
  BY DEF GetStatic, NameAt
<1> QED
  BY <1>1, <1>2, <1>3, <1>4, <1>5, <1>6, <1>7, <1>8, <1>9 DEF StaticNames

\* An arm of index_static() with name and value, by its number.
LEMMA ValueArmIs ==
    ASSUME NEW a, NEW b, NEW k, k \in 1 .. 61, GetStatic[k] = <<a, b>>
    PROVE  ValueArm(<<a, b, k>>)
BY DEF ValueArm

\* The values agree.
LEMMA StaticValuesAgree == \A arm \in StaticValues : ValueArm(arm)
<1>1. /\ ValueArm(<<":method", "GET", 2>>)
      /\ ValueArm(<<":method", "POST", 3>>)
  BY DEF GetStatic, ValueArm
<1>2. /\ ValueArm(<<":path", "/", 4>>)
      /\ ValueArm(<<":path", "/index.html", 5>>)
  BY DEF GetStatic, ValueArm
<1>3. /\ ValueArm(<<":scheme", "http", 6>>)
      /\ ValueArm(<<":scheme", "https", 7>>)
  BY DEF GetStatic, ValueArm
<1>4. /\ ValueArm(<<":status", "200", 8>>)
      /\ ValueArm(<<":status", "204", 9>>)
  BY DEF GetStatic, ValueArm
<1>5. /\ ValueArm(<<":status", "206", 10>>)
      /\ ValueArm(<<":status", "304", 11>>)
  BY DEF GetStatic, ValueArm
<1>6. /\ ValueArm(<<":status", "400", 12>>)
      /\ ValueArm(<<":status", "404", 13>>)
  BY DEF GetStatic, ValueArm
<1>7. ValueArm(<<":status", "500", 14>>)
  BY DEF GetStatic, ValueArm
<1>8. ValueArm(<<"accept-encoding", "gzip, deflate", 16>>)
  <2>1. GetStatic[16] = <<"accept-encoding", "gzip, deflate">>
    BY DEF GetStatic
  <2>2. 16 \in 1 .. 61
    OBVIOUS
  <2> QED
    BY <2>1, <2>2, ValueArmIs, Zenon
<1> QED
  BY <1>1, <1>2, <1>3, <1>4, <1>5, <1>6, <1>7, <1>8 DEF StaticValues

\* What index_static() found, get_static() has.
InStatic(st, name, value) ==
    /\ st.n \in 1 .. 61 /\ GetStatic[st.n][1] = name
    /\ st.full => GetStatic[st.n] = <<name, value>>

\* What index_static() finds is in get_static() under that number.
LEMMA StaticAgrees ==
    ASSUME NEW name, NEW value, NEW st, st = IndexStatic(name, value), st # None
    PROVE  InStatic(st, name, value)
<1> DEFINE full == {arm \in StaticValues : arm[1] = name /\ arm[2] = value}
           named == {arm \in StaticNames : arm[1] = name}
           v == CHOOSE arm \in full : TRUE
           n == CHOOSE arm \in named : TRUE
<1>1. st = IF full # {} THEN [n |-> v[3], full |-> TRUE]
           ELSE IF named # {} THEN [n |-> n[2], full |-> FALSE] ELSE None
  BY DEF IndexStatic
<1>2. full # {} => v \in full
  OBVIOUS
<1>3. named # {} => n \in named
  OBVIOUS
<1> HIDE DEF v, n
<1>4. CASE full # {}
  <2>1. v[1] = name /\ v[2] = value /\ v \in StaticValues
    BY <1>2, <1>4
  <2>2. v[3] \in 1 .. 61 /\ GetStatic[v[3]] = <<name, value>>
    BY <2>1, StaticValuesAgree DEF ValueArm
  <2> DEFINE k == v[3]
  <2> HIDE DEF k
  <2>3. k \in 1 .. 61 /\ GetStatic[k] = <<name, value>>
    BY <2>2 DEF k
  <2>4. st = [n |-> k, full |-> TRUE]
    BY <1>1, <1>4 DEF k
  <2>5. st.n = k
    BY <2>4
  <2>6. GetStatic[k][1] = name
    BY <2>3
  <2> QED
    BY <2>3, <2>5, <2>6 DEF InStatic
<1>5. CASE full = {}
  <2>1. named # {}
    BY <1>1, <1>5
  <2>2. n[1] = name /\ n \in StaticNames
    BY <1>3, <2>1
  <2>3. n[2] \in 1 .. 61 /\ GetStatic[n[2]][1] = name
    BY <2>2, StaticNamesAgree DEF NameAt
  <2> DEFINE k == n[2]
  <2> HIDE DEF k
  <2>4. k \in 1 .. 61 /\ GetStatic[k][1] = name
    BY <2>3 DEF k
  <2>5. st = [n |-> k, full |-> FALSE]
    BY <1>1, <1>5, <2>1 DEF k
  <2>6. st.n = k /\ st.full = FALSE
    BY <2>5
  <2> QED
    BY <2>4, <2>6 DEF InStatic
<1> QED
  BY <1>4, <1>5

(***************************************************************************)
(* The decoder's table.                                                    *)
(***************************************************************************)

\* The header that a decoder has: a name and a value.
Field == [name : DOMAIN NameLen, value : DOMAIN ValueLen]
FieldOf(h) == [name |-> h.name, value |-> h.value]
Fields(s) == [i \in 1 .. Len(s) |-> FieldOf(s[i].header)]

DecTbl(e, z, m) == [entries |-> e, size |-> z, max |-> m]

\* The newest k entries.
Kept(e, k) == [i \in 1 .. k |-> e[i]]

\* f adds up the lengths of the entries, newest first.
Totals(f, e) ==
    /\ f \in [0 .. Len(e) -> Nat] /\ f[0] = 0
    /\ \A i \in 1 .. Len(e) : f[i] = f[i - 1] + HeaderLen(e[i])

\* The table after all but the newest k entries were dropped.
Cut(e, f, m, k) == DecTbl(Kept(e, k), f[k], m)

\* The fields of a decoder's table.
LEMMA DecTblIs ==
    ASSUME NEW e, NEW z, NEW m, NEW d, d = DecTbl(e, z, m)
    PROVE  d.entries = e /\ d.size = z /\ d.max = m
BY DEF DecTbl

Dropped(d, e, z) == [d EXCEPT !.entries = e, !.size = z]

\* A table with other entries.
LEMMA DroppedIs ==
    ASSUME NEW e, NEW z, NEW m, NEW d, d = DecTbl(e, z, m), NEW e1, NEW z1
    PROVE  Dropped(d, e1, z1) = DecTbl(e1, z1, m)
<1>1. \A u : [u EXCEPT !.entries = e1, !.size = z1] = [[u EXCEPT !.entries = e1] EXCEPT !.size = z1]
  OBVIOUS
<1>2. [d EXCEPT !.entries = e1] = DecTbl(e1, z, m)
  BY DEF DecTbl
<1>3. \A u : u = DecTbl(e1, z, m) => [u EXCEPT !.size = z1] = DecTbl(e1, z1, m)
  BY DEF DecTbl
<1> QED
  BY <1>1, <1>2, <1>3, Zenon DEF Dropped

\* The newest entries are a sequence.
LEMMA KeptFacts ==
    ASSUME NEW e, e \in Seq(Field), NEW k, k \in 0 .. Len(e)
    PROVE  /\ Kept(e, k) \in Seq(Field) /\ Len(Kept(e, k)) = k /\ \A i \in 1 .. k : Kept(e, k)[i] = e[i]
<1>1. Len(e) \in Nat /\ k \in Nat /\ k <= Len(e)
  OBVIOUS
<1>2. Kept(e, k) \in [1 .. k -> Field]
  BY <1>1 DEF Kept
<1>3. Kept(e, k) \in Seq(Field) /\ Len(Kept(e, k)) = k
  BY <1>1, <1>2, FunSeq
<1> QED
  BY <1>3 DEF Kept

\* All entries are the newest ones.
LEMMA KeptAll ==
    ASSUME NEW e, e \in Seq(Field)
    PROVE  Kept(e, Len(e)) = e
<1>1. Len(e) \in Nat /\ Len(e) \in 0 .. Len(e)
  OBVIOUS
<1>2. /\ Kept(e, Len(e)) \in Seq(Field) /\ Len(Kept(e, Len(e))) = Len(e)
      /\ \A i \in 1 .. Len(e) : Kept(e, Len(e))[i] = e[i]
  BY <1>1, KeptFacts
<1> QED
  BY <1>2, SeqEqual

\* The last of the newest k entries goes.
LEMMA KeptFront ==
    ASSUME NEW e, e \in Seq(Field), NEW k, k \in 1 .. Len(e)
    PROVE  Front(Kept(e, k)) = Kept(e, k - 1) /\ Last(Kept(e, k)) = e[k] /\ Kept(e, k) # <<>>
<1> DEFINE a == Kept(e, k)
           b == Kept(e, k - 1)
<1>1. k \in 0 .. Len(e) /\ k - 1 \in 0 .. Len(e) /\ k \in 1 .. k /\ \A i \in 1 .. k - 1 : i \in 1 .. k
  OBVIOUS
<1>2. a \in Seq(Field) /\ Len(a) = k /\ \A i \in 1 .. k : a[i] = e[i]
  BY <1>1, KeptFacts
<1>3. b \in Seq(Field) /\ Len(b) = k - 1 /\ \A i \in 1 .. k - 1 : b[i] = e[i]
  BY <1>1, KeptFacts
<1> HIDE DEF a, b
<1>4. Len(a) # 0 /\ a # <<>>
  BY <1>1, <1>2
<1>5. /\ Front(a) \in Seq(Field) /\ Len(Front(a)) = k - 1
      /\ \A i \in 1 .. k - 1 : Front(a)[i] = a[i]
      /\ Last(a) = a[k]
  BY <1>2, <1>4, FrontFacts
<1>6. \A i \in 1 .. Len(b) : Front(a)[i] = b[i]
  BY <1>1, <1>2, <1>3, <1>5
<1>7. Front(a) = b
  BY <1>3, <1>5, <1>6, SeqEqual
<1> QED
  BY <1>1, <1>2, <1>4, <1>5, <1>7 DEF a, b

\* The length of an entry.
LEMMA FieldLen ==
    ASSUME NEW h, h \in Field
    PROVE  HeaderLen(h) \in Nat \ {0}
BY TableAssumption DEF Field, HeaderLen

\* r is the table with the newest k entries, less one if they do not fit.
DropsTo(r, e, f, m, len, k) ==
    r = IF f[k] + len <= m \/ k = 0 THEN Cut(e, f, m, k) ELSE Cut(e, f, m, k - 1)

\* One turn of reserve() and consolidate().
LEMMA DropTurn ==
    ASSUME NEW e, e \in Seq(Field), NEW f, Totals(f, e), NEW m, m \in Nat, NEW len, len \in Nat,
           NEW k, k \in 0 .. Len(e), NEW r, r = DropOver(Cut(e, f, m, k), len)
    PROVE  DropsTo(r, e, f, m, len, k)
<1> DEFINE d == Cut(e, f, m, k)
<1>1. f[k] \in Nat /\ Len(e) \in Nat
  BY DEF Totals
<1>2. d = DecTbl(Kept(e, k), f[k], m)
  BY DEF Cut
<1>3. d.entries = Kept(e, k) /\ d.size = f[k] /\ d.max = m
  BY <1>2, DecTblIs
<1>4. r = DropOver(d, len)
  OBVIOUS
<1> HIDE DEF d
<1>5. CASE f[k] + len <= m
  <2>1. r = d
    BY <1>3, <1>4, <1>5 DEF DropOver
  <2> QED
    BY <1>5, <2>1 DEF d, DropsTo
<1>6. CASE k = 0
  <2>1. Kept(e, 0) = <<>>
    BY DEF Kept
  <2>2. r = d
    BY <1>3, <1>4, <1>6, <2>1 DEF DropOver
  <2> QED
    BY <1>6, <2>2 DEF d, DropsTo
<1>7. CASE ~(f[k] + len <= m) /\ k # 0
  <2>1. k \in 1 .. Len(e) /\ k - 1 \in 0 .. Len(e)
    BY <1>1, <1>7
  <2>2. Front(d.entries) = Kept(e, k - 1) /\ Last(d.entries) = e[k] /\ d.entries # <<>>
    BY <1>3, <2>1, KeptFront
  <2>3. f[k] = f[k - 1] + HeaderLen(e[k]) /\ f[k - 1] \in Nat
    BY <2>1 DEF Totals
  <2>4. HeaderLen(e[k]) \in Nat
    <3>1. e[k] \in Field
      BY <2>1
    <3> QED
      BY <3>1, FieldLen
  <2>5. f[k] - HeaderLen(e[k]) = f[k - 1]
    BY <2>3, <2>4
  <2>6. ~(d.size + len <= d.max \/ d.entries = <<>>)
    BY <1>3, <1>7, <2>2
  <2>7. r = [d EXCEPT !.entries = Front(d.entries), !.size = d.size - HeaderLen(Last(d.entries))]
    BY <1>4, <2>6 DEF DropOver
  <2>8. r = Dropped(d, Kept(e, k - 1), f[k - 1])
    BY <1>3, <2>2, <2>5, <2>7 DEF Dropped
  <2>9. r = DecTbl(Kept(e, k - 1), f[k - 1], m)
    BY <1>2, <2>8, DroppedIs
  <2> QED
    BY <1>7, <2>9 DEF Cut, DropsTo
<1> QED
  BY <1>5, <1>6, <1>7

\* The turns of reserve() and consolidate().
LEMMA ReserveTurns ==
    ASSUME NEW d, NEW len, NEW n, n \in Nat, n = Len(d.entries)
    PROVE  \E g : /\ g[0] = d /\ \A k \in 1 .. n : g[k] = DropOver(g[k - 1], len)
                  /\ DecReserve(d, len) = g[n]
<1> DEFINE Eq(m, g) == g = [k \in 0 .. m |-> IF k = 0 THEN d ELSE DropOver(g[k - 1], len)]
           S == {m \in 0 .. n : \E g : Eq(m, g)}
           c == CHOOSE g : Eq(n, g)
<1>1. 0 \in S
  <2> DEFINE g == [k \in 0 .. 0 |-> d]
  <2>1. Eq(0, g)
    OBVIOUS
  <2> HIDE DEF Eq
  <2> QED
    BY <2>1
<1>2. ASSUME NEW m \in 1 .. n, m - 1 \in S
      PROVE  m \in S
  <2>1. PICK g : Eq(m - 1, g)
    BY <1>2
  <2> DEFINE h == [k \in 0 .. m |-> IF k = m THEN DropOver(g[m - 1], len) ELSE g[k]]
  <2>2. m \in 0 .. n /\ m \in Nat /\ m # 0
    OBVIOUS
  <2>3. ASSUME NEW k \in 0 .. m
        PROVE  h[k] = IF k = 0 THEN d ELSE DropOver(h[k - 1], len)
    <3>1. CASE k = m
      <4>1. m - 1 \in 0 .. m /\ m - 1 # m
        BY <2>2
      <4>2. h[m - 1] = g[m - 1]
        BY <4>1
      <4>3. h[m] = DropOver(g[m - 1], len)
        BY <2>2
      <4> QED
        BY <2>2, <3>1, <4>2, <4>3
    <3>2. CASE k # m /\ k # 0
      <4>1. k \in 0 .. m - 1 /\ k - 1 \in 0 .. m /\ k - 1 # m
        BY <2>2, <3>2
      <4>2. h[k] = g[k] /\ h[k - 1] = g[k - 1]
        BY <3>2, <4>1
      <4>3. g[k] = DropOver(g[k - 1], len)
        BY <2>1, <3>2, <4>1
      <4> QED
        BY <3>2, <4>2, <4>3
    <3>3. CASE k = 0
      <4>1. h[0] = g[0] /\ g[0] = d
        BY <2>1, <2>2
      <4> QED
        BY <3>3, <4>1
    <3> QED
      BY <3>1, <3>2, <3>3
  <2>4. h = [k \in 0 .. m |-> h[k]]
    OBVIOUS
  <2> HIDE DEF h
  <2>5. Eq(m, h)
    BY <2>3, <2>4
  <2> HIDE DEF Eq
  <2> QED
    BY <2>2, <2>5
<1>3. n \in S
  <2> HIDE DEF S
  <2>1. \A k \in 0 .. n : k \in S
    BY <1>1, <1>2, UpTo
  <2> QED
    BY <2>1
<1>4. Eq(n, c)
  <2> HIDE DEF Eq
  <2> QED
    BY <1>3
<1>5. DecReserve(d, len) = c[n]
  BY DEF DecReserve
<1> HIDE DEF c
<1>6. c[0] = d /\ \A k \in 1 .. n : c[k] = DropOver(c[k - 1], len)
  BY <1>4
<1> QED
  BY <1>5, <1>6

\* The last entries that do not fit are dropped, no more.
Fitting(f, n, m, len, k) ==
    /\ k \in 0 .. n /\ (f[k] + len <= m \/ k = 0)
    /\ k < n => f[k + 1] + len > m

\* r is what is left when len more bytes have to fit.
CutTo(r, e, f, m, len) == \E k : Fitting(f, Len(e), m, len, k) /\ r = Cut(e, f, m, k)

\* reserve() and consolidate() drop what does not fit.
LEMMA ReserveCuts ==
    ASSUME NEW e, e \in Seq(Field), NEW f, Totals(f, e), NEW m, m \in Nat, NEW len, len \in Nat,
           NEW d, d = DecTbl(e, f[Len(e)], m), NEW r, r = DecReserve(d, len)
    PROVE  CutTo(r, e, f, m, len)
<1> DEFINE n == Len(e)
<1>1. n \in Nat /\ f \in [0 .. n -> Nat]
  BY DEF Totals
<1>2. d.entries = e
  BY DecTblIs
<1>3. d = Cut(e, f, m, n)
  BY KeptAll DEF Cut
<1>4. PICK g : /\ g[0] = d /\ \A k \in 1 .. n : g[k] = DropOver(g[k - 1], len)
               /\ DecReserve(d, len) = g[n]
  <2>1. n = Len(d.entries)
    BY <1>2
  <2> HIDE DEF n
  <2> QED
    BY <1>1, <2>1, ReserveTurns
<1> DEFINE Upto(j, k) == /\ k \in 0 .. n /\ g[j] = Cut(e, f, m, k)
                         /\ k < n => f[k + 1] + len > m
                         /\ f[k] + len <= m \/ k = 0 \/ k = n - j
           S == {j \in 0 .. n : \E k : Upto(j, k)}
<1>5. 0 \in S
  <2>1. Upto(0, n)
    BY <1>1, <1>3, <1>4
  <2> HIDE DEF Upto
  <2> QED
    BY <1>1, <2>1
<1>6. ASSUME NEW j \in 1 .. n, j - 1 \in S
      PROVE  j \in S
  <2>1. PICK k : Upto(j - 1, k)
    BY <1>6
  <2>2. /\ k \in 0 .. n /\ g[j - 1] = Cut(e, f, m, k) /\ (k < n => f[k + 1] + len > m)
        /\ f[k] + len <= m \/ k = 0 \/ k = n - (j - 1)
    BY <2>1
  <2>3. g[j] = DropOver(Cut(e, f, m, k), len)
    BY <1>4, <2>2
  <2>4. /\ f[k] + len <= m \/ k = 0 => g[j] = Cut(e, f, m, k)
        /\ ~(f[k] + len <= m \/ k = 0) => g[j] = Cut(e, f, m, k - 1)
    <3>1. k \in 0 .. Len(e)
      BY <2>2
    <3> DEFINE u == g[j]
    <3>2. u = DropOver(Cut(e, f, m, k), len)
      BY <2>3
    <3>3. DropsTo(u, e, f, m, len, k)
      <4> HIDE DEF n, u, S, Upto
      <4> QED
        BY <3>1, <3>2, DropTurn
    <3> QED
      BY <3>3 DEF DropsTo
  <2>5. CASE f[k] + len <= m \/ k = 0
    <3>1. Upto(j, k)
      BY <2>2, <2>4, <2>5
    <3> HIDE DEF Upto
    <3> QED
      BY <3>1
  <2>6. CASE ~(f[k] + len <= m \/ k = 0)
    <3>1. f[k] \in Nat
      BY <1>1, <2>2
    <3>2. k - 1 \in 0 .. n /\ (k - 1) + 1 = k /\ f[k] + len > m /\ k - 1 = n - j
      BY <1>1, <2>2, <2>6, <3>1
    <3>3. Upto(j, k - 1)
      BY <2>4, <2>6, <3>2
    <3> HIDE DEF Upto
    <3> QED
      BY <3>3
  <2> QED
    BY <2>5, <2>6
<1>7. n \in S
  <2> HIDE DEF S, n
  <2>1. \A k \in 0 .. n : k \in S
    BY <1>1, <1>5, <1>6, UpTo
  <2> QED
    BY <1>1, <2>1
<1>8. PICK k : Upto(n, k)
  BY <1>7
<1>9. Fitting(f, n, m, len, k) /\ r = Cut(e, f, m, k)
  BY <1>1, <1>4, <1>8 DEF Fitting
<1> QED
  BY <1>9 DEF CutTo

\* The totals grow.
LEMMA TotalsGrow ==
    ASSUME NEW e, e \in Seq(Field), NEW f, Totals(f, e), NEW i, i \in 0 .. Len(e), NEW j, j \in i .. Len(e)
    PROVE  f[i] <= f[j]
<1> DEFINE n == Len(e)
           S == {k \in 0 .. n : i <= k => f[i] <= f[k]}
<1>1. n \in Nat /\ f \in [0 .. n -> Nat] /\ \A k \in 1 .. n : f[k] = f[k - 1] + HeaderLen(e[k])
  BY DEF Totals
<1>2. 0 \in S
  BY <1>1
<1>3. ASSUME NEW k \in 1 .. n, k - 1 \in S
      PROVE  k \in S
  <2>1. HeaderLen(e[k]) \in Nat \ {0}
    <3>1. e[k] \in Field
      OBVIOUS
    <3> QED
      BY <3>1, FieldLen
  <2>5. k \in 0 .. n /\ k - 1 \in 0 .. n /\ i \in 0 .. n
    BY <1>1
  <2>2. f[k] = f[k - 1] + HeaderLen(e[k]) /\ k \in 0 .. n /\ f[k - 1] \in Nat /\ f[k] \in Nat /\ f[i] \in Nat
    BY <1>1, <2>5
  <2>3. i <= k - 1 => f[i] <= f[k - 1]
    BY <1>3
  <2>4. i <= k => f[i] <= f[k]
    <3>1. CASE i = k
      BY <2>2, <3>1
    <3>2. CASE i # k
      BY <2>1, <2>2, <2>3, <3>2
    <3> QED
      BY <3>1, <3>2
  <2> QED
    BY <2>2, <2>4
<1>4. \A k \in 0 .. n : k \in S
  <2> HIDE DEF S
  <2> QED
    BY <1>1, <1>2, <1>3, UpTo
<1>5. j \in 0 .. n /\ i <= j
  BY <1>1
<1> QED
  BY <1>4, <1>5

\* What fits is unique.
LEMMA FittingIs ==
    ASSUME NEW e, e \in Seq(Field), NEW f, Totals(f, e), NEW m, m \in Nat, NEW len, len \in Nat, len <= m,
           NEW k, Fitting(f, Len(e), m, len, k),
           NEW j, j \in 0 .. Len(e), f[j] + len <= m, j < Len(e) => f[j + 1] + len > m
    PROVE  k = j
<1> DEFINE n == Len(e)
<1>1. n \in Nat /\ f \in [0 .. n -> Nat] /\ f[0] = 0
  BY DEF Totals
<1>2. k \in 0 .. n /\ f[k] + len <= m /\ (k < n => f[k + 1] + len > m)
  BY <1>1 DEF Fitting
<1>3. ASSUME k < j PROVE FALSE
  <2>1. k + 1 \in 0 .. n /\ j \in k + 1 .. n /\ k < n
    BY <1>1, <1>2, <1>3
  <2>2. f[k + 1] <= f[j]
    BY <2>1, TotalsGrow
  <2>3. f[k + 1] \in Nat /\ f[j] \in Nat
    BY <1>1, <2>1
  <2> QED
    BY <1>2, <2>1, <2>2, <2>3
<1>4. ASSUME j < k PROVE FALSE
  <2>1. j + 1 \in 0 .. n /\ k \in j + 1 .. n /\ j < n
    BY <1>1, <1>2, <1>4
  <2>2. f[j + 1] <= f[k]
    BY <2>1, TotalsGrow
  <2>3. f[j + 1] \in Nat /\ f[k] \in Nat
    BY <1>1, <1>2, <2>1
  <2> QED
    BY <1>2, <2>1, <2>2, <2>3
<1> QED
  BY <1>1, <1>2, <1>3, <1>4

\* The decoder's table d is the encoder's table t.
InStep(d, t) == d = DecTbl(Fields(t.slots), t.size, t.max)

\* What the decoder has of a header.
LEMMA FieldOfFacts ==
    ASSUME NEW h, h \in Header
    PROVE  FieldOf(h) \in Field /\ HeaderLen(FieldOf(h)) = HeaderLen(h)
           /\ FieldOf(h).name = h.name /\ FieldOf(h).value = h.value
BY DEF FieldOf, Header, Field, HeaderLen

\* What the decoder has of the slots.
LEMMA FieldsFacts ==
    ASSUME NEW s, s \in Seq(SlotRec)
    PROVE  /\ Fields(s) \in Seq(Field) /\ Len(Fields(s)) = Len(s) /\ Len(s) \in Nat
           /\ \A i \in 1 .. Len(s) : /\ Fields(s)[i] = FieldOf(s[i].header)
                                     /\ HeaderLen(Fields(s)[i]) = HeaderLen(s[i].header)
                                     /\ HeaderLen(s[i].header) \in Nat \ {0}
<1>1. \A i \in 1 .. Len(s) : s[i].header \in Header /\ HeaderLen(s[i].header) \in Nat \ {0}
  BY SlotHeader
<1>2. \A i \in 1 .. Len(s) : FieldOf(s[i].header) \in Field /\ HeaderLen(FieldOf(s[i].header)) = HeaderLen(s[i].header)
  BY <1>1, FieldOfFacts
<1>3. \A i \in 1 .. Len(s) : Fields(s)[i] = FieldOf(s[i].header)
  BY DEF Fields
<1>4. Len(s) \in Nat /\ Fields(s) \in [1 .. Len(s) -> Field]
  BY <1>2 DEF Fields
<1>5. Fields(s) \in Seq(Field) /\ Len(Fields(s)) = Len(s)
  BY <1>4, FunSeq
<1> QED
  BY <1>1, <1>2, <1>3, <1>4, <1>5

\* The sizes of both tables are added up in the same way.
LEMMA TotalsOf ==
    ASSUME NEW s, s \in Seq(SlotRec), NEW z, Sums(s, z)
    PROVE  \E f : Totals(f, Fields(s)) /\ f[Len(s)] = z
<1>1. PICK f : Adds(f, s) /\ f[Len(s)] = z
  BY DEF Sums
<1>2. /\ Len(Fields(s)) = Len(s)
      /\ \A i \in 1 .. Len(s) : HeaderLen(Fields(s)[i]) = HeaderLen(s[i].header)
  BY FieldsFacts
<1>3. Totals(f, Fields(s))
  BY <1>1, <1>2 DEF Adds, Totals
<1> QED
  BY <1>1, <1>3

\* The total of the newest headers.
LEMMA TotalOfKept ==
    ASSUME NEW s, s \in Seq(SlotRec), NEW f, Totals(f, Fields(s)), NEW r, r \in Seq(SlotRec), Len(r) <= Len(s),
           \A i \in 1 .. Len(r) : r[i].header = s[i].header, NEW z, Sums(r, z)
    PROVE  z = f[Len(r)]
<1>1. PICK g : Adds(g, r) /\ g[Len(r)] = z
  BY DEF Sums
<1> DEFINE n == Len(r)
           S == {k \in 0 .. n : g[k] = f[k]}
<1>2. /\ Len(Fields(s)) = Len(s) /\ Len(s) \in Nat /\ n \in Nat
      /\ \A i \in 1 .. Len(s) : HeaderLen(Fields(s)[i]) = HeaderLen(s[i].header)
  BY FieldsFacts
<1>3. f[0] = 0 /\ \A i \in 1 .. Len(s) : f[i] = f[i - 1] + HeaderLen(s[i].header)
  BY <1>2 DEF Totals
<1>4. g[0] = 0 /\ \A i \in 1 .. n : g[i] = g[i - 1] + HeaderLen(r[i].header)
  BY <1>1 DEF Adds
<1>5. 0 \in S
  BY <1>2, <1>3, <1>4
<1>6. ASSUME NEW k \in 1 .. n, k - 1 \in S
      PROVE  k \in S
  <2>1. k \in 1 .. Len(s) /\ k \in 0 .. n
    BY <1>2
  <2>2. f[k] = f[k - 1] + HeaderLen(s[k].header) /\ g[k] = g[k - 1] + HeaderLen(r[k].header)
    BY <1>3, <1>4, <2>1
  <2>3. r[k].header = s[k].header /\ g[k - 1] = f[k - 1]
    BY <1>6
  <2> QED
    BY <2>1, <2>2, <2>3
<1>7. \A k \in 0 .. n : k \in S
  <2> HIDE DEF S, n
  <2> QED
    BY <1>2, <1>5, <1>6, UpTo
<1> QED
  BY <1>1, <1>2, <1>7

\* The total of a new header and the newest ones.
LEMMA TotalOfInserted ==
    ASSUME NEW s, s \in Seq(SlotRec), NEW f, Totals(f, Fields(s)),
           NEW w, w \in Seq(SlotRec), Len(w) # 0, Len(w) <= Len(s) + 1,
           \A i \in 1 .. Len(w) - 1 : w[i + 1].header = s[i].header, NEW z, Sums(w, z)
    PROVE  z = HeaderLen(w[1].header) + f[Len(w) - 1]
<1>1. PICK g : Adds(g, w) /\ g[Len(w)] = z
  BY DEF Sums
<1> DEFINE n == Len(w) - 1
           x == HeaderLen(w[1].header)
           S == {k \in 0 .. n : g[k + 1] = x + f[k]}
<1>2. /\ Len(Fields(s)) = Len(s) /\ Len(s) \in Nat /\ n \in Nat /\ n <= Len(s) /\ Len(w) = n + 1
      /\ \A i \in 1 .. Len(s) : HeaderLen(Fields(s)[i]) = HeaderLen(s[i].header) /\ HeaderLen(s[i].header) \in Nat
  BY FieldsFacts
<1>3. f \in [0 .. Len(s) -> Nat] /\ f[0] = 0 /\ \A i \in 1 .. Len(s) : f[i] = f[i - 1] + HeaderLen(s[i].header)
  BY <1>2 DEF Totals
<1>4. g \in [0 .. n + 1 -> Nat] /\ g[0] = 0 /\ \A i \in 1 .. n + 1 : g[i] = g[i - 1] + HeaderLen(w[i].header)
  BY <1>1, <1>2 DEF Adds
<1>8. x \in Nat
  <2>1. 1 \in 1 .. Len(w)
    BY <1>2
  <2> QED
    BY <2>1, SlotHeader
<1>9. x = HeaderLen(w[1].header)
  OBVIOUS
<1> HIDE DEF x, n
<1>5. 0 \in S
  <2>1. 1 \in 1 .. n + 1 /\ 0 \in 0 .. n
    BY <1>2
  <2>2. g[1] = g[1 - 1] + x
    BY <1>4, <1>9, <2>1
  <2>3. g[0 + 1] = x + f[0]
    BY <1>3, <1>4, <1>8, <2>2
  <2> QED
    BY <2>1, <2>3
<1>6. ASSUME NEW k \in 1 .. n, k - 1 \in S
      PROVE  k \in S
  <2>1. k \in 1 .. Len(s) /\ k \in 0 .. n /\ k + 1 \in 1 .. n + 1 /\ (k + 1) - 1 = k /\ (k - 1) + 1 = k /\ k - 1 \in 0 .. Len(s)
    BY <1>2
  <2>2. f[k] = f[k - 1] + HeaderLen(s[k].header) /\ g[k + 1] = g[k] + HeaderLen(w[k + 1].header)
    BY <1>3, <1>4, <2>1
  <2>3. w[k + 1].header = s[k].header
    BY <1>2
  <2>4. g[k] = x + f[k - 1]
    BY <1>6, <2>1
  <2>5. f[k - 1] \in Nat /\ HeaderLen(s[k].header) \in Nat
    BY <1>2, <1>3, <2>1
  <2>6. g[k + 1] = x + f[k]
    BY <1>8, <2>2, <2>3, <2>4, <2>5
  <2> QED
    BY <2>1, <2>6
<1>7. \A k \in 0 .. n : k \in S
  <2> HIDE DEF S
  <2> QED
    BY <1>2, <1>5, <1>6, UpTo
<1>10. g[n + 1] = x + f[n]
  BY <1>2, <1>7
<1> QED
  BY <1>1, <1>2, <1>10 DEF x, n

\* What a valid table is to the decoder.
LEMMA ValidParts ==
    ASSUME NEW t, Valid(t)
    PROVE  /\ t.slots \in Seq(SlotRec) /\ Len(t.slots) \in Nat /\ t.max \in Nat /\ t.size \in Nat
           /\ Sums(t.slots, t.size) /\ t.size <= t.max /\ Len(t.slots) <= t.size
<1>1. t \in TableSet(t.cap) /\ Sums(t.slots, t.size) /\ t.size <= t.max
  BY DEF Valid
<1>2. t.slots \in Seq(SlotRec) /\ t.max \in Nat
  BY <1>1, TblFields
<1>3. Len(t.slots) \in Nat
  BY <1>2
<1> QED
  BY <1>1, <1>2, <1>3, SumsBound

\* The newest headers at the decoder are those of a table that has them.
LEMMA KeptFields ==
    ASSUME NEW s, s \in Seq(SlotRec), NEW r, r \in Seq(SlotRec), Len(r) <= Len(s),
           \A i \in 1 .. Len(r) : r[i].header = s[i].header
    PROVE  Kept(Fields(s), Len(r)) = Fields(r)
<1> DEFINE a == Kept(Fields(s), Len(r))
           b == Fields(r)
<1>1. /\ Fields(s) \in Seq(Field) /\ Len(Fields(s)) = Len(s) /\ Len(s) \in Nat
      /\ \A i \in 1 .. Len(s) : Fields(s)[i] = FieldOf(s[i].header)
  BY FieldsFacts
<1>2. /\ b \in Seq(Field) /\ Len(b) = Len(r) /\ Len(r) \in Nat
      /\ \A i \in 1 .. Len(r) : b[i] = FieldOf(r[i].header)
  BY FieldsFacts
<1>3. Len(r) \in 0 .. Len(Fields(s)) /\ \A i \in 1 .. Len(r) : i \in 1 .. Len(s)
  BY <1>1, <1>2
<1>4. a \in Seq(Field) /\ Len(a) = Len(r) /\ \A i \in 1 .. Len(r) : a[i] = Fields(s)[i]
  BY <1>1, <1>3, KeptFacts
<1> HIDE DEF a, b
<1>5. \A i \in 1 .. Len(r) : a[i] = b[i]
  BY <1>1, <1>2, <1>3, <1>4
<1>6. a = b
  BY <1>2, <1>4, <1>5, SeqEqual
<1> QED
  BY <1>6 DEF a, b

\* set_max_size() drops at the decoder what resize() evicts at the encoder.
LEMMA ShrinkInStep ==
    ASSUME NEW t, Valid(t), NEW d, InStep(d, t), NEW m, m \in Nat, NEW r, Valid(r), Shrinks(r, t, m)
    PROVE  InStep(DecSetMaxSize(d, m), r)
<1> DEFINE s == t.slots
           e == Fields(s)
           j == Len(r.slots)
           n == Len(s)
<1>1. /\ s \in Seq(SlotRec) /\ n \in Nat /\ t.max \in Nat /\ t.size \in Nat /\ Sums(s, t.size)
  BY ValidParts
<1>2. /\ r.slots \in Seq(SlotRec) /\ j \in Nat /\ r.size \in Nat /\ r.size <= r.max /\ Sums(r.slots, r.size)
  BY ValidParts
<1>3. /\ r.max = m /\ j <= n /\ \A i \in 1 .. j : r.slots[i].header = s[i].header
      /\ j < n => r.size + HeaderLen(s[j + 1].header) > m
  BY DEF Shrinks
<1>4. /\ e \in Seq(Field) /\ Len(e) = n
      /\ \A i \in 1 .. n : HeaderLen(e[i]) = HeaderLen(s[i].header)
  BY <1>1, FieldsFacts
<1>5. PICK f : Totals(f, e) /\ f[n] = t.size
  BY <1>1, TotalsOf
<1>6. Kept(e, j) = Fields(r.slots) /\ r.size = f[j]
  <2> DEFINE u == r.slots
  <2> HIDE DEF s, n, j
  <2>1. /\ s \in Seq(SlotRec) /\ u \in Seq(SlotRec) /\ Len(u) = j /\ j <= Len(s) /\ Sums(u, r.size)
        /\ \A i \in 1 .. Len(u) : u[i].header = s[i].header
    BY <1>1, <1>2, <1>3 DEF n, j
  <2>2. Totals(f, Fields(s))
    BY <1>5
  <2> HIDE DEF u, e
  <2>3. Kept(Fields(s), Len(u)) = Fields(u)
    BY <2>1, KeptFields
  <2>4. r.size = f[Len(u)]
    BY <2>1, <2>2, TotalOfKept
  <2> QED
    BY <2>1, <2>3, <2>4 DEF u, e
<1> DEFINE d1 == WithMax(d, m)
<1>7. d1 = DecTbl(e, f[Len(e)], m)
  <2>1. d = DecTbl(e, t.size, t.max)
    BY DEF InStep
  <2> HIDE DEF e
  <2>2. [d EXCEPT !.max = m] = DecTbl(e, t.size, m)
    BY <2>1 DEF DecTbl
  <2> QED
    BY <1>4, <1>5, <2>2 DEF WithMax
<1> DEFINE x == DecReserve(d1, 0)
<1>8. DecSetMaxSize(d, m) = x
  BY DEF DecSetMaxSize, WithMax
<1>9. x = DecReserve(d1, 0)
  OBVIOUS
<1> HIDE DEF x, d1, e, s
<1>10. PICK k : Fitting(f, Len(e), m, 0, k) /\ x = Cut(e, f, m, k)
  <2>1. e \in Seq(Field) /\ Totals(f, e) /\ m \in Nat /\ 0 \in Nat
    BY <1>4, <1>5
  <2> HIDE DEF j, n
  <2>2. CutTo(x, e, f, m, 0)
    BY <1>7, <1>9, <2>1, ReserveCuts
  <2> QED
    BY <2>2 DEF CutTo
<1>11. k = j
  <2>1. j \in 0 .. Len(e) /\ 0 \in Nat /\ 0 <= m
    BY <1>1, <1>2, <1>3, <1>4
  <2>2. f[j] + 0 <= m
    BY <1>2, <1>3, <1>6
  <2>3. j < Len(e) => f[j + 1] + 0 > m
    <3> SUFFICES ASSUME j < Len(e) PROVE f[j + 1] + 0 > m
      OBVIOUS
    <3>1. j + 1 \in 1 .. n /\ (j + 1) - 1 = j /\ j < n
      BY <1>1, <1>2, <1>4
    <3>2. f[j + 1] = f[j] + HeaderLen(s[j + 1].header)
      BY <1>4, <1>5, <3>1 DEF Totals
    <3>4. f[j + 1] \in Nat
      BY <1>4, <1>5, <3>1 DEF Totals
    <3>3. f[j + 1] > m
      BY <1>3, <1>6, <3>1, <3>2
    <3> QED
      BY <3>3, <3>4
  <2> HIDE DEF j, n
  <2> QED
    BY <1>4, <1>5, <1>10, <2>1, <2>2, <2>3, FittingIs
<1>12. x = DecTbl(Fields(r.slots), r.size, r.max)
  BY <1>3, <1>6, <1>10, <1>11 DEF Cut
<1> QED
  BY <1>8, <1>12 DEF InStep

\* The newest header and those that stay.
LEMMA AheadFields ==
    ASSUME NEW s, s \in Seq(SlotRec), NEW w, w \in Seq(SlotRec), Len(w) # 0, Len(w) <= Len(s) + 1,
           \A i \in 1 .. Len(w) - 1 : w[i + 1].header = s[i].header
    PROVE  <<FieldOf(w[1].header)>> \o Kept(Fields(s), Len(w) - 1) = Fields(w)
<1> DEFINE k == Len(w) - 1
           x == FieldOf(w[1].header)
           a == Kept(Fields(s), k)
           b == Fields(w)
           c == <<x>> \o a
<1>1. /\ Fields(s) \in Seq(Field) /\ Len(Fields(s)) = Len(s) /\ Len(s) \in Nat
      /\ \A i \in 1 .. Len(s) : Fields(s)[i] = FieldOf(s[i].header)
  BY FieldsFacts
<1>2. /\ b \in Seq(Field) /\ Len(b) = Len(w) /\ Len(w) \in Nat
      /\ \A i \in 1 .. Len(w) : b[i] = FieldOf(w[i].header)
  BY FieldsFacts
<1>3. k \in 0 .. Len(Fields(s)) /\ (\A i \in 1 .. k : i \in 1 .. Len(s)) /\ Len(w) = k + 1
  BY <1>1, <1>2
<1>4. a \in Seq(Field) /\ Len(a) = k /\ \A i \in 1 .. k : a[i] = Fields(s)[i]
  BY <1>1, <1>3, KeptFacts, ZenonT(30)
<1>5. x \in Field /\ x = b[1]
  <2>1. 1 \in 1 .. Len(w)
    BY <1>2
  <2>2. w[1].header \in Header
    BY <2>1, SlotHeader
  <2> QED
    BY <1>2, <2>1, <2>2, FieldOfFacts
<1>8. c = <<x>> \o a
  OBVIOUS
<1> HIDE DEF a, b, x, k
<1>6. c \in Seq(Field) /\ Len(c) = k + 1 /\ c[1] = x /\ \A i \in 2 .. k + 1 : c[i] = a[i - 1]
  BY <1>4, <1>5, PrependFacts
<1> HIDE DEF c
<1>7. \A i \in 1 .. k + 1 : c[i] = b[i]
  <2> SUFFICES ASSUME NEW i \in 1 .. k + 1 PROVE c[i] = b[i]
    OBVIOUS
  <2>1. CASE i = 1
    BY <1>5, <1>6, <2>1
  <2>2. CASE i # 1
    <3>1. i \in 2 .. k + 1 /\ i - 1 \in 1 .. k /\ (i - 1) + 1 = i /\ i \in 1 .. Len(w)
      BY <1>3, <2>2
    <3>2. c[i] = FieldOf(s[i - 1].header)
      BY <1>1, <1>3, <1>4, <1>6, <3>1
    <3>3. w[i].header = s[i - 1].header
      <4>1. i - 1 \in 1 .. Len(w) - 1
        BY <1>3, <3>1
      <4> QED
        BY <3>1, <4>1
    <3> QED
      BY <1>2, <3>1, <3>2, <3>3
  <2> QED
    BY <2>1, <2>2
<1>9. c = b
  BY <1>2, <1>3, <1>6, <1>7, SeqEqual
<1> QED
  BY <1>8, <1>9 DEF a, b, c, x, k

\* insert() of the decoder drops what the encoder evicts.
LEMMA InsertInStep ==
    ASSUME NEW t, Valid(t), NEW d, InStep(d, t), NEW h, h \in Header, HeaderLen(h) <= t.max,
           NEW w, Valid(w), Inserts(w, t, h)
    PROVE  InStep(DecInsert(d, FieldOf(h)), w)
<1> DEFINE s == t.slots
           e == Fields(s)
           j == Len(w.slots) - 1
           n == Len(s)
           m == t.max
           len == HeaderLen(h)
           x == FieldOf(h)
<1>1. /\ s \in Seq(SlotRec) /\ n \in Nat /\ m \in Nat /\ t.size \in Nat /\ Sums(s, t.size)
  BY ValidParts
<1>2. /\ w.slots \in Seq(SlotRec) /\ Len(w.slots) \in Nat /\ w.size \in Nat /\ w.size <= w.max /\ Sums(w.slots, w.size)
  BY ValidParts
<1>3. /\ w.max = m /\ Len(w.slots) \in 1 .. n + 1 /\ w.slots[1].header = h
      /\ \A i \in 1 .. j : w.slots[i + 1].header = s[i].header
      /\ Len(w.slots) <= n => w.size + HeaderLen(s[Len(w.slots)].header) > m
  BY DEF Inserts
<1>13. j \in Nat /\ j <= n /\ Len(w.slots) = j + 1 /\ (j < n => w.size + HeaderLen(s[j + 1].header) > m)
  BY <1>1, <1>2, <1>3
<1>4. /\ e \in Seq(Field) /\ Len(e) = n
      /\ \A i \in 1 .. n : HeaderLen(e[i]) = HeaderLen(s[i].header) /\ HeaderLen(s[i].header) \in Nat \ {0}
  BY <1>1, FieldsFacts
<1>14. len \in Nat \ {0} /\ x \in Field /\ HeaderLen(x) = len
  BY HeaderLenType, FieldOfFacts
<1>5. PICK f : Totals(f, e) /\ f[n] = t.size
  BY <1>1, TotalsOf
<1>15. f[j] \in Nat
  BY <1>1, <1>4, <1>5, <1>13, SMTT(30) DEF Totals
<1>6. <<x>> \o Kept(e, j) = Fields(w.slots) /\ w.size = len + f[j]
  <2> DEFINE u == w.slots
  <2>1. /\ s \in Seq(SlotRec) /\ u \in Seq(SlotRec) /\ Len(u) # 0 /\ Len(u) <= Len(s) + 1 /\ Sums(u, w.size)
        /\ \A i \in 1 .. Len(u) - 1 : u[i + 1].header = s[i].header
    BY <1>1, <1>2, <1>3
  <2>2. Totals(f, Fields(s)) /\ u[1].header = h /\ Len(u) - 1 = j
    BY <1>3, <1>5
  <2> HIDE DEF u, e, s, j
  <2>3. <<FieldOf(u[1].header)>> \o Kept(Fields(s), Len(u) - 1) = Fields(u)
    BY <2>1, AheadFields
  <2>4. w.size = HeaderLen(u[1].header) + f[Len(u) - 1]
    BY <2>1, <2>2, TotalOfInserted
  <2> QED
    BY <2>2, <2>3, <2>4 DEF u, e, x, len
<1>7. d = DecTbl(e, f[Len(e)], m)
  <2>1. d = DecTbl(e, t.size, m)
    BY DEF InStep
  <2> QED
    BY <1>4, <1>5, <2>1
<1> DEFINE room == DecReserve(d, len)
<1>8. room = DecReserve(d, len)
  OBVIOUS
<1> HIDE DEF room, e, s, m, len
<1>10. PICK k : Fitting(f, Len(e), m, len, k) /\ room = Cut(e, f, m, k)
  <2>1. e \in Seq(Field) /\ Totals(f, e) /\ m \in Nat /\ len \in Nat
    BY <1>1, <1>4, <1>5, <1>14
  <2> HIDE DEF j, n
  <2>2. CutTo(room, e, f, m, len)
    BY <1>7, <1>8, <2>1, ReserveCuts
  <2> QED
    BY <2>2 DEF CutTo
<1>11. k = j
  <2>1. j \in 0 .. Len(e) /\ len \in Nat /\ len <= m
    BY <1>1, <1>4, <1>13, <1>14 DEF len, m
  <2>2. f[j] + len <= m
    BY <1>2, <1>3, <1>6, <1>14, <1>15
  <2>3. j < Len(e) => f[j + 1] + len > m
    <3> SUFFICES ASSUME j < Len(e) PROVE f[j + 1] + len > m
      OBVIOUS
    <3>1. j + 1 \in 1 .. n /\ (j + 1) - 1 = j /\ j < n
      BY <1>1, <1>4, <1>13
    <3>2. f[j + 1] = f[j] + HeaderLen(s[j + 1].header) /\ HeaderLen(s[j + 1].header) \in Nat
      BY <1>4, <1>5, <3>1 DEF Totals
    <3>3. w.size + HeaderLen(s[j + 1].header) > m
      BY <1>13, <3>1
    <3> HIDE DEF j, n
    <3> QED
      BY <1>1, <1>6, <1>14, <1>15, <3>2, <3>3
  <2> HIDE DEF j, n
  <2> QED
    BY <1>1, <1>4, <1>5, <1>10, <2>1, <2>2, <2>3, FittingIs
<1>12. room = DecTbl(Kept(e, j), f[j], m)
  BY <1>10, <1>11 DEF Cut
<1> HIDE DEF j, n
<1>16. room.entries = Kept(e, j) /\ room.size = f[j] /\ room.max = m
  BY <1>12, DecTblIs
<1>17. room.size + HeaderLen(x) <= room.max /\ room.size + HeaderLen(x) = w.size
  BY <1>1, <1>2, <1>3, <1>6, <1>14, <1>15, <1>16
<1>18. DecInsert(d, x) = Dropped(room, <<x>> \o room.entries, room.size + HeaderLen(x))
  BY <1>8, <1>14, <1>17 DEF DecInsert, Dropped
<1>19. DecInsert(d, x) = Dropped(room, Fields(w.slots), w.size)
  BY <1>6, <1>16, <1>17, <1>18
<1>20. DecInsert(d, x) = DecTbl(Fields(w.slots), w.size, m)
  BY <1>12, <1>19, DroppedIs
<1> QED
  BY <1>3, <1>20 DEF InStep

(***************************************************************************)
(* The loop of decode().                                                   *)
(***************************************************************************)

NoError == ""
Yes == TRUE
No == FALSE

\* The decoder after some representations, without an error.
Acc(table, out, resize, low) ==
    [table |-> table, out |-> out, error |-> NoError, resize |-> resize, low |-> low]

\* The fields of it.
LEMMA AccIs ==
    ASSUME NEW T, NEW o, NEW rs, NEW lo, NEW a, a = Acc(T, o, rs, lo)
    PROVE  a.table = T /\ a.out = o /\ a.error = NoError /\ a.resize = rs /\ a.low = lo
BY DEF Acc

\* A header more.
LEMMA AcceptedIs ==
    ASSUME NEW T, NEW o, NEW rs, NEW lo, NEW a, a = Acc(T, o, rs, lo), NEW T1, NEW f
    PROVE  Accepted(a, T1, f) = Acc(T1, Append(o, f), No, lo)
<1> DEFINE p == Append(o, f)
<1>0. a.out = o
  BY AccIs
<1>1. Accepted(a, T1, f) = [a EXCEPT !.table = T1, !.out = p, !.resize = No]
  BY <1>0 DEF Accepted, No
<1> HIDE DEF p
<1>2. \A u : [u EXCEPT !.table = T1, !.out = p, !.resize = No]
           = [[[u EXCEPT !.table = T1] EXCEPT !.out = p] EXCEPT !.resize = No]
  OBVIOUS
<1>3. [a EXCEPT !.table = T1] = Acc(T1, o, rs, lo)
  BY DEF Acc
<1>4. \A u : u = Acc(T1, o, rs, lo) => [u EXCEPT !.out = p] = Acc(T1, p, rs, lo)
  BY DEF Acc
<1>5. \A u : u = Acc(T1, p, rs, lo) => [u EXCEPT !.resize = No] = Acc(T1, p, No, lo)
  BY DEF Acc
<1> QED
  BY <1>1, <1>2, <1>3, <1>4, <1>5, Zenon DEF p

Updated(a, T, lo) == [a EXCEPT !.table = T, !.low = lo]

\* Another size.
LEMMA UpdatedIs ==
    ASSUME NEW T, NEW o, NEW rs, NEW lo, NEW a, a = Acc(T, o, rs, lo), NEW T1, NEW lo1
    PROVE  Updated(a, T1, lo1) = Acc(T1, o, rs, lo1)
<1>2. \A u : [u EXCEPT !.table = T1, !.low = lo1] = [[u EXCEPT !.table = T1] EXCEPT !.low = lo1]
  OBVIOUS
<1>3. [a EXCEPT !.table = T1] = Acc(T1, o, rs, lo)
  BY DEF Acc
<1>4. \A u : u = Acc(T1, o, rs, lo) => [u EXCEPT !.low = lo1] = Acc(T1, o, rs, lo1)
  BY DEF Acc
<1> QED
  BY <1>2, <1>3, <1>4, Zenon DEF Updated

\* With the table T the representation is read as the header f and leaves T1.
Yields(rep, T, T1, f) ==
    \A o, rs, lo : DecodeOne(Acc(T, o, rs, lo), rep) = Acc(T1, Append(o, f), No, lo)

\* decode_indexed()
LEMMA YieldsIndexed ==
    ASSUME NEW T, NEW v, NEW rep, Reads(rep.head, "Indexed", 7, v), DecHas(T, v)
    PROVE  Yields(rep, T, T, DecGet(T, v))
<1> SUFFICES ASSUME NEW o, NEW rs, NEW lo
             PROVE  DecodeOne(Acc(T, o, rs, lo), rep) = Acc(T, Append(o, DecGet(T, v)), No, lo)
  BY Zenon DEF Yields
<1> DEFINE a == Acc(T, o, rs, lo)
           f == DecGet(T, v)
<1>1. a = Acc(T, o, rs, lo)
  OBVIOUS
<1> HIDE DEF a, f
<1>2. a.table = T /\ a.error = NoError
  BY <1>1, AccIs
<1>3. /\ Representation(rep.head[1]) = "Indexed"
      /\ DecodeInt(rep.head, 7).error = "" /\ DecodeInt(rep.head, 7).value = v
  BY DEF Reads
<1>4. DecodeOne(a, rep) = Indexed(a, rep)
  BY <1>2, <1>3 DEF DecodeOne, NoError
<1>5. Indexed(a, rep) = Accepted(a, T, f)
  BY <1>2, <1>3 DEF Indexed, f
<1>6. Accepted(a, T, f) = Acc(T, Append(o, f), No, lo)
  BY <1>1, AcceptedIs
<1> QED
  BY <1>4, <1>5, <1>6, Zenon DEF a, f

\* The strings after an index v stand for the name and the value.
Spells(strings, v, T, name, value) ==
    \/ v = 0 /\ strings = <<name, value>>
    \/ v # 0 /\ DecHas(T, v) /\ DecGet(T, v).name = name /\ strings = <<value>>

NewField(name, value) == [name |-> name, value |-> value]

\* decode_int() reads v.
ReadsInt(w, p, v) == DecodeInt(w, p).error = "" /\ DecodeInt(w, p).value = v

\* How decode_literal() reads the index, and what it does with the header.
PrefixOf(insert) == IF insert THEN 6 ELSE 4
Becomes(T, insert, f) == IF insert THEN DecInsert(T, f) ELSE T

LiteralGives(a, rep, insert, name, value) ==
    Literal(a, rep, insert) =
        Accepted(a, Becomes(a.table, insert, NewField(name, value)), NewField(name, value))

\* decode_literal()
LEMMA LiteralIs ==
    ASSUME NEW a, NEW rep, NEW insert, NEW p, p = PrefixOf(insert), NEW v, ReadsInt(rep.head, p, v),
           NEW name, NEW value, Spells(rep.strings, v, a.table, name, value)
    PROVE  LiteralGives(a, rep, insert, name, value)
<1> SUFFICES Literal(a, rep, insert) =
                Accepted(a, Becomes(a.table, insert, NewField(name, value)), NewField(name, value))
  BY Zenon DEF LiteralGives
<1> DEFINE T == a.table
           f == NewField(name, value)
<1> DEFINE idx == DecodeInt(rep.head, p)
           h == IF idx.value = 0 THEN [name |-> rep.strings[1], value |-> rep.strings[2]]
                ELSE [name |-> DecGet(a.table, idx.value).name, value |-> rep.strings[1]]
<1>1. Literal(a, rep, insert) =
         IF idx.error # "" THEN Failed(a, idx.error)
         ELSE IF idx.value # 0 /\ ~DecHas(a.table, idx.value) THEN Failed(a, "InvalidTableIndex")
         ELSE Accepted(a, IF insert THEN DecInsert(a.table, h) ELSE a.table, h)
  BY DEF Literal, PrefixOf
<1>2. idx.error = "" /\ idx.value = v
  BY DEF ReadsInt
<1> HIDE DEF idx
<1>3. CASE v = 0
  <2>1. rep.strings = <<name, value>>
    BY <1>3 DEF Spells
  <2>3. rep.strings[1] = name /\ rep.strings[2] = value
    BY <2>1
  <2>4. h = [name |-> rep.strings[1], value |-> rep.strings[2]]
    BY <1>2, <1>3, Zenon
  <2>2. h = f
    BY <2>3, <2>4, Zenon DEF NewField
  <2> HIDE DEF h
  <2> QED
    BY <1>1, <1>2, <1>3, <2>2 DEF Becomes
<1>4. CASE v # 0
  <2>1. DecHas(T, v) /\ DecGet(T, v).name = name /\ rep.strings = <<value>>
    BY <1>4 DEF Spells
  <2>3. rep.strings[1] = value
    BY <2>1
  <2>4. h = [name |-> DecGet(a.table, idx.value).name, value |-> rep.strings[1]]
    BY <1>2, <1>4, Zenon
  <2>2. h = f
    BY <1>2, <2>1, <2>3, <2>4, Zenon DEF NewField
  <2> HIDE DEF h
  <2> QED
    BY <1>1, <1>2, <2>1, <2>2 DEF Becomes
<1> QED
  BY <1>3, <1>4

\* A literal that is not inserted.
LEMMA YieldsLiteral ==
    ASSUME NEW T, NEW v, NEW rep, NEW name, NEW value,
           Reads(rep.head, "LiteralWithoutIndexing", 4, v) \/ Reads(rep.head, "LiteralNeverIndexed", 4, v),
           Spells(rep.strings, v, T, name, value),
           NEW f, f = NewField(name, value)
    PROVE  Yields(rep, T, T, f)
<1> SUFFICES ASSUME NEW o, NEW rs, NEW lo
             PROVE  DecodeOne(Acc(T, o, rs, lo), rep) = Acc(T, Append(o, f), No, lo)
  BY Zenon DEF Yields
<1> DEFINE a == Acc(T, o, rs, lo)
           kind == Representation(rep.head[1])
<1>1. a = Acc(T, o, rs, lo)
  OBVIOUS
<1> HIDE DEF a
<1>2. a.table = T /\ a.error = NoError
  BY <1>1, AccIs
<1>3. /\ kind = "LiteralWithoutIndexing" \/ kind = "LiteralNeverIndexed"
      /\ DecodeInt(rep.head, 4).error = "" /\ DecodeInt(rep.head, 4).value = v
  BY DEF Reads
<1>4. DecodeOne(a, rep) = Literal(a, rep, FALSE)
  BY <1>2, <1>3 DEF DecodeOne, NoError
<1>5. Literal(a, rep, FALSE) = Accepted(a, T, f)
  <2> DEFINE insert == FALSE
             p == PrefixOf(insert)
  <2>1. /\ p = PrefixOf(insert) /\ ReadsInt(rep.head, p, v)
    BY <1>3 DEF ReadsInt, PrefixOf
  <2>3. Spells(rep.strings, v, a.table, name, value)
    BY <1>2
  <2>4. LiteralGives(a, rep, insert, name, value)
    <3> HIDE DEF insert, p
    <3> QED
      BY <2>1, <2>3, LiteralIs, Zenon
  <2>2. Literal(a, rep, insert) = Accepted(a, Becomes(T, insert, f), f)
    BY <1>2, <2>4, Zenon DEF LiteralGives
  <2> QED
    BY <2>2 DEF Becomes
<1>6. Accepted(a, T, f) = Acc(T, Append(o, f), No, lo)
  BY <1>1, AcceptedIs
<1> QED
  BY <1>4, <1>5, <1>6, Zenon DEF a

\* A literal that is inserted.
LEMMA YieldsInsert ==
    ASSUME NEW T, NEW v, NEW rep, NEW name, NEW value,
           Reads(rep.head, "LiteralWithIndexing", 6, v),
           Spells(rep.strings, v, T, name, value),
           NEW f, f = NewField(name, value)
    PROVE  Yields(rep, T, DecInsert(T, f), f)
<1> SUFFICES ASSUME NEW o, NEW rs, NEW lo
             PROVE  DecodeOne(Acc(T, o, rs, lo), rep) = Acc(DecInsert(T, f), Append(o, f), No, lo)
  BY Zenon DEF Yields
<1> DEFINE a == Acc(T, o, rs, lo)
           T1 == DecInsert(T, f)
<1>1. a = Acc(T, o, rs, lo)
  OBVIOUS
<1> HIDE DEF a
<1>2. a.table = T /\ a.error = NoError
  BY <1>1, AccIs
<1>3. /\ Representation(rep.head[1]) = "LiteralWithIndexing"
      /\ DecodeInt(rep.head, 6).error = "" /\ DecodeInt(rep.head, 6).value = v
  BY DEF Reads
<1>4. DecodeOne(a, rep) = Literal(a, rep, TRUE)
  BY <1>2, <1>3 DEF DecodeOne, NoError
<1>5. Literal(a, rep, TRUE) = Accepted(a, T1, f)
  <2> DEFINE insert == TRUE
             p == PrefixOf(insert)
  <2>1. /\ p = PrefixOf(insert) /\ ReadsInt(rep.head, p, v)
    BY <1>3 DEF ReadsInt, PrefixOf
  <2>3. Spells(rep.strings, v, a.table, name, value)
    BY <1>2
  <2>4. LiteralGives(a, rep, insert, name, value)
    <3> HIDE DEF insert, p
    <3> QED
      BY <2>1, <2>3, LiteralIs, Zenon
  <2>2. Literal(a, rep, insert) = Accepted(a, Becomes(T, insert, f), f)
    BY <1>2, <2>4, Zenon DEF LiteralGives
  <2> QED
    BY <2>2 DEF Becomes
<1> HIDE DEF T1
<1>6. Accepted(a, T1, f) = Acc(T1, Append(o, f), No, lo)
  BY <1>1, AcceptedIs
<1> QED
  BY <1>4, <1>5, <1>6, Zenon DEF a, T1

\* process_size_update() before any header.
LEMMA SizeUpdateIs ==
    ASSUME NEW T, NEW o, NEW lo, NEW v, v \in Nat, NEW rep, Reads(rep.head, "SizeUpdate", 5, v),
           limit \in Nat, v <= limit
    PROVE  DecodeOne(Acc(T, o, Yes, lo), rep) = Acc(DecSetMaxSize(T, v), o, Yes, Min({lo, v}))
<1> DEFINE a == Acc(T, o, Yes, lo)
           T1 == DecSetMaxSize(T, v)
           lo1 == Min({lo, v})
           size == DecodeInt(rep.head, 5)
<1>1. a = Acc(T, o, Yes, lo)
  OBVIOUS
<1> HIDE DEF a
<1>2. a.table = T /\ a.error = NoError /\ a.resize = Yes /\ a.low = lo
  BY <1>1, AccIs
<1>3. Representation(rep.head[1]) = "SizeUpdate" /\ size.error = "" /\ size.value = v
  BY DEF Reads
<1>4. DecodeOne(a, rep) = ProcessSizeUpdate(a, rep)
  BY <1>2, <1>3 DEF DecodeOne, NoError
<1>5. ProcessSizeUpdate(a, rep) =
        IF ~a.resize THEN Failed(a, "InvalidMaxDynamicSize")
        ELSE IF size.error # "" THEN Failed(a, size.error)
        ELSE IF size.value > limit THEN Failed(a, "InvalidMaxDynamicSize")
        ELSE [a EXCEPT !.table = DecSetMaxSize(a.table, size.value), !.low = Min({a.low, size.value})]
  BY DEF ProcessSizeUpdate
<1> HIDE DEF size
<1>6. ProcessSizeUpdate(a, rep) = [a EXCEPT !.table = DecSetMaxSize(a.table, size.value), !.low = Min({a.low, size.value})]
  <2>2. a.resize
    BY <1>2, Zenon DEF Yes
  <2>3. ~(size.error # "")
    BY <1>3
  <2>4. ~(v > limit)
    OBVIOUS
  <2>1. a.resize /\ ~(size.error # "") /\ ~(size.value > limit)
    BY <1>3, <2>2, <2>3, <2>4, Zenon
  <2> QED
    BY <1>5, <2>1, Zenon
<1>7. ProcessSizeUpdate(a, rep) = Updated(a, T1, lo1)
  BY <1>2, <1>3, <1>6, Zenon DEF Updated, T1, lo1
<1> HIDE DEF T1, lo1
<1>8. Updated(a, T1, lo1) = Acc(T1, o, Yes, lo1)
  BY <1>1, UpdatedIs
<1> QED
  BY <1>4, <1>7, <1>8, Zenon DEF a, T1, lo1

\* The decoder has a header of that name at the index.
Found(d, idx, name) ==
    /\ idx \in Nat /\ idx # 0 /\ idx < Shift[5]
    /\ DecHas(d, idx) /\ DecGet(d, idx).name = name

\* Indices are small enough for an integer on the wire.
LEMMA SmallIndex ==
    ASSUME NEW v, v \in Int, v <= MaxTable + 61
    PROVE  v < Shift[5]
<1> DEFINE top == Shift[5]
<1>1. top \in Nat
  BY SMT DEF Shift
<1>2. MaxTable \in Nat /\ MaxTable + 62 < top
  BY HpackAssumption
<1> HIDE DEF top
<1>3. v < top
  BY <1>1, <1>2
<1> QED
  BY <1>3 DEF top

\* The decoder's entries.
LEMMA InStepFacts ==
    ASSUME NEW t, Valid(t), NEW d, InStep(d, t)
    PROVE  /\ d.entries = Fields(t.slots) /\ d.max = t.max /\ Len(d.entries) = Len(t.slots) /\ Len(t.slots) \in Nat
           /\ \A i \in 1 .. Len(t.slots) : d.entries[i] = FieldOf(t.slots[i].header) /\ t.slots[i].header \in Header
<1>1. t.slots \in Seq(SlotRec)
  BY ValidParts
<1>2. d.entries = Fields(t.slots) /\ d.max = t.max
  BY DecTblIs DEF InStep
<1>3. /\ Len(Fields(t.slots)) = Len(t.slots) /\ Len(t.slots) \in Nat
      /\ \A i \in 1 .. Len(t.slots) : Fields(t.slots)[i] = FieldOf(t.slots[i].header)
  BY <1>1, FieldsFacts
<1>4. \A i \in 1 .. Len(t.slots) : t.slots[i].header \in Header
  BY <1>1, SlotHeader
<1> QED
  BY <1>2, <1>3, <1>4

\* A header of the static table.
LEMMA FoundStatic ==
    ASSUME NEW d, Len(d.entries) \in Nat, NEW st, NEW name, NEW value, InStatic(st, name, value), NEW n, n = st.n
    PROVE  /\ Found(d, n, name)
           /\ st.full => DecGet(d, n) = NewField(name, value)
<1>1. n \in 1 .. 61 /\ GetStatic[n][1] = name /\ (st.full => GetStatic[n] = <<name, value>>)
  BY DEF InStatic
<1>8. n \in 1 .. 61
  BY <1>1
<1>9. \A k \in 1 .. 61 : k \in Nat /\ k # 0 /\ k <= 61
  OBVIOUS
<1>2. n \in Nat /\ n # 0 /\ n <= 61
  BY <1>8, <1>9, Zenon
<1>3. n < Shift[5]
  <2>1. n <= MaxTable + 61
    BY <1>2, HpackAssumption
  <2> QED
    BY <1>2, <2>1, SmallIndex
<1>4. DecHas(d, n)
  BY <1>2 DEF DecHas
<1>5. DecGet(d, n) = [name |-> GetStatic[n][1], value |-> GetStatic[n][2]]
  BY <1>2 DEF DecGet
<1>6. DecGet(d, n).name = name
  BY <1>1, <1>5
<1>7. ASSUME st.full PROVE DecGet(d, n) = NewField(name, value)
  <2>1. GetStatic[n][2] = value
    BY <1>1, <1>7
  <2> QED
    BY <1>1, <1>5, <2>1, Zenon DEF NewField
<1> QED
  BY <1>2, <1>3, <1>4, <1>6, <1>7 DEF Found

\* A header of the dynamic table.
LEMMA FoundDynamic ==
    ASSUME NEW t, Valid(t), t.max \in 0 .. MaxTable, NEW d, InStep(d, t), NEW i, i \in 1 .. Len(t.slots), NEW h,
           t.slots[i].header.name = h.name, NEW idx, idx = i + 61
    PROVE  Found(d, idx, h.name) /\ DecGet(d, idx) = FieldOf(t.slots[i].header)
<1>1. /\ Len(d.entries) = Len(t.slots) /\ Len(t.slots) \in Nat
      /\ d.entries[i] = FieldOf(t.slots[i].header) /\ t.slots[i].header \in Header
  BY InStepFacts
<1>2. t.size \in Nat /\ t.size <= t.max /\ Len(t.slots) <= t.size /\ t.max \in Nat
  BY ValidParts
<1>3. MaxTable \in Nat
  BY HpackAssumption
<1>4. i <= MaxTable /\ i \in Nat
  BY <1>1, <1>2, <1>3
<1>5. idx \in Nat /\ idx # 0 /\ idx <= MaxTable + 61 /\ ~(idx <= 61) /\ idx - 61 = i
  BY <1>3, <1>4
<1>6. idx < Shift[5]
  BY <1>5, SmallIndex
<1>7. DecHas(d, idx)
  BY <1>1, <1>4 DEF DecHas
<1>8. DecGet(d, idx) = FieldOf(t.slots[i].header)
  BY <1>1, <1>5 DEF DecGet
<1>9. DecGet(d, idx).name = h.name
  BY <1>1, <1>8, FieldOfFacts
<1> QED
  BY <1>5, <1>6, <1>7, <1>8, <1>9 DEF Found

\* What a header without a table entry is written as.
LEMMA YieldsNotIndexed ==
    ASSUME NEW d, NEW name, NEW value, NEW sensitive, NEW idx, NEW strings, NEW rep,
           rep = NotIndexed(idx, strings, sensitive),
           (idx = 0 /\ strings = <<name, value>>) \/ (Found(d, idx, name) /\ strings = <<value>>)
    PROVE  Yields(rep, d, d, NewField(name, value))
<1> DEFINE w == EncodeInt(idx, 4, IF sensitive THEN 16 ELSE 0)
           f == NewField(name, value)
<1>1. rep.head = w /\ rep.strings = strings
  BY DEF NotIndexed
<1>2. idx \in Nat /\ idx < Shift[5]
  <2>1. 0 < Shift[5]
    BY SMT DEF Shift
  <2> QED
    BY <2>1 DEF Found
<1>3. Reads(w, "LiteralWithoutIndexing", 4, idx) \/ Reads(w, "LiteralNeverIndexed", 4, idx)
  BY <1>2, ReadsNotIndexed
<1>4. Spells(strings, idx, d, name, value)
  BY DEF Spells, Found
<1> HIDE DEF w
<1>5. /\ Reads(rep.head, "LiteralWithoutIndexing", 4, idx) \/ Reads(rep.head, "LiteralNeverIndexed", 4, idx)
      /\ Spells(rep.strings, idx, d, name, value)
  BY <1>1, <1>3, <1>4
<1>6. f = NewField(name, value)
  OBVIOUS
<1> HIDE DEF f
<1>7. Yields(rep, d, d, f)
  BY <1>5, <1>6, YieldsLiteral
<1> QED
  BY <1>7 DEF f

\* The representations of encode_header().
LEMMA EncodeHeaderIs ==
    ASSUME NEW index, NEW h
    PROVE  /\ index.kind = "Indexed" => EncodeHeader(index, h).head = EncodeInt(index.idx, 7, 128)
           /\ index.kind = "Name" => EncodeHeader(index, h) = NotIndexed(index.idx, <<h.value>>, h.sensitive)
           /\ index.kind = "Inserted" => EncodeHeader(index, h).head = <<64>> /\ EncodeHeader(index, h).strings = <<h.name, h.value>>
           /\ index.kind = "NotIndexed" => EncodeHeader(index, h) = NotIndexed(0, <<h.name, h.value>>, h.sensitive)
<1> DEFINE r == EncodeHeader(index, h)
           w7 == EncodeInt(index.idx, 7, 128)
           w6 == EncodeInt(index.idx, 6, 64)
           w4 == NotIndexed(index.idx, <<h.value>>, h.sensitive)
           w0 == NotIndexed(0, <<h.name, h.value>>, h.sensitive)
           k == index.kind
<1>1. r = CASE k = "Indexed" -> [head |-> w7, strings |-> <<>>]
            [] k = "Name" -> w4
            [] k = "Inserted" -> [head |-> <<64>>, strings |-> <<h.name, h.value>>]
            [] k = "InsertedValue" -> [head |-> w6, strings |-> <<h.value>>]
            [] k = "NotIndexed" -> w0
  BY DEF EncodeHeader
<1> HIDE DEF r, w7, w6, w4, w0, k
<1>2. k = "Indexed" => r.head = w7
  BY <1>1
<1>3. k = "Name" => r = w4
  BY <1>1
<1>4. k = "Inserted" => r.head = <<64>> /\ r.strings = <<h.name, h.value>>
  BY <1>1
<1>6. k = "NotIndexed" => r = w0
  BY <1>1
<1> QED
  BY <1>2, <1>3, <1>4, <1>6, Zenon DEF r, w7, w6, w4, w0, k

\* The one of a header inserted with a name in the table.
LEMMA EncodeInsertedValue ==
    ASSUME NEW index, NEW h, index.kind = "InsertedValue", NEW r, r = EncodeHeader(index, h)
    PROVE  r.head = EncodeInt(index.idx, 6, 64) /\ r.strings = <<h.value>>
<1>1. r = [head |-> EncodeInt(index.idx, 6, 64), strings |-> <<h.value>>]
  BY DEF EncodeHeader
<1> QED
  BY <1>1

\* A header in the table is read from it.
LEMMA WritesIndexed ==
    ASSUME NEW d, NEW idx, NEW index, index = [kind |-> "Indexed", idx |-> idx], NEW h,
           Found(d, idx, h.name), DecGet(d, idx) = FieldOf(h)
    PROVE  Yields(EncodeHeader(index, h), d, d, FieldOf(h))
<1> DEFINE r == EncodeHeader(index, h)
<1>1. index.kind = "Indexed" /\ index.idx = idx
  OBVIOUS
<1>2. r.head = EncodeInt(idx, 7, 128)
  BY <1>1, EncodeHeaderIs
<1> HIDE DEF r
<1>3. Reads(r.head, "Indexed", 7, idx)
  BY <1>2, ReadsIndexed DEF Found
<1>4. DecHas(d, idx)
  BY DEF Found
<1>5. Yields(r, d, d, DecGet(d, idx))
  BY <1>3, <1>4, YieldsIndexed
<1> QED
  BY <1>5 DEF r

\* The header of a name and a value.
LEMMA FieldOfIs ==
    ASSUME NEW h
    PROVE  FieldOf(h) = NewField(h.name, h.value)
BY DEF FieldOf, NewField

\* A header with a name in the table is read with it.
LEMMA WritesName ==
    ASSUME NEW d, NEW idx, NEW index, index = [kind |-> "Name", idx |-> idx], NEW h, Found(d, idx, h.name)
    PROVE  Yields(EncodeHeader(index, h), d, d, FieldOf(h))
<1> DEFINE r == EncodeHeader(index, h)
           name == h.name
           value == h.value
           sensitive == h.sensitive
           strings == <<value>>
<1>1. index.kind = "Name" /\ index.idx = idx
  OBVIOUS
<1>2. r = NotIndexed(idx, strings, sensitive)
  BY <1>1, EncodeHeaderIs
<1>3. (idx = 0 /\ strings = <<name, value>>) \/ (Found(d, idx, name) /\ strings = <<value>>)
  OBVIOUS
<1> HIDE DEF r, name, value, sensitive, strings
<1>4. Yields(r, d, d, NewField(name, value))
  BY <1>2, <1>3, YieldsNotIndexed
<1> QED
  BY <1>4, FieldOfIs, Zenon DEF r, name, value

\* A header that no table has is read from its strings.
LEMMA WritesNew ==
    ASSUME NEW d, NEW index, index = [kind |-> "NotIndexed", idx |-> 0], NEW h
    PROVE  Yields(EncodeHeader(index, h), d, d, FieldOf(h))
<1> DEFINE r == EncodeHeader(index, h)
           name == h.name
           value == h.value
           sensitive == h.sensitive
           strings == <<name, value>>
           idx == 0
<1>1. index.kind = "NotIndexed"
  OBVIOUS
<1>2. r = NotIndexed(idx, strings, sensitive)
  BY <1>1, EncodeHeaderIs
<1>5. idx = 0 /\ strings = <<name, value>>
  OBVIOUS
<1> HIDE DEF r, name, value, sensitive, strings, idx
<1>3. (idx = 0 /\ strings = <<name, value>>) \/ (Found(d, idx, name) /\ strings = <<value>>)
  BY <1>5
<1>4. Yields(r, d, d, NewField(name, value))
  BY <1>2, <1>3, YieldsNotIndexed
<1> QED
  BY <1>4, FieldOfIs, Zenon DEF r, name, value

\* A header that is inserted with a name in the table.
LEMMA WritesInsertValue ==
    ASSUME NEW d, NEW idx, NEW index, index = [kind |-> "InsertedValue", idx |-> idx], NEW h, Found(d, idx, h.name)
    PROVE  Yields(EncodeHeader(index, h), d, DecInsert(d, FieldOf(h)), FieldOf(h))
<1> DEFINE r == EncodeHeader(index, h)
           name == h.name
           value == h.value
           f == FieldOf(h)
<1>1. index.kind = "InsertedValue" /\ index.idx = idx
  OBVIOUS
<1>7. r.head = EncodeInt(index.idx, 6, 64) /\ r.strings = <<value>>
  BY <1>1, EncodeInsertedValue
<1>2. r.head = EncodeInt(idx, 6, 64) /\ r.strings = <<value>>
  <2> HIDE DEF r, value
  <2> QED
    BY <1>1, <1>7
<1>3. Spells(r.strings, idx, d, name, value)
  <2>1. Found(d, idx, name)
    OBVIOUS
  <2> HIDE DEF r, name, value
  <2> QED
    BY <1>2, <2>1 DEF Spells, Found
<1>6. f = NewField(name, value)
  BY FieldOfIs
<1> HIDE DEF r, f, name, value
<1>4. Reads(r.head, "LiteralWithIndexing", 6, idx)
  BY <1>2, ReadsInsert DEF Found
<1>5. Yields(r, d, DecInsert(d, f), f)
  BY <1>3, <1>4, <1>6, YieldsInsert
<1> QED
  BY <1>5 DEF r, f

\* A header that is inserted with its name.
LEMMA WritesInsert ==
    ASSUME NEW d, NEW index, index = [kind |-> "Inserted", idx |-> 0], NEW h
    PROVE  Yields(EncodeHeader(index, h), d, DecInsert(d, FieldOf(h)), FieldOf(h))
<1> DEFINE r == EncodeHeader(index, h)
           name == h.name
           value == h.value
           f == FieldOf(h)
           v == 0
<1>1. index.kind = "Inserted"
  OBVIOUS
<1>2. r.head = <<64>> /\ r.strings = <<name, value>>
  BY <1>1, EncodeHeaderIs
<1>6. f = NewField(name, value)
  BY FieldOfIs
<1> HIDE DEF r, f, name, value
<1>3. Spells(r.strings, v, d, name, value)
  BY <1>2 DEF Spells
<1>4. Reads(r.head, "LiteralWithIndexing", 6, v)
  BY <1>2, ReadsInsertNew
<1> HIDE DEF v
<1>5. Yields(r, d, DecInsert(d, f), f)
  BY <1>3, <1>4, <1>6, YieldsInsert
<1> QED
  BY <1>5 DEF r, f

\* The table after the header, and the header as it is written, at both ends.
Carried(res, d, d1, h) ==
    /\ Valid(res.table) /\ InStep(d1, res.table)
    /\ Yields(EncodeHeader(res.index, h), d, d1, FieldOf(h))

\* The index with which the name is repeated.
Repeats(res, d1, h) ==
    res.index.kind = "NotIndexed" \/ (res.index.kind # "NotIndexed" /\ Found(d1, ResolveIdx(res.index), h.name))

\* The index of a header that is not in the dynamic table.
LEMMA NewIndexIs ==
    ASSUME NEW st
    PROVE  /\ st = None => NewIndex(st) = [kind |-> "NotIndexed", idx |-> 0]
           /\ st # None /\ st.full => NewIndex(st) = [kind |-> "Indexed", idx |-> st.n]
           /\ st # None /\ ~st.full => NewIndex(st) = [kind |-> "Name", idx |-> st.n]
BY DEF NewIndex

\* The index that the name is repeated with.
LEMMA ResolveIs ==
    ASSUME NEW index, NEW kind, NEW idx, index = [kind |-> kind, idx |-> idx]
    PROVE  /\ index.kind = kind
           /\ kind = "Indexed" \/ kind = "Name" => ResolveIdx(index) = idx
           /\ kind = "Inserted" \/ kind = "InsertedValue" => ResolveIdx(index) = 62
BY DEF ResolveIdx, DYN_OFFSET

\* A table that holds the same headers is in step as well.
LEMMA HeldInStep ==
    ASSUME NEW r, NEW t, NEW d, Holds(r, t), InStep(d, t)
    PROVE  InStep(d, r)
BY DEF Holds, InStep

\* encode() and decode() of a header that the table holds or does not take.
LEMMA HeldCarried ==
    ASSUME NEW t, Valid(t), t.max \in 0 .. MaxTable, NEW d, InStep(d, t), NEW h, h \in Header,
           NEW st, st # None => InStatic(st, h.name, h.value), NEW res,
           Valid(res.table), Holds(res.table, t),
           \/ res.index = NewIndex(st)
           \/ \E i \in 1 .. Len(t.slots) :
                  /\ t.slots[i].header.name = h.name /\ t.slots[i].header.value = h.value
                  /\ res.index = [kind |-> "Indexed", idx |-> i + 61]
           \/ \E idx : Names(t, h, idx) /\ res.index = [kind |-> "Name", idx |-> idx]
    PROVE  Carried(res, d, d, h) /\ Repeats(res, d, h)
<1> DEFINE index == res.index
<1>1. InStep(d, res.table)
  <2> DEFINE r == res.table
  <2>1. Holds(r, t)
    OBVIOUS
  <2> HIDE DEF r
  <2>2. InStep(d, r)
    BY <2>1, HeldInStep
  <2> QED
    BY <2>2 DEF r
<1>2. Len(d.entries) \in Nat
  BY InStepFacts
<1> HIDE DEF index
<1>3. ASSUME NEW idx, Found(d, idx, h.name), index = [kind |-> "Name", idx |-> idx]
      PROVE  Yields(EncodeHeader(index, h), d, d, FieldOf(h)) /\ Repeats(res, d, h)
  <2>1. Yields(EncodeHeader(index, h), d, d, FieldOf(h))
    BY <1>3, WritesName
  <2> DEFINE kind == "Name"
  <2>2. index = [kind |-> kind, idx |-> idx]
    BY <1>3
  <2>3. index.kind = "Name" /\ ResolveIdx(index) = idx
    BY <2>2, ResolveIs
  <2>4. Repeats(res, d, h)
    BY <1>3, <2>3 DEF Repeats, index
  <2> QED
    BY <2>1, <2>4
<1>4. ASSUME NEW idx, Found(d, idx, h.name), DecGet(d, idx) = FieldOf(h), index = [kind |-> "Indexed", idx |-> idx]
      PROVE  Yields(EncodeHeader(index, h), d, d, FieldOf(h)) /\ Repeats(res, d, h)
  <2>1. Yields(EncodeHeader(index, h), d, d, FieldOf(h))
    BY <1>4, WritesIndexed
  <2> DEFINE kind == "Indexed"
  <2>2. index = [kind |-> kind, idx |-> idx]
    BY <1>4
  <2>3. index.kind = "Indexed" /\ ResolveIdx(index) = idx
    BY <2>2, ResolveIs
  <2>4. Repeats(res, d, h)
    BY <1>4, <2>3 DEF Repeats, index
  <2> QED
    BY <2>1, <2>4
<1>5. CASE index = NewIndex(st)
  <2>1. CASE st = None
    <3>1. index = [kind |-> "NotIndexed", idx |-> 0]
      BY <1>5, <2>1, NewIndexIs
    <3>2. Yields(EncodeHeader(index, h), d, d, FieldOf(h))
      BY <3>1, WritesNew
    <3>3. Repeats(res, d, h)
      BY <3>1 DEF Repeats, index
    <3> QED
      BY <1>1, <3>2, <3>3 DEF Carried, index
  <2>2. CASE st # None
    <3> DEFINE n == st.n
               name == h.name
               value == h.value
    <3>1. /\ Found(d, n, name)
          /\ st.full => DecGet(d, n) = NewField(name, value)
      <4>1. InStatic(st, name, value) /\ n = st.n
        BY <2>2
      <4> HIDE DEF n, name, value
      <4> QED
        BY <1>2, <4>1, FoundStatic
    <3>2. CASE st.full
      <4>1. index = [kind |-> "Indexed", idx |-> n]
        BY <1>5, <2>2, <3>2, NewIndexIs
      <4>2. DecGet(d, n) = FieldOf(h)
        BY <3>1, <3>2, FieldOfIs
      <4> HIDE DEF n
      <4>3. Yields(EncodeHeader(index, h), d, d, FieldOf(h)) /\ Repeats(res, d, h)
        BY <1>4, <3>1, <4>1, <4>2
      <4> QED
        BY <1>1, <4>3 DEF Carried, index
    <3>3. CASE ~st.full
      <4>1. index = [kind |-> "Name", idx |-> n]
        BY <1>5, <2>2, <3>3, NewIndexIs
      <4> HIDE DEF n
      <4>3. Yields(EncodeHeader(index, h), d, d, FieldOf(h)) /\ Repeats(res, d, h)
        BY <1>3, <3>1, <4>1
      <4> QED
        BY <1>1, <4>3 DEF Carried, index
    <3> QED
      BY <3>2, <3>3
  <2> QED
    BY <2>1, <2>2
<1>6. ASSUME NEW i \in 1 .. Len(t.slots), t.slots[i].header.name = h.name, t.slots[i].header.value = h.value,
             index = [kind |-> "Indexed", idx |-> i + 61]
      PROVE  Carried(res, d, d, h) /\ Repeats(res, d, h)
  <2> DEFINE idx == i + 61
             g == t.slots[i].header
  <2>1. Found(d, idx, h.name) /\ DecGet(d, idx) = FieldOf(g)
    <3>1. idx = i + 61
      OBVIOUS
    <3> HIDE DEF idx
    <3> QED
      BY <1>6, <3>1, FoundDynamic
  <2>2. FieldOf(g) = FieldOf(h)
    BY <1>6 DEF FieldOf
  <2>3. index = [kind |-> "Indexed", idx |-> idx]
    BY <1>6
  <2> HIDE DEF idx, g
  <2>4. DecGet(d, idx) = FieldOf(h)
    BY <2>1, <2>2
  <2>5. Yields(EncodeHeader(index, h), d, d, FieldOf(h)) /\ Repeats(res, d, h)
    BY <1>4, <2>1, <2>3, <2>4
  <2> QED
    BY <1>1, <2>5 DEF Carried, index
<1>7. ASSUME NEW idx, Names(t, h, idx), index = [kind |-> "Name", idx |-> idx]
      PROVE  Carried(res, d, d, h) /\ Repeats(res, d, h)
  <2>1. PICK i \in 1 .. Len(t.slots) : idx = i + 61 /\ t.slots[i].header.name = h.name
    BY <1>7 DEF Names
  <2>2. Found(d, idx, h.name)
    BY <2>1, FoundDynamic
  <2>5. Yields(EncodeHeader(index, h), d, d, FieldOf(h)) /\ Repeats(res, d, h)
    BY <1>3, <1>7, <2>2
  <2> QED
    BY <1>1, <2>5 DEF Carried, index
<1> QED
  BY <1>5, <1>6, <1>7 DEF index

\* encode() and decode() of a header that is inserted.
LEMMA InsertedCarried ==
    ASSUME NEW t, Valid(t), t.max \in 0 .. MaxTable, NEW d, InStep(d, t), NEW h, h \in Header, HeaderLen(h) <= t.max,
           NEW st, st # None => InStatic(st, h.name, h.value), NEW res,
           Valid(res.table), Inserts(res.table, t, h),
           \/ st # None /\ res.index = [kind |-> "InsertedValue", idx |-> st.n]
           \/ st = None /\ res.index = [kind |-> "Inserted", idx |-> 0]
           \/ /\ st = None
              /\ \E idx : Names(t, h, idx) /\ res.index = [kind |-> "InsertedValue", idx |-> idx],
           NEW d1, d1 = DecInsert(d, FieldOf(h))
    PROVE  Carried(res, d, d1, h) /\ Repeats(res, d1, h)
<1> DEFINE index == res.index
           w == res.table
<1>1. Valid(w) /\ Inserts(w, t, h)
  OBVIOUS
<1> HIDE DEF index, w
<1>2. InStep(d1, w)
  BY <1>1, InsertInStep
<1>3. Found(d1, 62, h.name)
  <2>1. w.max = t.max /\ Len(w.slots) \in 1 .. Len(t.slots) + 1 /\ w.slots[1].header = h
    BY <1>1 DEF Inserts
  <2>2. Len(w.slots) \in Nat
    BY <1>1, ValidParts
  <2>3. 1 \in 1 .. Len(w.slots) /\ 62 = 1 + 61
    BY <2>1, <2>2
  <2>4. w.slots[1].header.name = h.name /\ w.max \in 0 .. MaxTable
    BY <2>1
  <2> DEFINE i == 1
             idx == 62
  <2>5. i \in 1 .. Len(w.slots) /\ idx = i + 61 /\ w.slots[i].header.name = h.name
    BY <2>3, <2>4
  <2> HIDE DEF i, idx
  <2>6. Found(d1, idx, h.name)
    BY <1>1, <1>2, <2>4, <2>5, FoundDynamic
  <2> QED
    BY <2>6 DEF idx
<1>4. ASSUME NEW kind, NEW idx, kind = "Inserted" \/ kind = "InsertedValue", index = [kind |-> kind, idx |-> idx]
      PROVE  Repeats(res, d1, h)
  <2>1. index.kind = kind /\ ResolveIdx(index) = 62
    BY <1>4, ResolveIs
  <2>2. index.kind # "NotIndexed"
    BY <1>4, <2>1
  <2> QED
    BY <1>3, <2>1, <2>2 DEF Repeats, index
<1>5. ASSUME NEW idx, Found(d, idx, h.name), index = [kind |-> "InsertedValue", idx |-> idx]
      PROVE  Carried(res, d, d1, h) /\ Repeats(res, d1, h)
  <2>1. Yields(EncodeHeader(index, h), d, d1, FieldOf(h))
    BY <1>5, WritesInsertValue
  <2> DEFINE kind == "InsertedValue"
  <2>2. (kind = "Inserted" \/ kind = "InsertedValue") /\ index = [kind |-> kind, idx |-> idx]
    BY <1>5
  <2> HIDE DEF kind
  <2>3. Repeats(res, d1, h)
    BY <1>4, <2>2
  <2> QED
    BY <1>1, <1>2, <2>1, <2>3 DEF Carried, w, index
<1>6. CASE st # None /\ index = [kind |-> "InsertedValue", idx |-> st.n]
  <2> DEFINE n == st.n
             name == h.name
             value == h.value
  <2>0. Len(d.entries) \in Nat
    BY InStepFacts
  <2>1. Found(d, n, name)
    <3>1. InStatic(st, name, value) /\ n = st.n
      BY <1>6
    <3> HIDE DEF n, name, value
    <3> QED
      BY <2>0, <3>1, FoundStatic
  <2> HIDE DEF n
  <2> QED
    BY <1>5, <1>6, <2>1 DEF n
<1>7. CASE index = [kind |-> "Inserted", idx |-> 0]
  <2>1. Yields(EncodeHeader(index, h), d, d1, FieldOf(h))
    BY <1>7, WritesInsert
  <2> DEFINE kind == "Inserted"
             idx == 0
  <2>2. (kind = "Inserted" \/ kind = "InsertedValue") /\ index = [kind |-> kind, idx |-> idx]
    BY <1>7
  <2> HIDE DEF kind, idx
  <2>3. Repeats(res, d1, h)
    BY <1>4, <2>2
  <2> QED
    BY <1>1, <1>2, <2>1, <2>3 DEF Carried, w, index
<1>8. ASSUME NEW idx, Names(t, h, idx), index = [kind |-> "InsertedValue", idx |-> idx]
      PROVE  Carried(res, d, d1, h) /\ Repeats(res, d1, h)
  <2>1. PICK i \in 1 .. Len(t.slots) : idx = i + 61 /\ t.slots[i].header.name = h.name
    BY <1>8 DEF Names
  <2>2. Found(d, idx, h.name)
    BY <2>1, FoundDynamic
  <2> QED
    BY <1>5, <1>8, <2>2
<1> QED
  BY <1>6, <1>7, <1>8 DEF index

\* Whatever index() gives, the decoder reads the header and has the same table.
LEMMA HeaderCarried ==
    ASSUME NEW t, Valid(t), t.max \in 0 .. MaxTable, NEW d, InStep(d, t), NEW h, h \in Header,
           NEW res, res = Index(t, h)
    PROVE  \E d1 : Carried(res, d, d1, h) /\ Repeats(res, d1, h)
<1> DEFINE st == IndexStatic(h.name, h.value)
<1>1. st # None => InStatic(st, h.name, h.value)
  <2> DEFINE name == h.name
             value == h.value
  <2>1. st = IndexStatic(name, value)
    OBVIOUS
  <2> HIDE DEF st, name, value
  <2>2. st # None => InStatic(st, name, value)
    BY <2>1, StaticAgrees
  <2> QED
    BY <2>2 DEF name, value
<1>2. Indexes(res, t, h, st)
  BY IndexOutcome
<1> HIDE DEF st
<1>3. CASE Holds(res.table, t)
           /\ \/ res.index = NewIndex(st)
              \/ \E i \in 1 .. Len(t.slots) :
                   /\ t.slots[i].header.name = h.name /\ t.slots[i].header.value = h.value
                   /\ res.index = [kind |-> "Indexed", idx |-> i + 61]
              \/ \E idx : Names(t, h, idx) /\ res.index = [kind |-> "Name", idx |-> idx]
  <2>1. Valid(res.table)
    BY <1>2 DEF Indexes
  <2>2. Carried(res, d, d, h) /\ Repeats(res, d, h)
    BY <1>1, <1>3, <2>1, HeldCarried
  <2> QED
    BY <2>2
<1>4. CASE Inserts(res.table, t, h) /\ HeaderLen(h) <= t.max
           /\ \/ st # None /\ res.index = [kind |-> "InsertedValue", idx |-> st.n]
              \/ st = None /\ res.index = [kind |-> "Inserted", idx |-> 0]
              \/ /\ st = None
                 /\ \E idx : Names(t, h, idx) /\ res.index = [kind |-> "InsertedValue", idx |-> idx]
  <2>1. Valid(res.table)
    BY <1>2 DEF Indexes
  <2> DEFINE d1 == DecInsert(d, FieldOf(h))
  <2>2. d1 = DecInsert(d, FieldOf(h))
    OBVIOUS
  <2> HIDE DEF d1
  <2>3. Carried(res, d, d1, h) /\ Repeats(res, d1, h)
    BY <1>1, <1>4, <2>1, <2>2, InsertedCarried
  <2> QED
    BY <2>3
<1> QED
  BY <1>2, <1>3, <1>4 DEF Indexes

\* A header that repeats the name of the one before.
LEMMA RestCarried ==
    ASSUME NEW res, NEW d1, NEW h, Repeats(res, d1, h), NEW x
    PROVE  Yields(EncodeWithoutName(res.index, h, x), d1, d1, NewField(h.name, x.value))
<1> DEFINE index == res.index
           rep == EncodeWithoutName(index, h, x)
           name == h.name
           value == x.value
           sensitive == x.sensitive
<1>1. CASE index.kind = "NotIndexed"
  <2> DEFINE idx == 0
             strings == <<name, value>>
  <2>1. rep = NotIndexed(idx, strings, sensitive)
    BY <1>1 DEF EncodeWithoutName
  <2>2. idx = 0 /\ strings = <<name, value>>
    OBVIOUS
  <2> HIDE DEF idx, strings, name, value, sensitive, rep
  <2>3. (idx = 0 /\ strings = <<name, value>>) \/ (Found(d1, idx, name) /\ strings = <<value>>)
    BY <2>2
  <2>4. Yields(rep, d1, d1, NewField(name, value))
    BY <2>1, <2>3, YieldsNotIndexed
  <2> QED
    BY <2>4 DEF rep, name, value
<1>2. CASE index.kind # "NotIndexed"
  <2> DEFINE idx == ResolveIdx(index)
             strings == <<value>>
  <2>1. rep = NotIndexed(idx, strings, sensitive)
    BY <1>2 DEF EncodeWithoutName
  <2>2. Found(d1, idx, name) /\ strings = <<value>>
    BY <1>2 DEF Repeats
  <2> HIDE DEF idx, strings, name, value, sensitive, rep
  <2>3. (idx = 0 /\ strings = <<name, value>>) \/ (Found(d1, idx, name) /\ strings = <<value>>)
    BY <2>2
  <2>4. Yields(rep, d1, d1, NewField(name, value))
    BY <2>1, <2>3, YieldsNotIndexed
  <2> QED
    BY <2>4 DEF rep, name, value
<1> QED
  BY <1>1, <1>2

\* The turns of decode().
Turns(g, wire, n) ==
    /\ g[0] = Acc(dec, <<>>, Yes, dec.max)
    /\ \A k \in 1 .. n : g[k] = DecodeOne(g[k - 1], wire[k])
    /\ Decode(wire) = g[n]

\* They exist.
LEMMA DecodeTurns ==
    ASSUME NEW wire, NEW n, n \in Nat, n = Len(wire)
    PROVE  \E g : Turns(g, wire, n)
<1> DEFINE start == [table |-> dec, out |-> <<>>, error |-> "", resize |-> TRUE, low |-> dec.max]
           Eq(m, g) == g = [k \in 0 .. m |-> IF k = 0 THEN start ELSE DecodeOne(g[k - 1], wire[k])]
           S == {m \in 0 .. n : \E g : Eq(m, g)}
           c == CHOOSE g : Eq(n, g)
<1>7. Decode(wire) = c[n]
  BY DEF Decode
<1>8. start = Acc(dec, <<>>, Yes, dec.max)
  BY DEF Acc, Yes, NoError
<1> HIDE DEF start
<1>1. 0 \in S
  <2> DEFINE g == [k \in 0 .. 0 |-> start]
  <2>1. Eq(0, g)
    OBVIOUS
  <2> HIDE DEF Eq
  <2> QED
    BY <2>1
<1>2. ASSUME NEW m \in 1 .. n, m - 1 \in S
      PROVE  m \in S
  <2>1. PICK g : Eq(m - 1, g)
    BY <1>2
  <2> DEFINE h == [k \in 0 .. m |-> IF k = m THEN DecodeOne(g[m - 1], wire[m]) ELSE g[k]]
  <2>2. m \in 0 .. n /\ m \in Nat /\ m # 0
    OBVIOUS
  <2>3. ASSUME NEW k \in 0 .. m
        PROVE  h[k] = IF k = 0 THEN start ELSE DecodeOne(h[k - 1], wire[k])
    <3>1. CASE k = m
      <4>1. m - 1 \in 0 .. m /\ m - 1 # m
        BY <2>2
      <4>2. h[m - 1] = g[m - 1]
        BY <4>1
      <4>3. h[m] = DecodeOne(g[m - 1], wire[m])
        BY <2>2
      <4> QED
        BY <2>2, <3>1, <4>2, <4>3
    <3>2. CASE k # m /\ k # 0
      <4>1. k \in 0 .. m - 1 /\ k - 1 \in 0 .. m /\ k - 1 # m
        BY <2>2, <3>2
      <4>2. h[k] = g[k] /\ h[k - 1] = g[k - 1]
        BY <3>2, <4>1
      <4>3. g[k] = DecodeOne(g[k - 1], wire[k])
        BY <2>1, <3>2, <4>1
      <4> QED
        BY <3>2, <4>2, <4>3
    <3>3. CASE k = 0
      <4>1. h[0] = g[0] /\ g[0] = start
        BY <2>1, <2>2
      <4> QED
        BY <3>3, <4>1
    <3> QED
      BY <3>1, <3>2, <3>3
  <2>4. h = [k \in 0 .. m |-> h[k]]
    OBVIOUS
  <2> HIDE DEF h
  <2>5. Eq(m, h)
    BY <2>3, <2>4
  <2> HIDE DEF Eq
  <2> QED
    BY <2>2, <2>5
<1>3. n \in S
  <2> HIDE DEF S
  <2>1. \A k \in 0 .. n : k \in S
    BY <1>1, <1>2, UpTo
  <2> QED
    BY <2>1
<1>4. Eq(n, c)
  <2> HIDE DEF Eq
  <2> QED
    BY <1>3
<1> HIDE DEF c
<1>6. c[0] = start /\ \A k \in 1 .. n : c[k] = DecodeOne(c[k - 1], wire[k])
  BY <1>4
<1> QED
  BY <1>6, <1>7, <1>8 DEF Turns

\* a has n elements.
Elements(a, n) == DOMAIN a = 1 .. n /\ a = [i \in 1 .. n |-> a[i]]

\* w is a, x and b, one after the other.
Parts(w, a, n, x, b, m) ==
    /\ Len(w) = n + 1 + m
    /\ \A i \in 1 .. n : w[i] = a[i]
    /\ w[n + 1] = x
    /\ \A i \in 1 .. m : w[n + 1 + i] = b[i]

\* A block: the size updates, a header and the ones that repeat its name.
LEMMA Joined ==
    ASSUME NEW a, NEW n, n \in Nat, Elements(a, n), NEW b, NEW m, m \in Nat, Elements(b, m),
           NEW x, NEW w, w = a \o <<x>> \o b
    PROVE  Parts(w, a, n, x, b, m)
<1> DEFINE S == {a[i] : i \in 1 .. n} \union {b[i] : i \in 1 .. m} \union {x}
           y == <<x>>
           c == a \o y
<1>1. a \in [1 .. n -> S] /\ b \in [1 .. m -> S] /\ x \in S
  BY DEF Elements
<1> HIDE DEF S
<1>2. a \in Seq(S) /\ Len(a) = n /\ b \in Seq(S) /\ Len(b) = m
  BY <1>1, FunSeq
<1>3. y \in Seq(S) /\ Len(y) = 1 /\ y[1] = x
  BY <1>1
<1>4. w = c \o b
  OBVIOUS
<1> HIDE DEF y
<1>10. /\ c \in Seq(S) /\ Len(c) = Len(a) + Len(y)
       /\ \A i \in 1 .. Len(a) + Len(y) : c[i] = IF i <= Len(a) THEN a[i] ELSE y[i - Len(a)]
  <2>1. a \in Seq(S) /\ y \in Seq(S)
    BY <1>2, <1>3
  <2> QED
    BY <2>1, ConcatProperties, Zenon
<1>5. /\ c \in Seq(S) /\ Len(c) = n + 1
      /\ \A i \in 1 .. Len(a) + Len(y) : c[i] = IF i <= Len(a) THEN a[i] ELSE y[i - Len(a)]
  BY <1>2, <1>3, <1>10
<1> HIDE DEF c
<1>6. /\ Len(w) = (n + 1) + m
      /\ \A i \in 1 .. Len(c) + Len(b) : w[i] = IF i <= Len(c) THEN c[i] ELSE b[i - Len(c)]
  <2>1. c \in Seq(S) /\ b \in Seq(S)
    BY <1>2, <1>5
  <2>2. /\ Len(c \o b) = Len(c) + Len(b)
        /\ \A i \in 1 .. Len(c) + Len(b) : (c \o b)[i] = IF i <= Len(c) THEN c[i] ELSE b[i - Len(c)]
    BY <2>1, ConcatProperties, Zenon
  <2>3. /\ Len(w) = Len(c) + Len(b)
        /\ \A i \in 1 .. Len(c) + Len(b) : w[i] = IF i <= Len(c) THEN c[i] ELSE b[i - Len(c)]
    BY <1>4, <2>2, Zenon
  <2> QED
    BY <1>2, <1>5, <2>3
<1>7. ASSUME NEW i \in 1 .. n PROVE w[i] = a[i]
  BY <1>2, <1>3, <1>5, <1>6
<1>8. w[n + 1] = x
  <2>1. n + 1 \in 1 .. Len(c) + Len(b) /\ n + 1 <= Len(c) /\ n + 1 \in 1 .. Len(a) + Len(y) /\ ~(n + 1 <= Len(a))
        /\ (n + 1) - Len(a) = 1
    BY <1>2, <1>3, <1>5
  <2>2. w[n + 1] = c[n + 1] /\ c[n + 1] = y[(n + 1) - Len(a)]
    BY <1>5, <1>6, <2>1
  <2> QED
    BY <1>3, <2>1, <2>2
<1>9. ASSUME NEW i \in 1 .. m PROVE w[n + 1 + i] = b[i]
  <2>1. n + 1 + i \in 1 .. Len(c) + Len(b) /\ ~(n + 1 + i <= Len(c)) /\ (n + 1 + i) - Len(c) = i
    BY <1>2, <1>5
  <2>2. w[n + 1 + i] = b[(n + 1 + i) - Len(c)]
    BY <1>6, <2>1
  <2> QED
    BY <2>1, <2>2
<1> QED
  BY <1>6, <1>7, <1>8, <1>9 DEF Parts

\* The headers without a name.
Rest == [value : DOMAIN ValueLen, sensitive : BOOLEAN]
Rests == Seq(Rest)

\* The headers that were sent, the first and k more.
Out(h, more, k) == [i \in 1 .. k + 1 |-> IF i = 1 THEN FieldOf(h) ELSE NewField(h.name, more[i - 1].value)]

\* They are a sequence.
LEMMA OutFacts ==
    ASSUME NEW h, h \in Header, NEW more, more \in Rests, NEW k, k \in 0 .. Len(more)
    PROVE  /\ Out(h, more, k) \in Seq(Field) /\ Len(Out(h, more, k)) = k + 1
           /\ \A i \in 1 .. k + 1 :
                 Out(h, more, k)[i] = IF i = 1 THEN FieldOf(h) ELSE NewField(h.name, more[i - 1].value)
<1> DEFINE X(i) == IF i = 1 THEN FieldOf(h) ELSE NewField(h.name, more[i - 1].value)
           f == Out(h, more, k)
<1>1. Len(more) \in Nat /\ k \in Nat /\ k <= Len(more)
  BY DEF Rests
<1>2. FieldOf(h) \in Field
  BY FieldOfFacts
<1>3. ASSUME NEW i \in 1 .. k + 1, i # 1 PROVE NewField(h.name, more[i - 1].value) \in Field
  <2>1. i - 1 \in 1 .. Len(more)
    BY <1>1, <1>3
  <2>2. more[i - 1] \in Rest
    BY <2>1 DEF Rests
  <2>3. more[i - 1].value \in DOMAIN ValueLen /\ h.name \in DOMAIN NameLen
    BY <2>2 DEF Header, Rest
  <2> QED
    BY <2>3 DEF NewField, Field
<1>4. \A i \in 1 .. k + 1 : X(i) \in Field
  BY <1>2, <1>3
<1>5. f = [i \in 1 .. k + 1 |-> X(i)]
  BY DEF Out
<1> HIDE DEF X, f
<1>6. f \in [1 .. k + 1 -> Field] /\ \A i \in 1 .. k + 1 : f[i] = X(i)
  BY <1>4, <1>5
<1>7. k + 1 \in Nat
  BY <1>1
<1>8. f \in Seq(Field) /\ Len(f) = k + 1
  BY <1>6, <1>7, FunSeq
<1> QED
  BY <1>6, <1>8 DEF f, X

\* One more header.
LEMMA OutNext ==
    ASSUME NEW h, h \in Header, NEW more, more \in Rests, NEW k, k \in 1 .. Len(more)
    PROVE  Append(Out(h, more, k - 1), NewField(h.name, more[k].value)) = Out(h, more, k)
<1> DEFINE a == Out(h, more, k - 1)
           b == Out(h, more, k)
           x == NewField(h.name, more[k].value)
           c == Append(a, x)
           X(i) == IF i = 1 THEN FieldOf(h) ELSE NewField(h.name, more[i - 1].value)
<1>1. Len(more) \in Nat /\ k \in Nat /\ k # 0 /\ k \in 0 .. Len(more) /\ k - 1 \in 0 .. Len(more) /\ (k - 1) + 1 = k
  BY DEF Rests
<1>2. a \in Seq(Field) /\ Len(a) = k /\ \A i \in 1 .. k : a[i] = X(i)
  <2>1. k - 1 \in 0 .. Len(more)
    BY <1>1
  <2> DEFINE j == k - 1
  <2>2. j \in 0 .. Len(more) /\ j + 1 = k
    BY <1>1
  <2> HIDE DEF j
  <2>3. Out(h, more, j) \in Seq(Field) /\ Len(Out(h, more, j)) = j + 1 /\ \A i \in 1 .. j + 1 : Out(h, more, j)[i] = X(i)
    BY <2>2, OutFacts
  <2> QED
    BY <2>2, <2>3 DEF j
<1>3. b \in Seq(Field) /\ Len(b) = k + 1 /\ \A i \in 1 .. k + 1 : b[i] = X(i)
  BY <1>1, OutFacts
<1>4. x = X(k + 1)
  BY <1>1
<1> HIDE DEF a, b, x, X
<1>5. x \in Field
  <2>1. k + 1 \in 1 .. k + 1
    BY <1>1
  <2> QED
    BY <1>1, <1>3, <1>4, <2>1
<1>6. c \in Seq(Field) /\ Len(c) = k + 1 /\ \A i \in 1 .. k + 1 : c[i] = IF i = k + 1 THEN x ELSE a[i]
  BY <1>1, <1>2, <1>5
<1> HIDE DEF c
<1>7. \A i \in 1 .. k + 1 : c[i] = b[i]
  <2> SUFFICES ASSUME NEW i \in 1 .. k + 1 PROVE c[i] = b[i]
    OBVIOUS
  <2>1. CASE i = k + 1
    BY <1>3, <1>4, <1>6, <2>1
  <2>2. CASE i # k + 1
    <3>1. i \in 1 .. k
      BY <1>1, <2>2
    <3> QED
      BY <1>2, <1>3, <1>6, <2>2, <3>1
  <2> QED
    BY <2>1, <2>2
<1>8. c = b
  BY <1>3, <1>6, <1>7, SeqEqual
<1> QED
  BY <1>8 DEF a, b, c, x

\* The first header.
LEMMA OutFirst ==
    ASSUME NEW h, h \in Header, NEW more, more \in Rests
    PROVE  Append(<<>>, FieldOf(h)) = Out(h, more, 0)
<1>1. Append(<<>>, FieldOf(h)) = <<FieldOf(h)>>
  OBVIOUS
<1> DEFINE a == <<FieldOf(h)>>
           b == Out(h, more, 0)
           k == 0
<1>2. k \in 0 .. Len(more)
  BY DEF Rests
<1>3. /\ Out(h, more, k) \in Seq(Field) /\ Len(Out(h, more, k)) = k + 1
      /\ \A i \in 1 .. k + 1 :
            Out(h, more, k)[i] = IF i = 1 THEN FieldOf(h) ELSE NewField(h.name, more[i - 1].value)
  <2> HIDE DEF k
  <2> QED
    BY <1>2, OutFacts
<1>4. b \in Seq(Field) /\ Len(b) = 1 /\ b[1] = FieldOf(h)
  BY <1>3
<1>5. a \in Seq(Field) /\ Len(a) = 1 /\ a[1] = FieldOf(h)
  BY FieldOfFacts
<1> HIDE DEF a, b
<1>6. \A i \in 1 .. Len(a) : a[i] = b[i]
  BY <1>4, <1>5
<1>7. a = b
  BY <1>4, <1>5, <1>6, SeqEqual
<1> QED
  BY <1>1, <1>7 DEF a, b

\* All headers.
LEMMA OutAll ==
    ASSUME NEW h, h \in Header, NEW more, more \in Rests
    PROVE  <<[name |-> h.name, value |-> h.value]>> \o [i \in DOMAIN more |-> [name |-> h.name, value |-> more[i].value]]
           = Out(h, more, Len(more))
<1> DEFINE n == Len(more)
           x == FieldOf(h)
           a == [i \in 1 .. n |-> NewField(h.name, more[i].value)]
           b == Out(h, more, n)
           c == <<x>> \o a
           X(i) == IF i = 1 THEN FieldOf(h) ELSE NewField(h.name, more[i - 1].value)
<1>1. n \in Nat /\ n \in 0 .. n /\ DOMAIN more = 1 .. n
  BY DEF Rests
<1>2. <<[name |-> h.name, value |-> h.value]>> \o [i \in DOMAIN more |-> [name |-> h.name, value |-> more[i].value]] = c
  BY <1>1 DEF NewField, FieldOf
<1>3. b \in Seq(Field) /\ Len(b) = n + 1 /\ \A i \in 1 .. n + 1 : b[i] = X(i)
  BY <1>1, OutFacts
<1>4. \A i \in 1 .. n : a[i] = X(i + 1)
  OBVIOUS
<1>5. \A i \in 1 .. n : X(i + 1) \in Field
  <2> HIDE DEF X
  <2>1. \A i \in 1 .. n : i + 1 \in 1 .. n + 1
    BY <1>1
  <2> QED
    BY <1>1, <1>3, <2>1
<1>11. x = X(1) /\ x \in Field
  BY FieldOfFacts
<1>12. a = [i \in 1 .. n |-> a[i]]
  OBVIOUS
<1> HIDE DEF a, b, X, x
<1>6. a \in [1 .. n -> Field]
  BY <1>4, <1>5, <1>12
<1>7. a \in Seq(Field) /\ Len(a) = n
  BY <1>1, <1>6, FunSeq
<1>8. c \in Seq(Field) /\ Len(c) = n + 1 /\ c[1] = x /\ \A i \in 2 .. n + 1 : c[i] = a[i - 1]
  BY <1>7, <1>11, PrependFacts
<1> HIDE DEF c
<1>9. \A i \in 1 .. n + 1 : c[i] = b[i]
  <2> SUFFICES ASSUME NEW i \in 1 .. n + 1 PROVE c[i] = b[i]
    OBVIOUS
  <2>1. CASE i = 1
    BY <1>1, <1>3, <1>8, <1>11, <2>1
  <2>2. CASE i # 1
    <3>1. i \in 2 .. n + 1 /\ i - 1 \in 1 .. n /\ (i - 1) + 1 = i
      BY <1>1, <2>2
    <3>2. c[i] = a[i - 1] /\ a[i - 1] = X(i)
      BY <1>4, <1>8, <3>1
    <3> QED
      BY <1>3, <3>2
  <2> QED
    BY <2>1, <2>2
<1>10. c = b
  BY <1>3, <1>8, <1>9, SeqEqual
<1> QED
  BY <1>2, <1>10 DEF b

(***************************************************************************)
(* The block.                                                              *)
(***************************************************************************)

\* The decoder a has read size updates: its table is t, and was once no
\* larger than low.
Resizes(a, t, low) ==
    \E T, lo : /\ a = Acc(T, <<>>, Yes, lo) /\ Valid(t) /\ InStep(T, t)
               /\ lo \in Nat /\ lo <= low

\* The sizes that are owed to the peer when the table has the maximum m.
Owed(u, m, f, l) ==
    \/ u = <<>> /\ m <= f
    \/ \E a \in 0 .. MaxTable : u = <<a>> /\ (m <= f \/ a <= f) /\ a <= l
    \/ \E a, b \in 0 .. MaxTable : u = <<a, b>> /\ a <= f /\ b <= l

\* The updates that wait bring the table down to what the peer announced.
Announced ==
    /\ limit \in Nat /\ floor \in Nat /\ floor <= limit
    /\ Owed(update, enc.max, floor, limit)

\* A size update on the wire.
LEMMA SizeUpdateHead ==
    ASSUME NEW v
    PROVE  SizeUpdate(v).head = EncodeInt(v, 5, 32)
BY DEF SizeUpdate

\* One size update.
LEMMA UpdateCarried ==
    ASSUME NEW t, NEW a, NEW low, low \in Nat, Resizes(a, t, low), NEW v, v \in 0 .. MaxTable, limit \in Nat, v <= limit,
           NEW r, r = Resize(t, v), NEW b, b = DecodeOne(a, SizeUpdate(v))
    PROVE  Resizes(b, r, low) /\ Resizes(b, r, v) /\ r.max = v
<1>1. PICK T, lo : /\ a = Acc(T, <<>>, Yes, lo) /\ Valid(t) /\ InStep(T, t)
                   /\ lo \in Nat /\ lo <= low
  BY DEF Resizes
<1>2. v \in Nat /\ v < Width /\ v <= MaxTable + 61
  BY HpackAssumption, NonePos
<1>3. Valid(r) /\ Shrinks(r, t, v)
  BY <1>1, <1>2, ResizeSound
<1> DEFINE T1 == DecSetMaxSize(T, v)
           lo1 == Min({lo, v})
           rep == SizeUpdate(v)
<1>4. InStep(T1, r)
  BY <1>1, <1>2, <1>3, ShrinkInStep
<1>5. lo1 \in Nat /\ lo1 <= lo /\ lo1 <= v
  BY <1>1, <1>2, MinOfTwo
<1>6. Reads(rep.head, "SizeUpdate", 5, v)
  <2>1. v < Shift[5]
    BY <1>2, SmallIndex
  <2>2. rep.head = EncodeInt(v, 5, 32)
    BY SizeUpdateHead
  <2> HIDE DEF rep
  <2> QED
    BY <1>2, <2>1, <2>2, ReadsSizeUpdate
<1>7. b = DecodeOne(a, rep)
  OBVIOUS
<1>8. b = Acc(T1, <<>>, Yes, lo1)
  <2> DEFINE o == <<>>
  <2>1. b = DecodeOne(Acc(T, o, Yes, lo), rep)
    BY <1>1, <1>7, Zenon
  <2> HIDE DEF rep, o
  <2>2. DecodeOne(Acc(T, o, Yes, lo), rep) = Acc(DecSetMaxSize(T, v), o, Yes, Min({lo, v}))
    BY <1>2, <1>6, SizeUpdateIs
  <2> QED
    BY <2>1, <2>2 DEF o
<1> HIDE DEF T1, lo1
<1>9. lo1 <= low
  BY <1>1, <1>5
<1>10. r.max = v
  BY <1>3 DEF Shrinks
<1> QED
  BY <1>3, <1>4, <1>5, <1>8, <1>9, <1>10 DEF Resizes

\* The size updates at the head of a block.
LEMMA UpdatesCarried ==
    ASSUME EncoderInv, InStep(dec, enc), Announced, NEW g, g[0] = Acc(dec, <<>>, Yes, dec.max), NEW n, n = Len(update),
           \A k \in 1 .. n : g[k] = DecodeOne(g[k - 1], SizeUpdate(update[k]))
    PROVE  Resizes(g[n], Resized, floor) /\ Resized.max <= limit /\ n \in 0 .. 2 /\ DOMAIN update = 1 .. n
<1> DEFINE m == enc.max
<1>0. /\ limit \in Nat /\ floor \in Nat /\ floor <= limit
      /\ Owed(update, m, floor, limit)
  BY DEF Announced
<1>1. m \in Nat /\ m \in 0 .. MaxTable /\ dec.max = m /\ Valid(enc) /\ MaxTable \in Nat
  BY InStepFacts, HpackAssumption DEF EncoderInv
<1>2. Resizes(g[0], enc, m)
  BY <1>1 DEF Resizes
<1>3. CASE update = <<>> /\ m <= floor
  <2>1. n = 0 /\ DOMAIN update = 1 .. 0
    BY <1>3
  <2>2. Resized = enc
    BY <1>3 DEF Resized
  <2>3. Resizes(g[0], enc, floor)
    BY <1>0, <1>1, <1>3 DEF Resizes
  <2> QED
    BY <1>0, <1>1, <1>3, <2>1, <2>2, <2>3
<1>4. ASSUME NEW a \in 0 .. MaxTable, update = <<a>>, m <= floor \/ a <= floor, a <= limit
      PROVE  Resizes(g[n], Resized, floor) /\ Resized.max <= limit /\ n \in 0 .. 2 /\ DOMAIN update = 1 .. n
  <2>1. n = 1 /\ Len(update) = 1 /\ update # <<>> /\ update[1] = a /\ DOMAIN update = 1 .. 1
    BY <1>4
  <2>2. Resized = Resize(enc, a)
    BY <2>1 DEF Resized
  <2> DEFINE x == g[0]
             y == g[1]
             r == Resized
  <2>3. y = DecodeOne(x, SizeUpdate(a))
    BY <2>1
  <2>4. Resizes(x, enc, m) /\ r = Resize(enc, a)
    BY <1>2, <2>2
  <2> HIDE DEF x, y, r, m
  <2>5. Resizes(y, r, m) /\ Resizes(y, r, a) /\ r.max = a
    BY <1>0, <1>1, <1>4, <2>3, <2>4, UpdateCarried
  <2>6. Resizes(y, r, floor)
    <3>1. m <= floor \/ a <= floor
      BY <1>4
    <3>2. \A lo \in Nat : (m <= floor /\ lo <= m => lo <= floor) /\ (a <= floor /\ lo <= a => lo <= floor)
      BY <1>0, <1>1
    <3> QED
      BY <2>5, <3>1, <3>2 DEF Resizes
  <2> QED
    BY <1>4, <2>1, <2>5, <2>6 DEF y, r
<1>5. ASSUME NEW a \in 0 .. MaxTable, NEW b \in 0 .. MaxTable, update = <<a, b>>, a <= floor, b <= limit
      PROVE  Resizes(g[n], Resized, floor) /\ Resized.max <= limit /\ n \in 0 .. 2 /\ DOMAIN update = 1 .. n
  <2>1. n = 2 /\ Len(update) = 2 /\ update # <<>> /\ update[1] = a /\ update[2] = b /\ DOMAIN update = 1 .. 2
    BY <1>5
  <2> DEFINE x == g[0]
             y == g[1]
             z == g[2]
             t1 == Resize(enc, a)
             r == Resized
  <2>2. r = Resize(t1, b)
    BY <2>1 DEF Resized
  <2>3. y = DecodeOne(x, SizeUpdate(a)) /\ z = DecodeOne(y, SizeUpdate(b))
    BY <2>1
  <2>4. Resizes(x, enc, m) /\ t1 = Resize(enc, a) /\ a <= limit /\ a \in Nat
    BY <1>0, <1>1, <1>2, <1>5
  <2> HIDE DEF x, y, z, r, t1, m
  <2>5. Resizes(y, t1, a)
    BY <1>0, <1>1, <2>3, <2>4, UpdateCarried
  <2>6. Resizes(z, r, a) /\ r.max = b
    BY <1>0, <1>5, <2>2, <2>3, <2>4, <2>5, UpdateCarried
  <2>7. Resizes(z, r, floor)
    <3>1. \A lo \in Nat : lo <= a => lo <= floor
      BY <1>0, <1>5
    <3> QED
      BY <2>6, <3>1 DEF Resizes
  <2> QED
    BY <1>5, <2>1, <2>6, <2>7 DEF z, r
<1> QED
  BY <1>0, <1>3, <1>4, <1>5 DEF Owed

\* The decoder got has read the block of h and more: it gives the headers,
\* and its table is the encoder's table r.
BlockRead(got, r, h, more) ==
    \E T, lo : /\ got = Acc(T, Out(h, more, Len(more)), No, lo)
               /\ Valid(r) /\ InStep(T, r) /\ lo \in Nat /\ lo <= floor

\* The turns of the decoder for the headers that repeat the name, after turn s.
RepeatTurns(g, s, res, h, more) ==
    \A k \in 1 .. Len(more) : g[s + k] = DecodeOne(g[(s + k) - 1], EncodeWithoutName(res.index, h, more[k]))

\* The headers that repeat the name.
LEMMA RepeatsCarried ==
    ASSUME NEW h, h \in Header, NEW more, more \in Rests, NEW res, NEW d1, Repeats(res, d1, h), NEW g, NEW s, s \in Nat,
           NEW lo, g[s] = Acc(d1, Out(h, more, 0), No, lo), RepeatTurns(g, s, res, h, more)
    PROVE  g[s + Len(more)] = Acc(d1, Out(h, more, Len(more)), No, lo)
<1> DEFINE n == Len(more)
           S == {k \in 0 .. n : g[s + k] = Acc(d1, Out(h, more, k), No, lo)}
<1>1. n \in Nat
  BY DEF Rests
<1>2. 0 \in S
  <2>1. s + 0 = s /\ 0 \in 0 .. n
    BY <1>1
  <2> QED
    BY <2>1
<1>3. ASSUME NEW k \in 1 .. n, k - 1 \in S PROVE k \in S
  <2> DEFINE j == k - 1
             o == Out(h, more, j)
             f == NewField(h.name, more[k].value)
             rep == EncodeWithoutName(res.index, h, more[k])
  <2>1. g[s + j] = Acc(d1, o, No, lo) /\ (s + k) - 1 = s + j /\ k \in 0 .. n
    BY <1>1, <1>3
  <2>2. Yields(rep, d1, d1, f)
    BY RestCarried
  <2>3. Append(o, f) = Out(h, more, k)
    BY OutNext
  <2>4. g[s + k] = DecodeOne(g[s + j], rep)
    BY <2>1 DEF RepeatTurns
  <2> HIDE DEF j, o, f, rep, n
  <2>5. g[s + k] = DecodeOne(Acc(d1, o, No, lo), rep)
    BY <2>1, <2>4, Zenon
  <2>6. DecodeOne(Acc(d1, o, No, lo), rep) = Acc(d1, Append(o, f), No, lo)
    BY <2>2, Zenon DEF Yields
  <2>7. g[s + k] = Acc(d1, Out(h, more, k), No, lo)
    BY <2>3, <2>5, <2>6, Zenon
  <2> QED
    BY <2>1, <2>7
<1>4. n \in S
  <2> HIDE DEF S, n
  <2>1. \A k \in 0 .. n : k \in S
    BY <1>1, <1>2, <1>3, UpTo
  <2> QED
    BY <1>1, <2>1
<1> QED
  BY <1>4

\* A block on the wire: n size updates, a header and the ones that repeat its name.
Wire(w, n, res, h, more) ==
    /\ Len(w) = n + 1 + Len(more)
    /\ \A i \in 1 .. n : w[i] = SizeUpdate(update[i])
    /\ w[n + 1] = EncodeHeader(res.index, h)
    /\ \A i \in 1 .. Len(more) : w[n + 1 + i] = EncodeWithoutName(res.index, h, more[i])

\* encode() writes it.
LEMMA WireOf ==
    ASSUME NEW h, NEW more, more \in Rests, NEW n, n \in Nat, DOMAIN update = 1 .. n,
           NEW res, res = Index(Resized, h), NEW w, w = Encode(h, more).wire
    PROVE  Wire(w, n, res, h, more)
<1> DEFINE m == Len(more)
           a == [i \in 1 .. n |-> SizeUpdate(update[i])]
           b == [i \in 1 .. m |-> EncodeWithoutName(res.index, h, more[i])]
           x == EncodeHeader(res.index, h)
<1>1. m \in Nat /\ DOMAIN more = 1 .. m
  BY DEF Rests
<1>2. Encode(h, more).wire
        = [i \in DOMAIN update |-> SizeUpdate(update[i])]
          \o <<EncodeHeader(Index(Resized, h).index, h)>>
          \o [i \in DOMAIN more |-> EncodeWithoutName(Index(Resized, h).index, h, more[i])]
  BY DEF Encode
<1>3. w = a \o <<x>> \o b
  BY <1>1, <1>2, Zenon
<1>4. /\ Elements(a, n) /\ \A i \in 1 .. n : a[i] = SizeUpdate(update[i])
      /\ Elements(b, m) /\ \A i \in 1 .. m : b[i] = EncodeWithoutName(res.index, h, more[i])
  BY Zenon DEF Elements
<1> HIDE DEF a, b, x, m
<1>8. Parts(w, a, n, x, b, m)
  BY <1>1, <1>3, <1>4, Joined
<1>5. /\ Len(w) = n + 1 + m
      /\ \A i \in 1 .. n : w[i] = a[i]
      /\ w[n + 1] = x
      /\ \A i \in 1 .. m : w[n + 1 + i] = b[i]
  BY <1>8, Zenon DEF Parts
<1>6. \A i \in 1 .. n : w[i] = SizeUpdate(update[i])
  BY <1>4, <1>5, Zenon
<1>7. \A i \in 1 .. m : w[n + 1 + i] = EncodeWithoutName(res.index, h, more[i])
  BY <1>4, <1>5, Zenon
<1> QED
  BY <1>5, <1>6, <1>7, Zenon DEF m, x, Wire

\* The sizes that wait for a block are at most two.
LEMMA UpdateLen ==
    ASSUME EncoderInv
    PROVE  Len(update) \in Nat /\ DOMAIN update = 1 .. Len(update)
<1>1. CASE update = <<>>
  BY <1>1
<1>2. ASSUME NEW a \in 0 .. MaxTable, update = <<a>>
      PROVE  Len(update) \in Nat /\ DOMAIN update = 1 .. Len(update)
  BY <1>2
<1>3. ASSUME NEW a \in 0 .. MaxTable, NEW b \in 0 .. MaxTable, update = <<a, b>>
      PROVE  Len(update) \in Nat /\ DOMAIN update = 1 .. Len(update)
  BY <1>3
<1> QED
  BY <1>1, <1>2, <1>3 DEF EncoderInv, Updates

\* The decoder reads a block as it was made.
LEMMA BlockDecodes ==
    ASSUME EncoderInv, InStep(dec, enc), Announced, NEW h, h \in Header, NEW more, more \in Rests
    PROVE  BlockRead(Decode(Encode(h, more).wire), Index(Resized, h).table, h, more)
<1> DEFINE w == Encode(h, more).wire
           n == Len(update)
           m == Len(more)
           t == Resized
           res == Index(t, h)
<1>1. n \in Nat /\ DOMAIN update = 1 .. n /\ m \in Nat /\ floor \in Nat
  BY UpdateLen DEF Rests, Announced
<1>2. /\ Len(w) = n + 1 + m
      /\ \A i \in 1 .. n : w[i] = SizeUpdate(update[i])
      /\ w[n + 1] = EncodeHeader(res.index, h)
      /\ \A i \in 1 .. m : w[n + 1 + i] = EncodeWithoutName(res.index, h, more[i])
  <2>1. res = Index(Resized, h) /\ w = Encode(h, more).wire
    OBVIOUS
  <2> HIDE DEF res, n, w, t, m
  <2>2. n \in Nat /\ DOMAIN update = 1 .. n
    BY <1>1
  <2>3. Wire(w, n, res, h, more)
    BY <2>1, <2>2, WireOf
  <2> QED
    BY <2>3, Zenon DEF m, Wire
<1>3. Valid(t) /\ t.max \in 0 .. MaxTable
  BY ResizedValid
<1>4. res = Index(t, h)
  OBVIOUS
<1>5. n = Len(update)
  OBVIOUS
<1> SUFFICES BlockRead(Decode(w), res.table, h, more)
  OBVIOUS
<1> HIDE DEF w, n, m, t, res
<1>6. n + 1 + m \in Nat /\ n + 1 + m = Len(w)
  BY <1>1, <1>2
<1>7. PICK g : Turns(g, w, n + 1 + m)
  BY <1>6, DecodeTurns
<1>8. /\ g[0] = Acc(dec, <<>>, Yes, dec.max)
      /\ \A k \in 1 .. n + 1 + m : g[k] = DecodeOne(g[k - 1], w[k])
      /\ Decode(w) = g[n + 1 + m]
  BY <1>7 DEF Turns
<1>9. Resizes(g[n], t, floor)
  <2>1. \A k \in 1 .. n : k \in 1 .. n + 1 + m
    BY <1>1
  <2>2. \A k \in 1 .. n : g[k] = DecodeOne(g[k - 1], SizeUpdate(update[k]))
    BY <1>2, <1>8, <2>1, Zenon
  <2> QED
    BY <1>5, <1>8, <2>2, UpdatesCarried DEF t
<1>10. PICK T, lo : /\ g[n] = Acc(T, <<>>, Yes, lo) /\ InStep(T, t) /\ lo \in Nat /\ lo <= floor
  BY <1>9 DEF Resizes
<1>11. PICK T1 : Carried(res, T, T1, h) /\ Repeats(res, T1, h)
  BY <1>3, <1>4, <1>10, HeaderCarried
<1> DEFINE s == n + 1
<1>12. g[s] = Acc(T1, Out(h, more, 0), No, lo)
  <2>1. s \in 1 .. n + 1 + m /\ s - 1 = n
    BY <1>1
  <2>2. g[s] = DecodeOne(g[n], EncodeHeader(res.index, h))
    BY <1>2, <1>8, <2>1
  <2> DEFINE o == <<>>
             f == FieldOf(h)
             rep == EncodeHeader(res.index, h)
  <2>3. g[s] = DecodeOne(Acc(T, o, Yes, lo), rep)
    BY <1>10, <2>2, Zenon
  <2>4. Yields(rep, T, T1, f)
    BY <1>11 DEF Carried
  <2>5. Append(o, f) = Out(h, more, 0)
    BY OutFirst
  <2> HIDE DEF o, f, rep
  <2>6. DecodeOne(Acc(T, o, Yes, lo), rep) = Acc(T1, Append(o, f), No, lo)
    BY <2>4, Zenon DEF Yields
  <2> QED
    BY <2>3, <2>5, <2>6, Zenon
<1>13. \A k \in 1 .. m : g[s + k] = DecodeOne(g[(s + k) - 1], EncodeWithoutName(res.index, h, more[k]))
  <2> SUFFICES ASSUME NEW k \in 1 .. m
               PROVE  g[s + k] = DecodeOne(g[(s + k) - 1], EncodeWithoutName(res.index, h, more[k]))
    OBVIOUS
  <2> DEFINE j == s + k
  <2>1. j \in 1 .. n + 1 + m /\ j = n + 1 + k
    BY <1>1
  <2> HIDE DEF j
  <2>2. g[j] = DecodeOne(g[j - 1], w[j])
    BY <1>8, <2>1
  <2>3. w[j] = EncodeWithoutName(res.index, h, more[k])
    BY <1>2, <2>1
  <2> QED
    BY <2>2, <2>3, Zenon DEF j
<1>14. s \in Nat /\ s + m = n + 1 + m /\ m = Len(more)
  BY <1>1 DEF m
<1> HIDE DEF s
<1>15. g[s + m] = Acc(T1, Out(h, more, m), No, lo)
  <2>1. RepeatTurns(g, s, res, h, more)
    BY <1>13, <1>14, Zenon DEF RepeatTurns
  <2>2. g[s + Len(more)] = Acc(T1, Out(h, more, Len(more)), No, lo)
    BY <1>11, <1>12, <1>14, <2>1, RepeatsCarried
  <2> QED
    BY <1>14, <2>2
<1>16. Decode(w) = Acc(T1, Out(h, more, Len(more)), No, lo)
  BY <1>8, <1>14, <1>15, Zenon
<1>17. Valid(res.table) /\ InStep(T1, res.table)
  BY <1>11 DEF Carried
<1> QED
  BY <1>10, <1>16, <1>17 DEF BlockRead

\* The two ends between blocks: the encoder's table is valid, the decoder
\* has the same entries, the waiting size updates cover what the peer
\* announced, and every block so far was read as it was made.
HpackInv ==
    /\ EncoderInv
    /\ InStep(dec, enc)
    /\ Announced
    /\ result = "ok"

\* A size the peer announces: update_max_size() keeps what is owed.
LEMMA QueueOwed ==
    ASSUME NEW u, NEW m, m \in Nat, m = enc.max, NEW f, f \in Nat, NEW l, l \in Nat, f <= l, Owed(u, m, f, l),
           NEW val, val \in Nat, NEW v, v = Min({val, MaxTable}), NEW f1, f1 = Min({f, val})
    PROVE  Owed(QueueUpdate(u, v), m, f1, val) /\ f1 \in Nat /\ f1 <= val
<1> DEFINE q == QueueUpdate(u, v)
<1>1. MaxTable \in Nat
  BY HpackAssumption
<1>2. v = IF val <= MaxTable THEN val ELSE MaxTable
  BY <1>1, MinOfTwo
<1>3. f1 = IF f <= val THEN f ELSE val
  BY MinOfTwo
<1>4. v \in 0 .. MaxTable /\ v \in Nat /\ v <= val /\ f1 \in Nat /\ f1 <= val /\ (f1 = f \/ f1 = val)
  BY <1>1, <1>2, <1>3
<1>5. ASSUME u = <<>> /\ m <= f
      PROVE  Owed(q, m, f1, val)
  <2>1. q = IF v # m THEN <<v>> ELSE <<>>
    BY <1>5 DEF QueueUpdate
  <2>2. CASE v # m
    <3>1. q = <<v>> /\ (m <= f1 \/ v <= f1)
      BY <1>4, <1>5, <2>1, <2>2
    <3> QED
      BY <1>4, <3>1 DEF Owed
  <2>3. CASE v = m
    <3>1. q = <<>> /\ m <= f1
      BY <1>4, <1>5, <2>1, <2>3
    <3> QED
      BY <1>4, <3>1 DEF Owed
  <2> QED
    BY <2>2, <2>3
<1>6. ASSUME NEW a \in 0 .. MaxTable, u = <<a>>, m <= f \/ a <= f
      PROVE  Owed(q, m, f1, val)
  <2>1. Len(u) = 1 /\ u # <<>> /\ u[1] = a /\ a \in Nat
    BY <1>1, <1>6
  <2>2. q = IF v > a /\ a <= m THEN <<a, v>> ELSE <<v>>
    BY <2>1 DEF QueueUpdate
  <2>3. CASE v > a /\ a <= m
    <3>1. q = <<a, v>> /\ a <= f1
      BY <1>4, <1>6, <2>1, <2>2, <2>3
    <3> QED
      BY <1>4, <3>1 DEF Owed
  <2>4. CASE ~(v > a /\ a <= m)
    <3>1. q = <<v>> /\ (m <= f1 \/ v <= f1)
      BY <1>4, <1>6, <2>1, <2>2, <2>4
    <3> QED
      BY <1>4, <3>1 DEF Owed
  <2> QED
    BY <2>3, <2>4
<1>7. ASSUME NEW a \in 0 .. MaxTable, NEW b \in 0 .. MaxTable, u = <<a, b>>, a <= f
      PROVE  Owed(q, m, f1, val)
  <2>1. Len(u) = 2 /\ u # <<>> /\ u[1] = a /\ a \in Nat
    BY <1>1, <1>7
  <2>2. q = IF v < a THEN <<v>> ELSE <<a, v>>
    BY <2>1 DEF QueueUpdate
  <2>3. CASE v < a
    <3>1. q = <<v>> /\ v <= f1
      BY <1>4, <1>7, <2>1, <2>2, <2>3
    <3> QED
      BY <1>4, <3>1 DEF Owed
  <2>4. CASE ~(v < a)
    <3>1. q = <<a, v>> /\ a <= f1
      BY <1>4, <1>7, <2>1, <2>2, <2>4
    <3> QED
      BY <1>4, <3>1 DEF Owed
  <2> QED
    BY <2>3, <2>4
<1>8. Owed(q, m, f1, val)
  <2> HIDE DEF q
  <2>1. \/ u = <<>> /\ m <= f
        \/ \E a \in 0 .. MaxTable : u = <<a>> /\ (m <= f \/ a <= f) /\ a <= l
        \/ \E a, b \in 0 .. MaxTable : u = <<a, b>> /\ a <= f /\ b <= l
    BY Zenon DEF Owed
  <2>2. ASSUME NEW a \in 0 .. MaxTable, u = <<a>> /\ (m <= f \/ a <= f) /\ a <= l
        PROVE  Owed(q, m, f1, val)
    BY <1>6, <2>2, Zenon
  <2>3. ASSUME NEW a \in 0 .. MaxTable, NEW b \in 0 .. MaxTable, u = <<a, b>> /\ a <= f /\ b <= l
        PROVE  Owed(q, m, f1, val)
    BY <1>7, <2>3, Zenon
  <2> QED
    BY <1>5, <2>1, <2>2, <2>3, Zenon
<1> QED
  BY <1>4, <1>8

\* The size updates do not go past what the peer announced.
LEMMA ResizedLimit ==
    ASSUME EncoderInv, Announced
    PROVE  Resized.max <= limit
<1>1. MaxTable \in Nat /\ MaxTable < Width /\ Width \in Nat /\ enc.max \in Nat /\ Valid(enc)
  BY HpackAssumption, NonePos DEF EncoderInv
<1>2. \A a \in 0 .. MaxTable : a \in Nat /\ a < Width
  BY <1>1
<1>3. limit \in Nat /\ floor \in Nat /\ floor <= limit
  BY DEF Announced
<1>4. CASE update = <<>> /\ enc.max <= floor
  <2>1. Resized = enc
    BY <1>4 DEF Resized
  <2> QED
    BY <1>1, <1>3, <1>4, <2>1
<1>5. ASSUME NEW a \in 0 .. MaxTable, update = <<a>>, a <= limit
      PROVE  Resized.max <= limit
  <2>1. Len(update) = 1 /\ update # <<>> /\ update[1] = a
    BY <1>5
  <2>2. Resized = Resize(enc, a)
    BY <2>1 DEF Resized
  <2>3. Shrinks(Resized, enc, a)
    BY <1>1, <1>2, <2>2, ResizeSound
  <2> QED
    BY <1>5, <2>3 DEF Shrinks
<1>6. ASSUME NEW a \in 0 .. MaxTable, NEW b \in 0 .. MaxTable, update = <<a, b>>, b <= limit
      PROVE  Resized.max <= limit
  <2>1. Len(update) = 2 /\ update # <<>> /\ update[1] = a /\ update[2] = b
    BY <1>6
  <2> DEFINE m == Resize(enc, a)
  <2>2. Resized = Resize(m, b) /\ m = Resize(enc, a)
    BY <2>1 DEF Resized
  <2> HIDE DEF m
  <2>3. Valid(m)
    BY <1>1, <1>2, <2>2, ResizeSound
  <2>4. Shrinks(Resized, m, b)
    BY <1>2, <2>2, <2>3, ResizeSound
  <2> QED
    BY <1>6, <2>4 DEF Shrinks
<1> QED
  BY <1>4, <1>5, <1>6 DEF Announced, Owed

\* The decoder's outcome of a block.
LEMMA ReceivedOk ==
    ASSUME NEW got, NEW r, NEW h, NEW more, BlockRead(got, r, h, more), floor \in Nat,
           NEW sent, sent = Out(h, more, Len(more)), Received(got, sent)
    PROVE  InStep(dec', r) /\ Valid(r) /\ result' = "ok"
<1>1. PICK T, lo : /\ got = Acc(T, Out(h, more, Len(more)), No, lo)
                   /\ Valid(r) /\ InStep(T, r) /\ lo \in Nat /\ lo <= floor
  BY DEF BlockRead
<1>2. got.table = T /\ got.out = sent /\ got.error = NoError /\ got.low = lo
  BY <1>1, AccIs
<1>6. got.error = ""
  BY <1>2, Zenon DEF NoError
<1>3. ~(got.low > floor)
  BY <1>1, <1>2
<1>4. dec' = got.table
  BY DEF Received
<1>5. result' = "ok"
  BY <1>2, <1>3, <1>6 DEF Received
<1> QED
  BY <1>1, <1>2, <1>4, <1>5

\* A block is read as it was made.
LEMMA BlockInv ==
    ASSUME HpackInv, NEW block \in Blocks, EncodeBlock(block[1], block[2])
    PROVE  HpackInv'
<1> DEFINE h == block[1]
           more == block[2]
           sent == <<[name |-> h.name, value |-> h.value]>>
                   \o [i \in DOMAIN more |-> [name |-> h.name, value |-> more[i].value]]
           w == Encode(h, more).wire
           t == Resized
           r == Index(t, h).table
<1>1. h \in Header /\ more \in Rests
  BY HpackAssumption DEF Header, Rest, Rests
<1>2. EncoderInv /\ InStep(dec, enc) /\ Announced /\ limit \in Nat /\ floor \in Nat
  BY DEF HpackInv, Announced
<1>3. EncoderInv'
  BY <1>2, EncodeValid
<1>4. /\ enc' = Encode(h, more).table /\ update' = <<>> /\ floor' = limit /\ limit' = limit
      /\ Received(Decode(w), sent)
  BY DEF EncodeBlock, Send
<1>5. enc' = r
  BY <1>4, EncodeTable
<1>6. BlockRead(Decode(w), r, h, more)
  <2> HIDE DEF h, more
  <2> QED
    BY <1>1, <1>2, BlockDecodes
<1>7. sent = Out(h, more, Len(more))
  <2> HIDE DEF h, more
  <2> QED
    BY <1>1, OutAll
<1>8. t.max <= limit /\ Valid(t) /\ t.max \in Nat
  <2>1. Valid(t) /\ t.max \in 0 .. MaxTable /\ MaxTable \in Nat
    BY <1>2, ResizedValid, HpackAssumption
  <2>2. t.max <= limit
    BY <1>2, ResizedLimit
  <2> QED
    BY <2>1, <2>2
<1>9. r.max = t.max
  <2>1. r = Index(t, h).table
    OBVIOUS
  <2> HIDE DEF r, t, h
  <2> QED
    BY <1>1, <1>8, <2>1, IndexValid
<1> DEFINE got == Decode(w)
<1> HIDE DEF h, more, sent, w, t, r, got
<1>10. InStep(dec', r) /\ result' = "ok"
  <2>1. BlockRead(got, r, h, more) /\ Received(got, sent)
    BY <1>4, <1>6 DEF got
  <2> QED
    BY <1>2, <1>7, <2>1, ReceivedOk
<1>11. InStep(dec, enc)'
  BY <1>5, <1>10 DEF InStep, Fields, FieldOf, DecTbl
<1>12. Announced'
  <2>1. (enc').max <= limit /\ limit' = limit /\ floor' = limit /\ update' = <<>>
    BY <1>4, <1>5, <1>8, <1>9
  <2> QED
    BY <1>2, <2>1 DEF Announced, Owed
<1> QED
  BY <1>3, <1>10, <1>11, <1>12 DEF HpackInv

\* A size the peer announces.
LEMMA AnnounceInv ==
    ASSUME HpackInv, NEW val \in Sizes, SetSendHeaderTableSize(val), EncoderInv'
    PROVE  HpackInv'
<1> DEFINE v == Min({val, MaxTable})
           f1 == Min({floor, val})
           m == enc.max
<1>1. /\ update' = QueueUpdate(update, v) /\ limit' = val /\ floor' = f1
      /\ enc' = enc /\ dec' = dec /\ result' = result
  BY DEF SetSendHeaderTableSize
<1>2. val \in Nat /\ MaxTable \in Nat
  BY HpackAssumption
<1>3. limit \in Nat /\ floor \in Nat /\ floor <= limit /\ Owed(update, m, floor, limit) /\ m \in Nat
  BY <1>2 DEF HpackInv, Announced, EncoderInv
<1>4. v = Min({val, MaxTable}) /\ f1 = Min({floor, val}) /\ m = enc.max
  OBVIOUS
<1> HIDE DEF v, f1, m
<1>5. Owed(QueueUpdate(update, v), m, f1, val) /\ f1 \in Nat /\ f1 <= val
  BY <1>2, <1>3, <1>4, QueueOwed
<1> DEFINE q == QueueUpdate(update, v)
<1>6. Owed(q, m, f1, val) /\ update' = q /\ (enc').max = m
  BY <1>1, <1>4, <1>5
<1> HIDE DEF q
<1>7. Announced'
  BY <1>1, <1>2, <1>5, <1>6 DEF Announced, Owed
<1>8. InStep(dec, enc)' /\ result' = "ok"
  BY <1>1 DEF HpackInv, InStep
<1> QED
  BY <1>7, <1>8 DEF HpackInv

\* The lengths that TablesInStep adds up.
Lengths(g, s) == g = [n \in 0 .. Len(s) |-> IF n = 0 THEN 0 ELSE g[n - 1] + HeaderLen(s[n].header)]

\* They add up to the size.
LEMMA LengthsSum ==
    ASSUME NEW s, Len(s) \in Nat, NEW z, Sums(s, z), NEW c, c = (CHOOSE g : Lengths(g, s))
    PROVE  c[Len(s)] = z
<1> DEFINE n == Len(s)
<1>1. PICK f : Adds(f, s) /\ f[n] = z
  BY DEF Sums
<1>2. f \in [0 .. n -> Nat] /\ f[0] = 0 /\ \A i \in 1 .. n : f[i] = f[i - 1] + HeaderLen(s[i].header)
  BY <1>1 DEF Adds
<1>3. Lengths(f, s)
  <2>1. ASSUME NEW k \in 0 .. n PROVE f[k] = IF k = 0 THEN 0 ELSE f[k - 1] + HeaderLen(s[k].header)
    <3>1. CASE k = 0
      BY <1>2, <3>1
    <3>2. CASE k # 0
      <4>1. k \in 1 .. n
        BY <3>2
      <4> QED
        BY <1>2, <3>2, <4>1
    <3> QED
      BY <3>1, <3>2
  <2>2. f = [k \in 0 .. n |-> f[k]]
    BY <1>2
  <2> QED
    BY <2>1, <2>2 DEF Lengths
<1>4. Lengths(c, s)
  <2> HIDE DEF n
  <2> QED
    BY <1>3, Zenon
<1>9. \A k \in 0 .. n : c[k] = IF k = 0 THEN 0 ELSE c[k - 1] + HeaderLen(s[k].header)
  BY <1>4, Zenon DEF Lengths
<1>5. c[0] = 0 /\ \A k \in 1 .. n : c[k] = c[k - 1] + HeaderLen(s[k].header)
  <2>1. 0 \in 0 .. n /\ \A k \in 1 .. n : k \in 0 .. n /\ k # 0
    OBVIOUS
  <2> QED
    BY <1>9, <2>1
<1> DEFINE S == {k \in 0 .. n : c[k] = f[k]}
<1>6. 0 \in S
  BY <1>2, <1>5
<1>7. ASSUME NEW k \in 1 .. n, k - 1 \in S PROVE k \in S
  <2>1. c[k] = c[k - 1] + HeaderLen(s[k].header) /\ f[k] = f[k - 1] + HeaderLen(s[k].header) /\ k \in 0 .. n
    BY <1>2, <1>5
  <2> QED
    BY <1>7, <2>1
<1>8. n \in S
  <2>1. n \in Nat
    OBVIOUS
  <2> HIDE DEF S, n
  <2>2. \A k \in 0 .. n : k \in S
    BY <1>6, <1>7, <2>1, UpTo
  <2> QED
    BY <2>1, <2>2
<1> QED
  BY <1>1, <1>8

\* Both ends have the same table.
LEMMA InStepTables ==
    ASSUME Valid(enc), InStep(dec, enc)
    PROVE  TablesInStep
<1> DEFINE s == enc.slots
           c == CHOOSE g : Lengths(g, s)
<1>1. /\ s \in Seq(SlotRec) /\ Len(s) \in Nat /\ Sums(s, enc.size) /\ enc.size <= enc.max
      /\ DOMAIN s = 1 .. Len(s)
  BY ValidParts
<1>2. dec.entries = Fields(s) /\ dec.size = enc.size /\ dec.max = enc.max
  BY DecTblIs DEF InStep
<1>3. c[Len(s)] = enc.size
  <2> DEFINE z == enc.size
  <2>1. Sums(s, z) /\ Len(s) \in Nat /\ c = CHOOSE g : Lengths(g, s)
    BY <1>1
  <2> HIDE DEF s, z, c
  <2>2. c[Len(s)] = z
    BY <2>1, LengthsSum
  <2> QED
    BY <2>2 DEF z
<1>4. Fields(s) = [i \in DOMAIN s |-> [name |-> s[i].header.name, value |-> s[i].header.value]]
  BY <1>1 DEF Fields, FieldOf
<1>5. TablesInStep =
        (/\ dec.entries = [i \in DOMAIN s |-> [name |-> s[i].header.name, value |-> s[i].header.value]]
         /\ dec.size = enc.size /\ dec.max = enc.max
         /\ enc.size = c[Len(s)]
         /\ enc.size <= enc.max)
  BY DEF TablesInStep, Lengths
<1> HIDE DEF s, c
<1> QED
  BY <1>1, <1>2, <1>3, <1>4, <1>5

\* The two ends start with an empty table.
LEMMA FirstInStep ==
    ASSUME Init
    PROVE  HpackInv
<1>1. /\ enc = NewTable(MaxTable) /\ update = <<>> /\ dec = DecTable(MaxTable)
      /\ limit = MaxTable /\ floor = MaxTable /\ result = "ok"
  BY DEF Init
<1>2. Valid(enc) /\ enc.slots = <<>> /\ enc.size = 0 /\ enc.max = MaxTable /\ MaxTable \in Nat
  BY <1>1, NewTableValid, HpackAssumption
<1>3. EncoderInv
  BY <1>1, <1>2 DEF EncoderInv, Updates
<1>4. Fields(<<>>) = <<>>
  BY DEF Fields
<1>5. dec = DecTbl(<<>>, 0, MaxTable)
  BY <1>1 DEF DecTable, DecTbl
<1>6. InStep(dec, enc)
  BY <1>2, <1>4, <1>5 DEF InStep
<1>7. Announced
  BY <1>1, <1>2 DEF Announced, Owed
<1> QED
  BY <1>1, <1>3, <1>6, <1>7 DEF HpackInv

\* The two ends of HPACK stay in step: the encoder's table is valid, the
\* decoder has the same entries, the size updates that wait bring the table
\* down to what the peer announced, and no block so far was in error.
THEOREM HpackInvariant == Spec => []HpackInv
<1>1. Init => HpackInv
  BY FirstInStep
<1>2. HpackInv /\ EncoderInv' /\ [Next]_vars => HpackInv'
  <2> SUFFICES ASSUME HpackInv, EncoderInv', [Next]_vars PROVE HpackInv'
    OBVIOUS
  <2>1. CASE UNCHANGED vars
    BY <2>1 DEF vars, HpackInv, InStep, Announced
  <2> QED
    BY <2>1, AnnounceInv, BlockInv DEF Next
<1> QED
  BY <1>1, <1>2, EncoderInvariant, PTL DEF Spec

\* Every block the encoder writes is decoded to the headers it was made of,
\* whatever was inserted, evicted and resized before it, brings the table
\* down to every size the peer announced, and leaves the same table at both
\* ends (Encoder::encode, Decoder::decode).
THEOREM HpackDecodesAsEncoded == Spec => []DecodesAsEncoded
<1>1. HpackInv => DecodesAsEncoded
  BY InStepTables DEF HpackInv, EncoderInv, DecodesAsEncoded
<1> QED
  BY <1>1, HpackInvariant, PTL
=============================================================================
