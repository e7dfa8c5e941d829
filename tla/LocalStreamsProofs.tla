------------------------- MODULE LocalStreamsProofs -------------------------
(***************************************************************************)
(* Proofs about LocalStreams for every set of futures and reservations,    *)
(* every sequence of limits and every number of stream ids.                *)
(*                                                                         *)
(* The inductive invariant is SlotInv: the counters match the streams and  *)
(* reservations they count (so no decrement ever saturates), ids in the    *)
(* map were handed out, and a graceful disconnect that has nothing left to *)
(* wait for has closed the io.  WaiterQueued is inductive on top of the    *)
(* types; OpensWithinLimit follows from the types and the counters.        *)
(* WakeInv adds that a future is queued at most once, without which popping*)
(* n entries could wake fewer than n futures.                              *)
(***************************************************************************)
EXTENDS LocalStreams, FiniteSetTheorems, TLAPS

USE LimitAssumption, FutureAssumption

IdsUsed == \A id \in streams : id < next_stream_id

SlotInv == TypeOK /\ CountersMatch /\ IdsUsed /\ DrainedIsClosed

-----------------------------------------------------------------------------
(* Cardinalities of the two sets the counters count. *)

\* Sets of ids and of reservations are finite.
LEMMA FiniteSlots ==
    ASSUME TypeOK
    PROVE  /\ IsFiniteSet(streams) /\ Cardinality(streams) \in Nat
           /\ IsFiniteSet(Held) /\ Cardinality(Held) \in Nat
<1>1. IsFiniteSet(1 .. MaxStreamId)
  BY FS_Interval
<1>2. IsFiniteSet(streams)
  BY <1>1, FS_Subset DEF TypeOK, Ids
<1>3. IsFiniteSet(Held)
  BY FS_Subset DEF Held
<1> QED
  BY <1>2, <1>3, FS_CardinalityType

\* Adding the next id makes the map one stream larger.
LEMMA StreamAdded ==
    ASSUME TypeOK, IdsUsed
    PROVE  Cardinality(streams \union {next_stream_id}) = Cardinality(streams) + 1
<1>1. next_stream_id \notin streams
  BY DEF TypeOK, IdsUsed, Ids
<1> QED
  BY <1>1, FiniteSlots, FS_AddElement

\* Taking a reservation makes the set of held ones larger by one.
LEMMA HeldAdded ==
    ASSUME TypeOK, NEW r \in Reservers, resv[r] = "none",
           resv' = [resv EXCEPT ![r] = "held"]
    PROVE  Cardinality(Held') = Cardinality(Held) + 1
<1>1. Held' = Held \union {r} /\ r \notin Held
  BY DEF TypeOK, Held
<1> QED
  BY <1>1, FiniteSlots, FS_AddElement

\* Using or releasing a reservation makes it smaller by one.
LEMMA HeldRemoved ==
    ASSUME TypeOK, NEW r \in Reservers, resv[r] = "held",
           resv' = [resv EXCEPT ![r] = "done"]
    PROVE  Cardinality(Held') = Cardinality(Held) - 1
<1>1. Held' = Held \ {r} /\ r \in Held
  BY DEF TypeOK, Held
<1> QED
  BY <1>1, FiniteSlots, FS_RemoveElement

-----------------------------------------------------------------------------
(* Types of the queue operations. *)

\* wake_waiters() keeps the queue a queue and the futures' states in range.
LEMMA WakeWaitersType ==
    ASSUME TypeOK, NEW f \in [Futures -> FutureStates], NEW n, WakeWaiters(f, n)
    PROVE  readiness' \in Seq(Futures) /\ fut' \in [Futures -> FutureStates]
<1>1. PICK k \in 0 .. Len(readiness) :
         /\ readiness' = SubSeq(readiness, k + 1, Len(readiness))
         /\ fut' = [t \in Futures |->
                      IF f[t] = "parked" /\ \E i \in 1 .. k : readiness[i] = t
                      THEN "woken" ELSE f[t]]
  BY DEF WakeWaiters
<1>2. readiness' \in Seq(Futures)
  BY <1>1 DEF TypeOK
<1>3. fut' \in [Futures -> FutureStates]
  BY <1>1 DEF FutureStates
<1> QED
  BY <1>2, <1>3

\* Clearing the queue keeps the futures' states in range.
LEMMA ClearReadinessType ==
    ASSUME TypeOK, ClearReadiness(fut)
    PROVE  readiness' \in Seq(Futures) /\ fut' \in [Futures -> FutureStates]
  BY DEF TypeOK, ClearReadiness, FutureStates

-----------------------------------------------------------------------------
\* Every step keeps the variables in their types and the counters equal to
\* what they count.
LEMMA SlotStep ==
    ASSUME SlotInv, [Next]_vars
    PROVE  SlotInv'
<1> USE DEF SlotInv
<1>0. /\ Cardinality(streams) \in Nat /\ IsFiniteSet(streams)
      /\ Cardinality(Held) \in Nat /\ IsFiniteSet(Held)
  BY FiniteSlots
<1>1. ASSUME NEW t \in Futures, PollFails(t)
      PROVE  SlotInv'
  BY <1>1 DEF PollFails, TypeOK, FutureStates, slotVars, connVars, NoNotification,
       CountersMatch, Held, IdsUsed, DrainedIsClosed
<1>2. ASSUME NEW t \in Futures, PollParks(t)
      PROVE  SlotInv'
  <2>1. readiness' \in Seq(Futures)
    BY <1>2 DEF PollParks, TypeOK
  <2>2. fut' \in [Futures -> FutureStates]
    BY <1>2 DEF PollParks, TypeOK, FutureStates
  <2> QED
    BY <1>2, <2>1, <2>2 DEF PollParks, TypeOK, slotVars, connVars, NoNotification,
         CountersMatch, Held, IdsUsed, DrainedIsClosed
<1>3. ASSUME NEW t \in Futures, PollOpens(t)
      PROVE  SlotInv'
  <2>1. TypeOK'
    <3>1. streams' \subseteq Ids /\ next_stream_id' \in Ids /\ active_local' \in Nat
      BY <1>3 DEF PollOpens, TypeOK, IdLeft
    <3>2. fut' \in [Futures -> FutureStates]
      BY <1>3 DEF PollOpens, TypeOK, FutureStates
    <3> QED
      BY <1>3, <3>1, <3>2 DEF PollOpens, TypeOK, connVars, NoNotification
  <2>2. CountersMatch'
    BY <1>3, <1>0, StreamAdded DEF PollOpens, CountersMatch, Held, TypeOK
  <2>3. IdsUsed' /\ DrainedIsClosed'
    BY <1>3 DEF PollOpens, IdLeft, IdsUsed, TypeOK, Ids, DrainedIsClosed, connVars, Usable
  <2> QED
    BY <2>1, <2>2, <2>3
<1>4. ASSUME NEW t \in Futures, PollOpenFails(t)
      PROVE  SlotInv'
  <2>1. [fut EXCEPT ![t] = "failed"] \in [Futures -> FutureStates]
    BY DEF TypeOK, FutureStates
  <2>2. readiness' \in Seq(Futures) /\ fut' \in [Futures -> FutureStates]
    BY <1>4, <2>1, WakeWaitersType DEF PollOpenFails
  <2> QED
    BY <1>4, <2>2 DEF PollOpenFails, TypeOK, slotVars, connVars, NoNotification,
         CountersMatch, Held, IdsUsed, DrainedIsClosed
<1>5. ASSUME NEW t \in Futures, PollReady(t)
      PROVE  SlotInv'
  BY <1>5 DEF PollReady, TypeOK, FutureStates, slotVars, connVars, NoNotification,
       CountersMatch, Held, IdsUsed, DrainedIsClosed
<1>6. ASSUME NEW t \in Futures, DropFuture(t)
      PROVE  SlotInv'
  <2>1. [fut EXCEPT ![t] = "gone"] \in [Futures -> FutureStates]
    BY DEF TypeOK, FutureStates
  <2>2. readiness' \in Seq(Futures) /\ fut' \in [Futures -> FutureStates]
    BY <1>6, <2>1, WakeWaitersType DEF DropFuture
  <2> QED
    BY <1>6, <2>2 DEF DropFuture, TypeOK, slotVars, connVars, NoNotification,
         CountersMatch, Held, IdsUsed, DrainedIsClosed
<1>7. ASSUME NEW r \in Reservers, Reserve(r)
      PROVE  SlotInv'
  <2>1. TypeOK'
    <3>1. active_local' \in Nat /\ reserved' \in Nat
      BY <1>7 DEF Reserve, TypeOK
    <3>2. resv' \in [Reservers -> {"none", "held", "done"}]
      BY <1>7 DEF Reserve, TypeOK
    <3> QED
      BY <1>7, <3>1, <3>2 DEF Reserve, TypeOK, waitVars, connVars, NoNotification
  <2>2. Cardinality(Held') = Cardinality(Held) + 1
    BY <1>7, HeldAdded DEF Reserve
  <2>3. CountersMatch'
    BY <1>7, <1>0, <2>2 DEF Reserve, CountersMatch, TypeOK
  <2>4. IdsUsed' /\ DrainedIsClosed'
    BY <1>7 DEF Reserve, IdsUsed, DrainedIsClosed, connVars, Usable
  <2> QED
    BY <2>1, <2>3, <2>4
<1>8. ASSUME NEW r \in Reservers, ReleaseReserved(r)
      PROVE  SlotInv'
  <2>1. readiness' \in Seq(Futures) /\ fut' \in [Futures -> FutureStates]
    <3>1. fut \in [Futures -> FutureStates]
      BY DEF TypeOK
    <3> QED
      BY <1>8, <3>1, WakeWaitersType DEF ReleaseReserved
  <2>2. Cardinality(Held') = Cardinality(Held) - 1
    BY <1>8, HeldRemoved DEF ReleaseReserved
  <2>3. r \in Held
    BY <1>8 DEF ReleaseReserved, Held
  <2>4. Cardinality(Held) >= 1
    BY <1>0, <2>3, FS_EmptySet
  <2>5. TypeOK'
    BY <1>8, <2>1 DEF ReleaseReserved, TypeOK, NotifyCapacity, SaturatingSub
  <2>6. CountersMatch'
    BY <1>8, <1>0, <2>2, <2>4 DEF ReleaseReserved, CountersMatch, SaturatingSub
  <2>7. IdsUsed' /\ DrainedIsClosed'
    BY <1>8 DEF ReleaseReserved, IdsUsed, DrainedIsClosed
  <2> QED
    BY <2>5, <2>6, <2>7
<1>9. ASSUME NEW r \in Reservers, SendReserved(r)
      PROVE  SlotInv'
  <2>1. Cardinality(Held') = Cardinality(Held) - 1
    BY <1>9, HeldRemoved DEF SendReserved
  <2>2. r \in Held
    BY <1>9 DEF SendReserved, Held
  <2>3. Cardinality(Held) >= 1
    BY <1>0, <2>2, FS_EmptySet
  <2>4. TypeOK'
    <3>1. reserved' \in Nat /\ active_local' \in Nat
      BY <1>9 DEF SendReserved, TypeOK, SaturatingSub
    <3>2. streams' \subseteq Ids /\ next_stream_id' \in Ids
      BY <1>9 DEF SendReserved, IdLeft, TypeOK
    <3>3. resv' \in [Reservers -> {"none", "held", "done"}]
      BY <1>9 DEF SendReserved, TypeOK
    <3> QED
      BY <1>9, <3>1, <3>2, <3>3 DEF SendReserved, TypeOK, waitVars, connVars, NoNotification
  <2>5. CountersMatch'
    BY <1>9, <1>0, <2>1, <2>3, StreamAdded DEF SendReserved, CountersMatch, SaturatingSub
  <2>6. IdsUsed' /\ DrainedIsClosed'
    BY <1>9 DEF SendReserved, IdLeft, IdsUsed, TypeOK, Ids, DrainedIsClosed, connVars
  <2> QED
    BY <2>4, <2>5, <2>6
<1>10. ASSUME NEW id \in Ids, StreamClosed(id)
       PROVE  SlotInv'
  <2>1. readiness' \in Seq(Futures) /\ fut' \in [Futures -> FutureStates]
    <3>1. fut \in [Futures -> FutureStates]
      BY DEF TypeOK
    <3> QED
      BY <1>10, <3>1, WakeWaitersType DEF StreamClosed
  <2>2. Cardinality(streams') = Cardinality(streams) - 1 /\ Cardinality(streams) >= 1
    <3>1. id \in streams /\ streams' = streams \ {id}
      BY <1>10 DEF StreamClosed
    <3>2. Cardinality(streams') = Cardinality(streams) - 1
      BY <1>0, <3>1, FS_RemoveElement
    <3>3. Cardinality(streams) # 0
      BY <1>0, <3>1, FS_EmptySet
    <3> QED
      BY <1>0, <3>2, <3>3
  <2>3. TypeOK'
    BY <1>10, <2>1 DEF StreamClosed, TypeOK, NotifyCapacity, SaturatingSub
  <2>4. CountersMatch'
    BY <1>10, <1>0, <2>2 DEF StreamClosed, CountersMatch, SaturatingSub, Held
  <2>5. IdsUsed' /\ DrainedIsClosed'
    BY <1>10 DEF StreamClosed, IdsUsed, DrainedIsClosed
  <2> QED
    BY <2>3, <2>4, <2>5
<1>11. ASSUME NEW max \in Limits \union {NoLimit}, RecvSettings(max)
       PROVE  SlotInv'
  BY <1>11 DEF RecvSettings, TypeOK, FutureStates, slotVars, connVars, NotifyCapacity,
       CountersMatch, Held, IdsUsed, DrainedIsClosed
<1>12. ASSUME NEW last \in Ids \union {0}, RecvGoAway(last)
       PROVE  SlotInv'
  <2> DEFINE dropped == {id \in streams : id > last}
  <2>1. /\ IsFiniteSet(dropped) /\ Cardinality(dropped) \in Nat
        /\ Cardinality(streams \ dropped) = Cardinality(streams) - Cardinality(dropped)
    <3>1. IsFiniteSet(dropped)
      BY <1>0, FS_Subset
    <3>2. streams \intersect dropped = dropped
      OBVIOUS
    <3> QED
      BY <1>0, <3>1, <3>2, FS_Difference, FS_CardinalityType
  <2>2. Cardinality(streams \ dropped) \in Nat
    BY <1>0, FS_Subset, FS_CardinalityType
  <2>3. fut' \in [Futures -> FutureStates]
    BY <1>12 DEF RecvGoAway, TypeOK, FutureStates
  <2>4. TypeOK'
    BY <1>12, <2>1, <2>3 DEF RecvGoAway, TypeOK, NotifyCapacity, SaturatingSub
  <2>5. CountersMatch'
    BY <1>12, <1>0, <2>1, <2>2 DEF RecvGoAway, CountersMatch, SaturatingSub, Held
  <2>6. IdsUsed' /\ DrainedIsClosed'
    BY <1>12 DEF RecvGoAway, IdsUsed, DrainedIsClosed
  <2> QED
    BY <2>4, <2>5, <2>6
<1>13. CASE DisconnectWhenReady
  <2>1. readiness' \in Seq(Futures) /\ fut' \in [Futures -> FutureStates]
    BY <1>13, ClearReadinessType DEF DisconnectWhenReady
  <2> QED
    BY <1>13, <2>1 DEF DisconnectWhenReady, TypeOK, slotVars, NoNotification,
         CountersMatch, Held, IdsUsed, DrainedIsClosed
<1>14. ASSUME TakeStreams, io_closed' \in BOOLEAN
       PROVE  SlotInv'
  <2>1. readiness' \in Seq(Futures) /\ fut' \in [Futures -> FutureStates]
    BY <1>14, ClearReadinessType DEF TakeStreams
  <2>2. TypeOK'
    BY <1>14, <2>1 DEF TakeStreams, TypeOK, NotifyCapacity
  <2>3. CountersMatch'
    BY <1>14, <1>0, FS_EmptySet DEF TakeStreams, CountersMatch, Held
  <2>4. IdsUsed' /\ DrainedIsClosed'
    BY <1>14 DEF TakeStreams, IdsUsed, DrainedIsClosed
  <2> QED
    BY <2>2, <2>3, <2>4
<1>15. CASE ProtoError \/ Timeout \/ Disconnect
  BY <1>14, <1>15 DEF ProtoError, Timeout, Disconnect, TypeOK
<1>16. CASE IoClose
  BY <1>16 DEF IoClose, TypeOK, slotVars, waitVars, NoNotification,
       CountersMatch, Held, IdsUsed, DrainedIsClosed
<1>17. CASE UNCHANGED vars
  BY <1>17 DEF vars, TypeOK, slotVars, waitVars, connVars,
       CountersMatch, Held, IdsUsed, DrainedIsClosed
<1> QED
  BY <1>1, <1>2, <1>3, <1>4, <1>5, <1>6, <1>7, <1>8, <1>9, <1>10, <1>11, <1>12,
     <1>13, <1>15, <1>16, <1>17 DEF Next, Poll

\* The initial state satisfies the invariant.
LEMMA SlotInit ==
    ASSUME Init
    PROVE  SlotInv
<1>1. TypeOK
  <2>1. 1 \in Ids
    BY DEF Ids
  <2>2. fut \in [Futures -> FutureStates] /\ resv \in [Reservers -> {"none", "held", "done"}]
    BY DEF Init, FutureStates
  <2>3. readiness \in Seq(Futures)
    BY DEF Init
  <2> QED
    BY <2>1, <2>2, <2>3 DEF Init, TypeOK
<1>2. Held = {} /\ streams = {}
  BY DEF Init, Held
<1>3. CountersMatch
  BY <1>2, FS_EmptySet DEF Init, CountersMatch
<1> QED
  BY <1>1, <1>3 DEF SlotInv, Init, IdsUsed, DrainedIsClosed

\* Type correctness of the slot model (connection.rs ConnectionState).
THEOREM TypeCorrect == Spec => []TypeOK
<1>1. Spec => []SlotInv
  BY SlotInit, SlotStep, PTL DEF Spec
<1>2. SlotInv => TypeOK
  BY DEF SlotInv
<1> QED
  BY <1>1, <1>2, PTL

\* active_local_streams always equals the open local streams plus the held
\* reservations, whatever the limits, the number of futures and the failures.
THEOREM CountersCorrect == Spec => []CountersMatch
<1>1. Spec => []SlotInv
  BY SlotInit, SlotStep, PTL DEF Spec
<1>2. SlotInv => CountersMatch
  BY DEF SlotInv
<1> QED
  BY <1>1, <1>2, PTL

\* A graceful disconnect with no stream and no reservation left has closed
\* the io: it never hangs on a drained connection.
THEOREM DrainedCorrect == Spec => []DrainedIsClosed
<1>1. Spec => []SlotInv
  BY SlotInit, SlotStep, PTL DEF Spec
<1>2. SlotInv => DrainedIsClosed
  BY DEF SlotInv
<1> QED
  BY <1>1, <1>2, PTL
-----------------------------------------------------------------------------
(* The queue of waiters. *)

\* wake_waiters() pops a prefix of the queue and wakes what it pops, so what
\* stays parked stays queued.
LEMMA WakeWaitersQueued ==
    ASSUME TypeOK, NEW f \in [Futures -> FutureStates], NEW n, WakeWaiters(f, n),
           \A t \in Futures : f[t] = "parked" => fut[t] = "parked",
           \A t \in Parked : \E i \in 1 .. Len(readiness) : readiness[i] = t
    PROVE  /\ \A t \in Parked' : \E i \in 1 .. Len(readiness') : readiness'[i] = t
           /\ Parked' \subseteq Parked
<1>1. PICK k \in 0 .. Len(readiness) :
         /\ readiness' = SubSeq(readiness, k + 1, Len(readiness))
         /\ fut' = [t \in Futures |->
                      IF f[t] = "parked" /\ \E i \in 1 .. k : readiness[i] = t
                      THEN "woken" ELSE f[t]]
  BY DEF WakeWaiters
<1>2. readiness \in Seq(Futures) /\ Len(readiness) \in Nat
  BY DEF TypeOK
<1>3. /\ Len(readiness') = Len(readiness) - k
      /\ \A i \in 1 .. Len(readiness) - k : readiness'[i] = readiness[i + k]
  BY <1>1, <1>2
<1>4. Parked' \subseteq Parked
  BY <1>1 DEF Parked
<1>5. ASSUME NEW t \in Parked'
      PROVE  \E i \in 1 .. Len(readiness') : readiness'[i] = t
  <2>1. t \in Futures /\ fut'[t] = "parked"
    BY DEF Parked
  <2>2. ~\E i \in 1 .. k : readiness[i] = t
    BY <1>1, <2>1
  <2>3. PICK i \in 1 .. Len(readiness) : readiness[i] = t
    BY <1>4
  <2>4. i - k \in 1 .. Len(readiness) - k /\ (i - k) + k = i
    BY <1>2, <2>2, <2>3
  <2> QED
    BY <1>3, <2>3, <2>4
<1> QED
  BY <1>4, <1>5

\* An emptied queue leaves nobody parked.
LEMMA ClearReadinessQueued ==
    ASSUME TypeOK, ClearReadiness(fut)
    PROVE  Parked' = {}
  BY DEF ClearReadiness, Parked, TypeOK

\* Every step keeps parked futures queued.
LEMMA QueueStep ==
    ASSUME TypeOK, WaiterQueued, [Next]_vars
    PROVE  WaiterQueued'
<1> USE DEF WaiterQueued
<1>1. ASSUME NEW t \in Futures, PollFails(t) \/ PollOpens(t) \/ PollReady(t)
      PROVE  WaiterQueued'
  <2>1. readiness' = readiness /\ Usable' = Usable
    BY <1>1 DEF PollFails, PollOpens, PollReady, Usable, connVars
  <2>2. Parked' \subseteq Parked
    BY <1>1 DEF PollFails, PollOpens, PollReady, Parked, TypeOK
  <2> QED
    BY <2>1, <2>2
<1>2. ASSUME NEW t \in Futures, PollParks(t)
      PROVE  WaiterQueued'
  <2>1. Usable' /\ readiness' = Append(readiness, t)
    BY <1>2 DEF PollParks, Usable, connVars
  <2>2. /\ Len(readiness') = Len(readiness) + 1 /\ Len(readiness) \in Nat
        /\ readiness'[Len(readiness) + 1] = t
        /\ \A i \in 1 .. Len(readiness) : readiness'[i] = readiness[i]
    BY <2>1 DEF TypeOK
  <2>3. \A u \in Parked' : u = t \/ u \in Parked
    BY <1>2 DEF PollParks, Parked, TypeOK
  <2>4. ASSUME NEW u \in Parked'
        PROVE  \E i \in 1 .. Len(readiness') : readiness'[i] = u
    <3>1. CASE u = t
      BY <2>2, <3>1
    <3>2. CASE u \in Parked
      <4>1. PICK i \in 1 .. Len(readiness) : readiness[i] = u
        BY <3>2
      <4> QED
        BY <2>2, <4>1
    <3> QED
      BY <2>3, <3>1, <3>2
  <2> QED
    BY <2>1, <2>4
<1>3. ASSUME NEW f \in [Futures -> FutureStates], NEW n, WakeWaiters(f, n),
             \A t \in Futures : f[t] = "parked" => fut[t] = "parked",
             Usable' = Usable
      PROVE  WaiterQueued'
  BY <1>3, WakeWaitersQueued
<1>4. ASSUME NEW t \in Futures, PollOpenFails(t)
      PROVE  WaiterQueued'
  <2> DEFINE f == [fut EXCEPT ![t] = "failed"]
  <2>1. f \in [Futures -> FutureStates] /\ \A u \in Futures : f[u] = "parked" => fut[u] = "parked"
    BY DEF TypeOK, FutureStates
  <2>2. WakeWaiters(f, FreeSlots(active_local)) /\ Usable' = Usable
    BY <1>4 DEF PollOpenFails, Usable, connVars
  <2> HIDE DEF f
  <2> QED
    BY <1>3, <2>1, <2>2
<1>5. ASSUME NEW t \in Futures, DropFuture(t)
      PROVE  WaiterQueued'
  <2> DEFINE f == [fut EXCEPT ![t] = "gone"]
             n == IF fut[t] = "woken" THEN 1 ELSE 0
  <2>1. f \in [Futures -> FutureStates] /\ \A u \in Futures : f[u] = "parked" => fut[u] = "parked"
    BY DEF TypeOK, FutureStates
  <2>2. WakeWaiters(f, n) /\ Usable' = Usable
    BY <1>5 DEF DropFuture, Usable, connVars
  <2> HIDE DEF f, n
  <2> QED
    BY <1>3, <2>1, <2>2
<1>6. ASSUME NEW n, WakeWaiters(fut, n), Usable' = Usable
      PROVE  WaiterQueued'
  BY <1>3, <1>6 DEF TypeOK
<1>7. ASSUME NEW r \in Reservers, ReleaseReserved(r)
      PROVE  WaiterQueued'
  BY <1>6, <1>7 DEF ReleaseReserved, Usable
<1>8. ASSUME NEW id \in Ids, StreamClosed(id)
      PROVE  WaiterQueued'
  BY <1>6, <1>8 DEF StreamClosed, Usable
<1>9. ASSUME NEW r \in Reservers, Reserve(r) \/ SendReserved(r)
      PROVE  WaiterQueued'
  BY <1>9 DEF Reserve, SendReserved, waitVars, connVars, Usable, Parked
<1>10. ASSUME NEW max \in Limits \union {NoLimit}, RecvSettings(max)
       PROVE  WaiterQueued'
  <2>1. Parked' = {}
    BY <1>10 DEF RecvSettings, Parked
  <2> QED
    BY <2>1
<1>11. ASSUME NEW last \in Ids \union {0}, RecvGoAway(last)
       PROVE  WaiterQueued'
  <2>1. Parked' = {}
    BY <1>11 DEF RecvGoAway, Parked
  <2> QED
    BY <2>1
<1>12. CASE DisconnectWhenReady \/ ProtoError \/ Timeout \/ Disconnect
  <2>1. ClearReadiness(fut)
    BY <1>12 DEF DisconnectWhenReady, ProtoError, Timeout, Disconnect, TakeStreams
  <2> QED
    BY <2>1, ClearReadinessQueued
<1>13. CASE IoClose \/ UNCHANGED vars
  BY <1>13 DEF IoClose, vars, waitVars, connVars, Usable, Parked
<1> QED
  BY <1>1, <1>2, <1>4, <1>5, <1>7, <1>8, <1>9, <1>10, <1>11, <1>12, <1>13 DEF Next, Poll

\* A future waits only while the sender of its channel is in the queue, and
\* nobody waits on a connection that cannot be used any more: whatever fails
\* or closes the connection also ends every wait.
THEOREM WaitersCorrect == Spec => []WaiterQueued
<1>1. Init => WaiterQueued
  BY DEF Init, WaiterQueued, Parked, Usable
<1>2. TypeOK /\ WaiterQueued /\ [Next]_vars => WaiterQueued'
  BY QueueStep
<1> QED
  BY <1>1, <1>2, TypeCorrect, PTL DEF Spec

\* A step opens or reserves a stream only below the limit; every other step
\* keeps the counter or makes it smaller, take_streams() leaves the
\* reservations that it counts.
LEMMA LimitStep ==
    ASSUME SlotInv, [Next]_vars, active_local' > active_local, local_max # NoLimit
    PROVE  active_local' <= local_max
<1>1. TypeOK /\ CountersMatch
  BY DEF SlotInv
<1>2. active_local \in Nat /\ local_max \in Nat
  BY <1>1 DEF TypeOK
<1>3. \A n \in Nat :
         SaturatingSub(active_local, n) \in Nat /\ SaturatingSub(active_local, n) <= active_local
  BY <1>2 DEF SaturatingSub
<1>4. ASSUME NEW t \in Futures, Poll(t) \/ DropFuture(t)
      PROVE  active_local' <= local_max
  BY <1>2, <1>4 DEF Poll, PollFails, PollParks, PollOpens, PollOpenFails, PollReady, DropFuture,
       CanCreate, slotVars
<1>5. ASSUME NEW r \in Reservers, Reserve(r) \/ ReleaseReserved(r) \/ SendReserved(r)
      PROVE  active_local' <= local_max
  BY <1>2, <1>3, <1>5 DEF Reserve, ReleaseReserved, SendReserved, CanCreate
<1>6. ASSUME NEW id \in Ids, StreamClosed(id)
      PROVE  FALSE
  BY <1>2, <1>3, <1>6 DEF StreamClosed
<1>7. ASSUME NEW last \in Ids \union {0}, RecvGoAway(last)
      PROVE  FALSE
  <2> DEFINE dropped == {id \in streams : id > last}
  <2>1. Cardinality(dropped) \in Nat
    <3>1. IsFiniteSet(dropped)
      BY <1>1, FiniteSlots, FS_Subset
    <3> QED
      BY <3>1, FS_CardinalityType
  <2>2. active_local' = SaturatingSub(active_local, Cardinality(dropped))
    BY <1>7 DEF RecvGoAway
  <2> QED
    BY <1>2, <1>3, <2>1, <2>2
<1>8. ASSUME TakeStreams
      PROVE  FALSE
  <2>1. reserved \in Nat /\ reserved <= active_local
    BY <1>1, FiniteSlots DEF CountersMatch
  <2> QED
    BY <1>2, <1>8, <2>1 DEF TakeStreams
<1>9. ASSUME \/ \E max \in Limits \union {NoLimit} : RecvSettings(max)
             \/ DisconnectWhenReady \/ IoClose \/ UNCHANGED vars
      PROVE  FALSE
  BY <1>2, <1>9 DEF RecvSettings, DisconnectWhenReady, IoClose, vars, slotVars
<1> QED
  BY <1>4, <1>5, <1>6, <1>7, <1>8, <1>9 DEF Next, ProtoError, Timeout, Disconnect

\* The limit of the peer is only ever exceeded because the peer lowered it.
THEOREM LimitCorrect == Spec => OpensWithinLimit
<1>1. Spec => []SlotInv
  BY SlotInit, SlotStep, PTL DEF Spec
<1>2. SlotInv /\ [Next]_vars =>
        [active_local' > active_local /\ local_max # NoLimit => active_local' <= local_max]_vars
  BY LimitStep
<1> QED
  BY <1>1, <1>2, PTL DEF Spec, OpensWithinLimit

-----------------------------------------------------------------------------
(* The on_capacity callback. *)

\* A step that does not run the callback frees no slot and fails nothing.
LEMMA SilentStep ==
    ASSUME TypeOK, [Next]_vars, ~notified'
    PROVE  /\ active_local' \in Nat /\ active_local <= active_local'
           /\ local_max' = local_max /\ error' = error /\ go_away' = go_away
<1>1. active_local \in Nat
  BY DEF TypeOK
<1>2. ASSUME NEW t \in Futures, Poll(t) \/ DropFuture(t)
      PROVE  /\ active_local' \in {active_local, active_local + 1}
             /\ local_max' = local_max /\ error' = error /\ go_away' = go_away
  BY <1>2 DEF Poll, PollFails, PollParks, PollOpens, PollOpenFails, PollReady, DropFuture, slotVars, connVars
<1>3. ASSUME NEW r \in Reservers, Reserve(r) \/ ReleaseReserved(r) \/ SendReserved(r)
      PROVE  /\ active_local' \in {active_local, active_local + 1}
             /\ local_max' = local_max /\ error' = error /\ go_away' = go_away
  BY <1>3 DEF Reserve, ReleaseReserved, SendReserved, connVars, NotifyCapacity
<1>4. CASE DisconnectWhenReady \/ IoClose \/ UNCHANGED vars
  BY <1>1, <1>4 DEF DisconnectWhenReady, IoClose, vars, slotVars, connVars
<1>5. ASSUME \/ \E id \in Ids : StreamClosed(id)
             \/ \E max \in Limits \union {NoLimit} : RecvSettings(max)
             \/ \E last \in Ids \union {0} : RecvGoAway(last)
             \/ ProtoError \/ Timeout \/ Disconnect
      PROVE  FALSE
  BY <1>5 DEF StreamClosed, RecvSettings, RecvGoAway, ProtoError, Timeout, Disconnect, TakeStreams, NotifyCapacity
<1> QED
  BY <1>1, <1>2, <1>3, <1>4, <1>5 DEF Next

\* The callback runs in every step that makes the connection able to open a
\* stream again and in every step that fails it, for every limit: the pool,
\* which relies on it alone, misses no change.
THEOREM CapacityNotificationsComplete == Spec => CapacityNotified
<1>1. ASSUME TypeOK, [Next]_vars
      PROVE  [(~CanCreate /\ CanCreate') \/ (~error /\ error') \/ (~go_away /\ go_away') => notified']_vars
  <2> SUFFICES ASSUME ~notified'
               PROVE  ~((~CanCreate /\ CanCreate') \/ (~error /\ error') \/ (~go_away /\ go_away'))
    OBVIOUS
  <2>1. /\ active_local' \in Nat /\ active_local <= active_local'
        /\ local_max' = local_max /\ error' = error /\ go_away' = go_away
    BY <1>1, SilentStep
  <2>2. active_local \in Nat /\ local_max \in Nat \union {NoLimit}
    BY <1>1 DEF TypeOK
  <2>3. CanCreate' => CanCreate
    BY <2>1, <2>2 DEF CanCreate
  <2> QED
    BY <2>1, <2>3
<1> QED
  BY <1>1, TypeCorrect, PTL DEF Spec, CapacityNotified

-----------------------------------------------------------------------------
(* A wake-up for each free slot. *)

\* a future is queued once, and it was not woken since
QueueOnce ==
    /\ \A i \in 1 .. Len(readiness) : fut[readiness[i]] \in {"parked", "gone"}
    /\ \A i, j \in 1 .. Len(readiness) : readiness[i] = readiness[j] => i = j

WakeInv == SlotInv /\ WaiterQueued /\ QueueOnce /\ WakePerFreeSlot

\* the futures that are in the state st according to f
In(f, st) == {t \in Futures : f[t] = st}

\* Sets of futures are finite.
LEMMA FiniteFutures ==
    ASSUME NEW S \in SUBSET Futures
    PROVE  IsFiniteSet(S) /\ Cardinality(S) \in Nat
BY FS_Subset, FS_CardinalityType

\* What remains of a queue whose futures are queued once: the popped ones are
\* woken, or were dropped.
LEMMA WakeWaitersOnce ==
    ASSUME TypeOK, NEW f \in [Futures -> FutureStates], NEW n, WakeWaiters(f, n), QueueOnce,
           \A i \in 1 .. Len(readiness) : f[readiness[i]] \in {"parked", "gone"}
    PROVE  QueueOnce'
<1>1. PICK k \in 0 .. Len(readiness) :
         /\ readiness' = SubSeq(readiness, k + 1, Len(readiness))
         /\ fut' = [t \in Futures |->
                      IF f[t] = "parked" /\ \E i \in 1 .. k : readiness[i] = t
                      THEN "woken" ELSE f[t]]
  BY DEF WakeWaiters
<1>2. readiness \in Seq(Futures) /\ Len(readiness) \in Nat
  BY DEF TypeOK
<1>3. /\ Len(readiness') = Len(readiness) - k
      /\ \A i \in 1 .. Len(readiness) - k :
            readiness'[i] = readiness[i + k] /\ i + k \in 1 .. Len(readiness) /\ i + k > k
  BY <1>1, <1>2
<1>4. ASSUME NEW i \in 1 .. Len(readiness')
      PROVE  fut'[readiness'[i]] \in {"parked", "gone"}
  <2>1. /\ readiness'[i] = readiness[i + k] /\ i + k \in 1 .. Len(readiness) /\ i + k > k
        /\ readiness[i + k] \in Futures
    BY <1>2, <1>3
  <2>2. ~\E j \in 1 .. k : readiness[j] = readiness[i + k]
    <3> SUFFICES ASSUME NEW j \in 1 .. k, readiness[j] = readiness[i + k]
                 PROVE  FALSE
      OBVIOUS
    <3>1. j \in 1 .. Len(readiness) /\ j # i + k
      BY <1>2, <2>1
    <3> QED
      BY <2>1, <3>1 DEF QueueOnce
  <2>3. fut'[readiness[i + k]] = f[readiness[i + k]]
    BY <1>1, <2>1, <2>2
  <2> QED
    BY <2>1, <2>3
<1>5. ASSUME NEW i \in 1 .. Len(readiness'), NEW j \in 1 .. Len(readiness'), readiness'[i] = readiness'[j]
      PROVE  i = j
  <2>1. /\ readiness[i + k] = readiness[j + k]
        /\ i + k \in 1 .. Len(readiness) /\ j + k \in 1 .. Len(readiness)
    BY <1>3, <1>5
  <2>2. i + k = j + k
    BY <2>1 DEF QueueOnce
  <2> QED
    BY <1>2, <1>3, <2>2
<1> QED
  BY <1>4, <1>5 DEF QueueOnce

\* wake_waiters(n) wakes n waiters, or all of them.
LEMMA WakesEnough ==
    ASSUME TypeOK, NEW f \in [Futures -> FutureStates], NEW n \in Nat, WakeWaiters(f, n), QueueOnce,
           \A t \in Futures : f[t] = "parked" => \E i \in 1 .. Len(readiness) : readiness[i] = t
    PROVE  Parked' = {} \/ Cardinality(Woken') >= Cardinality(In(f, "woken")) + n
<1>1. PICK k \in 0 .. Len(readiness) :
         /\ WakePoint(f, k, n)
         /\ fut' = [t \in Futures |->
                      IF f[t] = "parked" /\ \E i \in 1 .. k : readiness[i] = t
                      THEN "woken" ELSE f[t]]
  BY DEF WakeWaiters
<1> DEFINE Alive == {i \in 1 .. k : f[readiness[i]] = "parked"}
           Popped == {t \in Futures : f[t] = "parked" /\ \E i \in 1 .. k : readiness[i] = t}
           Before == In(f, "woken")
<1>2. readiness \in Seq(Futures) /\ Len(readiness) \in Nat /\ k \in Nat
  BY DEF TypeOK
<1>3. Woken' = Before \union Popped /\ Before \intersect Popped = {}
  BY <1>1 DEF Woken, In
<1>4. /\ IsFiniteSet(Before) /\ Cardinality(Before) \in Nat
      /\ IsFiniteSet(Popped) /\ Cardinality(Popped) \in Nat
  BY FiniteFutures DEF In
<1>5. Cardinality(Woken') = Cardinality(Before) + Cardinality(Popped)
  <2>1. Cardinality(Before \union Popped) = Cardinality(Before) + Cardinality(Popped) - Cardinality({})
    BY ZenonT(30), <1>3, <1>4, FS_Union
  <2> QED
    BY <1>3, <1>4, <2>1, FS_EmptySet
<1>6. CASE n = 0
  BY <1>4, <1>5, <1>6
<1>7. CASE n > 0 /\ k = Len(readiness)
  <2>1. \A t \in Futures : fut'[t] # "parked"
    BY <1>1, <1>7
  <2> QED
    BY <2>1 DEF Parked
<1>8. CASE n > 0 /\ Cardinality(Alive) = n
  <2> DEFINE h == [i \in Alive |-> readiness[i]]
  <2>1. IsFiniteSet(Alive)
    <3>1. IsFiniteSet(1 .. k) /\ Alive \in SUBSET (1 .. k)
      BY <1>2, FS_Interval
    <3> QED
      BY <3>1, FS_Subset
  <2>2. Alive \in SUBSET (1 .. Len(readiness))
    BY <1>2
  <2>3. \A i \in Alive : readiness[i] \in Popped
    BY <1>2, <2>2
  <2>4. \A i, j \in Alive : readiness[i] = readiness[j] => i = j
    BY <2>2 DEF QueueOnce
  <2>5. h \in Injection(Alive, Popped)
    <3> HIDE DEF Alive, Popped
    <3> QED
      BY <2>3, <2>4 DEF Injection, IsInjective
  <2>6. Cardinality(Alive) <= Cardinality(Popped)
    <3> HIDE DEF Alive, Popped, h
    <3> QED
      BY <1>4, <2>5, FS_Injection
  <2> HIDE DEF Alive, Popped, Before
  <2> QED
    BY <1>4, <1>5, <1>8, <2>6 DEF Before
<1> QED
  BY <1>1, <1>2, <1>6, <1>7, <1>8 DEF WakePoint

\* A step keeps every future queued at most once.
LEMMA QueueOnceStep ==
    ASSUME TypeOK, QueueOnce, [Next]_vars
    PROVE  QueueOnce'
<1>1. readiness \in Seq(Futures) /\ Len(readiness) \in Nat /\ fut \in [Futures -> FutureStates]
  BY DEF TypeOK
<1>2. \A i \in 1 .. Len(readiness) : readiness[i] \in Futures
  BY <1>1
<1>3. ASSUME NEW t \in Futures, fut[t] \notin {"parked", "gone"}
      PROVE  \A i \in 1 .. Len(readiness) : readiness[i] # t
  BY <1>3 DEF QueueOnce
<1>4. ASSUME NEW t \in Futures, NEW st \in FutureStates, st \in {"gone"} \/ fut[t] \notin {"parked", "gone"}
      PROVE  /\ [fut EXCEPT ![t] = st] \in [Futures -> FutureStates]
             /\ \A i \in 1 .. Len(readiness) : [fut EXCEPT ![t] = st][readiness[i]] \in {"parked", "gone"}
  BY <1>1, <1>2, <1>3, <1>4 DEF QueueOnce
<1>5. ASSUME NEW t \in Futures, PollFails(t) \/ PollOpens(t) \/ PollReady(t)
      PROVE  QueueOnce'
  <2>1. /\ readiness' = readiness /\ fut[t] \notin {"parked", "gone"}
        /\ \E st \in FutureStates : fut' = [fut EXCEPT ![t] = st]
    BY <1>5 DEF PollFails, PollOpens, PollReady, Runnable, FutureStates
  <2> QED
    BY <1>4, <2>1 DEF QueueOnce
<1>6. ASSUME NEW t \in Futures, PollParks(t)
      PROVE  QueueOnce'
  <2>1. /\ readiness' = Append(readiness, t) /\ fut[t] \notin {"parked", "gone"}
        /\ fut' = [fut EXCEPT ![t] = "parked"]
    BY <1>6 DEF PollParks
  <2>2. \A i \in 1 .. Len(readiness) : readiness[i] # t
    BY <1>3, <2>1
  <2>3. /\ Len(readiness') = Len(readiness) + 1
        /\ readiness'[Len(readiness) + 1] = t
        /\ \A i \in 1 .. Len(readiness) : readiness'[i] = readiness[i]
        /\ \A i \in 1 .. Len(readiness') : i \in 1 .. Len(readiness) \/ i = Len(readiness) + 1
    BY <1>1, <2>1
  <2>4. ASSUME NEW i \in 1 .. Len(readiness')
        PROVE  fut'[readiness'[i]] \in {"parked", "gone"}
    BY <1>1, <1>2, <2>1, <2>2, <2>3 DEF QueueOnce
  <2>5. ASSUME NEW i \in 1 .. Len(readiness'), NEW j \in 1 .. Len(readiness'), readiness'[i] = readiness'[j]
        PROVE  i = j
    BY <2>2, <2>3, <2>5 DEF QueueOnce
  <2> QED
    BY <2>4, <2>5 DEF QueueOnce
<1>7. ASSUME NEW t \in Futures, PollOpenFails(t)
      PROVE  QueueOnce'
  <2> DEFINE f == [fut EXCEPT ![t] = "failed"]
             n == FreeSlots(active_local)
  <2>1. WakeWaiters(f, n) /\ fut[t] \notin {"parked", "gone"}
    BY <1>7 DEF PollOpenFails
  <2>2. f \in [Futures -> FutureStates] /\ \A i \in 1 .. Len(readiness) : f[readiness[i]] \in {"parked", "gone"}
    BY <1>4, <2>1 DEF FutureStates
  <2> HIDE DEF f, n
  <2> QED
    BY <2>1, <2>2, WakeWaitersOnce
<1>8. ASSUME NEW t \in Futures, DropFuture(t)
      PROVE  QueueOnce'
  <2> DEFINE f == [fut EXCEPT ![t] = "gone"]
             n == IF fut[t] = "woken" THEN 1 ELSE 0
  <2>1. WakeWaiters(f, n)
    BY <1>8 DEF DropFuture
  <2>2. f \in [Futures -> FutureStates] /\ \A i \in 1 .. Len(readiness) : f[readiness[i]] \in {"parked", "gone"}
    BY <1>4 DEF FutureStates
  <2> HIDE DEF f, n
  <2> QED
    BY <2>1, <2>2, WakeWaitersOnce
<1>9. ASSUME NEW n, WakeWaiters(fut, n)
      PROVE  QueueOnce'
  BY <1>1, <1>9, WakeWaitersOnce DEF QueueOnce
<1>10. ASSUME \/ \E r \in Reservers : ReleaseReserved(r)
              \/ \E id \in Ids : StreamClosed(id)
       PROVE  QueueOnce'
  BY <1>9, <1>10 DEF ReleaseReserved, StreamClosed
<1>11. ASSUME readiness' = <<>>
       PROVE  QueueOnce'
  BY <1>11 DEF QueueOnce
<1>12. ASSUME \/ \E max \in Limits \union {NoLimit} : RecvSettings(max)
              \/ \E last \in Ids \union {0} : RecvGoAway(last)
              \/ DisconnectWhenReady \/ ProtoError \/ Timeout \/ Disconnect
       PROVE  QueueOnce'
  BY <1>11, <1>12 DEF RecvSettings, RecvGoAway, DisconnectWhenReady, ProtoError, Timeout, Disconnect, TakeStreams,
       ClearReadiness
<1>13. ASSUME \/ \E r \in Reservers : Reserve(r) \/ SendReserved(r)
              \/ IoClose \/ UNCHANGED vars
       PROVE  QueueOnce'
  BY <1>13 DEF Reserve, SendReserved, IoClose, vars, waitVars, QueueOnce
<1> QED
  BY <1>5, <1>6, <1>7, <1>8, <1>10, <1>12, <1>13 DEF Next, Poll

\* A step that wakes as many waiters as slots are free then.
LEMMA WakesForSlots ==
    ASSUME WakeInv, NEW f \in [Futures -> FutureStates], NEW n \in Nat, WakeWaiters(f, n),
           \A t \in Futures : (f[t] = "parked" => fut[t] = "parked") /\ (fut[t] = "ready" => f[t] = "ready"),
           local_max' = local_max, active_local' \in Nat,
           NoReadyCall /\ Parked # {} =>
               Cardinality(In(f, "woken")) + n >= local_max - active_local'
    PROVE  WakePerFreeSlot'
<1>1. TypeOK /\ WaiterQueued /\ QueueOnce /\ WakePerFreeSlot
  BY DEF WakeInv, SlotInv
<1>2. \A t \in Futures : f[t] = "parked" => \E i \in 1 .. Len(readiness) : readiness[i] = t
  BY <1>1 DEF WaiterQueued, Parked
<1>3. Parked' = {} \/ Cardinality(Woken') >= Cardinality(In(f, "woken")) + n
  BY <1>1, <1>2, WakesEnough
<1>4. \A t \in Futures : fut'[t] \in {f[t], "woken"} /\ (fut'[t] = "parked" => f[t] = "parked")
                         /\ (f[t] = "ready" => fut'[t] = "ready")
  BY DEF WakeWaiters
<1>5. Parked' \subseteq Parked
  BY <1>4 DEF Parked
<1>6. NoReadyCall' => NoReadyCall
  BY <1>4 DEF NoReadyCall, Futures
<1>7. Cardinality(In(f, "woken")) \in Nat /\ Cardinality(Woken') \in Nat
  BY FiniteFutures DEF In, Woken
<1>8. local_max \in Nat \union {NoLimit}
  BY <1>1 DEF TypeOK
<1> SUFFICES ASSUME NoReadyCall', Parked' # {}
             PROVE  local_max' # NoLimit /\ Cardinality(Woken') >= local_max' - active_local'
  BY DEF WakePerFreeSlot
<1>9. NoReadyCall /\ Parked # {}
  BY <1>5, <1>6
<1>10. local_max # NoLimit /\ local_max \in Nat
  BY <1>1, <1>8, <1>9 DEF WakePerFreeSlot
<1> QED
  BY <1>3, <1>7, <1>9, <1>10

\* The slots a release sees.
LEMMA FreeSlotsFacts ==
    ASSUME NEW local \in Nat, local_max \in Nat \union {NoLimit}
    PROVE  /\ FreeSlots(local) \in Nat
           /\ local_max # NoLimit => FreeSlots(local) >= local_max - local
BY DEF FreeSlots, SaturatingSub

\* A release wakes a waiter for each free slot.
LEMMA ReleaseWakesForSlots ==
    ASSUME WakeInv, NEW f \in [Futures -> FutureStates], NEW local \in Nat, active_local' = local,
           WakeWaiters(f, FreeSlots(local)), local_max' = local_max,
           \A t \in Futures : (f[t] = "parked" => fut[t] = "parked") /\ (fut[t] = "ready" => f[t] = "ready")
    PROVE  WakePerFreeSlot'
<1> DEFINE n == FreeSlots(local)
<1>1. local_max \in Nat \union {NoLimit}
  BY DEF WakeInv, SlotInv, TypeOK
<1>2. n \in Nat /\ (local_max # NoLimit => n >= local_max - local)
  BY <1>1, FreeSlotsFacts
<1>3. Cardinality(In(f, "woken")) \in Nat
  BY FiniteFutures DEF In
<1>4. NoReadyCall /\ Parked # {} => local_max # NoLimit
  BY DEF WakeInv, WakePerFreeSlot
<1> HIDE DEF n
<1>5. NoReadyCall /\ Parked # {} => Cardinality(In(f, "woken")) + n >= local_max - active_local'
  BY <1>1, <1>2, <1>3, <1>4
<1>6. WakeWaiters(f, n)
  BY DEF n
<1> QED
  BY <1>2, <1>5, <1>6, WakesForSlots

\* Every step leaves a woken waiter for each free slot.
LEMMA WakeStep ==
    ASSUME WakeInv, [Next]_vars
    PROVE  WakePerFreeSlot'
<1>1. /\ TypeOK /\ WaiterQueued /\ WakePerFreeSlot
      /\ fut \in [Futures -> FutureStates] /\ active_local \in Nat /\ local_max \in Nat \union {NoLimit}
  BY DEF WakeInv, SlotInv, TypeOK
<1>2. Cardinality(Woken) \in Nat /\ IsFiniteSet(Woken)
  BY FiniteFutures DEF Woken
<1>3. SaturatingSub(active_local, 1) \in Nat
  BY <1>1 DEF SaturatingSub
<1>4. ASSUME NEW t \in Futures, PollFails(t)
      PROVE  WakePerFreeSlot'
  <2>1. fut' = [fut EXCEPT ![t] = "failed"] /\ local_max' = local_max /\ active_local' = active_local
    BY <1>4 DEF PollFails, slotVars
  <2>2. CASE ~Usable
    <3>1. Parked' = {}
      BY <1>1, <2>1, <2>2 DEF WaiterQueued, Parked
    <3> QED
      BY <3>1 DEF WakePerFreeSlot
  <2>3. CASE fut[t] = "canceled"
    <3>1. Parked' = Parked /\ Woken' = Woken /\ (NoReadyCall' => NoReadyCall)
      BY <1>1, <2>1, <2>3 DEF Parked, Woken, NoReadyCall, Futures
    <3> QED
      BY <1>1, <2>1, <3>1 DEF WakePerFreeSlot
  <2> QED
    BY <1>4, <2>2, <2>3 DEF PollFails
<1>5. ASSUME NEW t \in Futures, PollParks(t)
      PROVE  WakePerFreeSlot'
  <2>1. local_max' = local_max /\ active_local' = active_local /\ local_max \in Nat /\ active_local >= local_max
        /\ local_max # NoLimit
    BY <1>1, <1>5 DEF PollParks, CanCreate, slotVars
  <2>2. Cardinality(Woken') \in Nat
    BY FiniteFutures DEF Woken
  <2> QED
    BY <1>1, <2>1, <2>2 DEF WakePerFreeSlot
<1>6. ASSUME NEW t \in Futures, PollOpens(t)
      PROVE  WakePerFreeSlot'
  <2>1. /\ fut' = [fut EXCEPT ![t] = "opened"] /\ fut[t] \in {"idle", "woken"}
        /\ local_max' = local_max /\ active_local' = active_local + 1
    BY <1>6 DEF PollOpens
  <2>2. Parked' = Parked /\ Woken' = Woken \ {t} /\ (NoReadyCall' => NoReadyCall)
    BY <1>1, <2>1 DEF Parked, Woken, NoReadyCall, Futures
  <2>3. Cardinality(Woken') \in Nat /\ Cardinality(Woken') >= Cardinality(Woken) - 1
    BY <1>2, <2>2, FS_RemoveElement, FiniteFutures DEF Woken
  <2> QED
    BY <1>1, <1>2, <2>1, <2>2, <2>3 DEF WakePerFreeSlot
<1>7. ASSUME NEW t \in Futures, PollReady(t)
      PROVE  WakePerFreeSlot'
  <2>1. ~NoReadyCall'
    BY <1>1, <1>7 DEF PollReady, NoReadyCall
  <2> QED
    BY <2>1 DEF WakePerFreeSlot
<1>8. ASSUME NEW t \in Futures, PollOpenFails(t)
      PROVE  WakePerFreeSlot'
  <2> DEFINE f == [fut EXCEPT ![t] = "failed"]
  <2>1. /\ WakeWaiters(f, FreeSlots(active_local)) /\ fut[t] \in {"idle", "woken"}
        /\ local_max' = local_max /\ active_local' = active_local
    BY <1>8 DEF PollOpenFails, slotVars
  <2>2. /\ f \in [Futures -> FutureStates]
        /\ \A u \in Futures : (f[u] = "parked" => fut[u] = "parked") /\ (fut[u] = "ready" => f[u] = "ready")
    BY <1>1, <2>1 DEF FutureStates
  <2> HIDE DEF f
  <2> QED
    BY <1>1, <2>1, <2>2, ReleaseWakesForSlots
<1>9. ASSUME NEW t \in Futures, DropFuture(t)
      PROVE  WakePerFreeSlot'
  <2> DEFINE f == [fut EXCEPT ![t] = "gone"]
             n == IF fut[t] = "woken" THEN 1 ELSE 0
  <2>1. /\ WakeWaiters(f, n) /\ fut[t] \in {"parked", "woken", "canceled"}
        /\ local_max' = local_max /\ active_local' = active_local
    BY <1>9 DEF DropFuture, slotVars
  <2>2. /\ f \in [Futures -> FutureStates]
        /\ \A u \in Futures : (f[u] = "parked" => fut[u] = "parked") /\ (fut[u] = "ready" => f[u] = "ready")
    BY <1>1, <2>1 DEF FutureStates
  <2>3. In(f, "woken") = Woken \ {t} /\ (t \in Woken <=> fut[t] = "woken")
    BY <1>1 DEF In, Woken
  <2>4. n \in Nat /\ Cardinality(In(f, "woken")) + n = Cardinality(Woken)
    <3>1. Cardinality(Woken \ {t}) = IF t \in Woken THEN Cardinality(Woken) - 1 ELSE Cardinality(Woken)
      BY <1>2, FS_RemoveElement
    <3>2. n = IF t \in Woken THEN 1 ELSE 0
      BY <2>3
    <3>3. Cardinality(In(f, "woken")) = Cardinality(Woken \ {t})
      BY <2>3
    <3> HIDE DEF n, f
    <3> QED
      BY <1>2, <3>1, <3>2, <3>3
  <2>5. NoReadyCall /\ Parked # {} => Cardinality(In(f, "woken")) + n >= local_max - active_local'
    <3> HIDE DEF n, f
    <3> QED
      BY <1>1, <2>1, <2>4 DEF WakePerFreeSlot
  <2> HIDE DEF n, f
  <2> QED
    BY <1>1, <2>1, <2>2, <2>4, <2>5, WakesForSlots
<1>10. ASSUME \/ \E r \in Reservers : ReleaseReserved(r)
              \/ \E id \in Ids : StreamClosed(id)
       PROVE  WakePerFreeSlot'
  <2>1. /\ active_local' = SaturatingSub(active_local, 1) /\ local_max' = local_max
        /\ WakeWaiters(fut, FreeSlots(SaturatingSub(active_local, 1)))
    BY <1>10 DEF ReleaseReserved, StreamClosed
  <2> QED
    BY <1>1, <1>3, <2>1, ReleaseWakesForSlots
<1>11. ASSUME NEW r \in Reservers, Reserve(r) \/ SendReserved(r)
       PROVE  WakePerFreeSlot'
  <2>1. /\ fut' = fut /\ local_max' = local_max
        /\ active_local' \in {active_local, active_local + 1}
    BY <1>11 DEF Reserve, SendReserved, waitVars
  <2>2. Parked' = Parked /\ Woken' = Woken /\ NoReadyCall' = NoReadyCall
    BY <2>1 DEF Parked, Woken, NoReadyCall
  <2> QED
    BY <1>1, <1>2, <2>1, <2>2 DEF WakePerFreeSlot
<1>12. ASSUME \/ \E max \in Limits \union {NoLimit} : RecvSettings(max)
              \/ \E last \in Ids \union {0} : RecvGoAway(last)
              \/ DisconnectWhenReady \/ ProtoError \/ Timeout \/ Disconnect
       PROVE  WakePerFreeSlot'
  <2>1. Parked' = {}
    BY <1>12 DEF RecvSettings, RecvGoAway, DisconnectWhenReady, ProtoError, Timeout, Disconnect, TakeStreams,
         ClearReadiness, Parked
  <2> QED
    BY <2>1 DEF WakePerFreeSlot
<1>13. CASE IoClose \/ UNCHANGED vars
  BY <1>1, <1>13 DEF IoClose, vars, slotVars, waitVars, WakePerFreeSlot, Parked, Woken, NoReadyCall
<1> QED
  BY <1>4, <1>5, <1>6, <1>7, <1>8, <1>9, <1>10, <1>11, <1>12, <1>13 DEF Next, Poll

\* connection.rs release_local_stream: while a waiter is parked there is a
\* woken one for each free slot, for any number of futures, whoever is woken,
\* queued again, dropped or fails in between.
THEOREM FreeSlotsWakeWaiters == Spec => []WakePerFreeSlot
<1>1. Init => WakeInv
  <2>1. ASSUME Init PROVE SlotInv /\ WaiterQueued
    BY <2>1, SlotInit DEF Init, WaiterQueued, Parked, Usable
  <2>2. ASSUME Init PROVE QueueOnce /\ WakePerFreeSlot
    BY <2>2 DEF Init, QueueOnce, WakePerFreeSlot, Parked
  <2> QED
    BY <2>1, <2>2 DEF WakeInv
<1>2. WakeInv /\ [Next]_vars => WakeInv'
  BY SlotStep, QueueStep, QueueOnceStep, WakeStep DEF WakeInv, SlotInv
<1>3. WakeInv => WakePerFreeSlot
  BY DEF WakeInv
<1> QED
  BY <1>1, <1>2, <1>3, PTL DEF Spec
=============================================================================
