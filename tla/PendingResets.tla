--------------------------- MODULE PendingResets ---------------------------
(***************************************************************************)
(* `Pending` of connection.rs: the ids of recently reset streams, kept in  *)
(* a set and in a queue ordered by the time of the reset.  Frames for      *)
(* these streams are ignored, the peer may have sent them before it saw    *)
(* the reset.                                                              *)
(***************************************************************************)
EXTENDS Integers, Sequences, FiniteSets

CONSTANTS
    StreamIds,       \* ids of streams
    MaxResets,       \* reset_max
    ResetDuration,   \* reset_duration
    MaxTime          \* bound: clock

ASSUME PendingResetsAssumption ==
    MaxResets \in Nat /\ ResetDuration \in Nat /\ MaxTime \in Nat

VARIABLES
    ids,      \* PendingInner::ids
    queue,    \* PendingInner::queue
    now,      \* the clock
    added,    \* history: time of the last reset of an id that was not removed
    newer     \* history: ids added since then

pendingVars == <<ids, queue, now, added, newer>>

Never == -1
Entry == [id : StreamIds, at : 0 .. MaxTime]

PendingTypeOK ==
    /\ ids \subseteq StreamIds
    /\ queue \in Seq(Entry)
    /\ now \in 0 .. MaxTime
    /\ added \in [StreamIds -> {Never} \union 0 .. MaxTime]
    /\ newer \in [StreamIds -> SUBSET StreamIds]

PendingInit ==
    /\ ids = {}
    /\ queue = <<>>
    /\ now = 0
    /\ added = [i \in StreamIds |-> Never]
    /\ newer = [i \in StreamIds |-> {}]

\* the first entry of the id is removed
Without(q, id) ==
    LET found == {k \in DOMAIN q : q[k].id = id}
        first == CHOOSE k \in found : \A j \in found : k <= j
    IN  IF found = {} THEN q ELSE SubSeq(q, 1, first - 1) \o SubSeq(q, first + 1, Len(q))

\* mutant: an entry is expired one tick early
ExpiredEarly(e) == now >= ResetDuration /\ e.at <= now - ResetDuration

\* checked_sub() fails while the clock is younger than the duration
Expired(e) == now >= ResetDuration /\ e.at < now - ResetDuration

\* mutant: the queue may hold one id too many
DropCountOff(q) ==
    LET old == CHOOSE k \in 0 .. Len(q) :
                  /\ \A j \in 1 .. k : Expired(q[j])
                  /\ k < Len(q) => ~Expired(q[k + 1])
    IN  IF Len(q) - old > MaxResets THEN Len(q) - MaxResets ELSE old

\* entries at the front that are old, or too many for one more
DropCount(q) ==
    LET old == CHOOSE k \in 0 .. Len(q) :
                  /\ \A j \in 1 .. k : Expired(q[j])
                  /\ k < Len(q) => ~Expired(q[k + 1])
    IN  IF Len(q) - old >= MaxResets THEN Len(q) - MaxResets + 1 ELSE old

EntryNow(id) == [id |-> id, at |-> now]

\* Pending::add()
Add(id) ==
    LET q == IF id \in ids THEN Without(queue, id) ELSE queue
        n == DropCount(q)
        dropped == {q[k].id : k \in 1 .. n}
    IN  /\ IF MaxResets = 0
           THEN ids' = {} /\ queue' = <<>>
           ELSE /\ ids' = (ids \ dropped) \union {id}
                /\ queue' = Append(SubSeq(q, n + 1, Len(q)), EntryNow(id))
        /\ added' = [added EXCEPT ![id] = now]
        /\ newer' = [i \in StreamIds |-> IF i = id THEN {} ELSE newer[i] \union {id}]
        /\ UNCHANGED now

\* Pending::remove(), RST_STREAM of a pending stream
Remove(id) ==
    /\ ids' = ids \ {id}
    /\ queue' = IF id \in ids THEN Without(queue, id) ELSE queue
    /\ added' = [added EXCEPT ![id] = Never]
    /\ UNCHANGED <<now, newer>>

Tick ==
    /\ now < MaxTime
    /\ now' = now + 1
    /\ UNCHANGED <<ids, queue, added, newer>>

PendingNext == Tick \/ \E id \in StreamIds : Add(id) \/ Remove(id)

PendingSpec == PendingInit /\ [][PendingNext]_pendingVars

-----------------------------------------------------------------------------
(* Properties. *)

\* connection.rs Pending::add, "a stale duplicate would forget the id early":
\* an id is forgotten only after its duration, or when MaxResets other streams
\* were reset after it.
NotForgottenEarly ==
    \A id \in StreamIds :
        /\ added[id] # Never
        /\ now - added[id] <= ResetDuration
        /\ Cardinality(newer[id]) < MaxResets
        => id \in ids

\* The set implements the abstract set the connection is modelled with, in
\* particular it never holds more than MaxResets ids.
Abstract == INSTANCE PendingSet WITH ResetMax <- MaxResets
ImplementsPendingSet == Abstract!Spec
=============================================================================
