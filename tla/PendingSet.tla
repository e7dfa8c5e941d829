----------------------------- MODULE PendingSet -----------------------------
(***************************************************************************)
(* What the set of recently reset streams promises the connection          *)
(* (connection.rs, `Pending`): an added id is kept as the newest of at     *)
(* most ResetMax ids, older ids may be forgotten with every addition, and  *)
(* an id that is removed is gone.  PendingResets implements it.            *)
(***************************************************************************)
EXTENDS Integers, FiniteSets, FiniteSetsExt

CONSTANTS
    StreamIds,   \* ids of streams
    ResetMax     \* reset_max

VARIABLE ids     \* PendingInner::ids

\* The sets that may result from adding the ids of S one after the other to
\* the set `base`.
After(base, S) ==
    {q \in SUBSET (base \union S) :
        /\ Cardinality(q) <= ResetMax
        /\ Cardinality(q \intersect S) >= Min({Cardinality(S), ResetMax})}

Init == ids = {}

Add(id) == ids' \in After(ids, {id})

Remove(id) == ids' = ids \ {id}

Next == \E id \in StreamIds : Add(id) \/ Remove(id)

Spec == Init /\ [][Next]_ids
=============================================================================
