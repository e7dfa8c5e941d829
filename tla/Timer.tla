------------------------------- MODULE Timer --------------------------------
(***************************************************************************)
(* The capacity timer of a thread (timer.rs): registered streams, the map  *)
(* of streams by the second they expire in, and the task that counts       *)
(* seconds while the map is not empty.  A timer is a record, its           *)
(* operations are operators on it; Timers gives them their callers.        *)
(*                                                                         *)
(* Left out: the cache of empty sets.                                      *)
(***************************************************************************)
EXTENDS Naturals, Functions

NewTimer == [running |-> FALSE, current |-> 0, streams |-> <<>>, notifications |-> <<>>]

\* insert() of a map
Put(map, key, value) == [k \in DOMAIN map \union {key} |-> IF k = key THEN value ELSE map[k]]

\* streams that notifications holds for a second
At(n, key) == IF key \in DOMAIN n THEN n[key] ELSE {}

\* n without streams in the set of a second, the set itself stays
Without(n, key, S) == IF key \in DOMAIN n THEN [n EXCEPT ![key] = @ \ S] ELSE n

\* unregister() of every stream of S
\* mutant: the entry of the stream stays
UnregisterNone(timer, S) == timer
Unregister(timer, S) ==
    [running |-> timer.running,
     current |-> timer.current,
     streams |-> Restrict(timer.streams, DOMAIN timer.streams \ S),
     notifications |-> [key \in DOMAIN timer.notifications |->
                          timer.notifications[key] \
                            {s \in S \intersect DOMAIN timer.streams : timer.streams[s] = key}]]

\* register() at second secs since the timer's base: a timer whose task does
\* not run takes the current second first, a stream moves to its new second
Register(timer, s, timeout, secs) ==
    LET current == IF timer.running THEN timer.current ELSE secs
        hnd == current + timeout
        inserted == Put(timer.notifications, hnd, At(timer.notifications, hnd) \union {s})
        moves == s \in DOMAIN timer.streams /\ timer.streams[s] # hnd
    IN [running |-> TRUE,
        current |-> current,
        streams |-> Put(timer.streams, s, hnd),
        notifications |-> IF moves THEN Without(inserted, timer.streams[s], {s}) ELSE inserted]

\* seconds that are over when the task wakes
\* mutant: the second that begins counts as over
DueNext(timer) == {key \in DOMAIN timer.notifications : key <= timer.current + 1}
Due(timer) == {key \in DOMAIN timer.notifications : key <= timer.current}

\* streams that time out: a stream that was registered again for a later
\* second is passed over
Expired(timer) ==
    {s \in DOMAIN timer.streams :
        timer.streams[s] \in Due(timer) /\ s \in timer.notifications[timer.streams[s]]}

\* one turn of the task, it stops when nothing is left
Tick(timer) ==
    LET left == DOMAIN timer.notifications \ Due(timer)
    IN [running |-> left # {},
        current |-> timer.current + 1,
        streams |-> Restrict(timer.streams, DOMAIN timer.streams \ Expired(timer)),
        notifications |-> Restrict(timer.notifications, left)]

\* TimerGuard::drop
Stopped(timer) == [running |-> FALSE, current |-> timer.current, streams |-> <<>>, notifications |-> <<>>]

TimerType(timer, S) ==
    /\ timer.running \in BOOLEAN
    /\ timer.current \in Nat
    /\ DOMAIN timer.streams \subseteq S
    /\ \A s \in DOMAIN timer.streams : timer.streams[s] \in Nat
    /\ DOMAIN timer.notifications \subseteq Nat
    /\ \A key \in DOMAIN timer.notifications : timer.notifications[key] \subseteq S
=============================================================================
