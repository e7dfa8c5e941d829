------------------------------ MODULE MCTimers ------------------------------
(* Small instances of Timers for TLC: streams that wait for capacity, a      *)
(* peer that answers in time, and one that answers late or never.            *)
EXTENDS Timers

Starved == [handshake |-> 1, settings |-> 0, ping |-> 0, capacity |-> 1, live |-> TRUE, streams |-> Streams]
Live == [handshake |-> 1, settings |-> 2, ping |-> 1, capacity |-> 0, live |-> TRUE, streams |-> {}]
Silent == [Live EXCEPT !.live = FALSE]

Both == [Silent EXCEPT !.capacity = 2, !.streams = {CHOOSE s \in Streams : TRUE}]

MCConfigs == {Starved, Live, Silent, Both}
=============================================================================
