---------------------------- MODULE MCConnection ----------------------------
(* Small instances for TLC: a server with two streams, one with one stream,  *)
(* and a client; and the set of recently reset ids, on its own.              *)
EXTENDS Connection, PendingResets, TLC

Server == [server |-> TRUE, max |-> 2, inflight |-> 2, resets |-> 2]
Client == [server |-> FALSE, max |-> 2, inflight |-> 1, resets |-> 2]
Limited == [server |-> TRUE, max |-> 1, inflight |-> 1, resets |-> 1]

MCConfigs == {Server, Client, Limited}
ServerOnly == {Server}

(* Behaviours of Connection, which has the set as PendingSet, and behaviours *)
(* of PendingResets: they share the initial states only.                     *)
MCInit == Init /\ PendingInit

MCNext ==
    \/ PendingInit /\ Next /\ UNCHANGED pendingVars
    \/ Init /\ PendingNext /\ UNCHANGED vars

MCSpec == MCInit /\ [][MCNext]_<<vars, pendingVars>>
=============================================================================
