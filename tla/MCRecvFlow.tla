----------------------------- MODULE MCRecvFlow -----------------------------
(* Small instances of RecvFlow for TLC: a server and a client whose window  *)
(* is larger than the default and near the maximum, and a server whose      *)
(* window is smaller than the default.  Streams are interchangeable.        *)
EXTENDS RecvFlow, TLC

Grow(role, data) ==
    [server |-> role, default |-> 1, window |-> 3, conn |-> 4, max |-> 4, data |-> data]
Shrink == [server |-> TRUE, default |-> 4, window |-> 3, conn |-> 4, max |-> 20, data |-> 4]

MCConfigs == {Grow(TRUE, 4), Grow(FALSE, 2), Shrink}

Symmetry == Permutations(Streams)
=============================================================================
