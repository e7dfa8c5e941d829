------------------------------ MODULE MCCodec ------------------------------
(* A small instance of Codec: frames of 13 bytes, 16 once announced, and     *)
(* representations of five bytes, so that three headers take two frames.     *)
EXTENDS Codec

H(pseudo, name, len, legal, index) ==
    [pseudo |-> pseudo, name |-> name, len |-> len, legal |-> legal, index |-> index]

MCHeader == <<H(TRUE, ":path", 6, TRUE, FALSE), H(FALSE, "x-a", 6, TRUE, TRUE),
              H(FALSE, "x-b", 9, TRUE, FALSE), H(FALSE, "connection", 6, FALSE, TRUE)>>

MCConfigs == {[size |-> 16, list |-> 20, headers |-> 2, continuations |-> 1],
              [size |-> 13, list |-> 20, headers |-> 3, continuations |-> 0]}

Bytes(n) == [i \in 1..n |-> i]

Data(id, flags, n) ==
    [kind |-> "Data", id |-> id, flags |-> flags, payload |-> Bytes(n),
     flow |-> IF Has(flags, PADDED) THEN n + 1 ELSE n]

MCMessages == {Data(1, 0, 13), Data(3, END_STREAM, 16), [kind |-> "Priority", id |-> 3, dependency |-> 1]}

MCSamples == {
    Data(3, PADDED, 2), Data(1, PADDED + END_STREAM, 0), Data(2147483647, 0, 300),
    [kind |-> "Settings", ack |-> FALSE, values |-> (4 :> 2147483647) @@ (6 :> -1) @@ (8 :> 1)],
    [kind |-> "Ping", ack |-> TRUE, payload |-> Bytes(8)],
    [kind |-> "GoAway", last |-> 2147483647, reason |-> 11, data |-> Bytes(3)],
    [kind |-> "WindowUpdate", id |-> 0, increment |-> 2147483647],
    [kind |-> "Reset", id |-> 3, reason |-> -2]}

List(id, eof, headers) == [id |-> id, eof |-> eof, headers |-> headers]

(* In order, with a pseudo header field last or twice, with an illegal field *)
(* that enters the table, with too many fields, and too large.               *)
MCHeaderLists == {List(1, FALSE, <<1, 2, 2>>), List(3, TRUE, <<2, 1>>), List(1, FALSE, <<1, 1>>),
                  List(3, TRUE, <<4, 2>>), List(1, TRUE, <<2, 2, 2>>), List(3, FALSE, <<2, 3, 3>>)}

MCLayouts == {[pad |-> 0, dependency |-> 3, parts |-> <<>>],
              [pad |-> None, dependency |-> -2147483645, parts |-> <<5>>],
              [pad |-> 1, dependency |-> None, parts |-> <<3>>],
              [pad |-> None, dependency |-> None, parts |-> <<0, 12>>]}

B(bytes, reason) == [bytes |-> bytes, reason |-> reason, limited |-> FALSE]

MCBroken == {
    B(EncodeFrame("Data", 0, 1, Bytes(17)), "FRAME_SIZE_ERROR"),
    B(EncodeFrame("Ping", 0, 0, Bytes(7)), "FRAME_SIZE_ERROR"),
    B(EncodeFrame("Settings", 0, 0, <<0, 4, 128, 0, 0, 0>>), "FLOW_CONTROL_ERROR"),
    B(EncodeFrame("Settings", 0, 0, <<0, 5, 0, 0, 0, 12>>), "PROTOCOL_ERROR"),
    B(EncodeFrame("Continuation", 4, 1, <<>>), "PROTOCOL_ERROR"),
    B(<<0, 0, 0, 5, 0, 0, 0, 0, 1>>, "PROTOCOL_ERROR"),
    B(EncodeFrame("Headers", 0, 1, <<>>) \o EncodeFrame("Continuation", 4, 3, <<>>), "PROTOCOL_ERROR"),
    B(EncodeFrame("Headers", 0, 1, <<>>) \o <<0, 0, 0, 10, 0, 0, 0, 0, 0>>, "PROTOCOL_ERROR"),
    B(EncodeFrame("Headers", PADDED + 4, 1, <<>>), "PROTOCOL_ERROR"),
    B(EncodeFrame("Headers", 4, 1, <<1, 1, 1>>), "COMPRESSION_ERROR"),
    B(EncodeFrame("Headers", 4, 1, [i \in 1..5 |-> 255]), "PROTOCOL_ERROR"),
    B(EncodeFrame("Headers", 0, 1, Bytes(10)) \o EncodeFrame("Continuation", 0, 1, Bytes(11)),
      "PROTOCOL_ERROR"),
    [bytes |-> EncodeFrame("Headers", 0, 1, <<>>) \o EncodeFrame("Continuation", 0, 1, <<>>)
               \o EncodeFrame("Continuation", 4, 1, <<>>),
     reason |-> "PROTOCOL_ERROR", limited |-> TRUE]}
=============================================================================
