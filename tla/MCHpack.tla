------------------------------ MODULE MCHpack ------------------------------
(* Small instances of Hpack and of Huffman.  "x-a" and "x-b" have one hash,  *)
(* "x-c" and ":status" want the next positions; entries take one or two      *)
(* units of a table of at most four.                                         *)
EXTENDS Hpack, Huffman

MCNames == {"x-a", "x-b", "x-c", ":status", "cookie", ":method"}
MCNameLen == [n \in MCNames |-> 1]
MCValues == {"0", "1", "GET"}
MCValueLen == [v \in MCValues |-> IF v = "1" THEN 1 ELSE 0]
MCHash == [n \in MCNames |-> CASE n \in {"x-a", "x-b"} -> 3 [] n = "x-c" -> 4 [] n = ":status" -> 0 [] OTHER -> 1]

H(n, v, s) == [name |-> n, value |-> v, sensitive |-> s]

MCHeaders == {H("x-a", "0", FALSE), H("x-a", "1", FALSE), H("x-b", "0", FALSE),
              H("x-c", "0", FALSE), H(":status", "0", FALSE), H("x-b", "1", TRUE),
              H("cookie", "0", FALSE), H(":method", "GET", FALSE)}

MCRepeats == <<[value |-> "1", sensitive |-> FALSE], [value |-> "0", sensitive |-> TRUE]>>

(* A header without a name after an index of every kind. *)
MCBlocks == {<<h, <<>>>> : h \in MCHeaders}
            \cup {<<H("x-a", "0", FALSE), MCRepeats>>, <<H("x-b", "1", TRUE), MCRepeats>>,
                  <<H(":status", "0", FALSE), MCRepeats>>, <<H("cookie", "0", FALSE), MCRepeats>>}

(* The encoder's and the decoder's static tables (index_static(),            *)
(* get_static()) agree on every entry.                                       *)
ASSUME StaticTablesAgree ==
    \A i \in DOMAIN GetStatic :
        LET s == IndexStatic(GetStatic[i][1], GetStatic[i][2])
        IN  IF s.full THEN s.n = i
            ELSE GetStatic[s.n][1] = GetStatic[i][1] /\ GetStatic[i][2] = ""

(* The first and the last byte of every length of code. *)
MCSymbols ==
    {0, 1, 2, 9, 10, 22, 32, 33, 35, 38, 39, 48, 58, 60, 62, 63, 90, 92, 94, 116, 117, 122,
     123, 124, 125, 126, 128, 129, 153, 192, 199, 203, 208, 226, 230, 233, 235, 237, 239, 249,
     254, 255}

ASSUME EveryCodeLength ==
    \A n \in 1..30 :
        LET bytes == {b \in 0..255 : ENCODE_TABLE[b + 1][1] = n}
        IN  bytes # {} => {Min(bytes), Max(bytes)} \subseteq MCSymbols

(* Behaviours of Hpack, where strings are single values, and behaviours of   *)
(* Huffman, one string: they have nothing in common.                         *)
VARIABLE checked

MCInit == Init /\ HuffmanInit /\ checked \in {"blocks", "string"}

MCNext ==
    /\ UNCHANGED checked
    /\ \/ checked = "blocks" /\ writer = "encode" /\ Next /\ UNCHANGED huffmanVars
       \/ checked = "string" /\ HuffmanNext /\ UNCHANGED vars

MCSpec == MCInit /\ [][MCNext]_<<checked, vars, huffmanVars>>
=============================================================================
