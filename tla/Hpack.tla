------------------------------- MODULE Hpack -------------------------------
(***************************************************************************)
(* HPACK of one direction of a connection: the encoder (encoder.rs) with   *)
(* its table, and at the other end a decoder (decoder.rs).  Header blocks  *)
(* and acknowledged SETTINGS travel in order, so a block is encoded and    *)
(* decoded in one step.                                                    *)
(*                                                                         *)
(* A representation on the wire is [head, strings]: the bytes of its first *)
(* integer and the string literals after it.                               *)
(***************************************************************************)
EXTENDS HpackTable, HpackCoding

CONSTANTS
    Blocks,     \* header blocks: a header, and headers sent without a name
    Sizes,      \* SETTINGS_HEADER_TABLE_SIZE values of the peer
    MaxTable    \* DEFAULT_SETTINGS_HEADER_TABLE_SIZE

ASSUME HpackAssumption ==
    /\ MaxTable \in Nat /\ MaxTable < Width /\ MaxTable + 62 < Shift[5]
    /\ Sizes \subseteq Nat
    /\ \A block \in Blocks :
          /\ block[1] \in [name : DOMAIN NameLen, value : DOMAIN ValueLen, sensitive : BOOLEAN]
          /\ block[2] \in Seq([value : DOMAIN ValueLen, sensitive : BOOLEAN])

VARIABLES
    enc,        \* Encoder::table
    update,     \* Encoder::size_update: <<>>, <<One>> or <<min, max>>
    dec,        \* Decoder::table
    limit,      \* Decoder::last_max_update, the size the peer announced
    floor,      \* smallest size announced since the last block
    result      \* outcome of the last block at the decoder

vars == <<enc, update, dec, limit, floor, result>>

Init ==
    /\ enc = NewTable(MaxTable)
    /\ update = <<>>
    /\ dec = DecTable(MaxTable)
    /\ limit = MaxTable
    /\ floor = MaxTable
    /\ result = "ok"

-----------------------------------------------------------------------------
(* Encoder.                                                                *)

(* Variant of QueueUpdate that keeps only the last size. *)
QueueUpdateLast(u, val) == IF u = <<>> /\ val = enc.max THEN <<>> ELSE <<val>>

(* update_max_size() *)
QueueUpdate(u, val) ==
    CASE u = <<>> -> IF val # enc.max THEN <<val>> ELSE <<>>
      [] Len(u) = 1 -> IF val > u[1] /\ u[1] <= enc.max THEN <<u[1], val>> ELSE <<val>>
      [] Len(u) = 2 -> IF val < u[1] THEN <<val>> ELSE <<u[1], val>>

SizeUpdate(val) == [head |-> EncodeInt(val, 5, 32), strings |-> <<>>]

(* encode_not_indexed() and, with index 0, encode_not_indexed2() *)
NotIndexed(idx, strings, sensitive) ==
    [head |-> EncodeInt(idx, 4, IF sensitive THEN 16 ELSE 0), strings |-> strings]

(* encode_header() *)
EncodeHeader(index, h) ==
    CASE index.kind = "Indexed" -> [head |-> EncodeInt(index.idx, 7, 128), strings |-> <<>>]
      [] index.kind = "Name" -> NotIndexed(index.idx, <<h.value>>, h.sensitive)
      [] index.kind = "Inserted" -> [head |-> <<64>>, strings |-> <<h.name, h.value>>]
      [] index.kind = "InsertedValue" -> [head |-> EncodeInt(index.idx, 6, 64), strings |-> <<h.value>>]
      [] index.kind = "NotIndexed" -> NotIndexed(0, <<h.name, h.value>>, h.sensitive)

(* Table::resolve_idx(): an inserted header is the newest entry. *)
ResolveIdx(index) ==
    IF index.kind \in {"Inserted", "InsertedValue"} THEN DYN_OFFSET ELSE index.idx

(* encode_header_without_name() after header h *)
EncodeWithoutName(index, h, r) ==
    IF index.kind = "NotIndexed" THEN NotIndexed(0, <<h.name, r.value>>, r.sensitive)
    ELSE NotIndexed(ResolveIdx(index), <<r.value>>, r.sensitive)

(* encode_size_updates() *)
Resized ==
    CASE update = <<>> -> enc
      [] Len(update) = 1 -> Resize(enc, update[1])
      [] Len(update) = 2 -> Resize(Resize(enc, update[1]), update[2])

(* encode(): size updates, a header, and headers that repeat its name. *)
Encode(h, more) ==
    LET Block(indexed) ==
            [table |-> indexed.table,
             wire |-> [i \in DOMAIN update |-> SizeUpdate(update[i])]
                      \o <<EncodeHeader(indexed.index, h)>>
                      \o [i \in DOMAIN more |-> EncodeWithoutName(indexed.index, h, more[i])]]
    IN  Block(Index(Resized, h))

-----------------------------------------------------------------------------
(* Decoder.                                                                *)

Failed(acc, error) == [acc EXCEPT !.error = error]

Accepted(acc, table, h) == [acc EXCEPT !.table = table, !.out = Append(acc.out, h), !.resize = FALSE]

(* decode_literal(): the name from the table or from the wire. *)
Literal(acc, rep, insert) ==
    LET idx == DecodeInt(rep.head, IF insert THEN 6 ELSE 4)
        h == IF idx.value = 0 THEN [name |-> rep.strings[1], value |-> rep.strings[2]]
             ELSE [name |-> DecGet(acc.table, idx.value).name, value |-> rep.strings[1]]
    IN  IF idx.error # "" THEN Failed(acc, idx.error)
        ELSE IF idx.value # 0 /\ ~DecHas(acc.table, idx.value) THEN Failed(acc, "InvalidTableIndex")
        ELSE Accepted(acc, IF insert THEN DecInsert(acc.table, h) ELSE acc.table, h)

(* decode_indexed() *)
Indexed(acc, rep) ==
    LET idx == DecodeInt(rep.head, 7)
    IN  IF idx.error # "" THEN Failed(acc, idx.error)
        ELSE IF ~DecHas(acc.table, idx.value) THEN Failed(acc, "InvalidTableIndex")
        ELSE Accepted(acc, acc.table, DecGet(acc.table, idx.value))

(* process_size_update(), not after a header *)
ProcessSizeUpdate(acc, rep) ==
    LET size == DecodeInt(rep.head, 5)
    IN  IF ~acc.resize THEN Failed(acc, "InvalidMaxDynamicSize")
        ELSE IF size.error # "" THEN Failed(acc, size.error)
        ELSE IF size.value > limit THEN Failed(acc, "InvalidMaxDynamicSize")
        ELSE [acc EXCEPT !.table = DecSetMaxSize(acc.table, size.value),
                         !.low = Min({acc.low, size.value})]

(* One turn of the loop of decode(). *)
DecodeOne(acc, rep) ==
    LET kind == Representation(rep.head[1])
    IN  CASE acc.error # "" -> acc
          [] acc.error = "" /\ kind = "Indexed" -> Indexed(acc, rep)
          [] acc.error = "" /\ kind = "LiteralWithIndexing" -> Literal(acc, rep, TRUE)
          [] acc.error = "" /\ kind \in {"LiteralWithoutIndexing", "LiteralNeverIndexed"} ->
                Literal(acc, rep, FALSE)
          [] acc.error = "" /\ kind = "SizeUpdate" -> ProcessSizeUpdate(acc, rep)

(* decode(); `low` is the smallest table size during the block. *)
Decode(wire) ==
    LET start == [table |-> dec, out |-> <<>>, error |-> "", resize |-> TRUE, low |-> dec.max]
        turn[n \in 0..Len(wire)] == IF n = 0 THEN start ELSE DecodeOne(turn[n - 1], wire[n])
    IN  turn[Len(wire)]

-----------------------------------------------------------------------------
(* Actions.                                                                *)

(* The peer's SETTINGS_HEADER_TABLE_SIZE: set_send_header_table_size() here, *)
(* and with the acknowledgment the peer's decoder expects the new size.      *)
SetSendHeaderTableSize(val) ==
    /\ update' = QueueUpdate(update, Min({val, MaxTable}))
    /\ limit' = val
    /\ floor' = Min({floor, val})
    /\ UNCHANGED <<enc, dec, result>>

(* A header block.  The peer's decoder gives the headers in order, or an    *)
(* error; a block that does not bring the table down to a size announced    *)
(* since the last block is an error of the sender.                          *)
Received(got, sent) ==
    /\ dec' = got.table
    /\ result' = IF got.error # "" THEN got.error
                 ELSE IF got.low > floor THEN "ReductionMissing"
                 ELSE IF got.out # sent THEN "Mismatch" ELSE "ok"

Send(block, sent) ==
    /\ enc' = block.table
    /\ update' = <<>>
    /\ floor' = limit
    /\ Received(Decode(block.wire), sent)
    /\ UNCHANGED limit

EncodeBlock(h, more) ==
    Send(Encode(h, more),
         <<[name |-> h.name, value |-> h.value]>>
         \o [i \in DOMAIN more |-> [name |-> h.name, value |-> more[i].value]])

Next ==
    \/ \E val \in Sizes : SetSendHeaderTableSize(val)
    \/ \E block \in Blocks : EncodeBlock(block[1], block[2])

Spec == Init /\ [][Next]_vars

-----------------------------------------------------------------------------
(* Properties.                                                             *)

(* Both ends have the same dynamic table: an index of one names the same    *)
(* header at the other (Table::evict, Table::reserve).                      *)
TablesInStep ==
    LET total[n \in 0..Len(enc.slots)] ==
            IF n = 0 THEN 0 ELSE total[n - 1] + HeaderLen(enc.slots[n].header)
    IN
    /\ dec.entries = [i \in DOMAIN enc.slots |->
                        [name |-> enc.slots[i].header.name, value |-> enc.slots[i].header.value]]
    /\ dec.size = enc.size /\ dec.max = enc.max
    /\ enc.size = total[Len(enc.slots)]
    /\ enc.size <= enc.max

(* Every block the encoder writes is decoded to the headers it was made of, *)
(* whatever was inserted, evicted and resized before it, and brings the     *)
(* table down to every size the peer announced (encode, decode), and both   *)
(* ends have the same table after it.                                       *)
DecodesAsEncoded == result = "ok" /\ TablesInStep

(* The index is sound, the check table.rs leaves out (assert_valid_state    *)
(* and its "Ensure linked lists are correct"): every position is of the     *)
(* oldest slot of a name, of no other position's, and the probe loop of     *)
(* index_dynamic() finds it before it gives up; the links lead from there   *)
(* through the slots of that name in order and end at the newest; and there *)
(* is always a free position.                                               *)
IndexSound ==
    LET Used == {p \in 0..(enc.cap - 1) : ~Free(enc, p)}
        SlotOf(p) == RealIdx(enc, enc.indices[p].index) + 1
        Named(i) == {j \in DOMAIN enc.slots : enc.slots[j].header.name = enc.slots[i].header.name}
        Newer(i) == {j \in Named(i) : j < i}
        Older(i) == {j \in Named(i) : j > i}
    IN  /\ enc.cap > 0 => \E p \in 0..(enc.cap - 1) : Free(enc, p)
        /\ \A p \in Used :
             /\ SlotOf(p) \in DOMAIN enc.slots /\ Older(SlotOf(p)) = {}
             /\ enc.indices[p].hash = Hash[enc.slots[SlotOf(p)].header.name]
             /\ \A q \in Used : SlotOf(p) = SlotOf(q) => p = q
        /\ \A i \in DOMAIN enc.slots :
             LET At(k) == Probe(enc, Hash[enc.slots[i].header.name], k)
             IN  /\ Older(i) = {} =>
                      \E k \in 0..(enc.cap - 1) :
                         /\ At(k) \in Used /\ SlotOf(At(k)) = i
                         /\ \A j \in 0..k : At(j) \in Used /\ Distance(enc, At(j)) >= j
                 /\ IF Newer(i) = {} THEN enc.slots[i].next = None
                    ELSE /\ enc.slots[i].next # None
                         /\ RealIdx(enc, enc.slots[i].next) + 1 = Max(Newer(i))
=============================================================================
