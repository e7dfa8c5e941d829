------------------------------- MODULE Frames -------------------------------
(***************************************************************************)
(* The frames of HTTP/2 as bytes (src/frame): the nine byte head, and for  *)
(* every kind of frame `load`, which checks a payload and takes it apart,  *)
(* and `encode`.                                                           *)
(*                                                                         *)
(* Bytes are 0..255.  A u32 is the i32 with the same bits: it is negative  *)
(* when its most significant bit is set.  A frame is a record with the     *)
(* field `kind`; a FrameError is [kind |-> "Error", error |-> name].       *)
(***************************************************************************)
EXTENDS Integers, Sequences, SequencesExt, FiniteSets, FiniteSetsExt

CONSTANTS
    DEFAULT_MAX_FRAME_SIZE, \* 16_384 in the code
    MAX_MAX_FRAME_SIZE      \* 2^24 - 1 in the code

ASSUME FrameSizeAssumption ==
    /\ DEFAULT_MAX_FRAME_SIZE \in Nat /\ MAX_MAX_FRAME_SIZE \in Nat
    /\ DEFAULT_MAX_FRAME_SIZE <= MAX_MAX_FRAME_SIZE
    /\ MAX_MAX_FRAME_SIZE < 2^24

HEADER_LEN == 9

Error(name) == [kind |-> "Error", error |-> name]

-----------------------------------------------------------------------------
(* Integers and flags.                                                     *)

(* put_u32() *)
PutU32(v) ==
    LET low == IF v < 0 THEN (v + 2147483647) + 1 ELSE v
    IN  <<(IF v < 0 THEN 128 ELSE 0) + low \div 16777216,
          (low \div 65536) % 256, (low \div 256) % 256, low % 256>>

(* unpack_octets_4!: the four bytes of b from position i *)
Unpack(b, i) ==
    (IF b[i] >= 128 THEN b[i] - 256 ELSE b[i]) * 16777216
    + b[i + 1] * 65536 + b[i + 2] * 256 + b[i + 3]

(* v & !(1 << 31): StreamId::parse() and WindowUpdate::load() drop the      *)
(* reserved bit.                                                            *)
ClearTop(v) == IF v < 0 THEN (v + 2147483647) + 1 ELSE v

END_STREAM == 1
ACK == 1
END_HEADERS == 4
PADDED == 8
PRIORITY == 32

Has(flag, bit) == (flag \div bit) % 2 = 1

(* flag & (the union of bits): HeadersFlag::load(), DataFlags::load() *)
Masked(flag, bits) == SumSet({bit \in bits : Has(flag, bit)})

-----------------------------------------------------------------------------
(* Head.                                                                   *)

KindByte == [Data |-> 0, Headers |-> 1, Priority |-> 2, Reset |-> 3, Settings |-> 4,
             Ping |-> 6, GoAway |-> 7, WindowUpdate |-> 8, Continuation |-> 9]

(* Kind::new() *)
KindOf(byte) ==
    IF \E k \in DOMAIN KindByte : KindByte[k] = byte
    THEN CHOOSE k \in DOMAIN KindByte : KindByte[k] = byte
    ELSE "Unknown"

(* Head::encode() and the payload *)
EncodeFrame(kind, flag, id, payload) ==
    <<Len(payload) \div 65536, (Len(payload) \div 256) % 256, Len(payload) % 256, KindByte[kind], flag>>
    \o PutU32(id) \o payload

(* Head::parse() *)
ParseHead(b) == [kind |-> KindOf(b[4]), flag |-> b[5], id |-> ClearTop(Unpack(b, 6))]

-----------------------------------------------------------------------------
(* Frames of a fixed layout.                                               *)

(* Setting::from_id(): a setting with another identifier is ignored. *)
SettingIds == {1, 2, 3, 4, 5, 6, 8}

(* The checks of a value in Settings::load(). *)
SettingError(s) ==
    CASE s.id \in {2, 8} /\ s.val \notin {0, 1} -> "InvalidSettingValue"
      [] s.id = 4 /\ s.val < 0 -> "InvalidInitialWindowSize"
      [] s.id = 5 /\ s.val \notin DEFAULT_MAX_FRAME_SIZE..MAX_MAX_FRAME_SIZE -> "InvalidSettingValue"
      [] OTHER -> ""

Settings(ack, values) == [kind |-> "Settings", ack |-> ack, values |-> values]

LoadSettings(head, p) ==
    LET n == Len(p) \div 6
        raw == [i \in 1..n |-> [id |-> p[6*i - 5] * 256 + p[6*i - 4], val |-> Unpack(p, 6*i - 3)]]
        bad == {i \in 1..n : SettingError(raw[i]) # ""}
        Newest(id) == Max({i \in 1..n : raw[i].id = id})
    IN  IF head.id # 0 THEN Error("InvalidStreamId")
        ELSE IF Has(head.flag, ACK)
        THEN IF p = <<>> THEN Settings(TRUE, <<>>) ELSE Error("InvalidPayloadAckSettings")
        ELSE IF Len(p) % 6 # 0 THEN Error("InvalidPayloadLength")
        ELSE IF bad # {} THEN Error(SettingError(raw[Min(bad)]))
        ELSE Settings(FALSE, [id \in {raw[i].id : i \in 1..n} \cap SettingIds |-> raw[Newest(id)].val])

(* Settings::encode(), in the order of for_each() *)
EncodeSettings(f) ==
    LET ids == SetToSortSeq(DOMAIN f.values, <)
    IN  EncodeFrame("Settings", IF f.ack THEN ACK ELSE 0, 0,
                    FlattenSeq([i \in DOMAIN ids |-> <<0, ids[i]>> \o PutU32(f.values[ids[i]])]))

LoadPing(head, p) ==
    IF head.id # 0 THEN Error("InvalidStreamId")
    ELSE IF Len(p) # 8 THEN Error("BadFrameSize")
    ELSE [kind |-> "Ping", ack |-> Has(head.flag, ACK), payload |-> p]

EncodePing(f) == EncodeFrame("Ping", IF f.ack THEN ACK ELSE 0, 0, f.payload)

LoadWindowUpdate(head, p) ==
    IF Len(p) # 4 THEN Error("BadFrameSize")
    ELSE [kind |-> "WindowUpdate", id |-> head.id, increment |-> ClearTop(Unpack(p, 1))]

EncodeWindowUpdate(f) == EncodeFrame("WindowUpdate", 0, f.id, PutU32(f.increment))

LoadReset(head, p) ==
    IF Len(p) # 4 THEN Error("InvalidPayloadLength")
    ELSE [kind |-> "Reset", id |-> head.id, reason |-> Unpack(p, 1)]

EncodeReset(f) == EncodeFrame("Reset", 0, f.id, PutU32(f.reason))

(* The check of the stream identifier in Codec::decode() and GoAway::load() *)
LoadGoAway(head, p) ==
    IF head.id # 0 THEN Error("InvalidStreamId")
    ELSE IF Len(p) < 8 THEN Error("BadFrameSize")
    ELSE [kind |-> "GoAway", last |-> ClearTop(Unpack(p, 1)), reason |-> Unpack(p, 5),
          data |-> SubSeq(p, 9, Len(p))]

EncodeGoAway(f) == EncodeFrame("GoAway", 0, 0, PutU32(f.last) \o PutU32(f.reason) \o f.data)

Invalid(kind, id, error) == [kind |-> "Invalid", of |-> kind, id |-> id, error |-> error]

(* StreamDependency::load(), the identifier without the exclusive bit *)
DependencyId(p) == ClearTop(Unpack(p, 1))

(* Priority::load(), and in Codec::decode() which of its errors are errors  *)
(* of the stream only.                                                      *)
LoadPriority(head, p) ==
    IF head.id = 0 THEN Error("InvalidStreamId")
    ELSE IF Len(p) # 5 THEN Invalid("Priority", head.id, "InvalidPayloadLength")
    ELSE IF DependencyId(p) = head.id THEN Invalid("Priority", head.id, "InvalidDependencyId")
    ELSE [kind |-> "Priority", id |-> head.id, dependency |-> DependencyId(p)]

-----------------------------------------------------------------------------
(* DATA.                                                                   *)

(* Variant of StripPadding that forgets the byte of the padding length. *)
StripPaddingWide(p) ==
    IF p = <<>> \/ p[1] > Len(p) THEN Error("TooMuchPadding")
    ELSE [kind |-> "Payload", payload |-> SubSeq(p, 2, Len(p) - p[1])]

(* util::strip_padding() *)
StripPadding(p) ==
    IF p = <<>> \/ p[1] >= Len(p) THEN Error("TooMuchPadding")
    ELSE [kind |-> "Payload", payload |-> SubSeq(p, 2, Len(p) - p[1])]

(* flow_len: the payload with its padding counts against the windows. *)
LoadData(head, p) ==
    LET flags == Masked(head.flag, {END_STREAM, PADDED})
        data == IF Has(flags, PADDED) THEN StripPadding(p) ELSE [kind |-> "Payload", payload |-> p]
    IN  IF head.id = 0 THEN Error("InvalidStreamId")
        ELSE IF data.kind = "Error" THEN data
        ELSE [kind |-> "Data", id |-> head.id, flags |-> flags, payload |-> data.payload, flow |-> Len(p)]

(* Data::encode(): a padded frame is written without padding. *)
EncodeData(f) ==
    EncodeFrame("Data", f.flags, f.id, (IF Has(f.flags, PADDED) THEN <<0>> ELSE <<>>) \o f.payload)

-----------------------------------------------------------------------------
(* HEADERS.                                                                *)

(* Headers::load_head(): the fragment of the header block, without the      *)
(* padding and the dependency.                                              *)
LoadHead(head, p) ==
    LET flags == Masked(head.flag, {END_STREAM, END_HEADERS, PADDED, PRIORITY})
        start == IF Has(flags, PADDED) THEN 1 ELSE 0
        from == start + (IF Has(flags, PRIORITY) THEN 5 ELSE 0)
        pad == IF Has(flags, PADDED) THEN p[1] ELSE 0
    IN  IF head.id = 0 THEN Error("InvalidStreamId")
        ELSE IF Len(p) < from THEN Error("MalformedMessage")
        ELSE IF pad > Len(p) - from THEN Error("TooMuchPadding")
        ELSE [kind |-> "Head", id |-> head.id, flags |-> flags,
              self |-> Has(flags, PRIORITY) /\ DependencyId(SubSeq(p, start + 1, from)) = head.id,
              fragment |-> SubSeq(p, from + 1, Len(p) - pad)]

(* encode_block(): a HEADERS frame with END_HEADERS and perhaps END_STREAM, *)
(* split into CONTINUATION frames of at most max_size.                      *)
EncodeHeaderBlock(block, id, flag, max_size) ==
    LET n == Max({1, (Len(block) + max_size - 1) \div max_size})
        Part(i) == SubSeq(block, (i - 1) * max_size + 1, Min({i * max_size, Len(block)}))
    IN  FlattenSeq([i \in 1..n |->
            EncodeFrame(IF i = 1 THEN "Headers" ELSE "Continuation",
                        (IF i = 1 THEN flag ELSE END_HEADERS) - (IF i = n THEN 0 ELSE END_HEADERS),
                        id, Part(i))])

(* HeaderBlock::load() on the headers of a decoded block.  A header has     *)
(* `pseudo`, `name`, `len` and `legal`: not a connection level field, and   *)
(* TE only with "trailers".  The map may hold fields when loading starts.   *)
LoadHeader(acc, h, max_headers, max_list_size) ==
    LET size == acc.size + h.len
        num == acc.num + 1
        sized == [acc EXCEPT !.size = size, !.many = @ \/ size > max_list_size]
    IN  CASE sized.many -> sized
          [] ~sized.many /\ ~h.legal -> [sized EXCEPT !.malformed = TRUE]
          [] ~sized.many /\ h.legal /\ h.pseudo ->
                IF acc.reg \/ \E i \in DOMAIN acc.pseudo : acc.pseudo[i].name = h.name
                THEN [sized EXCEPT !.malformed = TRUE]
                ELSE [sized EXCEPT !.pseudo = Append(@, h)]
          [] ~sized.many /\ h.legal /\ ~h.pseudo ->
                IF num > max_headers
                THEN [sized EXCEPT !.reg = TRUE, !.num = num, !.many = TRUE]
                ELSE [sized EXCEPT !.reg = TRUE, !.num = num, !.fields = Append(@, h)]

LoadBlock(map, headers, max_headers, max_list_size) ==
    FoldLeft(LAMBDA acc, h : LoadHeader(acc, h, max_headers, max_list_size),
             [fields |-> map, pseudo |-> <<>>, reg |-> map # <<>>, malformed |-> FALSE,
              many |-> FALSE, num |-> 0, size |-> 0],
             headers)

-----------------------------------------------------------------------------
(* FrameError::reason() *)
ReasonOf(error) ==
    CASE error \in {"BadFrameSize", "MaxFrameSize", "InvalidPayloadLength",
                    "InvalidPayloadAckSettings"} -> "FRAME_SIZE_ERROR"
      [] error = "InvalidInitialWindowSize" -> "FLOW_CONTROL_ERROR"
      [] error = "TooManyHeaders" -> "REFUSED_STREAM"
      [] error = "Hpack" -> "COMPRESSION_ERROR"   \* "HpackText": a string the code refuses
      [] OTHER -> "PROTOCOL_ERROR"
=============================================================================
