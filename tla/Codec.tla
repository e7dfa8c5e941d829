------------------------------- MODULE Codec -------------------------------
(***************************************************************************)
(* The codec (src/codec) of one direction of a connection: a peer writes   *)
(* frames, the bytes arrive in pieces of any size, and decode() gives      *)
(* frames.  The peer is another instance of the codec, or one that pads,   *)
(* adds dependencies and splits header blocks as it likes, or one that     *)
(* breaks the protocol; `expect` is what its frames mean.                  *)
(*                                                                         *)
(* HPACK is modelled by module Hpack.  Here a header is a number of the    *)
(* constant Header, a representation takes RepLen equal bytes, and the     *)
(* dynamic tables are sequences of headers of at most TableCap.            *)
(***************************************************************************)
EXTENDS Frames

CONSTANTS
    Header,         \* sequence of headers [pseudo, name, len, legal, index]
    RepLen,         \* bytes of a representation
    TableCap,       \* entries of the dynamic tables
    Configs,        \* [size, list, headers, continuations]: the limits of the receiver
    Messages,       \* frames the encoder is given
    Samples,        \* frames for the check of load and encode
    HeaderLists,    \* [id, eof, headers] sent in HEADERS frames
    Layouts,        \* [pad, dependency, parts] of the HEADERS frames of a peer
    Broken,         \* [bytes, reason, limited]: a connection error, `limited` when
                    \* only a limit on the CONTINUATION frames makes it one
    Chunks,         \* sizes of the pieces that arrive
    MaxNet,         \* bound on the bytes sent and not decoded
    PoolSize,       \* HDRS_MAP_POOL_SIZE
    None

VARIABLES
    config,     \* limits of the receiver, config.size announced in its SETTINGS
    ack,        \* the peer: "waits" for SETTINGS, has "acked" them; "done" when received
    max_size,   \* encoder_max_frame_size of the peer
    enc,        \* the dynamic table of the peer's encoder, newest first
    net,        \* bytes on the way
    expect,     \* meaning of the frames sent and not decoded yet
    src,        \* bytes received and not decoded
    decoder,    \* FrameDecoder: [max_frame_len, pending]
    partial,    \* partially loaded HEADERS, or None
    dec,        \* the dynamic table of decoder_hpack
    pool,       \* HDRS_MAP_POOL, the spare header maps
    state       \* "ok", or what went wrong, or the error of the connection

peer == <<ack, max_size, enc, expect>>
vars == <<config, ack, max_size, enc, net, expect, src, decoder, partial, dec, pool, state>>

Init ==
    /\ config \in Configs
    /\ ack = "waits"
    /\ max_size = DEFAULT_MAX_FRAME_SIZE
    /\ enc = <<>> /\ dec = <<>>
    /\ net = <<>> /\ src = <<>> /\ expect = <<>>
    /\ decoder = [max_frame_len |-> DEFAULT_MAX_FRAME_SIZE, pending |-> None]
    /\ partial = None
    /\ pool = <<>>
    /\ state = "ok"

-----------------------------------------------------------------------------
(* HPACK.                                                                  *)

Insert(table, h) == SubSeq(<<h>> \o table, 1, Min({TableCap, Len(table) + 1}))

(* hpack::Encoder::encode(), one header: 200 + position in the table, h     *)
(* with indexing, or 100 + h without.                                       *)
EncodeRep(acc, h) ==
    LET Reps(code) == [i \in 1..RepLen |-> code]
        at == {i \in DOMAIN acc.table : acc.table[i] = h}
    IN  IF at # {} THEN [acc EXCEPT !.bytes = @ \o Reps(200 + Min(at))]
        ELSE IF Header[h].index
        THEN [table |-> Insert(acc.table, h), bytes |-> acc.bytes \o Reps(h)]
        ELSE [acc EXCEPT !.bytes = @ \o Reps(100 + h)]

EncodeHpack(headers) == FoldLeft(EncodeRep, [table |-> enc, bytes |-> <<>>], headers)

(* hpack::Decoder::decode(), one representation *)
DecodeRep(acc, code) ==
    CASE acc.error # "" -> acc
      [] acc.error = "" /\ code \in DOMAIN Header ->
            [acc EXCEPT !.table = Insert(@, code), !.out = Append(@, Header[code])]
      [] acc.error = "" /\ code - 100 \in DOMAIN Header ->
            [acc EXCEPT !.out = Append(@, Header[code - 100])]
      [] acc.error = "" /\ code - 200 \in DOMAIN acc.table ->
            [acc EXCEPT !.out = Append(@, Header[acc.table[code - 200]])]
      [] acc.error = "" /\ code = 255 -> [acc EXCEPT !.error = "HpackText"]
      [] OTHER -> [acc EXCEPT !.error = "Hpack"]

DecodeHpack(bytes) ==
    LET got == FoldLeft(DecodeRep, [table |-> dec, out |-> <<>>, error |-> ""],
                        [i \in 1..(Len(bytes) \div RepLen) |-> bytes[i * RepLen]])
    IN  IF Len(bytes) % RepLen # 0 /\ got.error = "" THEN [got EXCEPT !.error = "Hpack"] ELSE got

-----------------------------------------------------------------------------
(* The peer.                                                               *)

(* The frame a receiver sees for a list of headers, by RFC 9113: pseudo     *)
(* header fields first and once each, no connection specific field, and     *)
(* within the limits the receiver announced; else an error of the stream,   *)
(* or, for a list that is too long, of the connection.                      *)
Meaning(id, eof, headers) ==
    LET hs == [i \in DOMAIN headers |-> Header[headers[i]]]
        Pseudo(i) == hs[i].pseudo
        small == FoldLeft(LAMBDA n, h : n + h.len, 0, hs) <= config.list
        few == Cardinality({i \in DOMAIN hs : ~Pseudo(i)}) <= config.headers
        wellFormed == \A i \in DOMAIN hs :
                        /\ hs[i].legal
                        /\ Pseudo(i) => \A j \in 1..(i - 1) : Pseudo(j) /\ hs[j].name # hs[i].name
    IN  IF ~small THEN [kind |-> "Refused", id |-> id]
        ELSE IF ~wellFormed \/ ~few THEN [kind |-> "Invalid", id |-> id]
        ELSE [kind |-> "Headers", id |-> id, eof |-> eof,
              pseudo |-> SelectSeq(hs, LAMBDA h : h.pseudo),
              fields |-> SelectSeq(hs, LAMBDA h : ~h.pseudo)]

Write(bytes) ==
    /\ state = "ok"
    /\ \A i \in DOMAIN expect : expect[i].kind # "Error"   \* nothing matters after an error
    /\ net' = net \o bytes
    /\ Len(src) + Len(net') <= MaxNet

receiver == <<config, src, decoder, partial, dec, pool, state>>

(* Codec::encode() of a frame without headers.  DATA that is too long is    *)
(* an error of the caller; PRIORITY and invalid frames are not written.     *)
Encode(f) ==
    CASE f.kind = "Data" -> EncodeData(f)
      [] f.kind = "Settings" -> EncodeSettings(f)
      [] f.kind = "Ping" -> EncodePing(f)
      [] f.kind = "GoAway" -> EncodeGoAway(f)
      [] f.kind = "WindowUpdate" -> EncodeWindowUpdate(f)
      [] f.kind = "Reset" -> EncodeReset(f)
      [] f.kind \in {"Priority", "Invalid"} -> <<>>

SendFrame(f) ==
    /\ f.kind = "Data" => Len(f.payload) <= max_size
    /\ Write(Encode(f))
    /\ expect' = IF f.kind \in {"Priority", "Invalid"} THEN expect ELSE Append(expect, f)
    /\ UNCHANGED <<receiver, ack, max_size, enc>>

(* Headers::encode() and encode_headers_ref() *)
SendHeaders(id, eof, headers) ==
    LET block == EncodeHpack(headers)
    IN  /\ Write(EncodeHeaderBlock(block.bytes, id, END_HEADERS + (IF eof THEN END_STREAM ELSE 0), max_size))
        /\ enc' = block.table
        /\ expect' = Append(expect, Meaning(id, eof, headers))
        /\ UNCHANGED <<receiver, ack, max_size>>

(* The receiver's SETTINGS reach the peer (recv_settings): it may use the   *)
(* announced frame size, and writes its acknowledgment first.               *)
SendAck ==
    /\ ack = "waits"
    /\ ack' = "acked"
    /\ max_size' = config.size
    /\ Write(EncodeSettings(Settings(TRUE, <<>>)))
    /\ expect' = Append(expect, Settings(TRUE, <<>>))
    /\ UNCHANGED <<receiver, enc>>

(* A peer that pads its HEADERS, adds a dependency and cuts the block where *)
(* it likes: `parts` are the sizes of all fragments but the last.           *)
LayoutBlock(id, eof, block, l) ==
    LET n == Len(l.parts) + 1
        Cut(i) == Min({Len(block), FoldLeft(+, 0, SubSeq(l.parts, 1, i))})
        Fragment(i) == SubSeq(block, Cut(i - 1) + 1, IF i = n THEN Len(block) ELSE Cut(i))
        flag == (IF eof THEN END_STREAM ELSE 0) + (IF n = 1 THEN END_HEADERS ELSE 0)
                + (IF l.pad = None THEN 0 ELSE PADDED)
                + (IF l.dependency = None THEN 0 ELSE PRIORITY)
        first == (IF l.pad = None THEN <<>> ELSE <<l.pad>>)
                 \o (IF l.dependency = None THEN <<>> ELSE PutU32(l.dependency) \o <<16>>)
                 \o Fragment(1)
                 \o (IF l.pad = None THEN <<>> ELSE [i \in 1..l.pad |-> 0])
    IN  EncodeFrame("Headers", flag, id, first)
        \o FlattenSeq([i \in 1..(n - 1) |->
              EncodeFrame("Continuation", IF i = n - 1 THEN END_HEADERS ELSE 0, id, Fragment(i + 1))])

(* Every fragment fits a frame and a split block the limits on it. *)
Fits(block, l) ==
    /\ config.continuations > 0 => Len(l.parts) <= config.continuations
    /\ \A i \in DOMAIN l.parts : l.parts[i] <= max_size
    /\ Len(block) - FoldLeft(+, 0, l.parts) <= max_size
    /\ (l.pad # None \/ l.dependency # None) => Len(block) + 6 <= max_size

SendLayout(id, eof, headers, l) ==
    LET block == EncodeHpack(headers)
        self == l.dependency # None /\ ClearTop(l.dependency) = id
        means == Meaning(id, eof, headers)
    IN  /\ Fits(block.bytes, l)
        /\ Write(LayoutBlock(id, eof, block.bytes, l))
        /\ enc' = block.table
        /\ expect' = Append(expect, IF self /\ means.kind # "Refused"
                                    THEN [kind |-> "Invalid", id |-> id] ELSE means)
        /\ UNCHANGED <<receiver, ack, max_size>>

(* A frame of an extension, without a meaning here *)
SendExtension ==
    /\ Write(<<0, 0, 1, 10, 255, 0, 0, 0, 1, 7>>)
    /\ UNCHANGED <<receiver, peer>>

(* A peer that breaks the protocol. *)
SendBroken(b) ==
    /\ b.limited => config.continuations > 0
    /\ Write(b.bytes)
    /\ expect' = Append(expect, [kind |-> "Error", reason |-> b.reason])
    /\ UNCHANGED <<receiver, ack, max_size, enc>>

-----------------------------------------------------------------------------
(* The receiver.                                                           *)

Receive(n) ==
    /\ state = "ok" /\ net # <<>>
    /\ LET k == Min({n, Len(net)})
       IN  src' = src \o SubSeq(net, 1, k) /\ net' = SubSeq(net, k + 1, Len(net))
    /\ UNCHANGED <<config, peer, decoder, partial, dec, pool, state>>

(* FrameDecoder::decode(): the length of the frame once it is known.  It is *)
(* checked against the limit only once and kept in `pending`.               *)
FrameLen ==
    IF decoder.pending # None THEN decoder.pending
    ELSE src[1] * 65536 + src[2] * 256 + src[3] + HEADER_LEN

TooLong == decoder.pending = None /\ FrameLen - HEADER_LEN > decoder.max_frame_len

LengthReady == decoder.pending = None /\ Len(src) >= 3

DecodeLength ==
    /\ state = "ok" /\ LengthReady
    /\ ~TooLong /\ Len(src) < FrameLen
    /\ decoder' = [decoder EXCEPT !.pending = FrameLen]
    /\ UNCHANGED <<config, peer, net, src, partial, dec, pool, state>>

(* Variant of Complete that waits for the byte after the frame. *)
CompleteLate == (decoder.pending # None \/ LengthReady) /\ ~TooLong /\ Len(src) > FrameLen

Complete == (decoder.pending # None \/ LengthReady) /\ ~TooLong /\ Len(src) >= FrameLen

(* What a frame gives matches what it was sent as. *)
Matches(want, got) ==
    CASE want.kind = "Error" -> got.kind = "Error" /\ ReasonOf(got.error) = want.reason
      [] want.kind = "Refused" -> got.kind = "Error" \/ (got.kind = "Invalid" /\ got.id = want.id)
      [] want.kind = "Invalid" -> got.kind = "Invalid" /\ got.id = want.id
      [] OTHER -> got = want

(* decode() returns: an error ends the connection, a header map is with the *)
(* frame.                                                                   *)
Return(got) ==
    /\ expect' = IF expect = <<>> THEN expect ELSE Tail(expect)
    /\ state' = IF expect = <<>> \/ ~Matches(Head(expect), got) THEN "mismatch"
                ELSE IF got.kind = "Error" THEN "failed" ELSE "ok"

MaxFrameSize ==
    /\ state = "ok" /\ LengthReady /\ TooLong
    /\ Return(Error("MaxFrameSize"))
    /\ UNCHANGED <<config, ack, max_size, enc, net, src, decoder, partial, dec, pool>>

(* The split off frame, common to all turns of the loop of decode(). *)
Split ==
    /\ state = "ok" /\ Complete
    /\ src' = SubSeq(src, FrameLen + 1, Len(src))
    /\ decoder' = [decoder EXCEPT !.pending = None]
    /\ UNCHANGED <<config, max_size, enc, net>>

head == ParseHead(src)
payload == SubSeq(src, HEADER_LEN + 1, FrameLen)

(* PUSH_PROMISE, and a frame between the parts of a header block *)
Misplaced ==
    IF src[4] = 5 THEN Error("UnexpectedPushPromise")
    ELSE IF partial # None /\ head.kind # "Continuation" THEN Error("Expected")
    ELSE IF partial = None /\ head.kind = "Continuation" THEN Error("Unexpected")
    ELSE None

DecodeMisplaced ==
    /\ Split /\ Misplaced # None
    /\ Return(Misplaced)
    /\ UNCHANGED <<ack, partial, dec, pool>>

(* Frames that are loaded in one step *)
Load(h, p) ==
    CASE h.kind = "Settings" -> LoadSettings(h, p)
      [] h.kind = "Ping" -> LoadPing(h, p)
      [] h.kind = "WindowUpdate" -> LoadWindowUpdate(h, p)
      [] h.kind = "Data" -> LoadData(h, p)
      [] h.kind = "Reset" -> LoadReset(h, p)
      [] h.kind = "GoAway" -> LoadGoAway(h, p)
      [] h.kind = "Priority" -> LoadPriority(h, p)

(* recv_settings() handles the acknowledgment before the next call of       *)
(* decode(): set_recv_frame_size().                                         *)
RecvFrameSize(got) ==
    IF got.kind = "Settings" /\ got.ack THEN config.size ELSE decoder.max_frame_len

DecodeFrame ==
    /\ state = "ok" /\ Complete /\ Misplaced = None
    /\ head.kind \notin {"Headers", "Continuation", "Unknown"}
    /\ LET got == Load(head, payload)
       IN  /\ src' = SubSeq(src, FrameLen + 1, Len(src))
           /\ decoder' = [max_frame_len |-> RecvFrameSize(got), pending |-> None]
           /\ Return(got)
           /\ ack' = IF got.kind = "Settings" /\ got.ack THEN "done" ELSE ack
    /\ UNCHANGED <<config, max_size, enc, net, partial, dec, pool>>

DecodeUnknown ==
    /\ Split /\ Misplaced = None /\ head.kind = "Unknown"
    /\ UNCHANGED <<peer, partial, dec, pool, state>>

(* take_header_map(): a spare map, or a new one *)
TakeMap == IF pool = <<>> THEN <<>> ELSE Last(pool)
PoolTaken == IF pool = <<>> THEN <<>> ELSE Front(pool)

(* load_hpack() and what decode() makes of it: the block is decoded to its  *)
(* end whatever is wrong with it, only an HPACK error fails the connection. *)
LoadHpack(id, eof, bytes, error) ==
    LET hpack == DecodeHpack(bytes)
        block == LoadBlock(TakeMap, hpack.out, config.headers, config.list)
    IN  [table |-> hpack.table,
         frame |-> IF hpack.error # "" THEN Error(hpack.error)
                   ELSE IF error # "" THEN Invalid("Headers", id, error)
                   ELSE IF block.malformed THEN Invalid("Headers", id, "MalformedMessage")
                   ELSE IF block.many THEN Invalid("Headers", id, "TooManyHeaders")
                   ELSE [kind |-> "Headers", id |-> id, eof |-> eof,
                         pseudo |-> block.pseudo, fields |-> block.fields]]

(* Variant of Cleared that keeps the fields. *)
ClearedNot(map) == map

Cleared(map) == <<>>

(* recycle_header_map(): the application may give the map of a frame back   *)
(* when it is done with it.  A map without allocation or with a large one   *)
(* is dropped, and so is one that no longer fits the pool.                  *)
Recycled(maps, map) ==
    {maps} \cup (IF Len(maps) < PoolSize THEN {Append(maps, Cleared(map))} ELSE {})

(* The frame of a complete block, its map taken from the pool. *)
Loaded(got) ==
    /\ Return(got.frame)
    /\ dec' = got.table
    /\ pool' \in IF got.frame.kind = "Headers" THEN Recycled(PoolTaken, got.frame.fields)
                ELSE {PoolTaken}

DecodeHeaders ==
    /\ Split /\ Misplaced = None /\ head.kind = "Headers"
    /\ LET frame == LoadHead(head, payload)
           error == IF frame.self THEN "InvalidDependencyId" ELSE ""
       IN  \/ /\ frame.kind = "Error"
              /\ Return(frame)
              /\ UNCHANGED <<partial, dec, pool>>
           \/ /\ frame.kind = "Head" /\ Has(frame.flags, END_HEADERS)
              /\ Loaded(LoadHpack(frame.id, Has(frame.flags, END_STREAM), frame.fragment, error))
              /\ UNCHANGED partial
           \/ /\ frame.kind = "Head" /\ ~Has(frame.flags, END_HEADERS)
              \* into_head() gives the map back to the pool
              /\ partial' = [id |-> frame.id, flags |-> frame.flags, buf |-> frame.fragment,
                             count |-> 0, error |-> error]
              /\ UNCHANGED <<expect, dec, pool, state>>
    /\ UNCHANGED ack

(* Variant of ContinuationError without the limit on the block. *)
ContinuationErrorCountOnly(count) ==
    IF partial.id # head.id THEN "UnknownStreamId"
    ELSE IF config.continuations > 0 /\ count > config.continuations THEN "MaxContinuations"
    ELSE ""

(* The checks of a CONTINUATION frame. *)
ContinuationError(count) ==
    IF partial.id # head.id THEN "UnknownStreamId"
    ELSE IF config.continuations > 0 /\ count > config.continuations THEN "MaxContinuations"
    ELSE IF Len(partial.buf) + Len(payload) > config.list THEN "MaxLeftoverSize"
    ELSE ""

DecodeContinuation ==
    /\ Split /\ Misplaced = None /\ head.kind = "Continuation"
    /\ LET count == IF config.continuations > 0 THEN partial.count + 1 ELSE partial.count
           error == ContinuationError(count)
           buf == partial.buf \o payload
       IN  \/ /\ error # ""
              /\ partial' = None
              /\ Return(Error(error))
              /\ UNCHANGED <<dec, pool>>
           \/ /\ error = "" /\ Has(head.flag, END_HEADERS)
              /\ partial' = None
              /\ Loaded(LoadHpack(partial.id, Has(partial.flags, END_STREAM), buf, partial.error))
           \/ /\ error = "" /\ ~Has(head.flag, END_HEADERS)
              /\ partial' = [partial EXCEPT !.buf = buf, !.count = count]
              /\ UNCHANGED <<expect, dec, pool, state>>
    /\ UNCHANGED ack

Next ==
    \/ \E f \in Messages : SendFrame(f)
    \/ \E h \in HeaderLists : SendHeaders(h.id, h.eof, h.headers)
    \/ SendAck
    \/ \E h \in HeaderLists, l \in Layouts : SendLayout(h.id, h.eof, h.headers, l)
    \/ SendExtension
    \/ \E b \in Broken : SendBroken(b)
    \/ \E n \in Chunks : Receive(n)
    \/ DecodeLength
    \/ MaxFrameSize
    \/ DecodeMisplaced
    \/ DecodeFrame
    \/ DecodeUnknown
    \/ DecodeHeaders
    \/ DecodeContinuation

Spec == Init /\ [][Next]_vars

-----------------------------------------------------------------------------
(* Properties.                                                             *)

(* Whatever the pieces the bytes arrive in and wherever a header block is   *)
(* cut, decode() gives what was sent, in order: the same frames, an error   *)
(* of the stream for headers that are malformed or over a limit, and an     *)
(* error of the connection with the reason RFC 9113 names, and no other.  A *)
(* peer that uses the new frame size after its acknowledgment is understood. *)
(* When all bytes are decoded the dynamic tables are equal, also after a    *)
(* block that was refused: the error of one stream does not disturb the     *)
(* headers of another (load_hpack, HeaderBlock::load).                      *)
FramesAsSent ==
    /\ state # "mismatch"
    /\ state = "ok" /\ net = <<>> /\ src = <<>> /\ partial = None => enc = dec

(* A header block that is not complete takes no more memory than one frame  *)
(* or the announced list size, and no more CONTINUATION frames than the     *)
(* limit (Codec::decode).                                                   *)
PartialBound ==
    partial # None =>
        /\ Len(partial.buf) <= Max({decoder.max_frame_len, config.list})
        /\ config.continuations > 0 => partial.count <= config.continuations

(* A decoder that waits for more bytes has given everything that was sent:  *)
(* with all bytes received and none left to decode nothing is expected.     *)
NothingStuck ==
    state = "ok" /\ net = <<>> /\ ~Complete /\ ~(LengthReady /\ TooLong) =>
        expect = <<>> /\ src = <<>> /\ partial = None /\ decoder.pending = None

(* The checks of the frames of a fixed layout, against RFC 9113: a frame on *)
(* a stream it does not belong to is a protocol error, one of a wrong size  *)
(* a frame size error, of PRIORITY an error of the stream; DATA keeps all   *)
(* bytes but its padding, and all its bytes count against the windows.  It  *)
(* does not depend on the state and is evaluated in the initial states.     *)
(* And every frame is loaded as it was before encode().                     *)
LoadedBySpec == expect = <<>> /\ max_size = DEFAULT_MAX_FRAME_SIZE /\ enc = <<>> /\ dec = <<>> =>
  /\ \A f \in Samples :
        LET bytes == Encode(f)
        IN  Load(ParseHead(bytes), SubSeq(bytes, HEADER_LEN + 1, Len(bytes))) = f
  /\ \A kind \in DOMAIN KindByte \ {"Headers", "Continuation"}, id \in {0, 1},
       flag \in {0, 1, 8, 9, 255}, n \in 0..13, b \in {0, 2, 11, 12, 255} :
      LET got == Load([kind |-> kind, flag |-> flag, id |-> id], [i \in 1..n |-> b])
          reason == IF got.kind \in {"Error", "Invalid"} THEN ReasonOf(got.error) ELSE ""
          padding == IF Has(flag, PADDED) THEN b + 1 ELSE 0
          wrongStream == \/ kind \in {"Settings", "Ping", "GoAway"} /\ id # 0
                         \/ kind \in {"Data", "Priority"} /\ id = 0
          wrongSize == CASE kind = "Settings" -> IF Has(flag, ACK) THEN n # 0 ELSE n % 6 # 0
                         [] kind = "Ping" -> n # 8
                         [] kind \in {"WindowUpdate", "Reset"} -> n # 4
                         [] kind = "GoAway" -> n < 8
                         [] kind = "Priority" -> n # 5
                         [] kind = "Data" -> FALSE
      IN  /\ wrongStream => got.kind = "Error" /\ reason = "PROTOCOL_ERROR"
          /\ ~wrongStream => (wrongSize <=> reason = "FRAME_SIZE_ERROR")
          /\ kind # "Priority" => got.kind # "Invalid"
          /\ kind = "Data" /\ ~wrongStream =>
                IF n < padding \/ (Has(flag, PADDED) /\ n = 0) THEN reason = "PROTOCOL_ERROR"
                ELSE got.flow = n /\ Len(got.payload) = n - padding
=============================================================================
