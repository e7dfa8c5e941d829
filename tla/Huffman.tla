------------------------------ MODULE Huffman ------------------------------
(***************************************************************************)
(* The Huffman code of header strings (hpack/huffman/mod.rs).  decode()    *)
(* reads one string, byte by byte, that comes either from encode() or from *)
(* a peer that may write any bytes.  The decoder reads a byte as soon as   *)
(* it is written: what it makes of it does not depend on when.  No bound   *)
(* is set on the length of the string.                                     *)
(*                                                                         *)
(* `part` and `read` walk the same bytes bit by bit along the codes of     *)
(* ENCODE_TABLE, without DECODE_TABLE.                                     *)
(***************************************************************************)
EXTENDS HuffmanTable, SequencesExt

CONSTANT Symbols    \* bytes of the strings given to encode()

ASSUME SymbolsAssumption == Symbols \subseteq 0..255

VARIABLES
    writer,     \* who writes the string
    bits,       \* encode(): the 40 - bits_left bits of the buffer in use
    wire,       \* bytes written and not read yet
    ended,      \* the writer is done
    state, maybe_eos,   \* Decoder
    out,        \* bytes decode() got from the last byte read, until they are taken
    outcome,    \* outcome of decode(), "" while it runs
    owed,       \* bytes given to encode(), from the ones in `out` on
    part,       \* bits read since the last whole code: their number and value
    read        \* symbols the last byte read completes, as long as `out`

encoder == <<bits, owed>>
reference == <<part, read>>
huffmanVars == <<writer, wire, ended, state, maybe_eos, out, outcome, encoder, reference>>

Root == <<0, 0>>

HuffmanInit ==
    /\ writer \in {"encode", "peer"}
    /\ bits = <<>> /\ owed = <<>>
    /\ wire = <<>> /\ ended = FALSE
    /\ state = 0 /\ maybe_eos = FALSE
    /\ out = <<>> /\ outcome = ""
    /\ part = Root /\ read = <<>>

Bits(n, v) == [i \in 1..n |-> (v \div 2^(n - i)) % 2]

ByteOf(bs) == FoldLeft(LAMBDA acc, b : 2 * acc + b, 0, bs)

-----------------------------------------------------------------------------
(* encode()                                                                *)

Taken == out = <<>> /\ read = <<>>

MayWrite(w) == writer = w /\ ~ended /\ wire = <<>> /\ Taken /\ outcome = ""

(* One turn of the loop: the code goes behind the bits that are left over,  *)
(* and every whole byte is written.                                         *)
HuffmanEncode(b) ==
    LET entry == ENCODE_TABLE[b + 1]
        buffer == bits \o Bits(entry[1], entry[2])
        bytes == Len(buffer) \div 8
    IN  /\ MayWrite("encode")
        /\ wire' = [i \in 1..bytes |-> ByteOf(SubSeq(buffer, 8 * i - 7, 8 * i))]
        /\ bits' = SubSeq(buffer, 8 * bytes + 1, Len(buffer))
        /\ owed' = Append(owed, b)
        /\ UNCHANGED <<writer, ended, state, maybe_eos, out, outcome, reference>>

EncodeEndsWith(pad) ==
    /\ MayWrite("encode")
    /\ ended' = TRUE
    /\ wire' = IF bits = <<>> THEN <<>>
               ELSE <<ByteOf(bits \o [i \in 1..(8 - Len(bits)) |-> pad])>>
    /\ UNCHANGED <<writer, encoder, state, maybe_eos, out, outcome, reference>>

(* Variant of EncodeEnds that leaves the unused bits zero. *)
EncodeEndsZeros == EncodeEndsWith(0)

(* The end of the string: the bits left over are filled with ones, the      *)
(* first bits of EOS.                                                       *)
EncodeEnds == EncodeEndsWith(1)

(* External: a peer writes any byte, or ends its string. *)
PeerWrites(byte) ==
    /\ MayWrite("peer")
    /\ wire' = <<byte>>
    /\ UNCHANGED <<writer, ended, state, maybe_eos, out, outcome, encoder, reference>>

PeerEnds ==
    /\ MayWrite("peer")
    /\ ended' = TRUE
    /\ UNCHANGED <<writer, wire, state, maybe_eos, out, outcome, encoder, reference>>

-----------------------------------------------------------------------------
(* decode()                                                                *)

Has(flags, flag) == (flags \div flag) % 2 = 1

(* Decoder::decode4() on a decoder with its output and its error. *)
Decode4(dec, input) ==
    LET row == DECODE_TABLE(dec.state, input)
    IN  IF dec.error \/ Has(row[3], ERROR) THEN [dec EXCEPT !.error = TRUE]
        ELSE [state |-> row[1],
              maybe_eos |-> Has(row[3], MAYBE_EOS),
              out |-> dec.out \o (IF Has(row[3], DECODED) THEN <<row[2]>> ELSE <<>>),
              error |-> FALSE]

(* The symbol of every code. *)
SymbolOf == [c \in ToSet(ENCODE_TABLE) |-> (CHOOSE i \in 1..(EOS + 1) : ENCODE_TABLE[i] = c) - 1]

(* Reference: one more bit.  Nothing follows EOS. *)
Follow(walk, bit) ==
    LET node == <<walk.part[1] + 1, 2 * walk.part[2] + bit>>
    IN  IF EOS \in ToSet(walk.read) THEN walk
        ELSE IF node \in DOMAIN SymbolOf
             THEN [part |-> Root, read |-> Append(walk.read, SymbolOf[node])]
        ELSE [walk EXCEPT !.part = node]

(* One turn of the loop of decode(): both halves of a byte. *)
HuffmanDecode ==
    /\ wire # <<>> /\ Taken /\ outcome = ""
    /\ LET start == [state |-> state, maybe_eos |-> maybe_eos, out |-> <<>>, error |-> FALSE]
           dec == Decode4(Decode4(start, Head(wire) \div 16), Head(wire) % 16)
           walk == FoldLeft(Follow, [part |-> part, read |-> <<>>], Bits(8, Head(wire)))
       IN  /\ state' = dec.state /\ maybe_eos' = dec.maybe_eos /\ out' = dec.out
           /\ outcome' = IF dec.error THEN "InvalidHuffmanCode" ELSE ""
           /\ part' = walk.part /\ read' = walk.read
    /\ wire' = Tail(wire)
    /\ UNCHANGED <<writer, encoder, ended>>

(* The bytes of the last turn are in the buffer. *)
Take ==
    /\ ~Taken /\ outcome = ""
    /\ owed' = SubSeq(owed, Len(out) + 1, Len(owed))
    /\ out' = <<>> /\ read' = <<>>
    /\ UNCHANGED <<writer, bits, wire, ended, state, maybe_eos, outcome, part>>

IsFinal == state = 0 \/ maybe_eos

(* The bytes are read: is_final() decides. *)
DecodeEnds ==
    /\ ended /\ wire = <<>> /\ Taken /\ outcome = ""
    /\ outcome' = IF IsFinal THEN "ok" ELSE "InvalidHuffmanCode"
    /\ UNCHANGED <<writer, wire, ended, state, maybe_eos, out, encoder, reference>>

HuffmanNext ==
    \/ \E b \in Symbols : HuffmanEncode(b)
    \/ EncodeEnds
    \/ \E byte \in 0..255 : PeerWrites(byte)
    \/ PeerEnds
    \/ HuffmanDecode
    \/ Take
    \/ DecodeEnds

HuffmanSpec == HuffmanInit /\ [][HuffmanNext]_huffmanVars

-----------------------------------------------------------------------------
(* Less than a byte, all ones. *)
Padding == part[1] < 8 /\ part[2] = 2^part[1] - 1

(* decode() is the inverse of the code, whatever the bytes: each byte read  *)
(* gives the symbols whose codes it completes, EOS is an error when its     *)
(* last bit is read and nothing else is before the end, and a string is     *)
(* accepted exactly if it ends with a whole code and less than a byte of    *)
(* padding, all ones.  A wrong row or flag of DECODE_TABLE breaks it.       *)
DecodesTheCode ==
    /\ EOS \notin ToSet(read) /\ outcome # "InvalidHuffmanCode" => out = read
    /\ EOS \in ToSet(read) => outcome = "InvalidHuffmanCode"
    /\ outcome = "InvalidHuffmanCode" => EOS \in ToSet(read) \/ (ended /\ ~Padding)
    /\ outcome = "ok" => Padding

(* What encode() writes, decode() accepts, and it gives back the string:    *)
(* the bits carried from one byte to the next in encode()'s buffer and the  *)
(* padding at the end neither lose nor add a symbol.                        *)
RoundTrip ==
    writer = "encode" =>
        /\ outcome # "InvalidHuffmanCode"
        /\ IsPrefix(out, owed)
        /\ outcome = "ok" => out = owed
=============================================================================
