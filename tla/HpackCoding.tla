---------------------------- MODULE HpackCoding ----------------------------
(***************************************************************************)
(* The pure parts of HPACK: prefixed integers (encode_int, decode_int) and *)
(* the first byte of a representation (Representation::load).  Bytes are   *)
(* numbers 0..255.  The Huffman code of strings is in Huffman.             *)
(***************************************************************************)
EXTENDS Integers, Sequences, SequencesExt, FiniteSets, FiniteSetsExt

-----------------------------------------------------------------------------
(* Prefixed integers.                                                      *)

(* Powers of 2 and of 128, as far as prefixes and varints need them. *)
Pow2 == <<2, 4, 8, 16, 32, 64, 128, 256>>
Shift == <<1, 128, 16384, 2097152, 268435456>>

(* The varint part of encode_int(): 7 bits a byte, lowest first.  Indices   *)
(* and table sizes, the integers written, never need a sixth byte.          *)
Varint(v) ==
    LET last == Min({k \in 1..4 : v < Shift[k + 1]} \cup {5})
    IN  [k \in 1..last |-> IF k < last THEN 128 + ((v \div Shift[k]) % 128)
                                      ELSE v \div Shift[k]]

(* encode_int(): `first` holds the bits above the prefix. *)
EncodeInt(value, prefix, first) ==
    LET low == Pow2[prefix] - 1
    IN  IF value < low THEN <<first + value>>
        ELSE <<first + low>> \o Varint(value - low)

MaxBytes == 5

(* decode_int(): the value and the number of bytes read, or an error. *)
DecodeInt(bytes, prefix) ==
    LET mask == Pow2[prefix] - 1
        start == bytes[1] % Pow2[prefix]
        ends == {k \in 2..MaxBytes : k <= Len(bytes) /\ bytes[k] < 128}
        Term(k) == IF k <= Min(ends) THEN (bytes[k] % 128) * Shift[k - 1] ELSE 0
    IN  IF bytes = <<>> THEN [error |-> "NeedMore"]
        ELSE IF start < mask THEN [error |-> "", value |-> start, read |-> 1]
        ELSE IF ends # {}
             THEN [error |-> "", value |-> mask + Term(2) + Term(3) + Term(4) + Term(5), read |-> Min(ends)]
        ELSE [error |-> IF Len(bytes) >= MaxBytes THEN "IntegerOverflow" ELSE "NeedMore"]

(* Representation::load() *)
Representation(byte) ==
    CASE byte >= 128 -> "Indexed"
      [] byte \in 64..127 -> "LiteralWithIndexing"
      [] byte \in 32..63 -> "SizeUpdate"
      [] byte \in 16..31 -> "LiteralNeverIndexed"
      [] byte \in 0..15 -> "LiteralWithoutIndexing"

=============================================================================
