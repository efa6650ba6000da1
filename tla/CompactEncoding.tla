--------------------------- MODULE CompactEncoding --------------------------
(***************************************************************************)
(* The crates compact_encoding and hypercore_schema, as far as src/ uses   *)
(* them.  A buffer is a sequence of bytes.  A decoder returns the value    *)
(* and the rest of the buffer, or fails.                                   *)
(***************************************************************************)
EXTENDS Integers, SequencesExt

Decoded(v, rest) == [ok |-> TRUE, value |-> v, rest |-> rest]
Failed == [ok |-> FALSE]

\* The ? operator: go on with the value and the rest, or fail.
Then(d, Continue(_, _)) == IF d.ok THEN Continue(d.value, d.rest) ELSE Failed

Drop(buf, n) == SubSeq(buf, n + 1, Len(buf))

\* The least significant byte first, and back
LittleEndian(n, width) == [i \in 1..width |-> (n \div 256^(i - 1)) % 256]
FromLittleEndian(b) == FoldRight(LAMBDA byte, n : 256 * n + byte, b, 0)

\* Mutant of u64_encode: without the wider forms
u64_encodeNarrow(n) == <<n>>

\* u64 below 2^31: one byte up to 252, else a marker and 2 or 4 bytes
u64_encode(n) ==
    IF n < 253 THEN <<n>>
    ELSE IF n < 65536 THEN <<253>> \o LittleEndian(n, 2)
    ELSE <<254>> \o LittleEndian(n, 4)

u64_size(n) == IF n < 253 THEN 1 ELSE IF n < 65536 THEN 3 ELSE 5

take_array(buf, n) ==
    IF Len(buf) < n THEN Failed ELSE Decoded(SubSeq(buf, 1, n), Drop(buf, n))

u64_decode(buf) ==
    IF buf = <<>> THEN Failed
    ELSE IF buf[1] < 253 THEN Decoded(buf[1], Tail(buf))
    ELSE Then(take_array(Tail(buf), 2^(buf[1] - 252)),
              LAMBDA bytes, rest : Decoded(FromLittleEndian(bytes), rest))

-----------------------------------------------------------------------------
(***************************************************************************)
(* A struct is the tuple of its fields in wire order; a field has a kind:  *)
(* an integer, a string of bytes with its length, a fixed number of bytes, *)
(* a vector of 4-byte words or a vector of tree nodes.                     *)
(***************************************************************************)
HashLen == 32

PlainEncode(kind, v) ==
    CASE kind = "u64"   -> u64_encode(v)
      [] kind = "bytes" -> u64_encode(Len(v)) \o v
      [] kind = "hash"  -> v

PlainDecode(kind, buf) ==
    CASE kind = "u64"   -> u64_decode(buf)
      [] kind = "hash"  -> take_array(buf, HashLen)
      [] kind = "bytes" ->
            Then(u64_decode(buf), LAMBDA len, rest : take_array(rest, len))

\* map_encode! and map_decode! with an encoder or decoder for each kind
EncodeEach(Encode(_, _), kinds, vals) ==
    FlattenSeq([i \in 1..Len(kinds) |-> Encode(kinds[i], vals[i])])

DecodeEach(Decode(_, _), kinds, buf) ==
    LET upto[i \in 0..Len(kinds)] ==
            IF i = 0 THEN Decoded(<<>>, buf)
            ELSE Then(upto[i - 1], LAMBDA vals, rest :
                     Then(Decode(kinds[i], rest), LAMBDA v, more :
                         Decoded(Append(vals, v), more)))
    IN  upto[Len(kinds)]

\* The fields of hypercore_schema::Node, and a vector of n of what kinds says
Node == <<"u64", "u64", "hash">>
Times(n, kinds) ==
    [i \in 1..(n * Len(kinds)) |-> kinds[((i - 1) % Len(kinds)) + 1]]
Group(vals, size) ==
    [i \in 1..(Len(vals) \div size) |-> SubSeq(vals, size * (i - 1) + 1, size * i)]

FieldEncode(kind, v) ==
    CASE kind = "nodes" ->
            u64_encode(Len(v))
                \o FlattenSeq([i \in 1..Len(v) |-> EncodeEach(PlainEncode, Node, v[i])])
      [] kind = "u32s" ->
            u64_encode(Len(v)) \o FlattenSeq([i \in 1..Len(v) |-> LittleEndian(v[i], 4)])
      [] OTHER -> PlainEncode(kind, v)

VectorDecode(kind, n, buf) ==
    IF kind = "nodes"
    THEN Then(DecodeEach(PlainDecode, Times(n, Node), buf),
              LAMBDA vals, rest : Decoded(Group(vals, Len(Node)), rest))
    ELSE Then(take_array(buf, 4 * n), LAMBDA bytes, rest :
             Decoded([i \in 1..n |-> FromLittleEndian(Group(bytes, 4)[i])], rest))

FieldDecode(kind, buf) ==
    IF kind \in {"nodes", "u32s"}
    THEN Then(u64_decode(buf), LAMBDA n, rest : VectorDecode(kind, n, rest))
    ELSE PlainDecode(kind, buf)

FieldSize(kind, v) ==
    CASE kind = "u64"   -> u64_size(v)
      [] kind = "bytes" -> u64_size(Len(v)) + Len(v)
      [] kind = "hash"  -> HashLen
      [] kind = "u32s"  -> u64_size(Len(v)) + 4 * Len(v)
      [] kind = "nodes" ->
            u64_size(Len(v))
                + FoldLeft(LAMBDA n, x : n + u64_size(x[1]) + u64_size(x[2]) + HashLen,
                           0, v)

EncodeFields(kinds, vals) == EncodeEach(FieldEncode, kinds, vals)
DecodeFields(kinds, buf) == DecodeEach(FieldDecode, kinds, buf)
SizeFields(kinds, vals) ==
    FoldLeft(LAMBDA n, i : n + FieldSize(kinds[i], vals[i]), 0,
             [i \in 1..Len(kinds) |-> i])

\* The structs of hypercore_schema a message may carry
Struct ==
    [RequestBlock   |-> <<"u64", "u64">>,
     RequestSeek    |-> <<"u64">>,
     RequestUpgrade |-> <<"u64", "u64">>,
     DataBlock      |-> <<"u64", "bytes", "nodes">>,
     DataHash       |-> <<"u64", "nodes">>,
     DataSeek       |-> <<"u64", "nodes">>,
     DataUpgrade    |-> <<"u64", "u64", "nodes", "nodes", "bytes">>]
=============================================================================
