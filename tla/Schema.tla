------------------------------- MODULE Schema -------------------------------
(***************************************************************************)
(* The message bodies of src/schema.rs: for each type what encode writes,  *)
(* what encoded_size announces and what decode makes of a buffer.  A       *)
(* message is a record with its type's name and its fields; the structs of *)
(* hypercore_schema it carries are tuples of their fields, or None.        *)
(***************************************************************************)
EXTENDS CompactEncoding

CONSTANT None       \* Option::None

U64s(n) == [i \in 1..n |-> "u64"]

\* A bit of the flags byte, and its test
Flag(b, bit) == IF b THEN bit ELSE 0
HasFlag(flags, bit) == (flags \div bit) % 2 = 1

\* opt_encoded_bytes! and opt_encoded_size!
MaybeEncode(kinds, v) == IF v = None THEN <<>> ELSE EncodeFields(kinds, v)
MaybeSize(kinds, v) == IF v = None THEN 0 ELSE SizeFields(kinds, v)

\* maybe_decode! of a list of parts, each with the condition it depends on
Part(present, kinds) == [present |-> present, kinds |-> kinds]
PartDecode(part, buf) ==
    IF part.present THEN DecodeFields(part.kinds, buf) ELSE Decoded(None, buf)
MaybeDecode(parts, buf) == DecodeEach(PartDecode, parts, buf)

\* The message made of what was decoded
Made(d, Make(_)) == Then(d, LAMBDA v, rest : Decoded(Make(v), rest))

-----------------------------------------------------------------------------
(***************************************************************************)
(* Open and Close, which travel in frames of their own.                    *)
(***************************************************************************)
OpenFields(m) == <<m.channel, m.protocol, m.discovery_key>>
OpenKinds == <<"u64", "bytes", "bytes">>

OpenEncode(m) ==
    EncodeFields(OpenKinds, OpenFields(m))
        \o IF m.capability = None THEN <<>> ELSE <<0>> \o m.capability

OpenSize(m) ==
    SizeFields(OpenKinds, OpenFields(m))
        + IF m.capability = None THEN 0 ELSE 1 + HashLen

OpenMessage(v, capability) ==
    [type |-> "Open", channel |-> v[1], protocol |-> v[2], discovery_key |-> v[3],
     capability |-> capability]

\* There is a capability if there is anything left.
OpenDecode(buf) ==
    Then(DecodeFields(OpenKinds, buf), LAMBDA v, rest :
        IF rest = <<>>
        THEN Decoded(OpenMessage(v, None), rest)
        ELSE Made(take_array(rest, 1 + HashLen), LAMBDA c : OpenMessage(v, Tail(c))))

CloseEncode(m) == u64_encode(m.channel)
CloseSize(m) == u64_size(m.channel)
CloseDecode(buf) ==
    Made(u64_decode(buf), LAMBDA v : [type |-> "Close", channel |-> v])

-----------------------------------------------------------------------------
(***************************************************************************)
(* Types whose fields are always there: what the fields are, and the       *)
(* message they make.                                                      *)
(***************************************************************************)
PlainTypes == {"Cancel", "NoData", "Want", "Unwant", "Bitfield", "Extension"}

PlainKinds(type) ==
    CASE type \in {"Cancel", "NoData"} -> <<"u64">>
      [] type \in {"Want", "Unwant"}   -> <<"u64", "u64">>
      [] type = "Bitfield"             -> <<"u64", "u32s">>
      [] type = "Extension"            -> <<"bytes", "bytes">>

PlainFields(m) ==
    CASE m.type \in {"Cancel", "NoData"} -> <<m.request>>
      [] m.type \in {"Want", "Unwant"}   -> <<m.start, m.length>>
      [] m.type = "Bitfield"             -> <<m.start, m.bitfield>>
      [] m.type = "Extension"            -> <<m.name, m.message>>

PlainMessage(type, v) ==
    CASE type \in {"Cancel", "NoData"} -> [type |-> type, request |-> v[1]]
      [] type \in {"Want", "Unwant"}   -> [type |-> type, start |-> v[1], length |-> v[2]]
      [] type = "Bitfield" -> [type |-> type, start |-> v[1], bitfield |-> v[2]]
      [] type = "Extension" -> [type |-> type, name |-> v[1], message |-> v[2]]

-----------------------------------------------------------------------------
SynchronizeFields(m) == <<m.fork, m.length, m.remote_length>>

SynchronizeEncode(m) ==
    <<Flag(m.can_upgrade, 1) + Flag(m.uploading, 2) + Flag(m.downloading, 4)>>
        \o EncodeFields(U64s(3), SynchronizeFields(m))

SynchronizeSize(m) == 1 + SizeFields(U64s(3), SynchronizeFields(m))

SynchronizeDecode(flags, buf) ==
    Made(DecodeFields(U64s(3), buf),
         LAMBDA v : [type |-> "Synchronize", fork |-> v[1], length |-> v[2],
                     remote_length |-> v[3], can_upgrade |-> HasFlag(flags, 1),
                     uploading |-> HasFlag(flags, 2),
                     downloading |-> HasFlag(flags, 4)])

RequestEncode(m) ==
    <<Flag(m.block # None, 1) + Flag(m.hash # None, 2) + Flag(m.seek # None, 4)
        + Flag(m.upgrade # None, 8) + Flag(m.manifest, 16) + Flag(m.priority # 0, 32)>>
        \o EncodeFields(U64s(2), <<m.id, m.fork>>)
        \o MaybeEncode(Struct.RequestBlock, m.block)
        \o MaybeEncode(Struct.RequestBlock, m.hash)
        \o MaybeEncode(Struct.RequestSeek, m.seek)
        \o MaybeEncode(Struct.RequestUpgrade, m.upgrade)
        \o IF m.priority # 0 THEN u64_encode(m.priority) ELSE <<>>

RequestSize(m) ==
    1 + SizeFields(U64s(2), <<m.id, m.fork>>)
      + MaybeSize(Struct.RequestBlock, m.block) + MaybeSize(Struct.RequestBlock, m.hash)
      + MaybeSize(Struct.RequestSeek, m.seek) + MaybeSize(Struct.RequestUpgrade, m.upgrade)
      + IF m.priority # 0 THEN u64_size(m.priority) ELSE 0

RequestDecode(flags, buf) ==
    Made(MaybeDecode(<<Part(TRUE, U64s(2)),
                       Part(HasFlag(flags, 1), Struct.RequestBlock),
                       Part(HasFlag(flags, 2), Struct.RequestBlock),
                       Part(HasFlag(flags, 4), Struct.RequestSeek),
                       Part(HasFlag(flags, 8), Struct.RequestUpgrade),
                       Part(HasFlag(flags, 32), U64s(1))>>, buf),
         LAMBDA v : [type |-> "Request", id |-> v[1][1], fork |-> v[1][2],
                     block |-> v[2], hash |-> v[3], seek |-> v[4], upgrade |-> v[5],
                     manifest |-> HasFlag(flags, 16),
                     priority |-> IF v[6] = None THEN 0 ELSE v[6][1]])

DataEncode(m) ==
    <<Flag(m.block # None, 1) + Flag(m.hash # None, 2) + Flag(m.seek # None, 4)
        + Flag(m.upgrade # None, 8)>>
        \o EncodeFields(U64s(2), <<m.request, m.fork>>)
        \o MaybeEncode(Struct.DataBlock, m.block)
        \o MaybeEncode(Struct.DataHash, m.hash)
        \o MaybeEncode(Struct.DataSeek, m.seek)
        \o MaybeEncode(Struct.DataUpgrade, m.upgrade)

DataSize(m) ==
    1 + SizeFields(U64s(2), <<m.request, m.fork>>)
      + MaybeSize(Struct.DataBlock, m.block) + MaybeSize(Struct.DataHash, m.hash)
      + MaybeSize(Struct.DataSeek, m.seek) + MaybeSize(Struct.DataUpgrade, m.upgrade)

DataDecode(flags, buf) ==
    Made(MaybeDecode(<<Part(TRUE, U64s(2)),
                       Part(HasFlag(flags, 1), Struct.DataBlock),
                       Part(HasFlag(flags, 2), Struct.DataHash),
                       Part(HasFlag(flags, 4), Struct.DataSeek),
                       Part(HasFlag(flags, 8), Struct.DataUpgrade)>>, buf),
         LAMBDA v : [type |-> "Data", request |-> v[1][1], fork |-> v[1][2],
                     block |-> v[2], hash |-> v[3], seek |-> v[4], upgrade |-> v[5]])

\* A length of 1 is a flag and not written.
RangeEncode(m) ==
    <<Flag(m.drop, 1) + Flag(m.length = 1, 2)>> \o u64_encode(m.start)
        \o IF m.length = 1 THEN <<>> ELSE u64_encode(m.length)

RangeSize(m) ==
    1 + u64_size(m.start) + IF m.length = 1 THEN 0 ELSE u64_size(m.length)

RangeDecode(flags, buf) ==
    Made(MaybeDecode(<<Part(TRUE, U64s(1)), Part(~HasFlag(flags, 2), U64s(1))>>, buf),
         LAMBDA v : [type |-> "Range", drop |-> HasFlag(flags, 1), start |-> v[1][1],
                     length |-> IF v[2] = None THEN 1 ELSE v[2][1]])
=============================================================================
