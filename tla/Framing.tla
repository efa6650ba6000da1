------------------------------ MODULE Framing -------------------------------
(***************************************************************************)
(* The frames of src/message.rs: how a vector of channel messages becomes  *)
(* the bytes of one frame, and what comes out of them again.               *)
(***************************************************************************)
EXTENDS Schema

\* ChannelMessage::new.  An Open or Close names the channel itself.
ChannelMessage(channel, m) == [channel |-> channel, message |-> m]

IsControl(m) == m.type \in {"Open", "Close"}

\* Message::typ, the position in this list counted from 0
Types == <<"Synchronize", "Request", "Cancel", "Data", "NoData", "Want", "Unwant",
           "Bitfield", "Range", "Extension">>
typ(m) == (CHOOSE i \in 1..Len(Types) : Types[i] = m.type) - 1

\* The body of a message
BodyEncode(m) ==
    CASE m.type = "Open"        -> OpenEncode(m)
      [] m.type = "Close"       -> CloseEncode(m)
      [] m.type = "Synchronize" -> SynchronizeEncode(m)
      [] m.type = "Request"     -> RequestEncode(m)
      [] m.type = "Data"        -> DataEncode(m)
      [] m.type = "Range"       -> RangeEncode(m)
      [] OTHER -> EncodeFields(PlainKinds(m.type), PlainFields(m))

BodySize(m) ==
    CASE m.type = "Open"        -> OpenSize(m)
      [] m.type = "Close"       -> CloseSize(m)
      [] m.type = "Synchronize" -> SynchronizeSize(m)
      [] m.type = "Request"     -> RequestSize(m)
      [] m.type = "Data"        -> DataSize(m)
      [] m.type = "Range"       -> RangeSize(m)
      [] OTHER -> SizeFields(PlainKinds(m.type), PlainFields(m))

BodyDecode(type, buf) ==
    IF type \in PlainTypes
    THEN Made(DecodeFields(PlainKinds(type), buf), LAMBDA v : PlainMessage(type, v))
    ELSE Then(take_array(buf, 1), LAMBDA flags, rest :
             CASE type = "Synchronize" -> SynchronizeDecode(flags[1], rest)
               [] type = "Request"     -> RequestDecode(flags[1], rest)
               [] type = "Data"        -> DataDecode(flags[1], rest)
               [] type = "Range"       -> RangeDecode(flags[1], rest))

\* CompactEncoding for Message
MessageEncode(m) == IF IsControl(m) THEN BodyEncode(m) ELSE <<typ(m)>> \o BodyEncode(m)
MessageSize(m) == IF IsControl(m) THEN BodySize(m) ELSE 1 + BodySize(m)
MessageDecode(buf) ==
    Then(u64_decode(buf), LAMBDA t, rest :
        IF t < Len(Types) THEN BodyDecode(Types[t + 1], rest) ELSE Failed)

-----------------------------------------------------------------------------
\* Whether message i of a batch is on another channel than the one before
ChannelChanges(msgs, i) == i > 1 /\ msgs[i].channel # msgs[i - 1].channel

\* VecEncodable::vec_encode
vec_encode(msgs) ==
    IF Len(msgs) = 1
    THEN LET m == msgs[1].message
         IN  CASE m.type = "Open"  -> <<0, 1>> \o MessageEncode(m)
               [] m.type = "Close" -> <<0, 3>> \o MessageEncode(m)
               [] OTHER -> u64_encode(msgs[1].channel) \o MessageEncode(m)
    ELSE <<0, 0>> \o u64_encode(msgs[1].channel)
           \o FlattenSeq([i \in 1..Len(msgs) |->
                (IF ChannelChanges(msgs, i)
                 THEN <<0>> \o u64_encode(msgs[i].channel) ELSE <<>>)
                \o u64_encode(MessageSize(msgs[i].message))
                \o MessageEncode(msgs[i].message)])

\* ChannelMessage::encoded_size
ChannelMessageSize(msg) ==
    MessageSize(msg.message)
        + IF IsControl(msg.message) THEN 0 ELSE u64_size(msg.channel)

\* Mutant of vec_encoded_size: a change of channel is not counted
vec_encoded_sizeOneChannel(msgs) ==
    IF Len(msgs) = 1
    THEN ChannelMessageSize(msgs[1]) + IF IsControl(msgs[1].message) THEN 2 ELSE 0
    ELSE FoldLeft(LAMBDA n, m : n + MessageSize(m.message)
                                  + u64_size(MessageSize(m.message)),
                  2 + u64_size(msgs[1].channel), msgs)

\* vec_channel_messages_encoded_size
vec_encoded_size(msgs) ==
    IF Len(msgs) = 1
    THEN ChannelMessageSize(msgs[1]) + IF IsControl(msgs[1].message) THEN 2 ELSE 0
    ELSE FoldLeft(LAMBDA n, i :
                      n + (IF ChannelChanges(msgs, i)
                           THEN 1 + u64_size(msgs[i].channel) ELSE 0)
                        + MessageSize(msgs[i].message)
                        + u64_size(MessageSize(msgs[i].message)),
                  2 + u64_size(msgs[1].channel), [i \in 1..Len(msgs) |-> i])

-----------------------------------------------------------------------------
\* ChannelMessage::decode_with_channel
decode_with_channel(buf, channel) ==
    IF Len(buf) <= 1 THEN Failed
    ELSE Made(MessageDecode(buf), LAMBDA m : ChannelMessage(channel, m))

\* One message of a batch.  The announced length is compared with what is
\* there and then not used.
BatchedDecode(buf, channel) ==
    Then(u64_decode(buf), LAMBDA len, body :
        IF len > Len(body) THEN Failed ELSE decode_with_channel(body, channel))

\* Mutant of BatchDecode: a zero byte is skipped and the channel kept
RECURSIVE BatchDecodeKeep(_, _, _)
BatchDecodeKeep(buf, channel, msgs) ==
    IF buf = <<>> THEN Decoded(msgs, buf)
    ELSE Then(BatchedDecode(buf, channel), LAMBDA m, rest :
             BatchDecodeKeep(IF rest # <<>> /\ rest[1] = 0 THEN Tail(rest) ELSE rest,
                             channel, Append(msgs, m)))

\* The loop of decode_unframed_channel_messages over a batch.  A zero byte
\* after a message is taken for the channel that follows it.
RECURSIVE BatchDecode(_, _, _)
BatchDecode(buf, channel, msgs) ==
    IF buf = <<>> THEN Decoded(msgs, buf)
    ELSE Then(BatchedDecode(buf, channel), LAMBDA m, rest :
             IF rest # <<>> /\ rest[1] = 0
             THEN BatchDecode(Tail(rest), 0, Append(msgs, m))
             ELSE BatchDecode(rest, channel, Append(msgs, m)))

\* A frame of one message that names its channel itself
decode_open_message(buf) ==
    IF Len(buf) <= 5 THEN Failed
    ELSE Made(OpenDecode(buf), LAMBDA m : <<ChannelMessage(m.channel, m)>>)
decode_close_message(buf) ==
    Made(CloseDecode(buf), LAMBDA m : <<ChannelMessage(m.channel, m)>>)

\* A frame of one message behind its channel
decode_from_channel_and_message(buf) ==
    Then(u64_decode(buf), LAMBDA channel, rest :
        Made(MessageDecode(rest), LAMBDA m : <<ChannelMessage(channel, m)>>))

\* decode_unframed_channel_messages
decode_unframed_channel_messages(buf) ==
    LET rest    == Drop(buf, 2)
        special == Len(buf) >= 3 /\ buf[1] = 0
    IN  CASE special /\ buf[2] = 0 ->
                Then(u64_decode(rest), LAMBDA channel, batch :
                    BatchDecode(batch, channel, <<>>))
          [] special /\ buf[2] = 1 -> decode_open_message(rest)
          [] special /\ buf[2] = 3 -> decode_close_message(rest)
          [] special /\ buf[2] \notin {0, 1, 3} -> Failed
          [] ~special /\ Len(buf) >= 2 -> decode_from_channel_and_message(buf)
          [] OTHER -> Failed

\* VecEncodable::vec_decode, which reads units until the frame is used up
RECURSIVE vec_decode(_)
vec_decode(buf) ==
    IF buf = <<>> THEN Decoded(<<>>, buf)
    ELSE Then(decode_unframed_channel_messages(buf), LAMBDA msgs, rest :
             Made(vec_decode(rest), LAMBDA more : msgs \o more))
=============================================================================
