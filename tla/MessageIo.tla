----------------------------- MODULE MessageIo ------------------------------
(***************************************************************************)
(* One direction of a connection at the level of frames: the write queue   *)
(* of one MessageIo (src/mqueue.rs), the frames the cipher carries and     *)
(* what poll_inbound of the MessageIo at the other end makes of them.      *)
(* What is enqueued when decides which messages share a frame.             *)
(***************************************************************************)
EXTENDS Framing

CONSTANT Pools          \* what may be enqueued in one behaviour (messages), and
                        \* how much of it (max)

VARIABLES
    enqueued,           \* everything enqueued so far, in order
    write_queue,        \* what of it is not yet written
    stream,             \* frames written and not yet read: the bytes, the size
                        \* their buffer was given and the batch they encode
    received,           \* what poll_inbound has returned, in order
    failed              \* poll_inbound has returned an error

vars == <<enqueued, write_queue, stream, received, failed>>

Init ==
    /\ enqueued = <<>> /\ write_queue = <<>> /\ stream = <<>> /\ received = <<>>
    /\ failed = FALSE

\* MessageIo::enqueue
enqueue(m) ==
    /\ enqueued' = Append(enqueued, m)
    /\ write_queue' = Append(write_queue, m)
    /\ UNCHANGED <<stream, received, failed>>

\* Mutant of BatchLen: everything in one frame
BatchLenAll(q) == Len(q)

\* The messages the inner loop of poll_outbound takes: a control message
\* alone, others up to the next control message
BatchLen(q) ==
    IF IsControl(q[1].message)
    THEN 1
    ELSE Min({i - 1 : i \in {j \in 2..Len(q) : IsControl(q[j].message)}} \cup {Len(q)})

\* MessageIo::poll_outbound, one iteration of the outer loop
poll_outbound ==
    /\ write_queue # <<>>
    /\ LET n     == BatchLen(write_queue)
           batch == SubSeq(write_queue, 1, n)
       IN  /\ stream' = Append(stream, [bytes |-> vec_encode(batch),
                                        size |-> vec_encoded_size(batch),
                                        batch |-> batch])
           /\ write_queue' = Drop(write_queue, n)
    /\ UNCHANGED <<enqueued, received, failed>>

\* MessageIo::poll_inbound of a frame
poll_inbound ==
    /\ stream # <<>>
    /\ LET d == vec_decode(Head(stream).bytes)
       IN  /\ received' = IF d.ok THEN received \o d.value ELSE received
           /\ failed' = (failed \/ ~d.ok)
    /\ stream' = Tail(stream)
    /\ UNCHANGED <<enqueued, write_queue>>

Next ==
    \/ \E pool \in Pools :
          /\ Len(enqueued) < pool.max
          /\ ToSet(enqueued) \subseteq pool.messages
          /\ \E m \in pool.messages : enqueue(m)
    \/ poll_outbound
    \/ poll_inbound

Spec == Init /\ [][Next]_vars

-----------------------------------------------------------------------------
\* The types of the state: what is written is bytes.
TypeOK ==
    /\ \A i \in 1..Len(stream) : \A j \in 1..Len(stream[i].bytes) :
          stream[i].bytes[j] \in 0..255
    /\ failed \in BOOLEAN

(***************************************************************************)
(* encoded_size and encode of every message and every frame agree:         *)
(* to_encoded_bytes neither runs out of buffer nor leaves zeros behind.    *)
(***************************************************************************)
SizeExact == \A i \in 1..Len(stream) : Len(stream[i].bytes) = stream[i].size

\* The messages of no two channels follow each other without an Open or Close
\* between them.
OneChannelAtATime ==
    \A i \in 2..Len(enqueued) :
        IsControl(enqueued[i].message) \/ IsControl(enqueued[i - 1].message)
            \/ enqueued[i].channel = enqueued[i - 1].channel

(***************************************************************************)
(* What is read is what was enqueued, in order, however it was cut into    *)
(* frames, as long as no frame mixes channels: where a message of a batch  *)
(* ends is found without the length announced for it.                      *)
(***************************************************************************)
ReadsWhatWasWritten ==
    OneChannelAtATime => ~failed /\ IsPrefix(received, enqueued)

(***************************************************************************)
(* The same for every use of the queue.  "After that, if there is an extra *)
(* 0x00, that means the channel changed" (message.rs:55).                  *)
(***************************************************************************)
ReadsWhateverWasWritten == ~failed /\ IsPrefix(received, enqueued)

\* The part of a batch before its first change of channel
SameChannelLen(msgs) ==
    Min({i - 1 : i \in {j \in 2..Len(msgs) : ChannelChanges(msgs, j)}} \cup {Len(msgs)})

(***************************************************************************)
(* What becomes of any frame, mixed or not: an error, or its messages up   *)
(* to the first change of channel and then messages of channel 0, which no *)
(* endpoint ever opens.  Nothing reaches a channel it was not sent to.     *)
(* Protocol!Received rests on this.                                        *)
(***************************************************************************)
FrameOutcome ==
    \A i \in 1..Len(stream) :
        LET d     == vec_decode(stream[i].bytes)
            batch == stream[i].batch
        IN  d.ok => SelectSeq(d.value, LAMBDA m : m.channel # 0)
                        = SubSeq(batch, 1, SameChannelLen(batch))
=============================================================================
