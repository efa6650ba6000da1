----------------------------- MODULE Connection -----------------------------
(***************************************************************************)
(* When one Protocol is polled (src/protocol.rs, src/mqueue.rs): the task  *)
(* that drives it polls until poll_next returns Pending and sleeps until a *)
(* waker that was registered on the way is called.  Module Protocol polls  *)
(* whenever there is something to do; this module shows that the code      *)
(* registers the wakers which that takes.                                  *)
(*                                                                         *)
(* What is handled is abstracted to how much of it there is: any message,  *)
(* command or batch may or may not lead to an event or a write.  Executor, *)
(* cipher and sink are external.                                           *)
(***************************************************************************)
EXTENDS Integers, Sequences

CONSTANTS
    ChannelCap,     \* CHANNEL_CAP
    SinkCap,        \* frames the sink buffers
    MaxFrames,      \* messages and errors that arrive
    MaxCommands,    \* commands that are sent
    MaxBatches      \* batches that Channels send

(***************************************************************************)
(* Kinds of sinks.  "direct" takes everything at once (test_utils::Io);    *)
(* "background" empties its buffer by itself when the network lets it;     *)
(* "on_flush" does so only when it is polled, as Sink allows.              *)
(***************************************************************************)
SinkKinds == {"direct", "background", "on_flush"}

ASSUME ConnectionAssumption ==
    /\ {ChannelCap, SinkCap} \subseteq Nat \ {0}
    /\ {MaxFrames, MaxCommands, MaxBatches} \subseteq Nat

VARIABLES
    initiator,      \* is_initiator
    kind,           \* kind of the sink
    pc,             \* where poll_next is; "pending" when it has returned
                    \* Pending, "over" when the driver has stopped polling
    wakers,         \* what the task's waker is registered with
    woken,          \* the waker was called since the last poll began
    secured,        \* handshake_hash() is Some
    handshake_emitted,
    frames,         \* frames that have arrived: "handshake", "message", "error"
    ended,          \* there will be no more
    commands,       \* length of the queues
    outbound,
    write_queue,
    queued_events,
    buffered,       \* frames the sink has not passed on
    congested,      \* the network takes nothing for now
    to_come         \* what is left of the bounds

inVars  == <<secured, frames, ended>>
outVars == <<write_queue, buffered, congested>>
vars == <<initiator, kind, pc, wakers, woken, inVars, handshake_emitted,
          commands, outbound, outVars, queued_events, to_come>>

Init ==
    /\ initiator \in BOOLEAN
    /\ kind \in SinkKinds
    /\ pc = "poll"
    /\ wakers = {} /\ woken = FALSE
    /\ secured = FALSE /\ handshake_emitted = FALSE
    /\ frames = <<>> /\ ended = FALSE
    /\ commands = 0 /\ outbound = 0
    /\ write_queue = 0 /\ buffered = 0 /\ congested = FALSE
    /\ queued_events = 0
    /\ to_come = [frames |-> MaxFrames, commands |-> MaxCommands,
                  batches |-> MaxBatches, handshake |-> 1]

\* pc moves from one of the places in `from' to `to'.
Goto(from, to) == pc \in from /\ pc' = to

\* A source has nothing and keeps the waker.
Register(source) == wakers' = wakers \cup {source}

\* Something happens at a source.
Wake(source) ==
    /\ wakers' = wakers \ {source}
    /\ woken' = (woken \/ source \in wakers)

-----------------------------------------------------------------------------
(***************************************************************************)
(* poll_next: entry and events.                                            *)
(***************************************************************************)
Gated == initiator /\ ~secured

\* An initiator writes and reads before anything else.
PollGate ==
    /\ Gated
    /\ Goto({"poll"}, "gate_write")
    /\ UNCHANGED <<initiator, kind, wakers, woken, inVars, handshake_emitted,
                   commands, outbound, outVars, queued_events, to_come>>

\* After the gate, or without it
PollOn == (pc = "poll" /\ ~Gated) \/ (pc = "gate_end" /\ secured)

\* The driver gets Event::Handshake and polls again.
PollHandshake ==
    /\ PollOn
    /\ secured /\ ~handshake_emitted
    /\ pc' = "poll"
    /\ handshake_emitted' = TRUE
    /\ UNCHANGED <<initiator, kind, wakers, woken, inVars, commands, outbound,
                   outVars, queued_events, to_come>>

\* Mutant of PollQueued: an event is popped whether there is one or not
PollQueuedUnchecked ==
    /\ PollOn
    /\ secured => handshake_emitted
    /\ pc' = "poll"
    /\ queued_events' = queued_events - 1
    /\ UNCHANGED <<initiator, kind, wakers, woken, inVars, handshake_emitted,
                   commands, outbound, outVars, to_come>>

\* The driver gets a queued event and polls again.
PollQueued ==
    /\ PollOn
    /\ secured => handshake_emitted
    /\ queued_events > 0
    /\ pc' = "poll"
    /\ queued_events' = queued_events - 1
    /\ UNCHANGED <<initiator, kind, wakers, woken, inVars, handshake_emitted,
                   commands, outbound, outVars, to_come>>

PollStart ==
    /\ PollOn
    /\ secured => handshake_emitted
    /\ queued_events = 0
    /\ pc' = "inbound"
    /\ UNCHANGED <<initiator, kind, wakers, woken, inVars, handshake_emitted,
                   commands, outbound, outVars, queued_events, to_come>>

\* Still no handshake hash
GatePending ==
    /\ ~secured
    /\ Goto({"gate_end"}, "pending")
    /\ UNCHANGED <<initiator, kind, wakers, woken, inVars, handshake_emitted,
                   commands, outbound, outVars, queued_events, to_come>>

-----------------------------------------------------------------------------
(***************************************************************************)
(* poll_inbound_read and MessageIo::poll_inbound.                          *)
(***************************************************************************)
Reading == pc \in {"gate_read", "inbound"}
AfterReading == IF pc = "gate_read" THEN "gate_end" ELSE "commands"

\* Mutant of ReadHandshake: poll_inbound returns instead of polling again
ReadHandshakeReturns ==
    /\ Reading /\ frames # <<>> /\ Head(frames) = "handshake"
    /\ frames' = Tail(frames)
    /\ secured' = TRUE
    /\ pc' = AfterReading
    /\ Wake("sink")
    /\ UNCHANGED <<initiator, kind, ended, handshake_emitted, commands, outbound,
                   outVars, queued_events, to_come>>

\* "Skip handshake payloads: loop so the next poll registers a waker".  The
\* sink, which took nothing before, wakes a task that waits for it.
ReadHandshake ==
    /\ Reading /\ frames # <<>> /\ Head(frames) = "handshake"
    /\ frames' = Tail(frames)
    /\ secured' = TRUE
    /\ Wake("sink")
    /\ UNCHANGED <<initiator, kind, pc, ended, handshake_emitted, commands,
                   outbound, outVars, queued_events, to_come>>

\* on_inbound_channel_messages
ReadMessage ==
    /\ Reading /\ frames # <<>> /\ Head(frames) = "message"
    /\ frames' = Tail(frames)
    /\ \E e \in 0..1 : queued_events' = queued_events + e
    /\ UNCHANGED <<initiator, kind, pc, wakers, woken, secured, ended,
                   handshake_emitted, commands, outbound, outVars, to_come>>

\* An error is returned, and onconnection returns it.
ReadError ==
    /\ Reading /\ frames # <<>> /\ Head(frames) = "error"
    /\ frames' = Tail(frames)
    /\ pc' = "over"
    /\ UNCHANGED <<initiator, kind, wakers, woken, secured, ended,
                   handshake_emitted, commands, outbound, outVars,
                   queued_events, to_come>>

InboundPending ==
    /\ Reading
    /\ frames = <<>> /\ ~ended
    /\ pc' = AfterReading
    /\ Register("stream")
    /\ UNCHANGED <<initiator, kind, woken, inVars, handshake_emitted, commands,
                   outbound, outVars, queued_events, to_come>>

\* Poll::Ready(None) is treated like Pending.
InboundEnded ==
    /\ Reading
    /\ frames = <<>> /\ ended
    /\ pc' = AfterReading
    /\ UNCHANGED <<initiator, kind, wakers, woken, inVars, handshake_emitted,
                   commands, outbound, outVars, queued_events, to_come>>

-----------------------------------------------------------------------------
(***************************************************************************)
(* poll_commands.                                                          *)
(***************************************************************************)
OnCommand ==
    /\ pc = "commands" /\ commands > 0
    /\ commands' = commands - 1
    /\ \E w \in 0..1, e \in 0..1 :
          write_queue' = write_queue + w /\ queued_events' = queued_events + e
    /\ UNCHANGED <<initiator, kind, pc, wakers, woken, inVars,
                   handshake_emitted, outbound, buffered, congested, to_come>>

\* The Open of a key that the remote opened with a wrong capability: an error
\* is returned, as from ReadError.
CommandError ==
    /\ pc = "commands" /\ commands > 0 /\ secured
    /\ commands' = commands - 1
    /\ pc' = "over"
    /\ UNCHANGED <<initiator, kind, wakers, woken, inVars, handshake_emitted,
                   outbound, outVars, queued_events, to_come>>

\* Mutant of CommandsPending: one command per poll
CommandsPendingAnyway ==
    /\ Goto({"commands"}, "write")
    /\ UNCHANGED <<initiator, kind, wakers, woken, inVars, handshake_emitted,
                   commands, outbound, outVars, queued_events, to_come>>

CommandsPending ==
    /\ commands = 0
    /\ Goto({"commands"}, "write")
    /\ Register("commands")
    /\ UNCHANGED <<initiator, kind, woken, inVars, handshake_emitted, commands,
                   outbound, outVars, queued_events, to_come>>

-----------------------------------------------------------------------------
(***************************************************************************)
(* poll_outbound_write and MessageIo::poll_outbound.  "write" is the loop  *)
(* of poll_outbound, "outbound" the poll of outbound_rx.                   *)
(***************************************************************************)
Writing == pc \in {"gate_write", "write"}
ToOutbound == pc' = IF pc = "write" THEN "outbound" ELSE "gate_outbound"

\* poll_ready of the external sink.  A full buffer is flushed if possible.
SinkReady ==
    secured /\ (buffered < SinkCap \/ (kind = "on_flush" /\ ~congested))

\* What is left in the buffer after poll_ready
Kept == IF buffered = SinkCap THEN 0 ELSE buffered

SinkPending ==
    /\ Writing /\ ~SinkReady
    /\ ToOutbound
    /\ Register("sink")
    /\ UNCHANGED <<initiator, kind, woken, inVars, handshake_emitted, commands,
                   outbound, outVars, queued_events, to_come>>

\* The queue is empty: poll_outbound does not flush again.
NothingToWrite ==
    /\ Writing /\ SinkReady /\ write_queue = 0
    /\ ToOutbound
    /\ buffered' = Kept
    /\ UNCHANGED <<initiator, kind, wakers, woken, inVars, handshake_emitted,
                   commands, outbound, write_queue, congested, queued_events,
                   to_come>>

\* start_send of a batch, and poll_flush gets rid of it.
WriteFlushed ==
    /\ Writing /\ SinkReady /\ ~congested
    /\ \E n \in 1..write_queue : write_queue' = write_queue - n
    /\ buffered' = 0
    /\ UNCHANGED <<initiator, kind, pc, wakers, woken, inVars, congested,
                   handshake_emitted, commands, outbound, queued_events, to_come>>

\* start_send of a batch, and poll_flush is Pending: poll_outbound returns.
WriteBuffered ==
    /\ Writing /\ SinkReady /\ kind # "direct"
    /\ \E n \in 1..write_queue : write_queue' = write_queue - n
    /\ buffered' = Kept + 1
    /\ congested' = TRUE
    /\ ToOutbound
    /\ Register("sink")
    /\ UNCHANGED <<initiator, kind, woken, inVars, handshake_emitted, commands,
                   outbound, queued_events, to_come>>

\* A batch of a Channel, and io.poll_outbound again
PopBatch ==
    /\ Goto({"outbound"}, "write")
    /\ outbound > 0
    /\ outbound' = outbound - 1
    /\ \E w \in 0..1, e \in 0..1 :
          write_queue' = write_queue + w /\ queued_events' = queued_events + e
    /\ UNCHANGED <<initiator, kind, wakers, woken, inVars, handshake_emitted,
                   commands, buffered, congested, to_come>>

\* outbound_rx is Pending: the write is over, and an event is returned, if any.
OutboundPending ==
    /\ pc \in {"gate_outbound", "outbound"} /\ outbound = 0
    /\ Register("outbound")
    /\ pc' = IF pc = "gate_outbound" THEN "gate_read"
             ELSE IF queued_events > 0 THEN "poll" ELSE "pending"
    /\ queued_events' = IF pc = "outbound" /\ queued_events > 0
                        THEN queued_events - 1 ELSE queued_events
    /\ UNCHANGED <<initiator, kind, woken, inVars, handshake_emitted, commands,
                   outbound, outVars, to_come>>

\* The executor polls a task that was woken.
Resume ==
    /\ woken
    /\ Goto({"pending"}, "poll")
    /\ woken' = FALSE
    /\ UNCHANGED <<initiator, kind, wakers, inVars, handshake_emitted, commands,
                   outbound, outVars, queued_events, to_come>>

-----------------------------------------------------------------------------
(***************************************************************************)
(* Everybody else.                                                         *)
(***************************************************************************)
Spend(what) ==
    /\ pc # "over"
    /\ to_come[what] > 0
    /\ to_come' = [to_come EXCEPT ![what] = @ - 1]

\* The remote's handshake arrives; an initiator's must have been sent first.
HandshakeArrives ==
    /\ ~ended
    /\ initiator => pc # "poll" \/ wakers # {}
    /\ Spend("handshake")
    /\ frames' = Append(frames, "handshake")
    /\ Wake("stream")
    /\ UNCHANGED <<initiator, kind, pc, secured, ended, handshake_emitted,
                   commands, outbound, outVars, queued_events>>

FrameArrives ==
    /\ ~ended /\ to_come.handshake = 0
    /\ Spend("frames")
    /\ \E f \in {"message", "error"} : frames' = Append(frames, f)
    /\ Wake("stream")
    /\ UNCHANGED <<initiator, kind, pc, secured, ended, handshake_emitted,
                   commands, outbound, outVars, queued_events>>

\* The remote has gone.
StreamEnds ==
    /\ ~ended /\ pc # "over"
    /\ ended' = TRUE
    /\ Wake("stream")
    /\ UNCHANGED <<initiator, kind, pc, secured, frames, handshake_emitted,
                   commands, outbound, outVars, queued_events, to_come>>

\* CommandTx::send completes.
SendCommand ==
    /\ commands < ChannelCap
    /\ Spend("commands")
    /\ commands' = commands + 1
    /\ Wake("commands")
    /\ UNCHANGED <<initiator, kind, pc, inVars, handshake_emitted, outbound,
                   outVars, queued_events>>

\* Channel::send completes.  There are Channels once there was a handshake.
SendBatch ==
    /\ handshake_emitted
    /\ outbound < ChannelCap
    /\ Spend("batches")
    /\ outbound' = outbound + 1
    /\ Wake("outbound")
    /\ UNCHANGED <<initiator, kind, pc, inVars, handshake_emitted, commands,
                   outVars, queued_events>>

\* The network takes frames again.
Uncongest ==
    /\ congested
    /\ congested' = FALSE
    /\ buffered' = IF kind = "background" THEN 0 ELSE buffered
    /\ Wake("sink")
    /\ UNCHANGED <<initiator, kind, pc, inVars, handshake_emitted, commands,
                   outbound, write_queue, queued_events, to_come>>

-----------------------------------------------------------------------------
\* A step of the task that drives the Protocol
Driver ==
    \/ PollGate \/ PollHandshake \/ PollQueued \/ PollStart \/ GatePending
    \/ ReadHandshake \/ ReadMessage \/ ReadError
    \/ InboundPending \/ InboundEnded
    \/ OnCommand \/ CommandError \/ CommandsPending
    \/ SinkPending \/ NothingToWrite \/ WriteFlushed \/ WriteBuffered
    \/ PopBatch \/ OutboundPending
    \/ Resume

Environment ==
    \/ HandshakeArrives \/ FrameArrives \/ StreamEnds
    \/ SendCommand \/ SendBatch \/ Uncongest

Next == Driver \/ Environment

\* The executor runs a task that is not waiting, and the network does not stay
\* congested.
Spec == Init /\ [][Next]_vars /\ WF_vars(Driver) /\ WF_vars(Uncongest)

-----------------------------------------------------------------------------
\* The types of the state.
TypeOK ==
    /\ pc \in {"poll", "gate_write", "gate_outbound", "gate_read", "gate_end",
               "inbound", "commands", "write", "outbound", "pending", "over"}
    /\ wakers \subseteq {"stream", "commands", "outbound", "sink"}
    /\ commands \in 0..ChannelCap /\ outbound \in 0..ChannelCap
    /\ buffered \in 0..SinkCap
    /\ write_queue \in Nat /\ queued_events \in Nat

(***************************************************************************)
(* No wakeup is lost: when the task sleeps, every source it depends on is  *)
(* idle and has its waker, whichever part of poll_next looked at it and    *)
(* whatever arrived in the meantime.  A gated initiator leaves commands    *)
(* alone, and there is nothing more to read from a stream that ended.      *)
(***************************************************************************)
Asleep == pc = "pending" /\ ~woken
NoLostWakeup ==
    Asleep =>
        /\ frames = <<>> /\ ("stream" \in wakers \/ ended)
        /\ outbound = 0 /\ "outbound" \in wakers
        /\ Gated \/ (commands = 0 /\ "commands" \in wakers)
        /\ write_queue > 0 => "sink" \in wakers
        /\ queued_events = 0

(***************************************************************************)
(* "Write everything we can write" (protocol.rs:214) and read and obey as  *)
(* much: after the handshake every command and batch is handled, every     *)
(* message that arrives is read, every event is returned and every message *)
(* that was enqueued reaches the sink, unless the driver stops.            *)
(***************************************************************************)
Busy == {commands, outbound, write_queue, queued_events} # {0} \/ frames # <<>>
WorkIsDone == (secured /\ Busy) ~> (~Busy \/ pc = "over")

(***************************************************************************)
(* "Emitted after the handshake with the remote peer is complete"          *)
(* (protocol.rs:45, of Event::Handshake).                                  *)
(***************************************************************************)
HandshakeAnnounced == secured ~> (handshake_emitted \/ pc = "over")

(***************************************************************************)
(* "Protocol closed before a channel was opened" (tests/_util.rs:77, after *)
(* a loop that ends when the event stream ends): when the remote has gone, *)
(* the driver's loop ends.                                                 *)
(***************************************************************************)
LoopEnds == ended ~> pc = "over"
=============================================================================
