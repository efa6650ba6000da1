------------------------------ MODULE Protocol ------------------------------
(***************************************************************************)
(* Two Protocol endpoints (src/protocol.rs) at the ends of one connection, *)
(* the applications that drive them and the Channels they hold             *)
(* (src/channels.rs).  One step is one iteration of a loop of poll_next,   *)
(* or one atomic piece of an asynchronous Channel or CommandTx method, so  *)
(* that application tasks on other threads interleave with a poll.         *)
(*                                                                         *)
(* The cipher (crate hypercore_handshake) is external: a two-message       *)
(* handshake, then a reliable FIFO of frames.                              *)
(***************************************************************************)
EXTENDS ChannelMap

CONSTANTS
    ChannelCap,     \* CHANNEL_CAP, capacity of the command and outbound queues
    WireCap,        \* frames the sink takes before poll_ready is Pending
    MaxBatch,       \* most messages in one send_batch
    Tasks,          \* tasks of one application that may use Channels at once
    Scenarios       \* how the applications may behave: when they open and
                    \* close (policy), how often they do what (limits) and
                    \* with which keys

Initiator == "initiator"
Responder == "responder"
Peers == {Initiator, Responder}
Other(p) == IF p = Initiator THEN Responder ELSE Initiator

\* replicate_capability: a hash keyed with the shared handshake hash, of a
\* seed for the role and the key.  Only equal inputs give equal hashes.
replicate_capability(role, key) == [role |-> role, key |-> key]

ASSUME CapsAssumption ==
    /\ Caps = {replicate_capability(role, key) : role \in Peers, key \in Keys}
    /\ None \notin Caps

AppOps == {"open", "send", "close", "drop", "command_close", "signal", "direct",
           "empty"}

ASSUME ProtocolAssumption ==
    /\ ChannelCap \in Nat \ {0}
    /\ WireCap \in Nat \ {0}
    /\ MaxBatch \in Nat \ {0}
    /\ \A s \in Scenarios : /\ s.keys \subseteq Keys
                            /\ s.policy \in {"free", "tracked", "driven"}
                            /\ s.limits \in [Peers -> [AppOps -> Nat]]
    /\ None # "Handshake"

VARIABLES
    cm,             \* ChannelMap of each endpoint
    closed,         \* the `closed' flags that are set
    flags,          \* number of flags created
    chans,          \* Channels created, in order
    inbound,        \* what each Channel's queue has received
    commands,       \* command_tx -> command_rx
    outbound,       \* outbound_tx -> outbound_rx, a batch per element
    write_queue,    \* MessageIo::write_queue
    wire,           \* frames on their way to an endpoint, the first one being
                    \* the one it is reading
    cipher,         \* handshake state of the external cipher
    pc,             \* where poll_next is
    queued_events,
    handshake_emitted,
    first,          \* type of the first event the application saw
    failed,         \* errors the event stream has yielded
    scenario,       \* which of the Scenarios this is
    held,           \* number of Channels the application has been given
    wanted,         \* keys the application considers open
    asked,          \* keys the application has ever opened
    todo,           \* keys a driver has yet to open before it polls again
    gone,           \* Channels whose receiver was dropped
    task,           \* Channel methods that are underway: suspended before their
                    \* send, or between the send and the end of close
    left            \* what remains of the limits

tableVars == <<cm, closed, flags, chans, inbound>>
ioVars    == <<write_queue, wire, cipher>>
pollVars  == <<pc, queued_events, handshake_emitted, first, failed>>
keyVars   == <<scenario, wanted, asked, todo>>
appVars   == <<keyVars, held, gone, task, left>>
vars      == <<tableVars, ioVars, pollVars, appVars, commands, outbound>>

-----------------------------------------------------------------------------
(***************************************************************************)
(* Messages, commands, events.  Data stands for every message type other   *)
(* than Open, Close and LocalSignal; its body says which Channel and task  *)
(* of the sender sent it, and as the how-many-th message.                  *)
(***************************************************************************)
OpenMsg(id, dk, cap) ==
    [type |-> "Open", channel |-> id, discovery_key |-> dk, capability |-> cap]
CloseMsg(id) == [type |-> "Close", channel |-> id]
DataMsg(id, body) == [type |-> "Data", channel |-> id, body |-> body]
SignalMsg(id) == [type |-> "LocalSignal", channel |-> id]

IsControl(m) == m.type \in {"Open", "Close"}

Event(type, dk) == [type |-> type, discovery_key |-> dk]
ChannelEvent(n) == [type |-> "Channel", channel |-> n]
SignalEvent == [type |-> "LocalSignal"]

Handshake == [handshake |-> TRUE, messages |-> <<>>]
Frame(msgs) == [handshake |-> FALSE, messages |-> msgs]

Idle == [op |-> "idle", batch |-> <<>>]

Init ==
    /\ cm = [p \in Peers |-> NewChannelMap]
    /\ closed = [p \in Peers |-> {}]
    /\ flags = [p \in Peers |-> 0]
    /\ chans = [p \in Peers |-> <<>>]
    /\ inbound = [p \in Peers |-> <<>>]
    /\ commands = [p \in Peers |-> <<>>]
    /\ outbound = [p \in Peers |-> <<>>]
    /\ write_queue = [p \in Peers |-> <<>>]
    /\ wire = [p \in Peers |-> <<>>]
    /\ cipher = [p \in Peers |-> "start"]
    /\ pc = [p \in Peers |-> "idle"]
    /\ queued_events = [p \in Peers |-> <<>>]
    /\ handshake_emitted = [p \in Peers |-> FALSE]
    /\ first = [p \in Peers |-> None]
    /\ failed = [p \in Peers |-> {}]
    /\ scenario \in Scenarios
    /\ held = [p \in Peers |-> 0]
    /\ wanted = [p \in Peers |-> {}]
    /\ asked = [p \in Peers |-> {}]
    /\ todo = [p \in Peers |-> {}]
    /\ gone = [p \in Peers |-> {}]
    /\ task = [p \in Peers |-> [t \in Tasks |-> Idle]]
    /\ left = scenario.limits

-----------------------------------------------------------------------------
(***************************************************************************)
(* Helpers of the handlers.                                                *)
(***************************************************************************)
\* handshake_hash() and remote_public_key() are Some.
Secured(p) == cipher[p] = "done"

\* Mutant of capability: the seed of the other role
capabilityOtherRole(p, key) ==
    IF Secured(p) THEN replicate_capability(Other(p), key) ELSE None

\* Protocol::capability
capability(p, key) ==
    IF Secured(p) THEN replicate_capability(p, key) ELSE None

\* Protocol::accept_channel up to its verdict on the handle of local id `id' in
\* table m: prepare_to_verify and HandshakeResult::verify_remote_capability
Verified(p, m, id) ==
    LET v == prepare_to_verify(m, id)
    IN  v # None /\ v.capability = replicate_capability(Other(p), v.key)

queue_event(p, e) == [queued_events EXCEPT ![p] = Append(@, e)]

\* The flag counter after a call that may create the handle of dk
FlagsAfter(p, dk) ==
    [flags EXCEPT ![p] = IF has_channel(cm[p], dk) THEN @ ELSE @ + 1]

\* Protocol::accept_channel after a good verdict
accept_channel(p, m, id) ==
    LET queue == Len(chans[p]) + 1
    IN  /\ cm' = [cm EXCEPT ![p] = accept(m, id, queue)]
        /\ chans' = [chans EXCEPT ![p] = Append(@, NewChannel(m, id, queue))]
        /\ inbound' = [inbound EXCEPT ![p] = Append(@, <<>>)]
        /\ queued_events' = queue_event(p, ChannelEvent(queue))

\* Mutant of RemoveAndNotify: without the Drop implementation
RemoveAndNotifyNoFlag(p, dk) ==
    /\ cm' = [cm EXCEPT ![p] = remove(@, dk)]
    /\ UNCHANGED closed
    /\ queued_events' = queue_event(p, Event("Close", dk))

\* A handle is removed and Event::Close queued.
RemoveAndNotify(p, dk) ==
    /\ cm' = [cm EXCEPT ![p] = remove(@, dk)]
    /\ closed' = [closed EXCEPT ![p] = @ \cup DroppedFlags(cm[p], dk)]
    /\ queued_events' = queue_event(p, Event("Close", dk))

\* The poll ends and yields an error.
Fail(p, reason) ==
    /\ pc' = [pc EXCEPT ![p] = "idle"]
    /\ failed' = [failed EXCEPT ![p] = @ \cup {reason}]

-----------------------------------------------------------------------------
(***************************************************************************)
(* poll_next: entry.                                                       *)
(***************************************************************************)
\* The applications run the loop of examples/replication.rs.
Driven == scenario.policy = "driven"

\* The application receives the first queued event.  A driver opens a key the
\* remote has announced.
YieldEvent(p) ==
    LET e == Head(queued_events[p])
    IN  /\ queued_events' = [queued_events EXCEPT ![p] = Tail(@)]
        /\ first' = [first EXCEPT ![p] = IF @ = None THEN e.type ELSE @]
        /\ held' = [held EXCEPT ![p] = IF e.type = "Channel" THEN e.channel ELSE @]
        /\ wanted' = [wanted EXCEPT ![p] =
                         IF e.type = "Close"
                         THEN {k \in @ : DiscoveryKey[k] # e.discovery_key}
                         ELSE @]
        /\ todo' = [todo EXCEPT ![p] =
                       IF Driven /\ e.type = "DiscoveryKey"
                       THEN {k \in scenario.keys : DiscoveryKey[k] = e.discovery_key}
                       ELSE @]

\* An initiator without handshake hash only writes and reads; being written
\* to makes the cipher send the first handshake message.
PollGate(p) ==
    /\ pc[p] = "idle"
    /\ p = Initiator /\ ~Secured(p)
    /\ pc' = [pc EXCEPT ![p] = "gate"]
    /\ cipher' = [cipher EXCEPT ![p] = "sent"]
    /\ wire' = IF cipher[p] = "start"
               THEN [wire EXCEPT ![Other(p)] = Append(@, Handshake)]
               ELSE wire
    /\ UNCHANGED <<write_queue, queued_events, handshake_emitted, first, failed,
                   tableVars, appVars, commands, outbound>>

\* Event::Handshake is returned as soon as the remote's public key is known.
\* An initiating driver then opens every key it has.
PollHandshake(p) ==
    /\ pc[p] = "idle"
    /\ Secured(p) /\ ~handshake_emitted[p]
    /\ handshake_emitted' = [handshake_emitted EXCEPT ![p] = TRUE]
    /\ first' = [first EXCEPT ![p] = IF @ = None THEN "Handshake" ELSE @]
    /\ todo' = [todo EXCEPT ![p] = IF Driven /\ p = Initiator THEN scenario.keys ELSE @]
    /\ UNCHANGED <<pc, queued_events, failed, tableVars, ioVars, scenario, wanted,
                   asked, held, gone, task, left, commands, outbound>>

\* Mutant of PastHandshake: the initiator is not gated
PastHandshakeUngated(p) ==
    /\ pc[p] = "idle"
    /\ Secured(p) => handshake_emitted[p]

\* Neither the gate nor the Handshake event end this poll.
PastHandshake(p) ==
    /\ pc[p] = "idle"
    /\ p = Initiator => Secured(p)
    /\ Secured(p) => handshake_emitted[p]

PollQueued(p) ==
    /\ PastHandshake(p)
    /\ queued_events[p] # <<>>
    /\ YieldEvent(p)
    /\ UNCHANGED <<pc, handshake_emitted, failed, tableVars, ioVars, scenario,
                   asked, gone, task, left, commands, outbound>>

PollStart(p) ==
    /\ PastHandshake(p)
    /\ queued_events[p] = <<>>
    /\ pc' = [pc EXCEPT ![p] = "inbound"]
    /\ UNCHANGED <<queued_events, handshake_emitted, first, failed, tableVars,
                   ioVars, appVars, commands, outbound>>

-----------------------------------------------------------------------------
(***************************************************************************)
(* poll_inbound_read.                                                      *)
(***************************************************************************)
Reading(p) == pc[p] \in {"gate", "inbound"} /\ wire[p] # <<>>

\* The message at hand, of a frame that decoded to at least one
HasMessage(p) == Reading(p) /\ Head(wire[p]).messages # <<>>
Message(p) == Head(Head(wire[p]).messages)

\* Mutant of Consumed: only the first message of a frame is handled
ConsumedAll(p) == [wire EXCEPT ![p] = Tail(@)]

\* The frames left when the message at hand has been handled ...
Consumed(p) ==
    [wire EXCEPT ![p] =
        LET rest == Tail(Head(@).messages)
        IN  IF rest = <<>> THEN Tail(@) ELSE <<Frame(rest)>> \o Tail(@)]

\* ... and when handling it, or decoding, failed: the rest of the frame is lost.
FrameDropped(p) == [wire EXCEPT ![p] = Tail(@)]

\* The cipher completes the handshake; the responder's answers.
ReadHandshake(p) ==
    /\ Reading(p)
    /\ Head(wire[p]).handshake
    /\ cipher' = [cipher EXCEPT ![p] = "done"]
    /\ wire' = IF p = Responder
               THEN [wire EXCEPT ![p] = Tail(@),
                                 ![Other(p)] = Append(@, Handshake)]
               ELSE FrameDropped(p)
    /\ UNCHANGED <<write_queue, pollVars, tableVars, appVars, commands, outbound>>

\* MessageIo::poll_inbound of a frame that does not decode
ReadBadFrame(p) ==
    /\ Reading(p)
    /\ ~Head(wire[p]).handshake /\ Head(wire[p]).messages = <<>>
    /\ wire' = FrameDropped(p)
    /\ Fail(p, "decode")
    /\ UNCHANGED <<write_queue, cipher, queued_events, handshake_emitted, first,
                   tableVars, appVars, commands, outbound>>

\* The table after attach_remote in on_open
RemoteAttached(p) ==
    LET m == Message(p)
    IN  attach_remote(cm[p], m.discovery_key, m.channel, m.capability, flags[p])

\* on_open of a channel that is not open here: announce the discovery key
OnOpenAnnounce(p) ==
    /\ HasMessage(p) /\ Message(p).type = "Open"
    /\ LET dk == Message(p).discovery_key
       IN  /\ ~is_connected(RemoteAttached(p).channels[dk])
           /\ cm' = [cm EXCEPT ![p] = RemoteAttached(p)]
           /\ flags' = FlagsAfter(p, dk)
           /\ queued_events' = queue_event(p, Event("DiscoveryKey", dk))
    /\ wire' = Consumed(p)
    /\ UNCHANGED <<write_queue, cipher, pc, handshake_emitted, first, failed,
                   closed, chans, inbound, appVars, commands, outbound>>

\* on_open of a channel that is open here and whose capability is right
OnOpenAccept(p) ==
    /\ HasMessage(p) /\ Message(p).type = "Open"
    /\ LET dk == Message(p).discovery_key
           h  == RemoteAttached(p).channels[dk]
       IN  /\ is_connected(h) /\ Verified(p, RemoteAttached(p), LocalId(h))
           /\ accept_channel(p, RemoteAttached(p), LocalId(h))
           /\ flags' = FlagsAfter(p, dk)
    /\ wire' = Consumed(p)
    /\ UNCHANGED <<write_queue, cipher, pc, handshake_emitted, first, failed,
                   closed, appVars, commands, outbound>>

\* on_open of a channel that is open here, with a wrong or no capability: the
\* handle stays attached.
OnOpenRefuse(p) ==
    /\ HasMessage(p) /\ Message(p).type = "Open"
    /\ LET dk == Message(p).discovery_key
           h  == RemoteAttached(p).channels[dk]
       IN  /\ is_connected(h) /\ ~Verified(p, RemoteAttached(p), LocalId(h))
           /\ cm' = [cm EXCEPT ![p] = RemoteAttached(p)]
           /\ flags' = FlagsAfter(p, dk)
    /\ wire' = FrameDropped(p)
    /\ Fail(p, "capability")
    /\ UNCHANGED <<write_queue, cipher, queued_events, handshake_emitted, first,
                   closed, chans, inbound, appVars, commands, outbound>>

\* The queue of handle h can still be sent to: its receiver exists.
Receiving(p, h) == h.inbound_tx # None /\ h.inbound_tx \notin gone[p]

\* Mutant of OnClose: the handle is kept
OnCloseKeeps(p) ==
    /\ HasMessage(p) /\ Message(p).type = "Close"
    /\ LET dk == get_remote(cm[p], Message(p).channel)
       IN  \/ /\ dk = None
              /\ UNCHANGED <<inbound, queued_events>>
           \/ /\ dk # None
              /\ LET h == cm[p].channels[dk]
                 IN  inbound' = IF Receiving(p, h)
                                THEN [inbound EXCEPT ![p][h.inbound_tx] =
                                                     Append(@, Message(p))]
                                ELSE inbound
              /\ queued_events' = queue_event(p, Event("Close", dk))
    /\ wire' = Consumed(p)
    /\ UNCHANGED <<write_queue, cipher, pc, handshake_emitted, first, failed,
                   cm, closed, flags, chans, appVars, commands, outbound>>

\* on_close.  A Close for an unknown id is ignored, and so is a receiver that
\* has been dropped.
OnClose(p) ==
    /\ HasMessage(p) /\ Message(p).type = "Close"
    /\ LET dk == get_remote(cm[p], Message(p).channel)
       IN  \/ /\ dk = None
              /\ UNCHANGED <<cm, closed, inbound, queued_events>>
           \/ /\ dk # None
              /\ LET h == cm[p].channels[dk]
                 IN  inbound' = IF Receiving(p, h)
                                THEN [inbound EXCEPT ![p][h.inbound_tx] =
                                                     Append(@, Message(p))]
                                ELSE inbound
              /\ RemoveAndNotify(p, dk)
    /\ wire' = Consumed(p)
    /\ UNCHANGED <<write_queue, cipher, pc, handshake_emitted, first, failed,
                   flags, chans, appVars, commands, outbound>>

\* forward_inbound_message to an open channel, or to an id nobody has
ForwardInbound(p) ==
    /\ HasMessage(p) /\ ~IsControl(Message(p))
    /\ LET dk == get_remote(cm[p], Message(p).channel)
       IN  \/ dk = None /\ UNCHANGED inbound
           \/ /\ dk # None
              /\ LET h == cm[p].channels[dk]
                 IN  /\ Receiving(p, h)
                     /\ inbound' = [inbound EXCEPT ![p][h.inbound_tx] =
                                                   Append(@, Message(p))]
    /\ wire' = Consumed(p)
    /\ UNCHANGED <<write_queue, cipher, pollVars, cm, closed, flags, chans,
                   appVars, commands, outbound>>

\* forward_inbound_message to a channel that is not open, or whose receiver
\* has been dropped
ForwardFails(p) ==
    /\ HasMessage(p) /\ ~IsControl(Message(p))
    /\ LET dk == get_remote(cm[p], Message(p).channel)
       IN  /\ dk # None
           /\ ~Receiving(p, cm[p].channels[dk])
           /\ Fail(p, IF cm[p].channels[dk].inbound_tx = None
                      THEN "not_open" ELSE "receiver_gone")
    /\ wire' = FrameDropped(p)
    /\ UNCHANGED <<write_queue, cipher, queued_events, handshake_emitted, first,
                   tableVars, appVars, commands, outbound>>

InboundPending(p) ==
    /\ pc[p] \in {"gate", "inbound"}
    /\ wire[p] = <<>>
    /\ pc' = [pc EXCEPT ![p] = IF @ = "gate" THEN "idle" ELSE "commands"]
    /\ UNCHANGED <<queued_events, handshake_emitted, first, failed, tableVars,
                   ioVars, appVars, commands, outbound>>

-----------------------------------------------------------------------------
(***************************************************************************)
(* poll_commands.                                                          *)
(***************************************************************************)
Commanded(p, op) ==
    /\ pc[p] = "commands"
    /\ commands[p] # <<>>
    /\ Head(commands[p]).op = op
    /\ commands' = [commands EXCEPT ![p] = Tail(@)]

\* The table after attach_local in command_open
LocalAttached(p, key) == attach_local(cm[p], key, flags[p])

\* enqueue of the Open message command_open ends with
EnqueueOpen(p, key) ==
    LET dk == DiscoveryKey[key]
    IN  write_queue' = [write_queue EXCEPT ![p] =
            Append(@, OpenMsg(LocalId(LocalAttached(p, key).channels[dk]), dk,
                              capability(p, key)))]

\* Mutant of CommandOpenFirst: the channel is handed out at once
CommandOpenFirstEager(p) ==
    /\ Commanded(p, "open")
    /\ LET key == Head(commands[p]).key
           dk  == DiscoveryKey[key]
       IN  /\ ~is_connected(LocalAttached(p, key).channels[dk])
           /\ accept_channel(p, LocalAttached(p, key), alloc_local(cm[p]))
           /\ flags' = FlagsAfter(p, dk)
           /\ EnqueueOpen(p, key)
    /\ UNCHANGED <<wire, cipher, pc, handshake_emitted, first, failed, closed,
                   appVars, outbound>>

\* command_open of a channel the remote has not opened
CommandOpenFirst(p) ==
    /\ Commanded(p, "open")
    /\ LET key == Head(commands[p]).key
           dk  == DiscoveryKey[key]
       IN  /\ ~is_connected(LocalAttached(p, key).channels[dk])
           /\ cm' = [cm EXCEPT ![p] = LocalAttached(p, key)]
           /\ flags' = FlagsAfter(p, dk)
           /\ EnqueueOpen(p, key)
    /\ UNCHANGED <<wire, cipher, pollVars, closed, chans, inbound, appVars,
                   outbound>>

\* Mutant of CommandOpenAccept: a channel the remote has opened is not
\* announced to it
CommandOpenAcceptSilent(p) ==
    /\ Commanded(p, "open")
    /\ LET key == Head(commands[p]).key
           dk  == DiscoveryKey[key]
           h   == LocalAttached(p, key).channels[dk]
       IN  /\ is_connected(h) /\ Verified(p, LocalAttached(p, key), LocalId(h))
           /\ accept_channel(p, LocalAttached(p, key), LocalId(h))
           /\ flags' = FlagsAfter(p, dk)
    /\ UNCHANGED <<ioVars, pc, handshake_emitted, first, failed, closed,
                   appVars, outbound>>

\* command_open of a channel the remote has opened, with the right capability
CommandOpenAccept(p) ==
    /\ Commanded(p, "open")
    /\ LET key == Head(commands[p]).key
           dk  == DiscoveryKey[key]
           h   == LocalAttached(p, key).channels[dk]
       IN  /\ is_connected(h) /\ Verified(p, LocalAttached(p, key), LocalId(h))
           /\ accept_channel(p, LocalAttached(p, key), LocalId(h))
           /\ flags' = FlagsAfter(p, dk)
           /\ EnqueueOpen(p, key)
    /\ UNCHANGED <<wire, cipher, pc, handshake_emitted, first, failed, closed,
                   appVars, outbound>>

\* command_open of a channel whose remote capability is wrong or missing: the
\* error comes before the Open message is enqueued.
CommandOpenRefuse(p) ==
    /\ Commanded(p, "open")
    /\ LET key == Head(commands[p]).key
           dk  == DiscoveryKey[key]
           h   == LocalAttached(p, key).channels[dk]
       IN  /\ is_connected(h) /\ ~Verified(p, LocalAttached(p, key), LocalId(h))
           /\ cm' = [cm EXCEPT ![p] = LocalAttached(p, key)]
           /\ flags' = FlagsAfter(p, dk)
    /\ Fail(p, "capability")
    /\ UNCHANGED <<ioVars, queued_events, handshake_emitted, first, closed,
                   chans, inbound, appVars, outbound>>

\* command_close tells the remote nothing.
CommandClose(p) ==
    /\ Commanded(p, "close")
    /\ LET dk == Head(commands[p]).discovery_key
       IN  IF has_channel(cm[p], dk)
           THEN RemoveAndNotify(p, dk)
           ELSE UNCHANGED <<cm, closed, queued_events>>
    /\ UNCHANGED <<ioVars, pc, handshake_emitted, first, failed, flags, chans,
                   inbound, appVars, outbound>>

\* command_signal_local
CommandSignal(p) ==
    /\ Commanded(p, "signal")
    /\ queued_events' = queue_event(p, SignalEvent)
    /\ UNCHANGED <<ioVars, pc, handshake_emitted, first, failed, tableVars,
                   appVars, outbound>>

CommandsPending(p) ==
    /\ pc[p] = "commands"
    /\ commands[p] = <<>>
    /\ pc' = [pc EXCEPT ![p] = "outbound"]
    /\ UNCHANGED <<queued_events, handshake_emitted, first, failed, tableVars,
                   ioVars, appVars, commands, outbound>>

-----------------------------------------------------------------------------
(***************************************************************************)
(* poll_outbound_write and the end of poll_next.                           *)
(***************************************************************************)
\* Mutant of SinkReady: frames are taken before the handshake
SinkReadyEarly(p) == Len(wire[Other(p)]) < WireCap

\* Sink::poll_ready of the cipher
SinkReady(p) == Secured(p) /\ Len(wire[Other(p)]) < WireCap

\* MessageIo::poll_outbound batches up to the next Open or Close, which
\* travels alone.
BatchLen(q) ==
    IF IsControl(Head(q))
    THEN 1
    ELSE Min({i - 1 : i \in {j \in 2..Len(q) : IsControl(q[j])}} \cup {Len(q)})

\* The part of a batch before its first change of channel
SameChannelLen(msgs) ==
    Min({i - 1 : i \in {j \in 2..Len(msgs) : msgs[j].channel # msgs[1].channel}}
        \cup {Len(msgs)})

\* Mutant of Received: the decoder keeps in step with the encoder
ReceivedAll(msgs) == {Frame(msgs)}

\* What a batch decodes to.  After a change of channel the decoder is out of
\* step with the encoder (module Framing): it fails, or what follows comes out
\* under channel 0, which nobody has.
Received(msgs) ==
    IF SameChannelLen(msgs) = Len(msgs)
    THEN {Frame(msgs)}
    ELSE {Frame(SubSeq(msgs, 1, SameChannelLen(msgs))), Frame(<<>>)}

CanWrite(p) == SinkReady(p) /\ write_queue[p] # <<>>

\* MessageIo::poll_outbound, one frame
WriteFrame(p) ==
    /\ pc[p] = "outbound"
    /\ CanWrite(p)
    /\ LET n == BatchLen(write_queue[p])
       IN  /\ \E frame \in Received(SubSeq(write_queue[p], 1, n)) :
                 wire' = [wire EXCEPT ![Other(p)] = Append(@, frame)]
           /\ write_queue' = [write_queue EXCEPT ![p] =
                                 SubSeq(@, n + 1, Len(@))]
    /\ UNCHANGED <<cipher, pollVars, tableVars, appVars, commands, outbound>>

Popped(p) ==
    /\ pc[p] = "outbound"
    /\ ~CanWrite(p)
    /\ outbound[p] # <<>>
    /\ outbound' = [outbound EXCEPT ![p] = Tail(@)]

\* Whether the batch at the head of outbound_rx is of this type
PoppedType(p, type) ==
    /\ Popped(p)
    /\ Head(outbound[p]) # <<>>
    /\ Head(Head(outbound[p])).type = type

\* Mutant of PopClose: the Close is filtered out like a LocalSignal
PopCloseSilent(p) ==
    /\ PoppedType(p, "Close")
    /\ LET msg == Head(Head(outbound[p]))
           dk  == get_local(cm[p], msg.channel)
       IN  /\ IF dk # None
              THEN RemoveAndNotify(p, dk)
              ELSE UNCHANGED <<cm, closed, queued_events>>
    /\ UNCHANGED <<ioVars, pc, handshake_emitted, first, failed, flags, chans,
                   inbound, appVars, commands>>

\* on_outbound_message of a Close: close_local, and the message is sent.
PopClose(p) ==
    /\ PoppedType(p, "Close")
    /\ LET msg == Head(Head(outbound[p]))
           dk  == get_local(cm[p], msg.channel)
       IN  /\ IF dk # None
              THEN RemoveAndNotify(p, dk)
              ELSE UNCHANGED <<cm, closed, queued_events>>
           /\ write_queue' = [write_queue EXCEPT ![p] = Append(@, msg)]
    /\ UNCHANGED <<wire, cipher, pc, handshake_emitted, first, failed, flags,
                   chans, inbound, appVars, commands>>

\* on_outbound_message of a LocalSignal: an event, and nothing is sent.
PopSignal(p) ==
    /\ PoppedType(p, "LocalSignal")
    /\ queued_events' = queue_event(p, SignalEvent)
    /\ UNCHANGED <<ioVars, pc, handshake_emitted, first, failed, tableVars,
                   appVars, commands>>

\* Mutant of PopData: push_front
PopDataFront(p) ==
    /\ PoppedType(p, "Data")
    /\ write_queue' = [write_queue EXCEPT ![p] = Head(outbound[p]) \o @]
    /\ UNCHANGED <<wire, cipher, pollVars, tableVars, appVars, commands>>

\* Messages of an application are queued for writing.
PopData(p) ==
    /\ PoppedType(p, "Data")
    /\ write_queue' = [write_queue EXCEPT ![p] = @ \o Head(outbound[p])]
    /\ UNCHANGED <<wire, cipher, pollVars, tableVars, appVars, commands>>

\* There is nothing in the batch.
PopEmpty(p) ==
    /\ Popped(p)
    /\ Head(outbound[p]) = <<>>
    /\ UNCHANGED <<ioVars, pollVars, tableVars, appVars, commands>>

\* Nothing is left to do: the first event is returned, or Pending.
PollEnd(p) ==
    /\ pc[p] = "outbound"
    /\ ~CanWrite(p)
    /\ outbound[p] = <<>>
    /\ pc' = [pc EXCEPT ![p] = "idle"]
    /\ IF queued_events[p] # <<>>
       THEN YieldEvent(p)
       ELSE UNCHANGED <<queued_events, first, held, wanted, todo>>
    /\ UNCHANGED <<handshake_emitted, failed, tableVars, ioVars, scenario, asked,
                   gone, task, left, commands, outbound>>

-----------------------------------------------------------------------------
(***************************************************************************)
(* The application.  Under the policy                                      *)
(*   "free"     it opens keys at any time, open or not;                    *)
(*   "tracked"  it opens a key after Event::Handshake and when the key is  *)
(*              not open, as far as the events it has seen tell;           *)
(*   "driven"   the task that polls also opens, when events tell it to and *)
(*              before it polls again, as in examples/replication.rs; its  *)
(*              other tasks close no channel before there is one for every *)
(*              key.                                                       *)
(***************************************************************************)
MayOpen(p, key) ==
    \/ scenario.policy = "free"
    \/ /\ scenario.policy = "tracked"
       /\ handshake_emitted[p] /\ key \notin wanted[p]

MayClose(p) == Driven => held[p] >= Cardinality(scenario.keys)

Spend(p, op, n) ==
    /\ left[p][op] >= n
    /\ left' = [left EXCEPT ![p][op] = @ - n]

SendCommand(p, c) ==
    /\ Len(commands[p]) < ChannelCap
    /\ commands' = [commands EXCEPT ![p] = Append(@, c)]

\* CommandTx::open and Protocol::open
Open(p, key) ==
    /\ MayOpen(p, key)
    /\ Spend(p, "open", 1)
    /\ SendCommand(p, [op |-> "open", key |-> key])
    /\ wanted' = [wanted EXCEPT ![p] = @ \cup {key}]
    /\ asked' = [asked EXCEPT ![p] = @ \cup {key}]
    /\ UNCHANGED <<scenario, todo, held, gone, task, tableVars, ioVars, pollVars,
                   outbound>>

\* protocol.open(key).await in the loop of onconnection
DriverOpen(p, key) ==
    /\ SendCommand(p, [op |-> "open", key |-> key])
    /\ todo' = [todo EXCEPT ![p] = @ \ {key}]
    /\ asked' = [asked EXCEPT ![p] = @ \cup {key}]
    /\ UNCHANGED <<scenario, wanted, held, gone, task, left, tableVars, ioVars,
                   pollVars, outbound>>

\* CommandTx::close
CloseByKey(p, dk) ==
    /\ Spend(p, "command_close", 1)
    /\ SendCommand(p, [op |-> "close", discovery_key |-> dk])
    /\ UNCHANGED <<keyVars, held, gone, task, tableVars, ioVars, pollVars,
                   outbound>>

\* CommandTx::signal_local
SignalLocal(p) ==
    /\ Spend(p, "signal", 1)
    /\ SendCommand(p, [op |-> "signal"])
    /\ UNCHANGED <<keyVars, held, gone, task, tableVars, ioVars, pollVars,
                   outbound>>

\* The first part of a Channel method, up to the await: the Channel was not
\* closed when it looked.
Begin(p, t, n, w) ==
    /\ task[p][t] = Idle
    /\ chans[p][n].closed \notin closed[p]
    /\ task' = [task EXCEPT ![p][t] = w]
    /\ UNCHANGED <<keyVars, held, gone, tableVars, ioVars, pollVars, commands,
                   outbound>>

\* Channel::send and send_batch of size messages.  A message is numbered by
\* how many the application had left to send.
BeginSend(p, t, n, size) ==
    /\ Spend(p, "send", size)
    /\ Begin(p, t, n,
             [op |-> "send",
              batch |-> [i \in 1..size |->
                            DataMsg(chans[p][n].local_id,
                                    [chan |-> n, task |-> t,
                                     left |-> left[p].send - i])]])

\* Channel::send_batch of nothing
BeginEmpty(p, t, n) ==
    /\ Spend(p, "empty", 1)
    /\ Begin(p, t, n, [op |-> "send", batch |-> <<>>])

\* Channel::signal_local_protocol
BeginSignal(p, t, n) ==
    /\ Spend(p, "signal", 1)
    /\ Begin(p, t, n,
             [op |-> "send", batch |-> <<SignalMsg(chans[p][n].local_id)>>])

\* Mutant of BeginClose: the flag is set before the send
BeginCloseFlagFirst(p, t, n) ==
    /\ MayClose(p)
    /\ Spend(p, "close", 1)
    /\ task[p][t] = Idle
    /\ chans[p][n].closed \notin closed[p]
    /\ closed' = [closed EXCEPT ![p] = @ \cup {chans[p][n].closed}]
    /\ task' = [task EXCEPT ![p][t] =
                    [op |-> "send", batch |-> <<CloseMsg(chans[p][n].local_id)>>]]
    /\ UNCHANGED <<keyVars, held, gone, cm, flags, chans, inbound, ioVars,
                   pollVars, commands, outbound>>

\* Channel::close
BeginClose(p, t, n) ==
    /\ MayClose(p)
    /\ Spend(p, "close", 1)
    /\ Begin(p, t, n,
             [op |-> "close", flag |-> chans[p][n].closed,
              batch |-> <<CloseMsg(chans[p][n].local_id)>>])

\* Mutant of Sent: an unbounded queue
SentUnbounded(p, batch) ==
    outbound' = [outbound EXCEPT ![p] = Append(@, batch)]

\* outbound_tx.send(..).await completes: there is room in the queue.
Sent(p, batch) ==
    /\ Len(outbound[p]) < ChannelCap
    /\ outbound' = [outbound EXCEPT ![p] = Append(@, batch)]

\* close has sent its message and has yet to set the flag.
Storing(flag) == [op |-> "store", flag |-> flag, batch |-> <<>>]

\* The await of a Channel method is over: the batch is in the queue.  That was
\* all, unless the method is close.
Finish(p, t) ==
    LET w == task[p][t]
    IN  /\ w.op \in {"send", "close"}
        /\ Sent(p, w.batch)
        /\ task' = [task EXCEPT ![p][t] =
                        IF w.op = "close" THEN Storing(w.flag) ELSE Idle]
        /\ UNCHANGED <<tableVars, keyVars, held, gone, left, ioVars, pollVars,
                       commands>>

\* The last statement of close.  The Protocol may have seen the Close already.
StoreClosed(p, t) ==
    LET w == task[p][t]
    IN  /\ w.op = "store"
        /\ closed' = [closed EXCEPT ![p] = @ \cup {w.flag}]
        /\ task' = [task EXCEPT ![p][t] = Idle]
        /\ UNCHANGED <<cm, flags, chans, inbound, keyVars, held, gone, left,
                       ioVars, pollVars, commands, outbound>>

\* A LocalSignal goes to the Channel's own queue through its local_sender(),
\* whether the Channel is closed or not.
SendDirect(p, n) ==
    /\ n \notin gone[p]
    /\ Spend(p, "direct", 1)
    /\ inbound' = [inbound EXCEPT ![p][n] = Append(@, SignalMsg(chans[p][n].local_id))]
    /\ UNCHANGED <<keyVars, held, gone, task, cm, closed, flags, chans, ioVars,
                   pollVars, commands, outbound>>

\* The receiver of a Channel is dropped.
DropReceiver(p, n) ==
    /\ n \notin gone[p]
    /\ Spend(p, "drop", 1)
    /\ gone' = [gone EXCEPT ![p] = @ \cup {n}]
    /\ UNCHANGED <<keyVars, held, task, tableVars, ioVars, pollVars, commands,
                   outbound>>

-----------------------------------------------------------------------------
\* Nothing is polled while the driver awaits an open.
PollEntry(p) ==
    /\ todo[p] = {}
    /\ PollGate(p) \/ PollHandshake(p) \/ PollQueued(p) \/ PollStart(p)

InboundRead(p) ==
    \/ ReadHandshake(p) \/ ReadBadFrame(p)
    \/ OnOpenAnnounce(p) \/ OnOpenAccept(p) \/ OnOpenRefuse(p)
    \/ OnClose(p)
    \/ ForwardInbound(p) \/ ForwardFails(p)
    \/ InboundPending(p)

Commands(p) ==
    \/ CommandOpenFirst(p) \/ CommandOpenAccept(p) \/ CommandOpenRefuse(p)
    \/ CommandClose(p) \/ CommandSignal(p)
    \/ CommandsPending(p)

OutboundWrite(p) ==
    \/ WriteFrame(p)
    \/ PopClose(p) \/ PopSignal(p) \/ PopData(p) \/ PopEmpty(p)
    \/ PollEnd(p)

\* A step of poll_next
PollNext(p) == PollEntry(p) \/ InboundRead(p) \/ Commands(p) \/ OutboundWrite(p)

\* A step of the application
App(p) ==
    \/ \E key \in scenario.keys : Open(p, key)
    \/ \E key \in todo[p] : DriverOpen(p, key)
    \/ \E key \in scenario.keys : CloseByKey(p, DiscoveryKey[key])
    \/ SignalLocal(p)
    \/ \E t \in Tasks, n \in 1..held[p] :
          \/ \E size \in 1..MaxBatch : BeginSend(p, t, n, size)
          \/ BeginEmpty(p, t, n)
          \/ BeginSignal(p, t, n)
          \/ BeginClose(p, t, n)
    \/ \E t \in Tasks : Finish(p, t) \/ StoreClosed(p, t)
    \/ \E n \in 1..held[p] : SendDirect(p, n) \/ DropReceiver(p, n)

Next == \E p \in Peers : PollNext(p) \/ App(p)

\* The task that drives an endpoint polls it as long as there is something to
\* do, and it opens what it has to before that when there is room; a suspended
\* Channel method goes on when there is room.
Fairness ==
    \A p \in Peers :
        /\ WF_vars(PollNext(p) \/ \E key \in todo[p] : DriverOpen(p, key))
        /\ \A t \in Tasks : WF_vars(Finish(p, t) \/ StoreClosed(p, t))

Spec == Init /\ [][Next]_vars /\ Fairness

-----------------------------------------------------------------------------
\* The Channels of p
Cids(p) == 1..Len(chans[p])

(***************************************************************************)
(* "Channels are only opened if both peers opened a channel for the same   *)
(* key" (lib.rs).                                                          *)
(***************************************************************************)
OpenedByBoth ==
    \A p \in Peers : \A n \in Cids(p) :
        chans[p][n].key \in asked[p] \cap asked[Other(p)]
=============================================================================
