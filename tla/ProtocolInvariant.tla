------------------------- MODULE ProtocolInvariant --------------------------
(***************************************************************************)
(* What every step of a connection of two Protocols preserves, for any     *)
(* keys, any number of tasks and messages, and queues of any length.       *)
(***************************************************************************)
EXTENDS Protocol, ChannelMapInvariant

\* Every variable but scenario has a value for each endpoint.
Shape ==
    /\ DOMAIN cm = Peers /\ DOMAIN closed = Peers /\ DOMAIN flags = Peers
    /\ DOMAIN chans = Peers /\ DOMAIN inbound = Peers
    /\ DOMAIN commands = Peers /\ DOMAIN outbound = Peers
    /\ DOMAIN write_queue = Peers /\ DOMAIN wire = Peers
    /\ DOMAIN cipher = Peers /\ DOMAIN pc = Peers
    /\ DOMAIN queued_events = Peers /\ DOMAIN handshake_emitted = Peers
    /\ DOMAIN first = Peers /\ DOMAIN failed = Peers /\ DOMAIN held = Peers
    /\ DOMAIN wanted = Peers /\ DOMAIN asked = Peers /\ DOMAIN todo = Peers
    /\ DOMAIN gone = Peers /\ DOMAIN task = Peers /\ DOMAIN left = Peers

\* What an application has asked for and may still do
AppOK ==
    /\ scenario \in Scenarios
    /\ \A p \in Peers : /\ asked[p] \subseteq Keys
                        /\ todo[p] \subseteq Keys
                        /\ left[p] \in [AppOps -> Nat]
                        /\ cipher[p] \in {"start", "sent", "done"}
                        /\ pc[p] \in {"idle", "gate", "inbound", "commands",
                                      "outbound"}

-----------------------------------------------------------------------------
(***************************************************************************)
(* Messages.  A capability that travels, or is kept, was made for a key    *)
(* that the application on its side had asked for.                         *)
(***************************************************************************)
CapsMade == {None} \cup {c \in Caps : c.key \in asked[c.role]}

Opens == [type : {"Open"}, channel : Nat, discovery_key : DKeys,
          capability : CapsMade]

Closes == [type : {"Close"}, channel : Nat]

Datas == [type : {"Data"}, channel : Nat,
          body : [chan : Nat, task : Tasks, left : Int]]

Signals == [type : {"LocalSignal"}, channel : Nat]

Messages == Opens \cup Closes \cup Datas

Frames == {Handshake} \cup [handshake : {FALSE}, messages : Seq(Messages)]

IoOK ==
    \A p \in Peers : write_queue[p] \in Seq(Messages) /\ wire[p] \in Seq(Frames)

\* A message frame is read only after the handshake.
HandshakeOK ==
    /\ cipher[Initiator] = "start" =>
          /\ ~Secured(Responder)
          /\ wire[Responder] = <<>>
    /\ ~Secured(Initiator) /\ Secured(Responder) =>
          wire[Initiator] # <<>> /\ Head(wire[Initiator]) = Handshake
    /\ ~Secured(Responder) =>
          /\ ~Secured(Initiator)
          /\ wire[Initiator] = <<>>
          /\ wire[Responder] \in {<<>>, <<Handshake>>}

\* What the queues of an endpoint may hold
Events(p) ==
    [type : {"Channel"}, channel : 1..Len(chans[p])]
    \cup [type : {"Close", "DiscoveryKey"}, discovery_key : DKeys]
    \cup {SignalEvent}

CommandSet(p) ==
    [op : {"open"}, key : asked[p]] \cup [op : {"close"}, discovery_key : DKeys]
    \cup [op : {"signal"}]

Single(S) == {b \in Seq(S) : Len(b) = 1}

Batches == Single(Closes) \cup Single(Signals) \cup Seq(Datas)

EventsOK ==
    \A p \in Peers : /\ queued_events[p] \in Seq(Events(p))
                     /\ held[p] \in 0..Len(chans[p])

CommandsOK ==
    \A p \in Peers : /\ commands[p] \in Seq(CommandSet(p))
                     /\ Len(commands[p]) <= ChannelCap

OutboundOK ==
    \A p \in Peers : /\ outbound[p] \in Seq(Batches)
                     /\ Len(outbound[p]) <= ChannelCap

\* A Channel method that awaits the send of Channel n's Close
Closing(p, n) ==
    [op |-> "close", flag |-> chans[p][n].closed,
     batch |-> <<CloseMsg(chans[p][n].local_id)>>]

\* The state a suspended Channel method may be in
TaskOK(p, w) ==
    \/ w = Idle
    \/ w \in [op : {"send"}, batch : Single(Signals) \cup Seq(Datas)]
    \/ \E n \in Cids(p) : w = Closing(p, n) \/ w = Storing(chans[p][n].closed)

TasksOK ==
    \A p \in Peers : /\ DOMAIN task[p] = Tasks
                     /\ \A t \in Tasks : TaskOK(p, task[p][t])

InboundOK ==
    \A p \in Peers : /\ inbound[p] \in Seq(Seq(Closes \cup Datas \cup Signals))
                     /\ Len(inbound[p]) = Len(chans[p])

TablesOK ==
    \A p \in Peers : TableInv(cm[p], closed[p], flags[p], chans[p])

\* A handle is attached locally if the application asked for its key, and
\* remotely by an Open that came after the handshake.
HandleOK(p, h) ==
    /\ h.local_state # None => h.local_state.key \in asked[p]
    /\ h.remote_state # None =>
          /\ Secured(p)
          /\ h.remote_state.remote_capability \in CapsMade

HandlesOK ==
    \A p \in Peers : \A dk \in DOMAIN cm[p].channels :
        HandleOK(p, cm[p].channels[dk])

\* The Close of a Channel that has this flag is on its way to the Protocol.
CloseUnderway(p, flag) ==
    \E i \in 1..Len(outbound[p]), d \in Cids(p) :
        /\ chans[p][d].closed = flag
        /\ outbound[p][i] = <<CloseMsg(chans[p][d].local_id)>>

\* A flag that is set, or that a close which has sent its message will set
Doomed(p, flag) == flag \in closed[p] \/ \E t \in Tasks : task[p][t] = Storing(flag)

\* A handle outlives that only until the Close arrives.
FlagsOK ==
    \A p \in Peers : \A dk \in DOMAIN cm[p].channels :
        Doomed(p, cm[p].channels[dk].closed) =>
            CloseUnderway(p, cm[p].channels[dk].closed)

IInv ==
    /\ Shape /\ AppOK /\ IoOK /\ HandshakeOK
    /\ EventsOK /\ CommandsOK /\ OutboundOK /\ TasksOK /\ InboundOK
    /\ TablesOK /\ HandlesOK /\ OpenedByBoth /\ FlagsOK

-----------------------------------------------------------------------------
(***************************************************************************)
(* What a step does to the table of an endpoint: one of the calls that     *)
(* module ChannelMapSpec describes, or nothing.                            *)
(***************************************************************************)
Table(p) == <<cm[p], closed[p], flags[p], chans[p]>>

\* A Channel is made from the handle of id in table m.
AcceptCall(p, m, id) ==
    /\ Verified(p, m, id)
    /\ cm'[p] = accept(m, id, Len(chans[p]) + 1)
    /\ chans'[p] = Append(chans[p], NewChannel(m, id, Len(chans[p]) + 1))

LocalCall(p, key) ==
    LET m == attach_local(cm[p], key, flags[p])
    IN  /\ flags'[p] = FlagCount(cm[p], flags[p], DiscoveryKey[key])
        /\ closed'[p] = closed[p]
        /\ \/ cm'[p] = m /\ chans'[p] = chans[p]
           \/ AcceptCall(p, m, alloc_local(cm[p]))

RemoteCall(p, dk, id, cap) ==
    LET m == attach_remote(cm[p], dk, id, cap, flags[p])
    IN  /\ Secured(p)
        /\ flags'[p] = FlagCount(cm[p], flags[p], dk)
        /\ closed'[p] = closed[p]
        /\ \/ cm'[p] = m /\ chans'[p] = chans[p]
           \/ /\ is_connected(m.channels[dk])
              /\ AcceptCall(p, m, LocalId(m.channels[dk]))

RemoveCall(p, dk) ==
    /\ has_channel(cm[p], dk)
    /\ cm'[p] = remove(cm[p], dk)
    /\ closed'[p] = closed[p] \cup DroppedFlags(cm[p], dk)
    /\ flags'[p] = flags[p] /\ chans'[p] = chans[p]

\* Channel::close of Channel n sets the flag.
CloseCall(p, n) ==
    /\ \E t \in Tasks : task[p][t] = Storing(chans[p][n].closed)
    /\ closed'[p] = closed[p] \cup {chans[p][n].closed}
    /\ cm'[p] = cm[p] /\ flags'[p] = flags[p] /\ chans'[p] = chans[p]

TableCall(p) ==
    \/ UNCHANGED Table(p)
    \/ \E key \in asked[p] : LocalCall(p, key)
    \/ \E dk \in DKeys, id \in Nat, cap \in CapsMade : RemoteCall(p, dk, id, cap)
    \/ \E dk \in DKeys : RemoveCall(p, dk)
    \/ \E n \in Cids(p) : CloseCall(p, n)

\* outbound_rx: the Close of a Channel is taken or another batch is, or the
\* batch of a Channel method arrives.
OutboundChange(p) ==
    \/ outbound' = outbound
    \/ PopClose(p)
    \/ Popped(p) /\ \A id : Head(outbound[p]) # <<CloseMsg(id)>>
    \/ \E b \in Batches : Sent(p, b)

\* A close of the Channel that has this flag sends its message.
CloseSent(p, flag) ==
    \E n \in Cids(p) : /\ chans[p][n].closed = flag
                       /\ Sent(p, <<CloseMsg(chans[p][n].local_id)>>)

\* A method goes on to set a flag only after that.
StoringComes(p) ==
    \A q \in Peers, t \in Tasks, flag \in Nat :
        task'[q][t] = Storing(flag) =>
            task[q][t] = Storing(flag) \/ (q = p /\ CloseSent(p, flag))

\* What is known of the Open and of the command that are handled next
HeadsOK(p) ==
    /\ HasMessage(p) /\ Message(p).type = "Open" =>
          /\ Secured(p)
          /\ Message(p).discovery_key \in DKeys /\ Message(p).channel \in Nat
          /\ Message(p).capability \in CapsMade
    /\ \A op : Commanded(p, op) =>
          /\ op = "open" => Head(commands[p]).key \in asked[p]
          /\ op = "close" => Head(commands[p]).discovery_key \in DKeys
=============================================================================
