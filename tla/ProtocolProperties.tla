------------------------- MODULE ProtocolProperties -------------------------
(***************************************************************************)
(* What a connection of two Protocols promises the applications at its     *)
(* ends, and what its handlers rely on.                                    *)
(***************************************************************************)
EXTENDS Protocol

\* The types of the state, as far as the handlers rely on them.
TypeOK ==
    \A p \in Peers :
        /\ ChannelMapType(cm[p])
        /\ closed[p] \subseteq 0..(flags[p] - 1)
        /\ chans[p] \in Seq(Channel) /\ held[p] \in 0..Len(chans[p])
        /\ Len(inbound[p]) = Len(chans[p])
        /\ \A i \in 1..Len(write_queue[p]) :
              write_queue[p][i].type \in {"Open", "Close", "Data"}
        /\ Len(commands[p]) <= ChannelCap /\ Len(outbound[p]) <= ChannelCap
        /\ cipher[p] \in {"start", "sent", "done"}
        /\ pc[p] \in {"idle", "gate", "inbound", "commands", "outbound"}

\* "This is the first event" (protocol.rs:46, of Event::Handshake), for an
\* initiator: poll_next does nothing else before it has the handshake hash.  A
\* responder is not held back and may return a LocalSignal before it.
InitiatorHandshakeFirst == first[Initiator] \in {None, "Handshake"}

(***************************************************************************)
(* accept_channel's `expect' never fires: a handle that knows its remote   *)
(* exists only after the handshake, on either side and in whatever order   *)
(* opens, handshake and polls happen.                                      *)
(***************************************************************************)
AcceptNeverPanics ==
    \A p \in Peers : \A dk \in DOMAIN cm[p].channels :
        cm[p].channels[dk].remote_state # None => Secured(p)

(***************************************************************************)
(* A message arrives on a Channel of the key it was sent for.              *)
(***************************************************************************)
NoCrossTalk ==
    \A p \in Peers : \A n \in Cids(p) : \A i \in 1..Len(inbound[p][n]) :
        LET m == inbound[p][n][i]
        IN  m.type = "Data" =>
                chans[Other(p)][m.body.chan].key = chans[p][n].key

(***************************************************************************)
(* The messages one task sends arrive on a Channel in the order they were  *)
(* sent and once, whichever queues they had to wait in.                    *)
(***************************************************************************)
InOrder ==
    \A p \in Peers : \A n \in Cids(p) :
        \A j \in 1..Len(inbound[p][n]) : \A i \in 1..(j - 1) :
            LET a == inbound[p][n][i]
                b == inbound[p][n][j]
            IN  /\ a.type = "Data" /\ b.type = "Data"
                /\ a.body.task = b.body.task
                => a.body.left > b.body.left

(***************************************************************************)
(* After the remote's Close a Channel receives nothing but what its own    *)
(* application sends it: on_close removes the handle, and neither a        *)
(* message that was late nor a reopen of the key leads to the old queue.   *)
(***************************************************************************)
NothingAfterClose ==
    \A p \in Peers : \A n \in Cids(p) :
        \A j \in 1..Len(inbound[p][n]) : \A i \in 1..(j - 1) :
            inbound[p][n][i].type = "Close" => inbound[p][n][j].type = "LocalSignal"

(***************************************************************************)
(* An error in the middle of a frame takes no message with it that could   *)
(* have been delivered: on_inbound_channel_messages gives up at the first  *)
(* message it cannot forward, and the others of the frame would have       *)
(* failed like it.                                                         *)
(***************************************************************************)
Undeliverable(p, m) ==
    /\ ~IsControl(m)
    /\ LET dk == get_remote(cm[p], m.channel)
       IN  dk # None /\ ~Receiving(p, cm[p].channels[dk])
LostTogether ==
    \A p \in Peers :
        HasMessage(p) /\ Undeliverable(p, Message(p)) =>
            \A i \in 1..Len(Head(wire[p]).messages) :
                Undeliverable(p, Head(wire[p]).messages[i])

\* The handle of dk has been accepted.
Established(p, dk) ==
    has_channel(cm[p], dk) /\ cm[p].channels[dk].inbound_tx # None

\* Nothing is queued, about to be queued or in flight.
Quiet ==
    \A p \in Peers :
        /\ commands[p] = <<>> /\ outbound[p] = <<>>
        /\ write_queue[p] = <<>> /\ wire[p] = <<>>
        /\ \A t \in Tasks : task[p][t].op \in {"idle", "store"}

(***************************************************************************)
(* When nothing is in flight the two tables agree on which channels are    *)
(* open, and each side reaches the other's handle by the id it uses.       *)
(***************************************************************************)
Agreement ==
    Quiet => \A p \in Peers, dk \in DKeys :
        Established(p, dk) =>
            /\ Established(Other(p), dk)
            /\ get_remote(cm[Other(p)], LocalId(cm[p].channels[dk])) = dk

(***************************************************************************)
(* As long as nobody closes a channel and there are not two to be mixed in *)
(* a frame (module Framing), everything that is sent arrives: nothing      *)
(* stays behind in a queue, whatever is full when it is sent.              *)
(***************************************************************************)
Undisturbed == \A p \in Peers : closed[p] = {} /\ Len(chans[p]) <= 1
Arrived(p) ==
    MapThenSumSet(LAMBDA n : Len(inbound[p][n]), Cids(p))
        = scenario.limits[Other(p)].send - left[Other(p)].send
Delivered == <>[](Undisturbed => \A p \in Peers : Arrived(p))

(***************************************************************************)
(* "Once the other side proofed that it also knows the `key`, the channel  *)
(* is emitted as Event::Channel" (protocol.rs:172): when both applications *)
(* have opened a key, both are given a Channel.                            *)
(***************************************************************************)
BothAsked(key) == \A p \in Peers : key \in asked[p]
BothHold(key) == \A p \in Peers : \E n \in 1..held[p] : chans[p][n].key = key
OpensEventually == \A key \in Keys : BothAsked(key) ~> BothHold(key)

(***************************************************************************)
(* The loop of examples/replication.rs opens every key both sides have: it *)
(* never waits for room among its own commands, which only its next poll   *)
(* would make, as long as CHANNEL_CAP is no less than the number of keys.  *)
(***************************************************************************)
DriverOpensAll == Driven => <>(\A key \in scenario.keys : BothHold(key))

(***************************************************************************)
(* Endpoints never refuse each other: no Open comes without its capability *)
(* ("Invalid remote channel capability") and no message comes for a        *)
(* channel that is attached but was not accepted ("Channel is not open").  *)
(***************************************************************************)
NoRefusal == \A p \in Peers : failed[p] \cap {"capability", "not_open"} = {}

(***************************************************************************)
(* A Channel whose flag is not set still has its handle, and a handle      *)
(* whose flag is set is about to be removed: the Close of a Channel that   *)
(* was made from it is on its way to the Protocol.                         *)
(***************************************************************************)
ClosedFlagAgrees ==
    \A p \in Peers : \A n \in Cids(p) :
        LET c == chans[p][n]
            live == /\ has_channel(cm[p], c.discovery_key)
                    /\ cm[p].channels[c.discovery_key].closed = c.closed
        IN  IF c.closed \in closed[p]
            THEN live => \E i \in 1..Len(outbound[p]), d \in Cids(p) :
                            /\ chans[p][d].closed = c.closed
                            /\ outbound[p][i] = <<CloseMsg(chans[p][d].local_id)>>
            ELSE live

(***************************************************************************)
(* Opening and closing a key over and over takes no more ids than it has   *)
(* channels: no slot is left to a channel that is gone or has another id.  *)
(* (An application that opens a key twice does lose a slot each time: see  *)
(* SlotsLostToReopening in module ChannelMapSpec.)                         *)
(***************************************************************************)
NoSlotLeft ==
    \A p \in Peers :
        /\ LostSlots(cm[p]) = {}
        /\ \A i \in 0..(Len(cm[p].remote_id) - 1) :
              LET dk == Entry(cm[p].remote_id, i)
              IN  dk # None => /\ has_channel(cm[p], dk)
                               /\ cm[p].channels[dk].remote_state # None
                               /\ RemoteId(cm[p].channels[dk]) = i
=============================================================================
