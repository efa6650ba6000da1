---------------------------- MODULE ProtocolPipes ----------------------------
(***************************************************************************)
(* The Channels that two Protocol endpoints have for a key implement a     *)
(* pipe in either direction.  Keys are interchangeable, so any of them     *)
(* will do.                                                                *)
(***************************************************************************)
EXTENDS ProtocolProperties, SequencesExt

AnyKey == CHOOSE key \in Keys : TRUE

\* The contents of the messages for AnyKey among msgs, which p has sent
Bodies(p, msgs) ==
    LET ours(m) == m.type = "Data" /\ chans[p][m.body.chan].key = AnyKey
        data == SelectSeq(msgs, ours)
    IN  [i \in 1..Len(data) |-> data[i].body]

\* On their way to p: in frames, in the write queue and in the outbound queue
\* of the sender
InTransit(p) ==
    Bodies(Other(p),
           FlattenSeq([i \in 1..Len(wire[p]) |-> wire[p][i].messages])
               \o write_queue[Other(p)]
               \o FlattenSeq(outbound[Other(p)]))

\* What p's Channels for the key have received, one Channel after the other
Arrivals(p) ==
    Bodies(Other(p),
           FlattenSeq([n \in Cids(p) |->
               IF chans[p][n].key = AnyKey THEN inbound[p][n] ELSE <<>>]))

ToInitiator == INSTANCE ChannelPipe WITH
    pipe <- InTransit(Initiator),
    got <- Arrivals(Initiator),
    disturbed <- ~Undisturbed

ToResponder == INSTANCE ChannelPipe WITH
    pipe <- InTransit(Responder),
    got <- Arrivals(Responder),
    disturbed <- ~Undisturbed

(***************************************************************************)
(* The initiator's messages reach the responder's Channel like through a   *)
(* pipe: through a Channel, an outbound queue and a write queue that fill  *)
(* up independently, frames of any number of messages, and the table that  *)
(* finds the Channel again.                                                *)
(***************************************************************************)
PipeToResponder == ToResponder!Spec

\* And so do the responder's messages the other way.
PipeToInitiator == ToInitiator!Spec
=============================================================================
