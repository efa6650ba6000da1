--------------------------- MODULE ProtocolSteps ----------------------------
(***************************************************************************)
(* What the proofs of every part of the invariant of a connection rest on, *)
(* and that a step keeps the queues between an application and its         *)
(* Protocol, the frames and the handshake as the invariant says.           *)
(***************************************************************************)
EXTENDS ProtocolInvariant, TLAPS

-----------------------------------------------------------------------------
(***************************************************************************)
(* Which variables a step touches.                                         *)
(***************************************************************************)
LEMMA ShapeStep ==
    ASSUME Shape, NEW p \in Peers, PollNext(p) \/ App(p)
    PROVE  Shape'
<1> USE DEF Shape, tableVars, ioVars, pollVars, keyVars, appVars
<1>1. CASE PollEntry(p)
  BY <1>1, Zenon DEF PollEntry, PollGate, PollHandshake, PollQueued, PollStart,
     YieldEvent
<1>2. CASE InboundRead(p)
  <2>1. CASE ReadHandshake(p) \/ ReadBadFrame(p) \/ ForwardFails(p) \/ InboundPending(p)
    BY <2>1, Zenon DEF ReadHandshake, ReadBadFrame, ForwardFails, InboundPending,
       Fail, FrameDropped
  <2>2. CASE OnOpenAnnounce(p) \/ OnOpenAccept(p) \/ OnOpenRefuse(p)
    BY <2>2, Zenon DEF OnOpenAnnounce, OnOpenAccept, OnOpenRefuse, Fail,
       FrameDropped, FlagsAfter, accept_channel, queue_event, Consumed
  <2>3. CASE OnClose(p) \/ ForwardInbound(p)
    BY <2>3, Zenon DEF OnClose, ForwardInbound, RemoveAndNotify, queue_event, Consumed
  <2> QED
    BY <1>2, <2>1, <2>2, <2>3, Zenon DEF InboundRead
<1>3. CASE Commands(p)
  BY <1>3, Zenon DEF Commands, CommandOpenFirst, CommandOpenAccept, CommandOpenRefuse,
              CommandClose, CommandSignal, CommandsPending, Commanded, Fail,
              FlagsAfter, accept_channel, EnqueueOpen, RemoveAndNotify, queue_event
<1>4. CASE OutboundWrite(p)
  BY <1>4, Zenon DEF OutboundWrite, WriteFrame, PopClose, PopSignal, PopData, PopEmpty,
              PollEnd, PoppedType, Popped, RemoveAndNotify, queue_event, YieldEvent
<1>5. CASE App(p)
  BY <1>5, ZenonT(30) DEF App, Open, DriverOpen, CloseByKey, SignalLocal, BeginSend, BeginEmpty,
              BeginSignal, BeginClose, Begin, Finish, StoreClosed, Sent, SendDirect,
              DropReceiver, Spend, SendCommand
<1> QED
  BY <1>1, <1>2, <1>3, <1>4, <1>5, Zenon DEF PollNext

-----------------------------------------------------------------------------
(***************************************************************************)
(* A step asks for no key but one of the scenario, spends no more than is  *)
(* left, and takes back no request.                                        *)
(***************************************************************************)
LEMMA AppStep ==
    ASSUME Shape, AppOK, NEW p \in Peers, PollNext(p) \/ App(p)
    PROVE  AppOK' /\ \A q \in Peers : asked[q] \subseteq asked'[q]
<1> USE DEF Shape, AppOK, tableVars, ioVars, pollVars, keyVars, appVars
<1>0. scenario.keys \subseteq Keys
  BY ProtocolAssumption, Zenon
<1>t. ASSUME YieldEvent(p)
      PROVE  \A q \in Peers : todo'[q] \subseteq Keys
  BY <1>0, <1>t, Zenon DEF YieldEvent
<1>1. CASE PollEntry(p)
  <2>1. CASE PollGate(p) \/ PollStart(p)
    BY <2>1, ZenonT(30) DEF PollGate, PollStart
  <2>2. CASE PollHandshake(p)
    BY <1>0, <2>2, Zenon DEF PollHandshake
  <2>3. CASE PollQueued(p)
    BY <1>t, <2>3, Zenon DEF PollQueued
  <2> QED
    BY <1>1, <2>1, <2>2, <2>3, Zenon DEF PollEntry
<1>2. CASE InboundRead(p)
  BY <1>2, ZenonT(30) DEF InboundRead, ReadHandshake, ReadBadFrame, ForwardFails, InboundPending,
              Fail, OnOpenAnnounce, OnOpenAccept, OnOpenRefuse, OnClose,
              ForwardInbound
<1>3. CASE Commands(p)
  <2>1. CASE CommandOpenFirst(p) \/ CommandOpenAccept(p) \/ CommandOpenRefuse(p)
    BY <2>1, ZenonT(30) DEF CommandOpenFirst, CommandOpenAccept, CommandOpenRefuse, Fail
  <2>2. CASE CommandClose(p) \/ CommandSignal(p) \/ CommandsPending(p)
    BY <2>2, ZenonT(30) DEF CommandClose, CommandSignal, CommandsPending, Fail
  <2> QED
    BY <1>3, <2>1, <2>2, Zenon DEF Commands
<1>4. CASE OutboundWrite(p)
  <2>1. CASE PollEnd(p)
    <3>1. /\ pc' = [pc EXCEPT ![p] = "idle"]
          /\ UNCHANGED <<scenario, asked, left, cipher>>
      BY ONLY <2>1, Zenon DEF PollEnd, ioVars
    <3>2. \A q \in Peers : todo'[q] \subseteq Keys
      <4>1. CASE queued_events[p] # <<>>
        BY ONLY <1>t, <2>1, <4>1, Zenon DEF PollEnd
      <4>2. CASE queued_events[p] = <<>>
        BY <2>1, <4>2, Zenon DEF PollEnd
      <4> QED
        BY <4>1, <4>2, Zenon
    <3> QED
      BY <3>1, <3>2, Zenon
  <2> QED
    BY <1>4, <2>1, Zenon DEF OutboundWrite, WriteFrame, PopClose, PopSignal, PopData,
                      PopEmpty
<1>5. CASE App(p)
  <2>1. ASSUME NEW op \in AppOps, NEW n \in Nat, Spend(p, op, n)
        PROVE  \A q \in Peers : left'[q] \in [AppOps -> Nat]
    BY <2>1 DEF Spend
  <2>2. ASSUME NEW key \in scenario.keys, Open(p, key)
        PROVE  AppOK' /\ \A q \in Peers : asked[q] \subseteq asked'[q]
    BY <1>0, <2>1, <2>2 DEF Open, AppOps
  <2>3. ASSUME NEW key \in todo[p], DriverOpen(p, key)
        PROVE  AppOK' /\ \A q \in Peers : asked[q] \subseteq asked'[q]
    BY <2>3 DEF DriverOpen
  <2>4. ASSUME NEW dk, CloseByKey(p, dk)
        PROVE  AppOK' /\ \A q \in Peers : asked[q] \subseteq asked'[q]
    BY <2>1, <2>4, Zenon DEF CloseByKey, AppOps
  <2>5. CASE SignalLocal(p)
    BY <2>1, <2>5, Zenon DEF SignalLocal, AppOps
  <2>6. ASSUME NEW t \in Tasks, NEW n, NEW size \in 1..MaxBatch,
               \/ BeginSend(p, t, n, size) \/ BeginEmpty(p, t, n)
               \/ BeginSignal(p, t, n) \/ BeginClose(p, t, n)
        PROVE  AppOK' /\ \A q \in Peers : asked[q] \subseteq asked'[q]
    <3>1. /\ \E op \in AppOps, k \in Nat : Spend(p, op, k)
          /\ UNCHANGED <<scenario, asked, todo, cipher, pc>>
      <4>1. 1 \in Nat /\ size \in Nat /\ {"send", "empty", "signal", "close"} \subseteq AppOps
        BY ONLY ProtocolAssumption, size \in 1..MaxBatch DEF AppOps
      <4> QED
        BY ONLY <2>6, <4>1, Zenon DEF BeginSend, BeginEmpty, BeginSignal,
                BeginClose, Begin, ioVars, pollVars, keyVars
    <3> QED
      BY <2>1, <3>1, Zenon
  <2>7. ASSUME NEW t \in Tasks, Finish(p, t) \/ StoreClosed(p, t)
        PROVE  AppOK' /\ \A q \in Peers : asked[q] \subseteq asked'[q]
    BY <2>7, Zenon DEF Finish, StoreClosed
  <2>8. ASSUME NEW n, SendDirect(p, n) \/ DropReceiver(p, n)
        PROVE  AppOK' /\ \A q \in Peers : asked[q] \subseteq asked'[q]
    BY <2>1, <2>8, ZenonT(30) DEF SendDirect, DropReceiver, AppOps
  <2>9. 1 \in 1..MaxBatch
    BY ONLY ProtocolAssumption
  <2> QED
    BY <1>5, <2>2, <2>3, <2>4, <2>5, <2>6, <2>7, <2>8, <2>9, Zenon DEF App
<1> QED
  BY <1>1, <1>2, <1>3, <1>4, <1>5, Zenon DEF PollNext

\* The message at hand came over a secured connection.
LEMMA MessageAtHand ==
    ASSUME IoOK, HandshakeOK, NEW p \in Peers, HasMessage(p)
    PROVE  /\ Message(p) \in Messages /\ Secured(p)
           /\ Head(wire[p]).messages \in Seq(Messages)
           /\ ~Head(wire[p]).handshake
<1>1. wire[p] \in Seq(Frames) /\ wire[p] # <<>> /\ Head(wire[p]).messages # <<>>
  BY Zenon DEF IoOK, HasMessage, Reading
<1>2. Head(wire[p]) \in Frames
  BY <1>1
<1>3. Head(wire[p]) # Handshake
  BY <1>1 DEF Handshake
<1>4. /\ Head(wire[p]).messages \in Seq(Messages) /\ ~Head(wire[p]).handshake
  BY <1>2, <1>3, Zenon DEF Frames
<1>5. Message(p) \in Messages
  BY <1>1, <1>4 DEF Message
<1>6. Secured(p)
  <2>1. p = Initiator => Secured(p)
    BY <1>1, <1>3, Zenon DEF HandshakeOK
  <2>2. p = Responder => Secured(p)
    BY <1>1, <1>3, Head(<<Handshake>>) = Handshake, Zenon DEF HandshakeOK
  <2> QED
    BY <2>1, <2>2, Zenon DEF Peers
<1> QED
  BY <1>4, <1>5, <1>6, Zenon

\* What an Open carries.
LEMMA OpenAtHand ==
    ASSUME IoOK, HandshakeOK, NEW p \in Peers, HasMessage(p),
           Message(p).type = "Open"
    PROVE  /\ Secured(p)
           /\ Message(p).discovery_key \in DKeys /\ Message(p).channel \in Nat
           /\ Message(p).capability \in CapsMade
<1>1. Message(p) \in Messages /\ Secured(p)
  BY MessageAtHand, Zenon
<1>2. Message(p) \in Opens
  BY <1>1, Zenon DEF Messages, Closes, Datas
<1> QED
  BY <1>1, <1>2, Zenon DEF Opens

\* The command that is handled next.
LEMMA CommandAtHand ==
    ASSUME CommandsOK, NEW p \in Peers, NEW op, Commanded(p, op)
    PROVE  /\ Head(commands[p]) \in CommandSet(p) /\ Head(commands[p]).op = op
           /\ op = "open" => Head(commands[p]).key \in asked[p]
           /\ op = "close" => Head(commands[p]).discovery_key \in DKeys
<1>1. Head(commands[p]) \in CommandSet(p) /\ Head(commands[p]).op = op
  BY DEF CommandsOK, Commanded
<1> QED
  BY <1>1, Zenon DEF CommandSet

\* A change of the variables at p does not concern the other endpoint.
LEMMA OtherPeer ==
    ASSUME NEW p \in Peers
    PROVE  Other(p) \in Peers /\ Other(p) # p /\ Peers = {p, Other(p)}
BY Zenon DEF Peers, Other, Initiator, Responder

\* Channels are added at the end and stay.
LEMMA ChannelsGrow ==
    ASSUME TablesOK, NEW p \in Peers, TableCall(p), UNCHANGED Table(Other(p)),
           NEW q \in Peers
    PROVE  /\ chans[q] \in Seq(Channel)
           /\ Len(chans'[q]) \in {Len(chans[q]), Len(chans[q]) + 1}
           /\ \A n \in Cids(q) : chans'[q][n] = chans[q][n]
           /\ Len(chans'[q]) = Len(chans[q]) => chans'[q] = chans[q]
<1>1. chans[q] \in Seq(Channel)
  BY Zenon DEF TablesOK, TableInv
<1>2. chans'[q] = chans[q] \/ \E c : chans'[q] = Append(chans[q], c)
  <2>1. CASE q = p
    BY <2>1, ZenonT(30) DEF TableCall, Table, LocalCall, RemoteCall, RemoveCall, CloseCall,
                AcceptCall
  <2>2. CASE q = Other(p)
    BY <2>2, Zenon DEF Table
  <2> QED
    BY <2>1, <2>2, OtherPeer, Zenon
<1>3. ASSUME NEW c, chans'[q] = Append(chans[q], c)
      PROVE  /\ Len(chans'[q]) = Len(chans[q]) + 1
             /\ \A n \in Cids(q) : chans'[q][n] = chans[q][n]
  BY <1>1, <1>3 DEF Cids
<1>4. Len(chans[q]) \in Nat
  BY <1>1
<1>5. CASE chans'[q] = chans[q]
  BY <1>1, <1>5, Zenon
<1>6. CASE \E c : chans'[q] = Append(chans[q], c)
  <2>1. /\ Len(chans'[q]) = Len(chans[q]) + 1
        /\ \A n \in Cids(q) : chans'[q][n] = chans[q][n]
    BY <1>3, <1>6, Zenon
  <2>2. Len(chans'[q]) # Len(chans[q])
    BY <1>4, <2>1
  <2> QED
    BY <1>1, <2>1, <2>2, Zenon
<1> QED
  BY <1>2, <1>5, <1>6, Zenon

\* A sequence over a set is one over a larger set.
LEMMA SeqSubset ==
    ASSUME NEW S, NEW T, S \subseteq T, NEW s \in Seq(S)
    PROVE  s \in Seq(T)
OBVIOUS

\* What a Channel method is about to send.
LEMMA BatchTypes ==
    ASSUME AppOK, TablesOK, EventsOK, NEW p \in Peers, NEW n \in 1..held[p]
    PROVE  /\ n \in Cids(p) /\ n \in Nat
           /\ SignalMsg(chans[p][n].local_id) \in Signals
           /\ CloseMsg(chans[p][n].local_id) \in Closes
           /\ \A t \in Tasks, x \in Int :
                 DataMsg(chans[p][n].local_id, [chan |-> n, task |-> t, left |-> x])
                     \in Datas
<1>1. n \in 1..Len(chans[p])
  BY DEF EventsOK, TablesOK, TableInv
<1>2. chans[p][n] \in Channel
  BY <1>1 DEF TablesOK, TableInv
<1>3. chans[p][n].local_id \in Nat /\ n \in Nat
  BY <1>1, <1>2 DEF Channel
<1> QED
  BY <1>1, <1>3, Zenon DEF Cids, SignalMsg, Signals, CloseMsg, Closes, DataMsg,
     Datas

-----------------------------------------------------------------------------
(***************************************************************************)
(* Queues.  An element is taken from the front or put at the back of one   *)
(* endpoint's queue at a time.                                             *)
(***************************************************************************)
\* q is s, what Tail leaves of it, or s with one more element of S.
QueueStep(s, q, S) ==
    \/ q = s
    \/ s # <<>> /\ q = Tail(s)
    \/ \E x \in S : q = Append(s, x)

\* A step of a queue leaves it a queue of elements of the larger set.
LEMMA QueueStepType ==
    ASSUME NEW S, NEW T, S \subseteq T, NEW s \in Seq(S), NEW q, QueueStep(s, q, T)
    PROVE  q \in Seq(T)
<1>1. s \in Seq(T)
  BY SeqSubset, Zenon
<1>2. s # <<>> => Tail(s) \in Seq(T)
  BY <1>1
<1> QED
  BY <1>1, <1>2 DEF QueueStep

\* The commands an application sends are its own, and for keys it asked for.
LEMMA CommandsStep ==
    ASSUME Shape, AppOK, CommandsOK, NEW p \in Peers, PollNext(p) \/ App(p)
    PROVE  CommandsOK'
<1>0. \A q \in Peers : asked[q] \subseteq asked'[q]
  BY AppStep, Zenon
<1> DEFINE Change ==
       \/ commands' = commands
       \/ /\ commands[p] # <<>>
          /\ commands' = [commands EXCEPT ![p] = Tail(@)]
       \/ \E c \in CommandSet(p)' : SendCommand(p, c)
<1>1. PollEntry(p) \/ InboundRead(p) \/ OutboundWrite(p) => commands' = commands
  BY Zenon DEF PollEntry, PollGate, PollHandshake, PollQueued, PollStart,
         InboundRead, ReadHandshake, ReadBadFrame, OnOpenAnnounce,
         OnOpenAccept, OnOpenRefuse, OnClose, ForwardInbound, ForwardFails,
         InboundPending, OutboundWrite, WriteFrame, PopClose, PopSignal,
         PopData, PopEmpty, PollEnd
<1>2. Change
  <2>1. CASE Commands(p)
    BY <2>1, Zenon DEF Commands, CommandOpenFirst, CommandOpenAccept, CommandOpenRefuse,
                CommandClose, CommandSignal, CommandsPending, Commanded
  <2>2. CASE App(p)
    <3>1. ASSUME NEW key \in scenario.keys, Open(p, key)
          PROVE  Change
      <4>1. key \in asked'[p] /\ SendCommand(p, [op |-> "open", key |-> key])
        BY <3>1, Zenon DEF Open, Shape
      <4> QED
        BY <4>1, Zenon DEF CommandSet
    <3>2. ASSUME NEW key \in todo[p], DriverOpen(p, key)
          PROVE  Change
      <4>1. key \in asked'[p] /\ SendCommand(p, [op |-> "open", key |-> key])
        BY <3>2, Zenon DEF DriverOpen, Shape
      <4> QED
        BY <4>1, Zenon DEF CommandSet
    <3>3. ASSUME NEW key \in scenario.keys, CloseByKey(p, DiscoveryKey[key])
          PROVE  Change
      <4>1. DiscoveryKey[key] \in DKeys
        BY DiscoveryKeyAssumption, ProtocolAssumption, Zenon DEF AppOK
      <4> QED
        BY <3>3, <4>1, Zenon DEF CommandSet, CloseByKey
    <3>4. CASE SignalLocal(p)
      BY <3>4, Zenon DEF SignalLocal, CommandSet
    <3>5. ASSUME NEW t, NEW n, NEW size,
                 \/ BeginSend(p, t, n, size) \/ BeginEmpty(p, t, n)
                 \/ BeginSignal(p, t, n) \/ BeginClose(p, t, n)
                 \/ Finish(p, t) \/ StoreClosed(p, t)
                 \/ SendDirect(p, n) \/ DropReceiver(p, n)
          PROVE  commands' = commands
      BY <3>5, Zenon DEF BeginSend, BeginEmpty, BeginSignal, BeginClose, Begin,
         Finish, StoreClosed, SendDirect, DropReceiver
    <3> HIDE DEF Change
    <3> QED
      BY <2>2, <3>1, <3>2, <3>3, <3>4, <3>5, Zenon DEF App, Change
  <2> QED
    BY <1>1, <2>1, <2>2, Zenon DEF PollNext
<1>3. ASSUME NEW q \in Peers
      PROVE  /\ QueueStep(commands[q], commands'[q], CommandSet(q)')
             /\ Len(commands'[q]) <= ChannelCap
  <2>1. commands[q] \in Seq(CommandSet(q)) /\ Len(commands[q]) <= ChannelCap
    BY Zenon DEF CommandsOK
  <2>2. CASE commands' = commands
    BY <2>1, <2>2, Zenon DEF QueueStep
  <2>3. CASE commands[p] # <<>> /\ commands' = [commands EXCEPT ![p] = Tail(@)]
    <3>1. CASE q = p
      BY <2>1, <2>3, <3>1, ProtocolAssumption DEF QueueStep, Shape
    <3>2. CASE q # p
      BY <2>1, <2>3, <3>2, Zenon DEF QueueStep, Shape
    <3> QED
      BY <3>1, <3>2, Zenon
  <2>4. ASSUME NEW c \in CommandSet(p)', SendCommand(p, c)
        PROVE  /\ QueueStep(commands[q], commands'[q], CommandSet(q)')
               /\ Len(commands'[q]) <= ChannelCap
    <3>1. CASE q = p
      BY <2>1, <2>4, <3>1, ProtocolAssumption DEF SendCommand, QueueStep, Shape
    <3>2. CASE q # p
      BY <2>1, <2>4, <3>2, Zenon DEF SendCommand, QueueStep, Shape
    <3> QED
      BY <3>1, <3>2, Zenon
  <2> QED
    BY <1>2, <2>2, <2>3, <2>4, Zenon
<1>4. \A q \in Peers : CommandSet(q) \subseteq CommandSet(q)'
  BY <1>0, Zenon DEF CommandSet
<1> QED
  BY <1>3, <1>4, QueueStepType, Zenon DEF CommandsOK

\* The state of a suspended method tells its op.
LEMMA TaskOps ==
    ASSUME NEW p, NEW w, TaskOK(p, w)
    PROVE  /\ w.op = "send" =>
                 w \in [op : {"send"}, batch : Single(Signals) \cup Seq(Datas)]
           /\ w.op = "close" => \E n \in Cids(p) : w = Closing(p, n)
BY DEF TaskOK, Idle, Closing, Storing

\* A Channel method starts with a batch of one kind and ends idle.
LEMMA TaskChange ==
    ASSUME Shape, AppOK, TablesOK, EventsOK, TasksOK, NEW p \in Peers,
           PollNext(p) \/ App(p)
    PROVE  \/ task' = task
           \/ \E t \in Tasks : \E w : TaskOK(p, w) /\ task' = [task EXCEPT ![p][t] = w]
<1> DEFINE Change ==
       \/ task' = task
       \/ \E t \in Tasks : \E w : TaskOK(p, w) /\ task' = [task EXCEPT ![p][t] = w]
<1> SUFFICES Change
  BY Zenon
<1>1. PollEntry(p) \/ InboundRead(p) \/ Commands(p) \/ OutboundWrite(p) => task' = task
  BY Zenon DEF PollEntry, PollGate, PollHandshake, PollQueued, PollStart,
         InboundRead, ReadHandshake, ReadBadFrame, OnOpenAnnounce, OnOpenAccept,
         OnOpenRefuse, OnClose, ForwardInbound, ForwardFails, InboundPending,
         Commands, CommandOpenFirst, CommandOpenAccept, CommandOpenRefuse,
         CommandClose, CommandSignal, CommandsPending, OutboundWrite, WriteFrame,
         PopClose, PopSignal, PopData, PopEmpty, PollEnd, appVars
<1>2. ASSUME NEW key, Open(p, key) \/ DriverOpen(p, key)
      PROVE  Change
  BY <1>2, Zenon DEF Open, DriverOpen
<1>3. ASSUME NEW n, SendDirect(p, n) \/ DropReceiver(p, n) \/ CloseByKey(p, n)
                    \/ SignalLocal(p)
      PROVE  Change
  BY <1>3, Zenon DEF SendDirect, DropReceiver, CloseByKey, SignalLocal
<1>4. ASSUME NEW t \in Tasks, Finish(p, t) \/ StoreClosed(p, t)
      PROVE  Change
  <2>1. TaskOK(p, task[p][t])
    BY Zenon DEF TasksOK
  <2>2. CASE Finish(p, t) /\ task[p][t].op = "close"
    <3>1. PICK n \in Cids(p) : task[p][t] = Closing(p, n)
      BY <2>1, <2>2, TaskOps, Zenon
    <3>2. task[p][t].flag = chans[p][n].closed
      BY ONLY <3>1 DEF Closing
    <3>3. task' = [task EXCEPT ![p][t] = Storing(chans[p][n].closed)]
      BY <2>2, <3>2, Zenon DEF Finish
    <3> QED
      BY <3>3, Zenon DEF TaskOK
  <2>3. CASE Finish(p, t) /\ task[p][t].op # "close"
    BY <2>3, Zenon DEF Finish, TaskOK
  <2>4. CASE StoreClosed(p, t)
    BY <2>4, Zenon DEF StoreClosed, TaskOK
  <2> QED
    BY <1>4, <2>2, <2>3, <2>4, Zenon
<1>5. ASSUME NEW t \in Tasks, NEW n \in 1..held[p], NEW size \in 1..MaxBatch,
             BeginSend(p, t, n, size)
      PROVE  Change
  <2> DEFINE b == [i \in 1..size |->
                      DataMsg(chans[p][n].local_id,
                              [chan |-> n, task |-> t, left |-> left[p].send - i])]
             w == [op |-> "send", batch |-> b]
  <2>1. size \in Nat /\ left[p].send \in Nat
    BY ProtocolAssumption DEF AppOK, AppOps
  <2>2. \A i \in 1..size : left[p].send - i \in Int
    BY <2>1
  <2>3. \A i \in 1..size : b[i] \in Datas
    BY <2>2, BatchTypes, Zenon
  <2>4. b \in Seq(Datas)
    BY <2>1, <2>3
  <2>5. task' = [task EXCEPT ![p][t] = w]
    BY <1>5, Zenon DEF BeginSend, Begin
  <2> HIDE DEF b
  <2>6. TaskOK(p, w)
    BY <2>4, Zenon DEF TaskOK
  <2> QED
    BY <2>5, <2>6, Zenon
<1>6. ASSUME NEW t \in Tasks, NEW n \in 1..held[p],
             BeginEmpty(p, t, n) \/ BeginSignal(p, t, n)
      PROVE  Change
  <2>1. PICK b \in {<<>>, <<SignalMsg(chans[p][n].local_id)>>} :
           task' = [task EXCEPT ![p][t] = [op |-> "send", batch |-> b]]
    BY <1>6, Zenon DEF BeginEmpty, BeginSignal, Begin
  <2>2. b \in Single(Signals) \cup Seq(Datas)
    <3>1. <<>> \in Seq(Datas)
      OBVIOUS
    <3>2. SignalMsg(chans[p][n].local_id) \in Signals
      BY BatchTypes, Zenon
    <3>3. <<SignalMsg(chans[p][n].local_id)>> \in Single(Signals)
      BY <3>2 DEF Single
    <3> QED
      BY <3>1, <3>3, Zenon
  <2>3. TaskOK(p, [op |-> "send", batch |-> b])
    BY <2>2, Zenon DEF TaskOK
  <2> QED
    BY <2>1, <2>3, Zenon
<1>7. ASSUME NEW t \in Tasks, NEW n \in 1..held[p], BeginClose(p, t, n)
      PROVE  Change
  <2>1. task' = [task EXCEPT ![p][t] = Closing(p, n)]
    BY <1>7, Zenon DEF BeginClose, Begin, Closing
  <2>2. TaskOK(p, Closing(p, n))
    BY BatchTypes, Zenon DEF TaskOK
  <2> QED
    BY <2>1, <2>2, Zenon
<1> HIDE DEF Change
<1>8. CASE App(p)
  BY <1>2, <1>3, <1>4, <1>5, <1>6, <1>7, <1>8, Zenon DEF App
<1> QED
  BY <1>1, <1>8, Zenon DEF PollNext, Change

\* A close goes on to set the flag when its message is in outbound_rx.
LEMMA StoringStep ==
    ASSUME Shape, TasksOK, NEW p \in Peers, PollNext(p) \/ App(p)
    PROVE  StoringComes(p)
<1>0. \A q \in Peers : DOMAIN task[q] = Tasks
  BY Zenon DEF TasksOK
<1>1. ASSUME task' = task
      PROVE  StoringComes(p)
  BY <1>1, Zenon DEF StoringComes
<1>2. ASSUME NEW t \in Tasks, NEW w, task' = [task EXCEPT ![p][t] = w],
             \A flag \in Nat : w = Storing(flag) => CloseSent(p, flag)
      PROVE  StoringComes(p)
  <2> SUFFICES ASSUME NEW q \in Peers, NEW u \in Tasks, NEW flag \in Nat,
                      task'[q][u] = Storing(flag)
               PROVE  task[q][u] = Storing(flag) \/ (q = p /\ CloseSent(p, flag))
    BY Zenon DEF StoringComes
  <2>1. task'[q][u] = task[q][u] \/ (q = p /\ task'[q][u] = w)
    BY <1>0, <1>2 DEF Shape
  <2> QED
    BY <1>2, <2>1, Zenon
<1>3. ASSUME NEW t \in Tasks, NEW w, task' = [task EXCEPT ![p][t] = w],
             w.op \in {"idle", "send", "close"}
      PROVE  StoringComes(p)
  <2>1. \A flag : w # Storing(flag)
    BY ONLY <1>3 DEF Storing
  <2> QED
    BY <1>2, <1>3, <2>1, Zenon
<1>4. ASSUME NEW t \in Tasks, Finish(p, t)
      PROVE  StoringComes(p)
  <2> DEFINE w == task[p][t]
  <2>1. CASE w.op = "close"
    <3>1. TaskOK(p, w)
      BY Zenon DEF TasksOK
    <3>2. PICK n \in Cids(p) : w = Closing(p, n)
      BY <2>1, <3>1, TaskOps, Zenon
    <3>3. w.flag = chans[p][n].closed /\ w.batch = <<CloseMsg(chans[p][n].local_id)>>
      BY ONLY <3>2 DEF Closing
    <3>4. \A flag : Storing(w.flag) = Storing(flag) => flag = w.flag
      BY DEF Storing
    <3>5. task' = [task EXCEPT ![p][t] = Storing(w.flag)] /\ Sent(p, w.batch)
      BY <1>4, <2>1, Zenon DEF Finish
    <3>6. \A flag \in Nat : Storing(w.flag) = Storing(flag) => CloseSent(p, flag)
      BY <3>3, <3>4, <3>5, Zenon DEF CloseSent
    <3> QED
      BY <1>2, <3>5, <3>6, Zenon
  <2>2. CASE w.op # "close"
    <3>1. task' = [task EXCEPT ![p][t] = Idle] /\ Idle.op = "idle"
      BY <1>4, <2>2, Zenon DEF Finish, Idle
    <3> QED
      BY <1>3, <3>1, Zenon
  <2> QED
    BY <2>1, <2>2, Zenon
<1>5. ASSUME NEW t \in Tasks, StoreClosed(p, t)
      PROVE  StoringComes(p)
  <2>1. task' = [task EXCEPT ![p][t] = Idle] /\ Idle.op = "idle"
    BY <1>5, Zenon DEF StoreClosed, Idle
  <2> QED
    BY <1>3, <2>1, Zenon
<1>6. ASSUME NEW t \in Tasks, NEW n, NEW size,
             \/ BeginSend(p, t, n, size) \/ BeginEmpty(p, t, n)
             \/ BeginSignal(p, t, n) \/ BeginClose(p, t, n)
      PROVE  StoringComes(p)
  <2>1. ASSUME NEW b, Begin(p, t, n, [op |-> "send", batch |-> b])
        PROVE  StoringComes(p)
    BY <1>3, <2>1, Zenon DEF Begin
  <2>2. CASE BeginSend(p, t, n, size)
    BY ONLY <2>1, <2>2, Zenon DEF BeginSend
  <2>3. CASE BeginEmpty(p, t, n) \/ BeginSignal(p, t, n)
    BY ONLY <2>1, <2>3, Zenon DEF BeginEmpty, BeginSignal
  <2>4. CASE BeginClose(p, t, n)
    BY <1>3, <2>4, Zenon DEF BeginClose, Begin
  <2> QED
    BY <1>6, <2>2, <2>3, <2>4, Zenon
<1>7. CASE App(p)
  <2>1. ASSUME NEW n, \/ Open(p, n) \/ DriverOpen(p, n) \/ CloseByKey(p, n)
                      \/ SignalLocal(p) \/ SendDirect(p, n) \/ DropReceiver(p, n)
        PROVE  task' = task
    BY <2>1, Zenon DEF Open, DriverOpen, CloseByKey, SignalLocal, SendDirect,
       DropReceiver
  <2> QED
    BY <1>1, <1>4, <1>5, <1>6, <1>7, <2>1, Zenon DEF App
<1>8. PollEntry(p) \/ InboundRead(p) \/ Commands(p) \/ OutboundWrite(p) => task' = task
  BY Zenon DEF PollEntry, PollGate, PollHandshake, PollQueued, PollStart,
         InboundRead, ReadHandshake, ReadBadFrame, OnOpenAnnounce, OnOpenAccept,
         OnOpenRefuse, OnClose, ForwardInbound, ForwardFails, InboundPending,
         Commands, CommandOpenFirst, CommandOpenAccept, CommandOpenRefuse,
         CommandClose, CommandSignal, CommandsPending, OutboundWrite, WriteFrame,
         PopClose, PopSignal, PopData, PopEmpty, PollEnd, appVars
<1> QED
  BY <1>1, <1>7, <1>8, Zenon DEF PollNext

\* A step of either endpoint keeps what suspended methods will send to the
\* Channels they were called on (TasksOK).
LEMMA TasksStep ==
    ASSUME Shape, AppOK, TablesOK, EventsOK, TasksOK, NEW p \in Peers,
           PollNext(p) \/ App(p), TableCall(p), UNCHANGED Table(Other(p))
    PROVE  TasksOK'
<1>1. \A q \in Peers : /\ Cids(q) \subseteq Cids(q)'
                       /\ \A n \in Cids(q) : chans'[q][n] = chans[q][n]
  <2> SUFFICES ASSUME NEW q \in Peers
               PROVE  /\ Cids(q) \subseteq Cids(q)'
                      /\ \A n \in Cids(q) : chans'[q][n] = chans[q][n]
    BY Zenon
  <2>1. /\ Len(chans'[q]) \in {Len(chans[q]), Len(chans[q]) + 1}
        /\ chans[q] \in Seq(Channel)
        /\ \A n \in Cids(q) : chans'[q][n] = chans[q][n]
    BY ChannelsGrow, Zenon
  <2>2. Len(chans[q]) \in Nat
    BY ONLY <2>1
  <2>3. 1..Len(chans[q]) \subseteq 1..Len(chans'[q])
    BY ONLY <2>1, <2>2
  <2> QED
    BY <2>1, <2>3, Zenon DEF Cids
<1>2. ASSUME NEW q \in Peers, NEW t \in Tasks
      PROVE  TaskOK(q, task'[q][t])
  <2>1. TaskOK(q, task[q][t]) /\ DOMAIN task[q] = Tasks
    BY Zenon DEF TasksOK
  <2> QED
    BY <2>1, TaskChange DEF Shape
<1>3. \A q \in Peers : DOMAIN task'[q] = Tasks
  <2>1. \A q \in Peers : DOMAIN task[q] = Tasks
    BY Zenon DEF TasksOK
  <2> QED
    BY <2>1, TaskChange DEF Shape
<1>4. \A q \in Peers : \A n \in Cids(q) : Closing(q, n)' = Closing(q, n)
  BY <1>1, Zenon DEF Closing
<1> QED
  <2> SUFFICES ASSUME NEW q \in Peers, NEW t \in Tasks
               PROVE  TaskOK(q, task[q][t])'
    BY <1>3, Zenon DEF TasksOK
  <2>1. TaskOK(q, task'[q][t])
    BY <1>2, Zenon
  <2>2. \A n \in Cids(q) : /\ n \in Cids(q)' /\ Closing(q, n)' = Closing(q, n)
                           /\ chans'[q][n] = chans[q][n]
    BY <1>1, <1>4, Zenon
  <2> QED
    BY ONLY <2>1, <2>2, Zenon DEF TaskOK

\* What a Channel method is about to send
LEMMA TaskBatches ==
    ASSUME TablesOK, TasksOK, NEW p \in Peers, NEW t \in Tasks, task[p][t] # Idle
    PROVE  task[p][t].batch \in Batches
<1>1. TaskOK(p, task[p][t])
  BY Zenon DEF TasksOK
<1>2. CASE task[p][t] \in [op : {"send"}, batch : Single(Signals) \cup Seq(Datas)]
  BY <1>2, Zenon DEF Batches
<1>3. ASSUME NEW n \in Cids(p), task[p][t] = Closing(p, n)
      PROVE  task[p][t].batch \in Batches
  <2>1. chans[p] \in Seq(Channel)
    BY Zenon DEF TablesOK, TableInv
  <2>2. chans[p][n] \in Channel
    BY ONLY <2>1, n \in Cids(p) DEF Cids
  <2>3. CloseMsg(chans[p][n].local_id) \in Closes
    BY <2>2, Zenon DEF Channel, CloseMsg, Closes
  <2>4. <<CloseMsg(chans[p][n].local_id)>> \in Single(Closes)
    BY <2>3 DEF Single
  <2> QED
    BY <1>3, <2>4 DEF Closing, Batches
<1>4. ASSUME NEW f, task[p][t] = Storing(f)
      PROVE  task[p][t].batch \in Batches
  <2>1. <<>> \in Seq(Datas) /\ task[p][t].batch = <<>>
    BY ONLY <1>4 DEF Storing
  <2> QED
    BY <2>1, Zenon DEF Batches
<1> QED
  BY <1>1, <1>2, <1>3, <1>4, Zenon DEF TaskOK

\* What reaches outbound_rx is the batch of a Channel method.
LEMMA OutboundStep ==
    ASSUME Shape, AppOK, TablesOK, EventsOK, TasksOK, OutboundOK, NEW p \in Peers,
           PollNext(p) \/ App(p)
    PROVE  OutboundChange(p) /\ OutboundOK'
<1>1. OutboundChange(p)
  <2>1. PollEntry(p) \/ InboundRead(p) \/ Commands(p) => outbound' = outbound
    BY Zenon DEF PollEntry, PollGate, PollHandshake, PollQueued, PollStart,
           InboundRead, ReadHandshake, ReadBadFrame, OnOpenAnnounce, OnOpenAccept,
           OnOpenRefuse, OnClose, ForwardInbound, ForwardFails, InboundPending,
           Commands, CommandOpenFirst, CommandOpenAccept, CommandOpenRefuse,
           CommandClose, CommandSignal, CommandsPending
  <2>2. OutboundWrite(p) => OutboundChange(p)
    <3>1. WriteFrame(p) \/ PollEnd(p) => outbound' = outbound
      BY Zenon DEF WriteFrame, PollEnd
    <3>2. ASSUME PopSignal(p) \/ PopData(p) \/ PopEmpty(p), NEW id
          PROVE  Popped(p) /\ Head(outbound[p]) # <<CloseMsg(id)>>
      <4>1. <<CloseMsg(id)>> # <<>> /\ Head(<<CloseMsg(id)>>).type = "Close"
        BY DEF CloseMsg
      <4> QED
        BY <3>2, <4>1, Zenon DEF PopSignal, PopData, PopEmpty, PoppedType
    <3>3. PopSignal(p) \/ PopData(p) \/ PopEmpty(p) => OutboundChange(p)
      BY <3>2, Zenon DEF OutboundChange
    <3> QED
      BY <3>1, <3>3, Zenon DEF OutboundWrite, OutboundChange
  <2>3. ASSUME NEW t \in Tasks, Finish(p, t)
        PROVE  \E b \in Batches : Sent(p, b)
    <3>1. task[p][t] # Idle /\ Sent(p, task[p][t].batch)
      BY <2>3 DEF Finish, Idle
    <3> QED
      BY <3>1, TaskBatches, Zenon
  <2>4. ASSUME NEW t, NEW n, NEW size,
               \/ BeginSend(p, t, n, size) \/ BeginEmpty(p, t, n)
               \/ BeginSignal(p, t, n) \/ BeginClose(p, t, n)
               \/ StoreClosed(p, t) \/ SendDirect(p, n) \/ DropReceiver(p, n)
               \/ Open(p, n) \/ DriverOpen(p, n) \/ CloseByKey(p, n)
               \/ SignalLocal(p)
        PROVE  outbound' = outbound
    BY <2>4, Zenon DEF BeginSend, BeginEmpty, BeginSignal, BeginClose, Begin,
                StoreClosed, SendDirect, DropReceiver, Open, DriverOpen, CloseByKey,
                SignalLocal
  <2>5. CASE App(p)
    BY <2>3, <2>4, <2>5, Zenon DEF App, OutboundChange
  <2> QED
    BY <2>1, <2>2, <2>5, Zenon DEF PollNext, OutboundChange
<1>2. ASSUME NEW q \in Peers
      PROVE  /\ QueueStep(outbound[q], outbound'[q], Batches)
             /\ Len(outbound'[q]) <= ChannelCap
  <2>1. outbound[q] \in Seq(Batches) /\ Len(outbound[q]) <= ChannelCap
    BY Zenon DEF OutboundOK
  <2>2. CASE outbound' = outbound
    BY <2>1, <2>2, Zenon DEF QueueStep
  <2>3. ASSUME Popped(p)
        PROVE  /\ QueueStep(outbound[q], outbound'[q], Batches)
               /\ Len(outbound'[q]) <= ChannelCap
    <3>1. CASE q = p
      <4>1. outbound'[q] = Tail(outbound[q]) /\ outbound[q] # <<>>
        BY <2>3, <3>1, Zenon DEF Popped, Shape
      <4>2. Len(outbound'[q]) <= ChannelCap
        BY ONLY <2>1, <4>1, ProtocolAssumption
      <4> QED
        BY <4>1, <4>2, Zenon DEF QueueStep
    <3>2. CASE q # p
      BY <2>1, <2>3, <3>2, Zenon DEF Popped, QueueStep, Shape
    <3> QED
      BY <3>1, <3>2, Zenon
  <2>4. ASSUME NEW b \in Batches, Sent(p, b)
        PROVE  /\ QueueStep(outbound[q], outbound'[q], Batches)
               /\ Len(outbound'[q]) <= ChannelCap
    <3>1. CASE q = p
      <4>1. outbound'[q] = Append(outbound[q], b) /\ Len(outbound[q]) < ChannelCap
        BY <2>4, <3>1, Zenon DEF Sent, Shape
      <4>2. Len(outbound'[q]) <= ChannelCap
        BY ONLY <2>1, <4>1, ProtocolAssumption
      <4> QED
        BY <4>1, <4>2, Zenon DEF QueueStep
    <3>2. CASE q # p
      BY <2>1, <2>4, <3>2, Zenon DEF Sent, QueueStep, Shape
    <3> QED
      BY <3>1, <3>2, Zenon
  <2> QED
    BY <1>1, <2>2, <2>3, <2>4, Zenon DEF OutboundChange, PopClose, PoppedType
<1>3. \A q \in Peers : outbound'[q] \in Seq(Batches)
  BY <1>2, QueueStepType, Zenon DEF OutboundOK
<1>4. Batches' = Batches
  BY Zenon DEF Batches, Single, Closes, Signals, Datas
<1> QED
  BY <1>1, <1>2, <1>3, <1>4, Zenon DEF OutboundOK

-----------------------------------------------------------------------------
(***************************************************************************)
(* Events: one is queued, or the first is handed to the application.       *)
(***************************************************************************)
EventChange(p) ==
    \/ UNCHANGED <<queued_events, held>>
    \/ queued_events[p] # <<>> /\ YieldEvent(p)
    \/ \E e \in Events(p)' : queued_events' = queue_event(p, e) /\ held' = held

\* A Close is announced for a discovery key that had a handle.
LEMMA NotifyEvent ==
    ASSUME TablesOK, NEW p \in Peers, NEW dk, has_channel(cm[p], dk),
           RemoveAndNotify(p, dk), held' = held
    PROVE  EventChange(p)
<1>1. dk \in DKeys
  BY Zenon DEF TablesOK, TableInv, TableOK, ChannelMapType, has_channel
<1>2. Event("Close", dk) \in Events(p)'
  BY <1>1, Zenon DEF Event, Events
<1> QED
  BY <1>2, Zenon DEF RemoveAndNotify, EventChange

\* The event of a Channel that was just made names it.
LEMMA AcceptEvent ==
    ASSUME Shape, TablesOK, NEW p \in Peers, NEW m, NEW id,
           accept_channel(p, m, id), held' = held
    PROVE  EventChange(p)
<1>1. chans[p] \in Seq(Channel) /\ Len(chans[p]) \in Nat
  BY SMTT(30) DEF TablesOK, TableInv
<1>2. \E c : chans'[p] = Append(chans[p], c)
  BY Zenon DEF accept_channel, Shape
<1>3. Len(chans'[p]) = Len(chans[p]) + 1
  BY <1>1, <1>2
<1>4. Len(chans[p]) + 1 \in 1..Len(chans'[p])
  BY <1>1, <1>3
<1>5. ChannelEvent(Len(chans[p]) + 1) \in Events(p)'
  BY <1>4, Zenon DEF ChannelEvent, Events
<1> QED
  BY <1>5, Zenon DEF accept_channel, EventChange

\* A step of p changes the queued events as EventChange says.
LEMMA EventStep ==
    ASSUME Shape, AppOK, IoOK, HandshakeOK, TablesOK, CommandsOK, NEW p \in Peers,
           PollNext(p) \/ App(p)
    PROVE  EventChange(p)
<1>0. SignalEvent \in Events(p)'
  BY Zenon DEF Events
<1>1. \A id : /\ get_local(cm[p], id) # None => has_channel(cm[p], get_local(cm[p], id))
              /\ get_remote(cm[p], id) # None => has_channel(cm[p], get_remote(cm[p], id))
  BY Zenon DEF get_local, get_remote
<1>2. CASE PollEntry(p)
  BY <1>2, Zenon DEF PollEntry, PollGate, PollHandshake, PollQueued, PollStart, appVars,
              EventChange
<1>3. CASE InboundRead(p)
  <2>1. CASE OnOpenAnnounce(p)
    <3>1. Event("DiscoveryKey", Message(p).discovery_key) \in Events(p)'
      <4>1. Message(p).discovery_key \in DKeys
        BY <2>1, OpenAtHand, Zenon DEF OnOpenAnnounce
      <4> QED
        BY <4>1, Zenon DEF Event, Events
    <3>2. /\ queued_events' = queue_event(p, Event("DiscoveryKey", Message(p).discovery_key))
          /\ held' = held
      BY <2>1, Zenon DEF OnOpenAnnounce, appVars
    <3> QED
      BY <3>1, <3>2, Zenon DEF EventChange
  <2>2. CASE OnOpenAccept(p)
    <3>1. PICK m, id : accept_channel(p, m, id)
      BY <2>2, Zenon DEF OnOpenAccept
    <3>2. held' = held
      BY <2>2, Zenon DEF OnOpenAccept, appVars
    <3> QED
      BY <3>1, <3>2, AcceptEvent, Zenon
  <2>3. CASE OnClose(p)
    <3> DEFINE dk == get_remote(cm[p], Message(p).channel)
    <3>1. held' = held
      BY <2>3, Zenon DEF OnClose, appVars
    <3>2. CASE dk = None
      <4>1. UNCHANGED queued_events
        BY <2>3, <3>2, Zenon DEF OnClose
      <4> QED
        BY <3>1, <4>1, Zenon DEF EventChange
    <3>3. CASE dk # None
      <4>1. RemoveAndNotify(p, dk)
        BY <2>3, <3>3, Zenon DEF OnClose
      <4> QED
        BY <1>1, <3>1, <3>3, <4>1, NotifyEvent, Zenon
    <3> QED
      BY <3>2, <3>3, Zenon
  <2>4. CASE \/ ReadHandshake(p) \/ ReadBadFrame(p) \/ ForwardInbound(p)
             \/ ForwardFails(p) \/ InboundPending(p) \/ OnOpenRefuse(p)
    <3>1. UNCHANGED <<queued_events, held>>
      BY <2>4, Zenon DEF ReadHandshake, ReadBadFrame, ForwardInbound, ForwardFails,
                  InboundPending, OnOpenRefuse, pollVars, appVars
    <3> QED
      BY <3>1, Zenon DEF EventChange
  <2> QED
    BY <1>3, <2>1, <2>2, <2>3, <2>4, Zenon DEF InboundRead
<1>4. CASE Commands(p)
  <2>1. CASE CommandOpenAccept(p)
    <3>1. PICK m, id : accept_channel(p, m, id)
      BY <2>1, Zenon DEF CommandOpenAccept
    <3>2. held' = held
      BY <2>1, Zenon DEF CommandOpenAccept, appVars
    <3> QED
      BY <3>1, <3>2, AcceptEvent, Zenon
  <2>2. CASE CommandClose(p)
    <3> DEFINE dk == Head(commands[p]).discovery_key
    <3>1. /\ IF has_channel(cm[p], dk) THEN RemoveAndNotify(p, dk)
                                      ELSE UNCHANGED queued_events
          /\ held' = held
      BY <2>2, Zenon DEF CommandClose, appVars
    <3> QED
      BY <3>1, NotifyEvent, Zenon DEF EventChange
  <2>3. CASE CommandSignal(p)
    BY <1>0, <2>3, Zenon DEF CommandSignal, appVars, EventChange
  <2>4. CASE CommandOpenFirst(p) \/ CommandOpenRefuse(p) \/ CommandsPending(p)
    <3>1. UNCHANGED <<queued_events, held>>
      BY <2>4, Zenon DEF CommandOpenFirst, CommandOpenRefuse, CommandsPending, pollVars,
                  appVars
    <3> QED
      BY <3>1, Zenon DEF EventChange
  <2> QED
    BY <1>4, <2>1, <2>2, <2>3, <2>4, Zenon DEF Commands
<1>5. CASE OutboundWrite(p)
  <2>1. CASE PopClose(p)
    <3> DEFINE dk == get_local(cm[p], Head(Head(outbound[p])).channel)
    <3>1. /\ IF dk # None THEN RemoveAndNotify(p, dk) ELSE UNCHANGED queued_events
          /\ held' = held
      BY <2>1, Zenon DEF PopClose, appVars
    <3> QED
      BY <1>1, <3>1, NotifyEvent, Zenon DEF EventChange
  <2>2. CASE PopSignal(p)
    BY <1>0, <2>2, Zenon DEF PopSignal, appVars, EventChange
  <2>3. CASE PollEnd(p)
    BY <2>3, Zenon DEF PollEnd, EventChange
  <2>4. CASE WriteFrame(p) \/ PopData(p) \/ PopEmpty(p)
    <3>1. UNCHANGED <<queued_events, held>>
      BY <2>4, Zenon DEF WriteFrame, PopData, PopEmpty, pollVars, appVars
    <3> QED
      BY <3>1, Zenon DEF EventChange
  <2> QED
    BY <1>5, <2>1, <2>2, <2>3, <2>4, Zenon DEF OutboundWrite
<1>6. CASE App(p)
  <2>1. UNCHANGED <<queued_events, held>>
    BY <1>6, Zenon DEF App, Open, DriverOpen, CloseByKey, SignalLocal, BeginSend,
                BeginEmpty, BeginSignal, BeginClose, Begin, Finish, StoreClosed,
                SendDirect,
                DropReceiver, pollVars
  <2> QED
    BY <2>1, Zenon DEF EventChange
<1> QED
  BY <1>2, <1>3, <1>4, <1>5, <1>6, Zenon DEF PollNext

\* Hence a queued Channel event names a Channel that exists (EventsOK).
LEMMA EventsStep ==
    ASSUME Shape, AppOK, IoOK, HandshakeOK, TablesOK, CommandsOK, EventsOK,
           NEW p \in Peers, PollNext(p) \/ App(p),
           TableCall(p), UNCHANGED Table(Other(p))
    PROVE  EventsOK'
<1>1. EventChange(p)
  BY EventStep, Zenon
<1>2. ASSUME NEW q \in Peers
      PROVE  /\ Len(chans[q]) \in Nat /\ Len(chans'[q]) \in Nat
             /\ Len(chans[q]) <= Len(chans'[q])
             /\ Events(q) \subseteq Events(q)'
  <2>1. /\ Len(chans[q]) \in Nat
        /\ Len(chans'[q]) \in {Len(chans[q]), Len(chans[q]) + 1}
    BY ChannelsGrow
  <2> QED
    BY <2>1 DEF Events
<1>3. ASSUME NEW q \in Peers
      PROVE  QueueStep(queued_events[q], queued_events'[q], Events(q)')
  <2>1. CASE q = p
    BY <1>1, <2>1, ZenonT(30) DEF EventChange, YieldEvent, queue_event, QueueStep, Shape
  <2>2. CASE q # p
    BY <1>1, <2>2, ZenonT(30) DEF EventChange, YieldEvent, queue_event, QueueStep, Shape
  <2> QED
    BY <2>1, <2>2, Zenon
<1>4. ASSUME NEW q \in Peers
      PROVE  queued_events'[q] \in Seq(Events(q)')
  BY <1>2, <1>3, QueueStepType, Zenon DEF EventsOK
<1>5. ASSUME NEW q \in Peers
      PROVE  held'[q] \in 0..Len(chans'[q])
  <2>1. held[q] \in 0..Len(chans'[q])
    BY <1>2 DEF EventsOK
  <2>2. ASSUME queued_events[p] # <<>>, YieldEvent(p), q = p
        PROVE  held'[q] \in 0..Len(chans'[q])
    <3> DEFINE e == Head(queued_events[p])
    <3>1. e \in Events(p)
      BY <2>2 DEF EventsOK
    <3>2. e.type = "Channel" => e.channel \in 1..Len(chans[p])
      BY <3>1 DEF Events, SignalEvent
    <3>3. held'[p] = IF e.type = "Channel" THEN e.channel ELSE held[p]
      BY <2>2, Zenon DEF YieldEvent, Shape
    <3> QED
      BY <1>2, <2>1, <2>2, <3>2, <3>3
  <2>3. held'[q] = held[q] \/ (queued_events[p] # <<>> /\ YieldEvent(p) /\ q = p)
    BY <1>1, ZenonT(30) DEF EventChange, YieldEvent, Shape
  <2> QED
    BY <2>1, <2>2, <2>3, Zenon
<1> QED
  BY <1>4, <1>5, Zenon DEF EventsOK

-----------------------------------------------------------------------------
(***************************************************************************)
(* Queues of Channels: a new one comes with its Channel, and what is put   *)
(* into one is a message of the remote or a signal of the application.     *)
(***************************************************************************)
ToChannels == Closes \cup Datas \cup Signals

InboundChange(p) ==
    \/ UNCHANGED <<inbound, chans>>
    \/ /\ inbound' = [inbound EXCEPT ![p] = Append(@, <<>>)]
       /\ \E c : chans' = [chans EXCEPT ![p] = Append(@, c)]
    \/ /\ UNCHANGED chans
       /\ \E n \in Cids(p), x \in ToChannels :
             inbound' = [inbound EXCEPT ![p][n] = Append(@, x)]

\* The queue of a handle is that of a Channel.
LEMMA QueueOfHandle ==
    ASSUME TablesOK, NEW p \in Peers, NEW id, NEW dk, dk = get_remote(cm[p], id),
           dk # None, Receiving(p, cm[p].channels[dk])
    PROVE  cm[p].channels[dk].inbound_tx \in Cids(p)
<1>1. dk \in DOMAIN cm[p].channels
  BY Zenon DEF get_remote, has_channel
<1> QED
  BY <1>1, Zenon DEF TablesOK, TableInv, QueuesOwned, Receiving, Cids

\* A step of p changes what its Channels have received as InboundChange says:
\* OnClose, ForwardInbound, SendDirect and the acceptances do.
LEMMA InboundStep ==
    ASSUME Shape, AppOK, IoOK, HandshakeOK, TablesOK, EventsOK, NEW p \in Peers,
           PollNext(p) \/ App(p)
    PROVE  InboundChange(p)
<1> DEFINE dk == get_remote(cm[p], Message(p).channel)
           h  == cm[p].channels[dk]
<1>1. CASE OnClose(p)
  <2>1. UNCHANGED chans
    BY <1>1, Zenon DEF OnClose
  <2>2. \/ inbound' = inbound
        \/ /\ dk # None /\ Receiving(p, h)
           /\ inbound' = [inbound EXCEPT ![p][h.inbound_tx] = Append(@, Message(p))]
    BY <1>1, Zenon DEF OnClose
  <2>3. Message(p) \in ToChannels
    <3>1. Message(p) \in Messages /\ Message(p).type = "Close"
      BY <1>1, MessageAtHand, Zenon DEF OnClose
    <3> QED
      BY <3>1, Zenon DEF Messages, Opens, Datas, ToChannels
  <2> QED
    BY <2>1, <2>2, <2>3, QueueOfHandle, Zenon DEF InboundChange
<1>2. CASE ForwardInbound(p)
  <2>1. UNCHANGED chans
    BY <1>2, Zenon DEF ForwardInbound
  <2>2. \/ inbound' = inbound
        \/ /\ dk # None /\ Receiving(p, h)
           /\ inbound' = [inbound EXCEPT ![p][h.inbound_tx] = Append(@, Message(p))]
    BY <1>2, Zenon DEF ForwardInbound
  <2>3. Message(p) \in ToChannels
    <3>1. Message(p) \in Messages /\ Message(p).type \notin {"Open", "Close"}
      BY <1>2, MessageAtHand, Zenon DEF ForwardInbound, IsControl
    <3> QED
      BY <3>1, Zenon DEF Messages, Opens, Closes, ToChannels
  <2> QED
    BY <2>1, <2>2, <2>3, QueueOfHandle, Zenon DEF InboundChange
<1>3. CASE OnOpenAccept(p) \/ CommandOpenAccept(p)
  <2>1. PICK m, id : accept_channel(p, m, id)
    BY <1>3, Zenon DEF OnOpenAccept, CommandOpenAccept
  <2> QED
    BY <2>1, Zenon DEF accept_channel, InboundChange
<1>4. ASSUME NEW n \in 1..held[p], SendDirect(p, n)
      PROVE  InboundChange(p)
  <2>1. n \in Cids(p) /\ SignalMsg(chans[p][n].local_id) \in ToChannels
    BY BatchTypes, Zenon DEF ToChannels
  <2>2. /\ inbound' = [inbound EXCEPT ![p][n] =
                           Append(@, SignalMsg(chans[p][n].local_id))]
        /\ UNCHANGED chans
    BY <1>4, Zenon DEF SendDirect
  <2> QED
    BY <2>1, <2>2, Zenon DEF InboundChange
<1>5. ASSUME NEW t, NEW n, NEW size,
             \/ BeginSend(p, t, n, size) \/ BeginEmpty(p, t, n)
             \/ BeginSignal(p, t, n) \/ BeginClose(p, t, n)
             \/ Finish(p, t) \/ StoreClosed(p, t) \/ DropReceiver(p, n)
             \/ Open(p, n) \/ DriverOpen(p, n) \/ CloseByKey(p, n)
             \/ SignalLocal(p)
      PROVE  InboundChange(p)
  <2>1. UNCHANGED <<inbound, chans>>
    BY <1>5, Zenon DEF BeginSend, BeginEmpty, BeginSignal, BeginClose, Begin,
                Finish, StoreClosed, DropReceiver, Open, DriverOpen, CloseByKey, SignalLocal, tableVars
  <2> QED
    BY <2>1, Zenon DEF InboundChange
<1>6. CASE \/ PollEntry(p) \/ OutboundWrite(p)
           \/ ReadHandshake(p) \/ ReadBadFrame(p) \/ OnOpenAnnounce(p)
           \/ OnOpenRefuse(p) \/ ForwardFails(p) \/ InboundPending(p)
           \/ CommandOpenFirst(p) \/ CommandOpenRefuse(p) \/ CommandClose(p)
           \/ CommandSignal(p) \/ CommandsPending(p)
  <2>1. UNCHANGED <<inbound, chans>>
    BY <1>6, Zenon DEF PollEntry, PollGate, PollHandshake, PollQueued, PollStart,
                OutboundWrite, WriteFrame, PopClose, PopSignal, PopData, PopEmpty,
                PollEnd, ReadHandshake, ReadBadFrame, OnOpenAnnounce, OnOpenRefuse,
                ForwardFails, InboundPending, CommandOpenFirst, CommandOpenRefuse,
                CommandClose, CommandSignal, CommandsPending, tableVars
  <2> QED
    BY <2>1, Zenon DEF InboundChange
<1>7. CASE App(p)
  BY <1>4, <1>5, <1>7, Zenon DEF App
<1> QED
  BY <1>1, <1>2, <1>3, <1>6, <1>7, Zenon DEF PollNext, InboundRead, Commands

\* Hence there is one well-typed inbound queue for each Channel (InboundOK).
LEMMA InboundsStep ==
    ASSUME Shape, TablesOK, InboundOK, NEW p \in Peers, InboundChange(p)
    PROVE  InboundOK'
<1>1. \A q \in Peers : /\ inbound[q] \in Seq(Seq(ToChannels))
                       /\ Len(inbound[q]) = Len(chans[q])
                       /\ chans[q] \in Seq(Channel)
  BY Zenon DEF InboundOK, ToChannels, TablesOK, TableInv
<1>2. ASSUME NEW q \in Peers, q # p
      PROVE  inbound'[q] = inbound[q] /\ chans'[q] = chans[q]
  BY <1>2 DEF InboundChange, Shape
<1>3. /\ inbound'[p] \in Seq(Seq(ToChannels))
      /\ Len(inbound'[p]) = Len(chans'[p])
  <2>1. CASE UNCHANGED <<inbound, chans>>
    BY <1>1, <2>1, Zenon
  <2>2. CASE /\ inbound' = [inbound EXCEPT ![p] = Append(@, <<>>)]
             /\ \E c : chans' = [chans EXCEPT ![p] = Append(@, c)]
    <3>1. inbound'[p] = Append(inbound[p], <<>>) /\ <<>> \in Seq(ToChannels)
      BY <2>2 DEF Shape
    <3>2. \E c : chans'[p] = Append(chans[p], c)
      BY <2>2, Zenon DEF Shape
    <3> QED
      BY <1>1, <3>1, <3>2
  <2>3. ASSUME UNCHANGED chans, NEW n \in Cids(p), NEW x \in ToChannels,
               inbound' = [inbound EXCEPT ![p][n] = Append(@, x)]
        PROVE  /\ inbound'[p] \in Seq(Seq(ToChannels))
               /\ Len(inbound'[p]) = Len(chans'[p])
    <3>1. inbound'[p] = [inbound[p] EXCEPT ![n] = Append(@, x)]
      BY <2>3, Zenon DEF Shape
    <3>2. n \in 1..Len(inbound[p])
      BY <1>1, Zenon DEF Cids
    <3>3. Append(inbound[p][n], x) \in Seq(ToChannels)
      BY <1>1, <3>2
    <3> HIDE DEF ToChannels
    <3> QED
      BY <1>1, <2>3, <3>1, <3>2, <3>3
  <2> QED
    BY <2>1, <2>2, <2>3, Zenon DEF InboundChange
<1>4. ToChannels' = ToChannels
  BY Zenon DEF ToChannels, Closes, Datas, Signals
<1> QED
  BY <1>1, <1>2, <1>3, <1>4, Zenon DEF InboundOK, ToChannels

-----------------------------------------------------------------------------
(***************************************************************************)
(* Frames: what is written is part of write_queue, and only a secured      *)
(* endpoint writes or reads a frame of messages.                           *)
(***************************************************************************)
(***************************************************************************)
(* The sender.  A Channel method makes a batch, the batch waits in         *)
(* outbound_rx and then in write_queue, and poll_outbound writes a part of *)
(* that.                                                                   *)
(***************************************************************************)
\* What is written of a queue, and what is read of that, begins where it does.
PartsOK ==
    \A msgs \in Seq(Messages) :
        msgs # <<>> => /\ BatchLen(msgs) \in 1..Len(msgs)
                       /\ SameChannelLen(msgs) \in 1..Len(msgs)

\* The Open that command_open ends with is one.
OpensOK(p) ==
    \A key \in asked[p] :
        OpenMsg(LocalId(LocalAttached(p, key).channels[DiscoveryKey[key]]),
                DiscoveryKey[key], capability(p, key)) \in Opens

\* The batch at the head of outbound_rx is of one kind.
LEMMA PoppedBatch ==
    ASSUME OutboundOK, NEW p \in Peers, NEW type, PoppedType(p, type)
    PROVE  /\ type = "Close" => Head(outbound[p]) \in Single(Closes)
           /\ type = "Data" => Head(outbound[p]) \in Seq(Datas)
<1> DEFINE b == Head(outbound[p])
<1>1. b \in Batches /\ b # <<>> /\ Head(b).type = type
  BY DEF OutboundOK, PoppedType, Popped
<1> HIDE DEF b
<1>0. \A S : b \in Seq(S) => Head(b) \in S
  BY <1>1
<1>2. b \in Seq(Datas) => type = "Data"
  BY <1>0, <1>1, Zenon DEF Datas
<1>3. b \in Single(Closes) => type = "Close"
  <2>1. b \in Single(Closes) => Head(b) \in Closes
    BY <1>0, Zenon DEF Single
  <2> QED
    BY <1>1, <2>1, Zenon DEF Closes
<1>4. b \in Single(Signals) => type = "LocalSignal"
  <2>1. b \in Single(Signals) => Head(b) \in Signals
    BY <1>0, Zenon DEF Single
  <2> QED
    BY <1>1, <2>1, Zenon DEF Signals
<1> QED
  BY <1>1, <1>2, <1>3, <1>4, Zenon DEF Batches, b

\* What a batch decodes to is a frame of messages (poll_outbound writes it).
LEMMA ReceivedType ==
    ASSUME NEW msgs \in Seq(Messages), msgs # <<>>,
           SameChannelLen(msgs) \in 1..Len(msgs)
    PROVE  \A f \in Received(msgs) : f \in Frames
<1>1. SubSeq(msgs, 1, SameChannelLen(msgs)) \in Seq(Messages)
  OBVIOUS
<1>2. \A x \in Seq(Messages) : Frame(x) \in Frames
  BY Zenon DEF Frame, Frames
<1>3. <<>> \in Seq(Messages)
  OBVIOUS
<1> QED
  BY <1>1, <1>2, <1>3, Zenon DEF Received

\* What is left of a frame, or of the frames, are messages and frames again.
LEMMA ConsumedType ==
    ASSUME Shape, IoOK, HandshakeOK, NEW p \in Peers, HasMessage(p)
    PROVE  /\ Consumed(p)[p] \in Seq(Frames)
           /\ \A q \in Peers : q # p => Consumed(p)[q] = wire[q]
<1> DEFINE rest == Tail(Head(wire[p]).messages)
<1>1. /\ wire[p] \in Seq(Frames) /\ wire[p] # <<>>
      /\ Head(wire[p]).messages \in Seq(Messages) /\ Head(wire[p]).messages # <<>>
  BY MessageAtHand, Zenon DEF IoOK, HasMessage, Reading
<1>2. rest \in Seq(Messages)
  BY <1>1
<1>3. Frame(rest) \in Frames
  BY <1>2, Zenon DEF Frame, Frames
<1>4. Consumed(p)[p] = IF rest = <<>> THEN Tail(wire[p])
                                      ELSE <<Frame(rest)>> \o Tail(wire[p])
  BY Zenon DEF Consumed, Shape
<1>5. Tail(wire[p]) \in Seq(Frames)
  BY <1>1
<1> HIDE DEF rest
<1>6. <<Frame(rest)>> \o Tail(wire[p]) \in Seq(Frames)
  BY <1>3, <1>5
<1>7. \A q \in Peers : q # p => Consumed(p)[q] = wire[q]
  BY Zenon DEF Consumed, Shape
<1> QED
  BY <1>4, <1>5, <1>6, <1>7, Zenon

\* What a step does to the frames.
WireChange(p) ==
    \/ UNCHANGED <<wire, cipher>>
    \/ PollGate(p)
    \/ ReadHandshake(p)
    \/ /\ Reading(p) /\ ~Head(wire[p]).handshake /\ UNCHANGED cipher
       /\ \/ wire' = FrameDropped(p)
          \/ HasMessage(p) /\ wire' = Consumed(p)
    \/ /\ Secured(p) /\ UNCHANGED cipher
       /\ \E f \in Frames : wire' = [wire EXCEPT ![Other(p)] = Append(@, f)]

\* A step of p changes the connection as WireChange says.
LEMMA WireStep ==
    ASSUME PartsOK, Shape, IoOK, HandshakeOK, NEW p \in Peers, PollNext(p) \/ App(p)
    PROVE  WireChange(p)
<1>1. CASE InboundRead(p)
  <2>1. CASE ReadHandshake(p)
    BY <2>1, Zenon DEF WireChange
  <2>2. CASE InboundPending(p)
    BY <2>2, Zenon DEF InboundPending, ioVars, WireChange
  <2>3. CASE InboundRead(p) /\ ~ReadHandshake(p) /\ ~InboundPending(p)
    <3>1. /\ Reading(p) /\ UNCHANGED cipher
          /\ HasMessage(p) \/ ~Head(wire[p]).handshake
          /\ wire' = FrameDropped(p) \/ (HasMessage(p) /\ wire' = Consumed(p))
      BY <2>3, Zenon DEF InboundRead, ReadBadFrame, OnOpenAnnounce, OnOpenAccept,
                  OnOpenRefuse, OnClose, ForwardInbound, ForwardFails, HasMessage
    <3>2. ~Head(wire[p]).handshake
      BY <3>1, MessageAtHand, Zenon
    <3> QED
      BY <3>1, <3>2, Zenon DEF WireChange
  <2> QED
    BY <1>1, <2>1, <2>2, <2>3, Zenon
<1>2. CASE WriteFrame(p)
  <2> DEFINE q == write_queue[p]
             msgs == SubSeq(q, 1, BatchLen(q))
  <2>1. Secured(p) /\ q # <<>> /\ q \in Seq(Messages) /\ UNCHANGED cipher
    BY <1>2, Zenon DEF WriteFrame, CanWrite, SinkReady, IoOK
  <2>2. BatchLen(q) \in 1..Len(q) /\ Len(q) \in Nat
    BY <2>1, SMTT(30) DEF PartsOK
  <2>3. msgs \in Seq(Messages) /\ msgs # <<>>
    BY <2>1, <2>2
  <2>4. PICK f \in Received(msgs) : wire' = [wire EXCEPT ![Other(p)] = Append(@, f)]
    BY <1>2, Zenon DEF WriteFrame
  <2>5. f \in Frames
    BY <2>3, ReceivedType, Zenon DEF PartsOK
  <2> QED
    BY <2>1, <2>4, <2>5, Zenon DEF WireChange
<1>3. CASE PollEntry(p)
  BY <1>3, Zenon DEF PollEntry, PollHandshake, PollQueued, PollStart, ioVars,
     WireChange
<1>4. CASE Commands(p) \/ (OutboundWrite(p) /\ ~WriteFrame(p))
  <2>1. UNCHANGED <<wire, cipher>>
    BY <1>4, Zenon DEF Commands, CommandOpenFirst, CommandOpenAccept, CommandOpenRefuse,
                CommandClose, CommandSignal, CommandsPending, OutboundWrite,
                PopClose, PopSignal, PopData, PopEmpty, PollEnd, ioVars
  <2> QED
    BY <2>1, Zenon DEF WireChange
<1>5. CASE App(p)
  <2>1. UNCHANGED <<wire, cipher>>
    BY <1>5, Zenon DEF App, Open, DriverOpen, CloseByKey, SignalLocal, BeginSend,
                BeginEmpty, BeginSignal, BeginClose, Begin, Finish, StoreClosed,
                SendDirect,
                DropReceiver, ioVars
  <2> QED
    BY <2>1, Zenon DEF WireChange
<1> QED
  BY <1>1, <1>2, <1>3, <1>4, <1>5, Zenon DEF PollNext, OutboundWrite

\* Only messages for the remote are queued for writing.
LEMMA WriteQueueStep ==
    ASSUME PartsOK, Shape, IoOK, CommandsOK, OutboundOK, NEW p \in Peers, OpensOK(p),
           PollNext(p) \/ App(p)
    PROVE  \A q \in Peers : write_queue'[q] \in Seq(Messages)
<1>0. \A q \in Peers : write_queue[q] \in Seq(Messages)
  BY Zenon DEF IoOK
<1>1. ASSUME NEW x \in Seq(Messages), write_queue' = [write_queue EXCEPT ![p] = x]
      PROVE  \A q \in Peers : write_queue'[q] \in Seq(Messages)
  BY <1>0, <1>1, Zenon DEF Shape
<1>2. ASSUME UNCHANGED write_queue
      PROVE  \A q \in Peers : write_queue'[q] \in Seq(Messages)
  BY <1>0, <1>2, Zenon
<1>3. CASE CommandOpenFirst(p) \/ CommandOpenAccept(p)
  <2> DEFINE key == Head(commands[p]).key
             msg == OpenMsg(LocalId(LocalAttached(p, key).channels[DiscoveryKey[key]]),
                            DiscoveryKey[key], capability(p, key))
  <2>1. Commanded(p, "open") /\ EnqueueOpen(p, key)
    BY <1>3, Zenon DEF CommandOpenFirst, CommandOpenAccept
  <2>2. key \in asked[p]
    BY <2>1, CommandAtHand, SMTT(30)
  <2>3. msg \in Messages
    BY <2>2, Zenon DEF OpensOK, Messages
  <2>4. write_queue' = [write_queue EXCEPT ![p] = Append(write_queue[p], msg)]
    BY <2>1, Zenon DEF EnqueueOpen
  <2> HIDE DEF msg
  <2>5. Append(write_queue[p], msg) \in Seq(Messages)
    BY <1>0, <2>3
  <2> QED
    BY <1>1, <2>4, <2>5, Zenon
<1>4. CASE PopClose(p)
  <2> DEFINE msg == Head(Head(outbound[p]))
  <2>1. Head(outbound[p]) \in Single(Closes)
    BY <1>4, PoppedBatch, Zenon DEF PopClose
  <2>2. msg \in Messages
    BY <2>1 DEF Single, Messages
  <2>3. write_queue' = [write_queue EXCEPT ![p] = Append(write_queue[p], msg)]
    BY <1>4, Zenon DEF PopClose
  <2> HIDE DEF msg
  <2>4. Append(write_queue[p], msg) \in Seq(Messages)
    BY <1>0, <2>2
  <2> QED
    BY <1>1, <2>3, <2>4, Zenon
<1>5. CASE PopData(p)
  <2>1. Head(outbound[p]) \in Seq(Datas)
    BY <1>5, PoppedBatch, Zenon DEF PopData
  <2>2. Head(outbound[p]) \in Seq(Messages)
    BY <2>1, SeqSubset, Zenon DEF Messages
  <2>3. write_queue' = [write_queue EXCEPT ![p] = write_queue[p] \o Head(outbound[p])]
    BY <1>5, Zenon DEF PopData
  <2>4. write_queue[p] \o Head(outbound[p]) \in Seq(Messages)
    BY <1>0, <2>2
  <2> QED
    BY <1>1, <2>3, <2>4, Zenon
<1>6. CASE WriteFrame(p)
  <2> DEFINE q == write_queue[p]
             n == BatchLen(q)
  <2>1. q # <<>> /\ q \in Seq(Messages)
    BY <1>0, <1>6, Zenon DEF WriteFrame, CanWrite
  <2>2. n \in 1..Len(q) /\ Len(q) \in Nat
    BY <2>1 DEF PartsOK
  <2>3. write_queue' = [write_queue EXCEPT ![p] = SubSeq(q, n + 1, Len(q))]
    BY <1>6, Zenon DEF WriteFrame
  <2> HIDE DEF n, q
  <2>4. SubSeq(q, n + 1, Len(q)) \in Seq(Messages)
    BY <2>1, <2>2
  <2> QED
    BY <1>1, <2>3, <2>4, Zenon
<1>7. CASE PollEntry(p) \/ InboundRead(p)
  <2>1. UNCHANGED write_queue
    BY <1>7, Zenon DEF PollEntry, PollGate, PollHandshake, PollQueued, PollStart,
                InboundRead, ReadHandshake, ReadBadFrame, OnOpenAnnounce,
                OnOpenAccept, OnOpenRefuse, OnClose, ForwardInbound, ForwardFails,
                InboundPending, ioVars
  <2> QED
    BY <1>2, <2>1, Zenon
<1>8. CASE \/ CommandOpenRefuse(p) \/ CommandClose(p) \/ CommandSignal(p)
           \/ CommandsPending(p) \/ PopSignal(p) \/ PopEmpty(p) \/ PollEnd(p)
  <2>1. UNCHANGED write_queue
    BY <1>8, Zenon DEF CommandOpenRefuse, CommandClose, CommandSignal, CommandsPending,
                PopSignal, PopEmpty, PollEnd, ioVars
  <2> QED
    BY <1>2, <2>1, Zenon
<1>9. CASE App(p)
  <2>1. UNCHANGED write_queue
    BY <1>9, Zenon DEF App, Open, DriverOpen, CloseByKey, SignalLocal, BeginSend,
                BeginEmpty, BeginSignal, BeginClose, Begin, Finish, StoreClosed,
                SendDirect,
                DropReceiver, ioVars
  <2> QED
    BY <1>2, <2>1, Zenon
<1> QED
  BY <1>3, <1>4, <1>5, <1>6, <1>7, <1>8, <1>9, Zenon DEF PollNext, Commands,
     OutboundWrite

\* Frames stay frames: what a capability was made for stays asked for.
LEMMA IoStep ==
    ASSUME Shape, IoOK, HandshakeOK, NEW p \in Peers, WireChange(p),
           CapsMade \subseteq CapsMade',
           \A q \in Peers : write_queue'[q] \in Seq(Messages)
    PROVE  IoOK'
<1>1. Messages \subseteq Messages'
  BY Zenon DEF Messages, Opens, Closes, Datas
<1>2. Frames \subseteq Frames'
  <2>1. \A x \in Seq(Messages) : x \in Seq(Messages')
    BY <1>1, SeqSubset, Zenon
  <2> QED
    BY <2>1, Zenon DEF Frames, Handshake
<1>3. \A q \in Peers : wire[q] \in Seq(Frames)
  BY Zenon DEF IoOK
<1>4. Handshake \in Frames
  BY Zenon DEF Frames
<1>5. \A q \in Peers : wire'[q] \in Seq(Frames)
  <2>1. CASE UNCHANGED <<wire, cipher>>
    BY <1>3, <2>1, Zenon
  <2>2. ASSUME NEW f \in Frames, wire' = [wire EXCEPT ![Other(p)] = Append(@, f)]
        PROVE  \A q \in Peers : wire'[q] \in Seq(Frames)
    BY <1>3, <2>2, OtherPeer DEF Shape
  <2>3. CASE PollGate(p)
    BY <1>3, <1>4, <2>2, <2>3, Zenon DEF PollGate
  <2>4. CASE Reading(p) /\ wire' = FrameDropped(p)
    <3>1. Tail(wire[p]) \in Seq(Frames)
      BY <1>3, <2>4 DEF Reading
    <3> QED
      BY <1>3, <2>4, <3>1, Zenon DEF FrameDropped, Shape
  <2>5. CASE ReadHandshake(p)
    <3>1. Tail(wire[p]) \in Seq(Frames) /\ Append(wire[Other(p)], Handshake) \in Seq(Frames)
      BY <1>3, <1>4, <2>5, OtherPeer DEF ReadHandshake, Reading
    <3>2. CASE p = Responder
      BY <1>3, <2>5, <3>1, <3>2, OtherPeer, Zenon DEF ReadHandshake, Shape
    <3>3. CASE p # Responder
      BY <2>4, <2>5, <3>3, Zenon DEF ReadHandshake
    <3> QED
      BY <3>2, <3>3, Zenon
  <2>6. CASE HasMessage(p) /\ wire' = Consumed(p)
    BY <1>3, <2>6, ConsumedType, Zenon
  <2> QED
    BY <2>1, <2>2, <2>3, <2>4, <2>5, <2>6, Zenon DEF WireChange
<1> QED
  <2>1. ASSUME NEW q \in Peers
        PROVE  write_queue'[q] \in Seq(Messages')
    BY <1>1, SeqSubset, Zenon
  <2>2. ASSUME NEW q \in Peers
        PROVE  wire'[q] \in Seq(Frames')
    BY <1>2, <1>5, SeqSubset, Zenon
  <2> QED
    BY <2>1, <2>2, Zenon DEF IoOK

\* The two handshake messages come first in either direction.
LEMMA HandshakeStep ==
    ASSUME Shape, AppOK, IoOK, HandshakeOK, NEW p \in Peers, WireChange(p)
    PROVE  HandshakeOK'
<1> USE DEF Secured
<1>0. /\ Initiator \in Peers /\ Responder \in Peers /\ Initiator # Responder
      /\ Other(Initiator) = Responder /\ Other(Responder) = Initiator
      /\ p = Initiator \/ p = Responder
  BY Zenon DEF Peers, Initiator, Responder, Other
<1>1. wire[Initiator] \in Seq(Frames) /\ wire[Responder] \in Seq(Frames)
  BY <1>0, Zenon DEF IoOK
<1>2. CASE UNCHANGED <<wire, cipher>>
  BY <1>2, Zenon DEF HandshakeOK
<1>3. CASE PollGate(p)
  <2>1. /\ p = Initiator /\ cipher[Initiator] # "done"
        /\ cipher'[Initiator] = "sent" /\ cipher'[Responder] = cipher[Responder]
        /\ wire'[Initiator] = wire[Initiator]
        /\ wire'[Responder] = IF cipher[Initiator] = "start"
                              THEN Append(wire[Responder], Handshake)
                              ELSE wire[Responder]
    BY <1>0, <1>3, Zenon DEF PollGate, Shape
  <2>2. Append(<<>>, Handshake) = <<Handshake>>
    OBVIOUS
  <2> QED
    BY <2>1, <2>2, Zenon DEF HandshakeOK
<1>4. CASE ReadHandshake(p)
  <2>1. CASE p = Initiator
    <3>1. /\ wire[Initiator] # <<>>
          /\ cipher'[Initiator] = "done" /\ cipher'[Responder] = cipher[Responder]
          /\ wire'[Responder] = wire[Responder]
      BY <1>0, <1>4, <2>1, Zenon DEF ReadHandshake, Reading, FrameDropped, Shape
    <3> QED
      BY <3>1, Zenon DEF HandshakeOK
  <2>2. CASE p = Responder
    <3>1. /\ wire[Responder] # <<>>
          /\ cipher'[Responder] = "done" /\ cipher'[Initiator] = cipher[Initiator]
          /\ wire'[Initiator] = Append(wire[Initiator], Handshake)
      BY <1>0, <1>4, <2>2, Zenon DEF ReadHandshake, Reading, Shape
    <3>2. /\ Append(wire[Initiator], Handshake) # <<>>
          /\ wire[Initiator] = <<>> => Head(Append(wire[Initiator], Handshake)) = Handshake
          /\ wire[Initiator] # <<>> =>
                Head(Append(wire[Initiator], Handshake)) = Head(wire[Initiator])
      BY <1>1
    <3> QED
      BY <3>1, <3>2, Zenon DEF HandshakeOK
  <2> QED
    BY <1>0, <2>1, <2>2, Zenon
<1>5. CASE /\ Reading(p) /\ ~Head(wire[p]).handshake /\ UNCHANGED cipher
           /\ \/ wire' = FrameDropped(p)
              \/ HasMessage(p) /\ wire' = Consumed(p)
  <2>1. wire[p] # <<>> /\ Head(wire[p]) # Handshake
    BY <1>5 DEF Reading, Handshake
  <2>2. Head(<<Handshake>>) = Handshake
    OBVIOUS
  <2>3. cipher[p] = "done" /\ cipher[Initiator] # "start" /\ cipher[Responder] = "done"
    BY <1>0, <2>1, <2>2, Zenon DEF HandshakeOK
  <2>4. p = Responder => wire'[Initiator] = wire[Initiator]
    BY <1>0, <1>5, ConsumedType, Zenon DEF FrameDropped, Shape
  <2> QED
    BY <1>0, <1>5, <2>3, <2>4, Zenon DEF HandshakeOK
<1>6. ASSUME Secured(p), UNCHANGED cipher, NEW f \in Frames,
             wire' = [wire EXCEPT ![Other(p)] = Append(@, f)]
      PROVE  HandshakeOK'
  <2>1. cipher[Responder] = "done" /\ cipher[Initiator] # "start"
    BY <1>0, <1>6, Zenon DEF HandshakeOK
  <2>2. CASE p = Initiator
    BY <1>6, <2>1, <2>2, Zenon DEF HandshakeOK
  <2>3. CASE p = Responder
    <3>1. wire'[Initiator] = Append(wire[Initiator], f)
      BY <1>0, <1>6, <2>3, Zenon DEF Shape
    <3>2. wire[Initiator] # <<>> =>
             /\ Append(wire[Initiator], f) # <<>>
             /\ Head(Append(wire[Initiator], f)) = Head(wire[Initiator])
      BY <1>1
    <3> QED
      BY <1>6, <2>1, <3>1, <3>2, Zenon DEF HandshakeOK
  <2> QED
    BY <1>0, <2>2, <2>3, Zenon
<1> QED
  BY <1>2, <1>3, <1>4, <1>5, <1>6, Zenon DEF WireChange
=============================================================================
