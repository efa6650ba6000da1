--------------------------- MODULE ProtocolProofs ---------------------------
(***************************************************************************)
(* What holds of every connection of two Protocols, from the inductive     *)
(* invariants of modules ProtocolInvariant and ProtocolOrder, and that     *)
(* both endpoints of a connection implement module ChannelMapSpec.         *)
(***************************************************************************)
EXTENDS ProtocolProperties, ProtocolTables, ProtocolTableSteps, ProtocolOrderSteps

-----------------------------------------------------------------------------
\* What is read next is of the kind that was written or commanded.
LEMMA HeadsKnown ==
    ASSUME IInv, NEW p \in Peers
    PROVE  HeadsOK(p)
BY OpenAtHand, CommandAtHand, Zenon DEF IInv, HeadsOK

\* A step calls at most one method of the table, that of the endpoint it is of.
LEMMA OneTableCall ==
    ASSUME IInv, NEW p \in Peers, PollNext(p) \/ App(p)
    PROVE  TableCall(p) /\ UNCHANGED Table(Other(p))
BY HeadsKnown, TableStep, Zenon DEF IInv

\* Every step of either endpoint or application keeps it.
LEMMA NextIInv == IInv /\ [Next]_vars => IInv'
<1> SUFFICES ASSUME IInv, [Next]_vars PROVE IInv'
  BY Zenon
<1>1. CASE UNCHANGED vars
  <2> USE <1>1 DEF vars, tableVars, ioVars, pollVars, keyVars, appVars
  <2>1. Shape' /\ AppOK' /\ HandshakeOK'
    BY Zenon DEF IInv, Shape, AppOK, HandshakeOK, Secured
  <2>2. CapsMade' = CapsMade
    BY Zenon DEF CapsMade
  <2>3. IoOK'
    BY <2>2, Zenon DEF IInv, IoOK, Frames, Messages, Opens
  <2>4. EventsOK' /\ CommandsOK' /\ OutboundOK'
    BY ZenonT(30) DEF IInv, EventsOK, CommandsOK, OutboundOK, Events, CommandSet
  <2>5. TasksOK' /\ InboundOK' /\ OpenedByBoth'
    BY DEF IInv, TasksOK, TaskOK, InboundOK, OpenedByBoth, Closing, Cids
  <2>6. TablesOK' /\ HandlesOK' /\ FlagsOK'
    BY <2>2, Zenon DEF IInv, TablesOK, HandlesOK, HandleOK, FlagsOK, Doomed, CloseUnderway,
                Cids, Secured
  <2> QED
    BY <2>1, <2>3, <2>4, <2>5, <2>6, Zenon DEF IInv
<1>2. ASSUME NEW p \in Peers, PollNext(p) \/ App(p)
      PROVE  IInv'
  <2> USE DEF IInv
  <2>1. TableCall(p) /\ UNCHANGED Table(Other(p))
    BY <1>2, OneTableCall, Zenon
  <2>2. Shape' /\ AppOK' /\ CommandsOK'
    BY <1>2, ShapeStep, AppStep, CommandsStep, Zenon
  <2>3. TablesOK' /\ CallEffect(p) /\ TasksOK' /\ EventsOK'
    BY <1>2, <2>1, TablesStep, TasksStep, EventsStep, Zenon
  <2>4. CapsMade \subseteq CapsMade' /\ HandlesOK' /\ OpenedByBoth'
    <3>1. \A q \in Peers : asked[q] \subseteq asked'[q]
      BY <1>2, AppStep, Zenon
    <3> QED
      BY <1>2, <2>1, <2>3, <3>1, HandlesStep, Zenon
  <2>5. OutboundChange(p) /\ OutboundOK'
    BY <1>2, OutboundStep, Zenon
  <2>6. InboundOK'
    BY <1>2, InboundStep, InboundsStep, Zenon
  <2>7. PartsOK /\ OpensOK(p)
    BY BatchLenBounds, SameChannelBounds, OpenMsgType, Zenon DEF PartsOK, OpensOK
  <2>8. IoOK' /\ HandshakeOK'
    <3>1. WireChange(p)
      BY <1>2, <2>7, WireStep, Zenon
    <3> QED
      BY <1>2, <2>4, <2>7, <3>1, WriteQueueStep, IoStep, HandshakeStep, Zenon
  <2>9. \A q \in Peers : \A n \in Cids(q) :
            n \in Cids(q)' /\ chans'[q][n] = chans[q][n]
    BY <1>2, <2>1, ChannelsGrow, SMTT(30) DEF Cids
  <2>10. FlagsOK'
    BY <1>2, <2>1, <2>3, <2>5, <2>9, StoringStep, FlagsStep, Zenon
  <2> QED
    BY <2>2, <2>3, <2>4, <2>5, <2>6, <2>8, <2>10, Zenon
<1> QED
  BY <1>1, <1>2, Zenon DEF Next

\* It holds in every reachable state.
LEMMA SpecIInv == Spec => []IInv
<1> QED
  BY InitIInv, NextIInv, PTL DEF Spec

-----------------------------------------------------------------------------
\* An initiator's first event is Handshake: Protocol::poll_next.
THEOREM HandshakeComesFirst == Spec => []InitiatorHandshakeFirst
<1>1. Init => FirstOK
  BY DEF Init, FirstOK, Initiator, Peers
<1>2. IInv /\ FirstOK /\ [Next]_vars => FirstOK'
  <2>1. UNCHANGED vars /\ FirstOK => FirstOK'
    BY Zenon DEF vars, pollVars, FirstOK
  <2> QED
    BY <2>1, FirstChanges, FirstStep, Zenon DEF Next, IInv
<1>3. FirstOK => InitiatorHandshakeFirst
  BY Zenon DEF FirstOK, InitiatorHandshakeFirst
<1> QED
  BY <1>1, <1>2, <1>3, SpecIInv, PTL DEF Spec

-----------------------------------------------------------------------------
(***************************************************************************)
(* The state, as far as the handlers of protocol.rs and channels.rs rely   *)
(* on it, is well typed; the queues of commands and outbound messages hold *)
(* no more than CHANNEL_CAP, and nothing but Open, Close and the messages  *)
(* of applications is ever written.                                        *)
(***************************************************************************)
THEOREM TypeCorrect == Spec => []TypeOK
<1>1. IInv => TypeOK
  <2> SUFFICES ASSUME IInv, NEW p \in Peers
               PROVE  /\ ChannelMapType(cm[p])
                      /\ closed[p] \subseteq 0..(flags[p] - 1)
                      /\ chans[p] \in Seq(Channel) /\ held[p] \in 0..Len(chans[p])
                      /\ Len(inbound[p]) = Len(chans[p])
                      /\ \A i \in 1..Len(write_queue[p]) :
                            write_queue[p][i].type \in {"Open", "Close", "Data"}
                      /\ Len(commands[p]) <= ChannelCap
                      /\ Len(outbound[p]) <= ChannelCap
                      /\ cipher[p] \in {"start", "sent", "done"}
                      /\ pc[p] \in {"idle", "gate", "inbound", "commands",
                                    "outbound"}
    BY Zenon DEF TypeOK
  <2>1. /\ ChannelMapType(cm[p]) /\ closed[p] \subseteq 0..(flags[p] - 1)
        /\ chans[p] \in Seq(Channel)
    BY TableFacts, Zenon DEF IInv
  <2>2. /\ held[p] \in 0..Len(chans[p]) /\ Len(inbound[p]) = Len(chans[p])
        /\ Len(commands[p]) <= ChannelCap /\ Len(outbound[p]) <= ChannelCap
    BY Zenon DEF IInv, EventsOK, InboundOK, CommandsOK, OutboundOK
  <2>3. /\ cipher[p] \in {"start", "sent", "done"}
        /\ pc[p] \in {"idle", "gate", "inbound", "commands", "outbound"}
    BY Zenon DEF IInv, AppOK
  <2>4. write_queue[p] \in Seq(Messages)
    BY Zenon DEF IInv, IoOK
  <2>5. \A m \in Messages : m.type \in {"Open", "Close", "Data"}
    BY Zenon DEF Messages, Opens, Closes, Datas
  <2> QED
    BY ONLY <2>1, <2>2, <2>3, <2>4, <2>5, SMTT(30)
<1> QED
  BY <1>1, SpecIInv, PTL

(***************************************************************************)
(* The `expect's of Protocol::accept_channel and verify_remote_capability  *)
(* cannot fire: a handle that knows its remote has a handshake hash.       *)
(***************************************************************************)
THEOREM AcceptDoesNotPanic == Spec => []AcceptNeverPanics
<1>1. IInv => AcceptNeverPanics
  BY Zenon DEF IInv, HandlesOK, HandleOK, AcceptNeverPanics
<1> QED
  BY <1>1, SpecIInv, PTL

(***************************************************************************)
(* A Channel exists only for a key that both applications have opened:     *)
(* ChannelMap::prepare_to_verify and Protocol::accept_channel.             *)
(***************************************************************************)
THEOREM ChannelsAreOpenedByBoth == Spec => []OpenedByBoth
<1>1. IInv => OpenedByBoth
  BY Zenon DEF IInv
<1> QED
  BY <1>1, SpecIInv, PTL

(***************************************************************************)
(* Channel::closed agrees with the table: no Channel is left that believes *)
(* itself open without a handle, and a handle whose Channel is closed goes *)
(* with the Close that is queued.                                          *)
(***************************************************************************)
THEOREM ClosedFlagsAgree == Spec => []ClosedFlagAgrees
<1>1. IInv => ClosedFlagAgrees
  <2> SUFFICES ASSUME IInv, NEW p \in Peers, NEW n \in Cids(p)
               PROVE  LET c == chans[p][n]
                      IN  IF c.closed \in closed[p]
                          THEN Live(cm[p], c) => CloseUnderway(p, c.closed)
                          ELSE Live(cm[p], c)
    BY Zenon DEF ClosedFlagAgrees, Live, CloseUnderway
  <2>1. CASE chans[p][n].closed \notin closed[p]
    BY <2>1, Zenon DEF IInv, TablesOK, TableInv, Cids
  <2>2. ASSUME chans[p][n].closed \in closed[p], Live(cm[p], chans[p][n])
        PROVE  CloseUnderway(p, chans[p][n].closed)
    BY <2>2, Zenon DEF IInv, FlagsOK, Doomed, Live, has_channel
  <2> QED
    BY <2>1, <2>2, Zenon
<1> QED
  BY <1>1, SpecIInv, PTL

-----------------------------------------------------------------------------
(***************************************************************************)
(* The order of messages, from the invariant of module ProtocolOrder.      *)
(***************************************************************************)
LEMMA InitOrder == Init => OrderInv
<1> SUFFICES ASSUME Init, NEW p \in Peers
             PROVE  WayTo(p) /\ ClosesLast(p)
  BY Zenon DEF OrderInv
<1> DEFINE q == Other(p)
<1>1. q \in Peers
  BY OtherPeer, Zenon
<1> HIDE DEF q
<1>2. /\ inbound[p] = <<>> /\ wire[p] = <<>> /\ write_queue[q] = <<>>
      /\ outbound[q] = <<>> /\ \A t \in Tasks : task[q][t] = Idle
  BY <1>1, Zenon DEF Init
<1>3. WayOK(inbound[p], wire[p], write_queue[q], outbound[q], task[q], left[q].send)
  BY <1>2, NewWay, Zenon
<1>4. Cids(p) = {}
  BY DEF Init, Cids
<1> QED
  BY <1>3, <1>4, Zenon DEF WayTo, ClosesLast, q

\* A step of p moves messages on the way to p and on the way from it.
LEMMA NextOrder == IInv /\ IInv' /\ OrderInv /\ [Next]_vars => OrderInv'
<1> SUFFICES ASSUME IInv, IInv', OrderInv, [Next]_vars PROVE OrderInv'
  BY Zenon
<1>1. CASE UNCHANGED vars
  BY <1>1 DEF OrderInv, WayTo, ClosesLast, Cids, vars, tableVars, ioVars, pollVars,
              keyVars, appVars
<1>2. ASSUME NEW p \in Peers, PollNext(p) \/ App(p)
      PROVE  OrderInv'
  <2> DEFINE o == Other(p)
  <2> USE DEF IInv
  <2>1. o \in Peers /\ \A q \in Peers : q = p \/ q = o
    BY OtherPeer, Zenon
  <2>2. ReceiverChange(p) /\ SenderChange(p)
    BY <1>2, WayChange, Zenon
  <2>3. TableCall(p) /\ UNCHANGED Table(o)
    BY <1>2, OneTableCall, Zenon
  <2>4. WayTo(p) /\ WayTo(o) /\ ClosesLast(p) /\ ClosesLast(o)
    BY <2>1, Zenon DEF OrderInv
  <2>5. WayTo(p)'
    BY <2>2, <2>4, ReceiverStep, Zenon
  <2>6. WayTo(o)'
    <3>1. PartsOK
      BY BatchLenBounds, SameChannelBounds, Zenon DEF PartsOK
    <3> QED
      BY <2>2, <2>4, <3>1, SenderStep, Zenon
  <2>7. ClosesLast(p)'
    <3>1. KeepQueues(p)
      <4>1. CallEffect(p)
        BY <2>3, TablesStep, Zenon
      <4> QED
        BY <4>1, Zenon DEF CallEffect, HandlesFrom, KeepQueues, Cids
    <3>2. Len(inbound'[p]) = Len(chans'[p])
      BY Zenon DEF InboundOK
    <3> QED
      BY <2>2, <2>4, <3>1, <3>2, ClosesStep, Zenon
  <2>8. ClosesLast(o)'
    <3>1. inbound'[o] = inbound[o] /\ cm'[o] = cm[o] /\ chans'[o] = chans[o]
      BY <2>2, <2>3, Zenon DEF SenderChange, Table
    <3> QED
      BY <2>4, <3>1, Zenon DEF ClosesLast, Cids
  <2> QED
    BY <2>1, <2>5, <2>6, <2>7, <2>8, Zenon DEF OrderInv
<1> QED
  BY <1>1, <1>2, Zenon DEF Next

\* Both invariants hold in every reachable state.
LEMMA SpecOrder == Spec => [](IInv /\ OrderInv)
<1> QED
  BY InitOrder, NextOrder, SpecIInv, PTL DEF Spec

(***************************************************************************)
(* The messages that one task sends arrive on a Channel in the order it    *)
(* sent them and once, whatever the queues, the frames that are refused    *)
(* and the Channels that come and go on the way: Channel::send and         *)
(* send_batch, poll_outbound_write and poll_inbound_read.                  *)
(***************************************************************************)
THEOREM MessagesComeInOrder == Spec => []InOrder
<1>1. IInv /\ OrderInv => InOrder
  <2> SUFFICES ASSUME IInv, OrderInv, NEW p \in Peers, NEW n \in Cids(p),
                      NEW j \in 1..Len(inbound[p][n]), NEW i \in 1..(j - 1)
               PROVE  LET a == inbound[p][n][i]
                          b == inbound[p][n][j]
                      IN  /\ a.type = "Data" /\ b.type = "Data"
                          /\ a.body.task = b.body.task
                          => a.body.left > b.body.left
    BY Zenon DEF InOrder
  <2> DEFINE s == inbound[p][n]
  <2>1. n \in 1..Len(inbound[p]) /\ inbound[p] \in Seq(Seq(Closes \cup Datas \cup Signals))
    BY Zenon DEF IInv, InboundOK, Cids
  <2>2. Falling(s)
    BY <2>1, Zenon DEF OrderInv, WayTo, WayOK
  <2>3. j \in 1..Len(s)
    BY Zenon DEF s
  <2> HIDE DEF s
  <2>4. s[i].type = "Data" /\ s[j].type = "Data" => Precedes(s[i], s[j])
    BY ONLY <2>2, <2>3, i \in 1..(j - 1), Zenon DEF Falling
  <2> QED
    BY <2>4, Zenon DEF Precedes, s
<1> QED
  BY <1>1, SpecOrder, PTL

(***************************************************************************)
(* Nothing of the remote's reaches a Channel after the remote's Close,     *)
(* neither from the rest of a frame nor from a channel that is opened on   *)
(* the same key later: on_close and the removal of the handle with it.     *)
(***************************************************************************)
THEOREM NothingComesAfterClose == Spec => []NothingAfterClose
<1>1. IInv /\ OrderInv => NothingAfterClose
  <2> SUFFICES ASSUME IInv, OrderInv, NEW p \in Peers, NEW n \in Cids(p),
                      NEW j \in 1..Len(inbound[p][n]), NEW i \in 1..(j - 1)
               PROVE  inbound[p][n][i].type = "Close" =>
                          inbound[p][n][j].type = "LocalSignal"
    BY Zenon DEF NothingAfterClose
  <2> DEFINE s == inbound[p][n]
  <2>1. n \in 1..Len(inbound[p]) /\ inbound[p] \in Seq(Seq(Closes \cup Datas \cup Signals))
    BY Zenon DEF IInv, InboundOK, Cids
  <2>2. Len(s) \in Nat
    BY <2>1
  <2>3. CloseIsLast(s) /\ j \in 1..Len(s)
    BY Zenon DEF OrderInv, ClosesLast
  <2> HIDE DEF s
  <2>4. i \in 1..Len(s) /\ j \in (i + 1)..Len(s)
    BY ONLY <2>2, <2>3, i \in 1..(j - 1), SMTT(30)
  <2>5. s[i].type = "Close" => s[j].type = "LocalSignal"
    BY ONLY <2>3, <2>4, Zenon DEF CloseIsLast
  <2> QED
    BY <2>5, Zenon DEF s
<1> QED
  BY <1>1, SpecOrder, PTL

-----------------------------------------------------------------------------
(***************************************************************************)
(* The messages of a frame.                                                *)
(***************************************************************************)
\* poll_outbound ends a batch before an Open or Close, which travels alone.
LEMMA BatchKinds ==
    ASSUME NEW q \in Seq(Messages), q # <<>>
    PROVE  \A i, j \in 1..BatchLen(q) : IsControl(q[i]) <=> IsControl(q[j])
<1> DEFINE S == {i - 1 : i \in {j \in 2..Len(q) : IsControl(q[j])}} \cup {Len(q)}
<1>1. Len(q) \in Nat /\ Head(q) = q[1] /\ BatchLen(q) \in 1..Len(q)
  BY BatchLenBounds
<1>2. S \in SUBSET Nat /\ S # {}
  BY <1>1
<1>3. \A k \in 2..Len(q) : IsControl(q[k]) => k - 1 \in S
  OBVIOUS
<1> HIDE DEF S
<1>4. CASE IsControl(Head(q))
  BY <1>4 DEF BatchLen
<1>5. CASE ~IsControl(Head(q))
  <2>1. BatchLen(q) = Min(S)
    BY <1>5, Zenon DEF BatchLen, S
  <2>2. \A y \in S : BatchLen(q) =< y
    <3>1. \A y \in S : Min(S) =< y
      BY ONLY <1>2, MinInSet, Zenon
    <3> QED
      BY ONLY <2>1, <3>1, Zenon
  <2>3. ASSUME NEW i \in 1..BatchLen(q), IsControl(q[i])
        PROVE  FALSE
    <3>1. i # 1
      BY <1>1, <1>5, <2>3, Zenon
    <3>2. i \in 2..Len(q) /\ ~(BatchLen(q) =< i - 1)
      BY ONLY <1>1, <2>3, <3>1, SMTT(30)
    <3> QED
      BY <1>3, <2>2, <2>3, <3>2, Zenon
  <2> QED
    BY <2>3, Zenon
<1> QED
  BY <1>4, <1>5, Zenon

\* What is read of a batch ends before its first change of channel.
LEMMA ReceivedUniform ==
    ASSUME NEW q \in Seq(Messages), q # <<>>,
           NEW f \in Received(SubSeq(q, 1, BatchLen(q)))
    PROVE  Uniform(f.messages)
<1> DEFINE msgs == SubSeq(q, 1, BatchLen(q))
           n == SameChannelLen(msgs)
           S == {i - 1 : i \in {j \in 2..Len(msgs) : msgs[j].channel # msgs[1].channel}}
                \cup {Len(msgs)}
<1>1. Len(q) \in Nat /\ BatchLen(q) \in 1..Len(q)
  BY BatchLenBounds
<1>2. /\ msgs \in Seq(Messages) /\ msgs # <<>> /\ Len(msgs) = BatchLen(q)
      /\ \A i \in 1..Len(msgs) : msgs[i] = q[i]
  BY <1>1
<1>3. \A i, j \in 1..Len(msgs) : IsControl(msgs[i]) <=> IsControl(msgs[j])
  BY <1>2, BatchKinds, Zenon
<1>4. f \in {Frame(msgs), Frame(SubSeq(msgs, 1, n)), Frame(<<>>)}
      /\ (f = Frame(msgs) => n = Len(msgs) \/ msgs = SubSeq(msgs, 1, n)
                              \/ msgs = <<>>)
  <2>1. \A s, t : Frame(s) = Frame(t) => s = t
    BY DEF Frame
  <2> QED
    BY <2>1, Zenon DEF Received
<1> HIDE DEF msgs
<1>5. n \in 1..Len(msgs) /\ Len(msgs) \in Nat
  BY <1>2, SameChannelBounds, SMTT(30)
<1>6. S \in SUBSET Nat /\ S # {}
  BY <1>5
<1>7. \A k \in 2..Len(msgs) : msgs[k].channel # msgs[1].channel => k - 1 \in S
  OBVIOUS
<1>8. n = Min(S)
  BY Zenon DEF SameChannelLen
<1> HIDE DEF S, n
<1>9. \A y \in S : n =< y
  BY <1>6, <1>8, MinInSet, Zenon
<1>10. ASSUME NEW i \in 1..n
       PROVE  i \in 1..Len(msgs) /\ msgs[i].channel = msgs[1].channel
  <2>1. /\ i \in 1..Len(msgs)
        /\ i # 1 => i \in 2..Len(msgs) /\ ~(n =< i - 1)
    BY ONLY <1>5, <1>10, SMTT(30)
  <2> QED
    BY <1>7, <1>9, <2>1, Zenon
<1>11. Uniform(SubSeq(msgs, 1, n))
  <2> DEFINE s == SubSeq(msgs, 1, n)
  <2>1. Len(s) = n /\ \A i \in 1..n : s[i] = msgs[i]
    BY ONLY <1>2, <1>5, SMTT(30)
  <2> HIDE DEF s
  <2> QED
    BY <1>3, <1>10, <2>1, Zenon DEF Uniform, s
<1>12. n = Len(msgs) => msgs = SubSeq(msgs, 1, n)
  BY ONLY <1>2, <1>5, SMTT(30)
<1>13. Uniform(<<>>)
  BY DEF Uniform
<1>14. \A s : Frame(s).messages = s
  BY Zenon DEF Frame
<1> QED
  BY <1>2, <1>4, <1>11, <1>12, <1>13, <1>14, Zenon

\* A frame is added, taken, or shortened at its front.
LEMMA FramesUniform ==
    ASSUME NEW fs \in Seq(Frames), AllUniform(fs),
           \A f \in Frames : f.messages \in Seq(Messages)
    PROVE  /\ \A f \in Frames : Uniform(f.messages) => AllUniform(Append(fs, f))
           /\ fs # <<>> =>
                 /\ AllUniform(Tail(fs))
                 /\ \A rest : rest = Tail(Head(fs).messages) /\ Head(fs).messages # <<>> =>
                       AllUniform(<<Frame(rest)>> \o Tail(fs))
<1>1. Len(fs) \in Nat
  OBVIOUS
<1>2. ASSUME NEW f \in Frames, Uniform(f.messages)
      PROVE  AllUniform(Append(fs, f))
  <2>1. /\ Len(Append(fs, f)) = Len(fs) + 1
        /\ \A i \in 1..(Len(fs) + 1) :
              Append(fs, f)[i] = IF i = Len(fs) + 1 THEN f ELSE fs[i]
    OBVIOUS
  <2>2. \A i \in 1..(Len(fs) + 1) : i = Len(fs) + 1 \/ i \in 1..Len(fs)
    BY <1>1
  <2> QED
    BY <1>2, <2>1, <2>2, Zenon DEF AllUniform
<1>3. ASSUME fs # <<>>
      PROVE  AllUniform(Tail(fs))
  <2>1. /\ Len(Tail(fs)) = Len(fs) - 1 /\ \A i \in 1..(Len(fs) - 1) : Tail(fs)[i] = fs[i + 1]
        /\ \A i \in 1..(Len(fs) - 1) : i + 1 \in 1..Len(fs)
    BY ONLY <1>1, <1>3, fs \in Seq(Frames), SMTT(30)
  <2> QED
    BY <2>1, Zenon DEF AllUniform
<1>4. ASSUME fs # <<>>, Head(fs).messages # <<>>, NEW rest, rest = Tail(Head(fs).messages)
      PROVE  AllUniform(<<Frame(rest)>> \o Tail(fs))
  <2> DEFINE s == Head(fs).messages
             ts == Tail(fs)
             x == Frame(rest)
  <2>1. Head(fs) = fs[1] /\ 1 \in 1..Len(fs) /\ fs[1] \in Frames /\ ts \in Seq(Frames)
    BY <1>4
  <2>2. Uniform(s) /\ s \in Seq(Messages) /\ s # <<>>
    BY <1>4, <2>1, Zenon DEF AllUniform
  <2> HIDE DEF s, ts
  <2>3. Uniform(rest)
    <3>1. rest = Tail(s)
      BY <1>4, Zenon DEF s
    <3>2. /\ Len(rest) = Len(s) - 1 /\ \A i \in 1..(Len(s) - 1) : rest[i] = s[i + 1]
          /\ \A i \in 1..(Len(s) - 1) : i + 1 \in 1..Len(s)
      BY ONLY <2>2, <3>1, SMTT(30)
    <3> SUFFICES ASSUME NEW i \in 1..Len(rest), NEW j \in 1..Len(rest)
                 PROVE  /\ rest[i].channel = rest[j].channel
                        /\ IsControl(rest[i]) <=> IsControl(rest[j])
      BY Zenon DEF Uniform
    <3>3. /\ rest[i] = s[i + 1] /\ i + 1 \in 1..Len(s)
          /\ rest[j] = s[j + 1] /\ j + 1 \in 1..Len(s)
      BY ONLY <3>2, i \in 1..Len(rest), j \in 1..Len(rest), Zenon
    <3> QED
      BY <2>2, <3>3, Zenon DEF Uniform
  <2>4. x.messages = rest
    BY Zenon DEF Frame
  <2> HIDE DEF x
  <2>5. /\ Len(<<x>> \o ts) = Len(ts) + 1 /\ (<<x>> \o ts)[1] = x
        /\ \A i \in 1..(Len(ts) + 1) : i = 1 \/ (/\ i - 1 \in 1..Len(ts)
                                                /\ (<<x>> \o ts)[i] = ts[i - 1])
    BY ONLY <2>1, SMTT(30)
  <2>6. AllUniform(ts)
    BY <1>3, <1>4, Zenon DEF ts
  <2>7. AllUniform(<<x>> \o ts)
    BY <2>3, <2>4, <2>5, <2>6, Zenon DEF AllUniform
  <2> QED
    BY <2>7, Zenon DEF x, ts
<1> QED
  BY <1>2, <1>3, <1>4, Zenon

(***************************************************************************)
(* When a message cannot be forwarded neither can those of its frame that  *)
(* are given up with it: poll_outbound puts no Open or Close into a batch, *)
(* what is decoded of a batch is of one channel, and so on_inbound_message *)
(* and forward_inbound fail for all of it or none.                         *)
(***************************************************************************)
THEOREM FramesAreLostTogether == Spec => []LostTogether
<1> DEFINE Inv == \A p \in Peers : AllUniform(wire[p])
<1>1. Init => Inv
  BY DEF Init, AllUniform
<1>2. IInv /\ Inv /\ [Next]_vars => Inv'
  <2> SUFFICES ASSUME IInv, Inv, [Next]_vars PROVE Inv'
    BY Zenon
  <2>1. CASE UNCHANGED vars
    BY <2>1, Zenon DEF vars, ioVars, AllUniform
  <2>2. ASSUME NEW p \in Peers, PollNext(p) \/ App(p)
        PROVE  Inv'
    <3> DEFINE o == Other(p)
    <3>1. o \in Peers /\ \A q \in Peers : q = p \/ q = o
      BY OtherPeer, Zenon
    <3>2. ReceiverChange(p) /\ SenderChange(p)
      BY <2>2, WayChange, Zenon DEF IInv
    <3>3. /\ \A q \in Peers : /\ wire[q] \in Seq(Frames)
                              /\ write_queue[q] \in Seq(Messages)
          /\ \A f \in Frames : f.messages \in Seq(Messages)
      BY WayTypes, Zenon DEF IInv, IoOK
    <3>4. AllUniform(wire'[p])
      <4>1. \/ wire'[p] = wire[p]
            \/ wire[p] # <<>> /\ wire'[p] = Tail(wire[p])
            \/ HasMessage(p) /\ wire'[p] = Consumed(p)[p]
        BY <3>2, Zenon DEF ReceiverChange, Reading
      <4>2. ASSUME HasMessage(p)
            PROVE  /\ wire[p] # <<>> /\ Head(wire[p]).messages # <<>>
                   /\ LET rest == Tail(Head(wire[p]).messages)
                      IN  Consumed(p)[p] = IF rest = <<>> THEN Tail(wire[p])
                                           ELSE <<Frame(rest)>> \o Tail(wire[p])
        BY <4>2, Zenon DEF HasMessage, Reading, Consumed, IInv, Shape
      <4> QED
        BY <3>3, <4>1, <4>2, FramesUniform, Zenon
    <3>5. AllUniform(wire'[o])
      <4>1. CASE wire'[o] = wire[o]
        BY <3>1, <4>1, Zenon
      <4>2. CASE wire'[o] = Append(wire[o], Handshake)
        <5>1. Handshake \in Frames /\ Uniform(Handshake.messages)
          BY DEF Handshake, Frames, Uniform
        <5> QED
          BY <3>1, <3>3, <4>2, <5>1, FramesUniform, Zenon
      <4>3. CASE WriteFrame(p)
        <5>1. write_queue[p] # <<>>
          BY <4>3, Zenon DEF WriteFrame, CanWrite
        <5>2. PICK f \in Received(SubSeq(write_queue[p], 1, BatchLen(write_queue[p]))) :
                  wire' = [wire EXCEPT ![o] = Append(@, f)]
          BY <4>3, Zenon DEF WriteFrame
        <5>3. wire'[o] = Append(wire[o], f)
          BY <3>1, <5>2, Zenon DEF IInv, Shape
        <5>4. Uniform(f.messages)
          BY <3>3, <5>1, ReceivedUniform, Zenon
        <5>5. f \in Frames
          <6> DEFINE q == write_queue[p]
                     msgs == SubSeq(q, 1, BatchLen(q))
          <6>1. q \in Seq(Messages) /\ q # <<>>
            BY <3>3, <5>1, Zenon
          <6>2. BatchLen(q) \in 1..Len(q)
            BY <6>1, BatchLenBounds, Zenon
          <6>3. msgs \in Seq(Messages) /\ msgs # <<>>
            BY ONLY <6>1, <6>2, SMTT(30)
          <6> QED
            BY <6>3, SameChannelBounds, ReceivedType, Zenon
        <5> QED
          BY <3>1, <3>3, <5>3, <5>4, <5>5, FramesUniform, Zenon
      <4> QED
        BY <3>2, <4>1, <4>2, <4>3, Zenon DEF SenderChange
    <3> QED
      BY <3>1, <3>4, <3>5, Zenon DEF AllUniform
  <2> QED
    BY <2>1, <2>2, Zenon DEF Next
<1>3. IInv /\ Inv => LostTogether
  <2> SUFFICES ASSUME IInv, Inv, NEW p \in Peers, HasMessage(p),
                      Undeliverable(p, Message(p)),
                      NEW i \in 1..Len(Head(wire[p]).messages)
               PROVE  Undeliverable(p, Head(wire[p]).messages[i])
    BY Zenon DEF LostTogether
  <2> DEFINE s == Head(wire[p]).messages
  <2>1. wire[p] \in Seq(Frames) /\ wire[p] # <<>> /\ s # <<>> /\ s \in Seq(Messages)
    BY MessageAtHand, Zenon DEF IInv, IoOK, HasMessage, Reading
  <2>2. Head(wire[p]) = wire[p][1] /\ 1 \in 1..Len(wire[p])
    BY <2>1
  <2>3. Uniform(s)
    BY <2>2, Zenon DEF AllUniform
  <2> HIDE DEF s
  <2>4. Head(s) = s[1] /\ 1 \in 1..Len(s)
    BY ONLY <2>1, SMTT(30)
  <2>5. i \in 1..Len(s) /\ Message(p) = s[1]
    BY <2>4, Zenon DEF Message, s
  <2>6. s[i].channel = s[1].channel /\ (IsControl(s[i]) <=> IsControl(s[1]))
    BY <2>3, <2>4, <2>5, Zenon DEF Uniform
  <2> QED
    BY <2>5, <2>6, Zenon DEF Undeliverable, s
<1> QED
  BY <1>1, <1>2, <1>3, SpecIInv, PTL DEF Spec

-----------------------------------------------------------------------------
(***************************************************************************)
(* The refinement.                                                         *)
(***************************************************************************)
\* The methods of module ChannelMap are those of the initiator's table.
LEMMA InitiatorTableOps ==
    /\ InitiatorTable!NewChannelMap = NewChannelMap
    /\ \A m, dk : InitiatorTable!has_channel(m, dk) <=> has_channel(m, dk)
    /\ \A m : InitiatorTable!alloc_local(m) = alloc_local(m)
    /\ \A m, key, flag : InitiatorTable!attach_local(m, key, flag)
                             = attach_local(m, key, flag)
    /\ \A m, dk, id, cap, flag : InitiatorTable!attach_remote(m, dk, id, cap, flag)
                                    = attach_remote(m, dk, id, cap, flag)
    /\ \A h : InitiatorTable!LocalId(h) = LocalId(h)
    /\ \A m, id : InitiatorTable!prepare_to_verify(m, id) = prepare_to_verify(m, id)
    /\ \A m, id, queue : InitiatorTable!accept(m, id, queue) = accept(m, id, queue)
    /\ \A m, id, queue : InitiatorTable!NewChannel(m, id, queue)
                             = NewChannel(m, id, queue)
    /\ \A m, dk : InitiatorTable!remove(m, dk) = remove(m, dk)
    /\ \A m, dk : InitiatorTable!DroppedFlags(m, dk) = DroppedFlags(m, dk)
<1>1. InitiatorTable!NewChannelMap = NewChannelMap
  BY Zenon DEF InitiatorTable!NewChannelMap, NewChannelMap
<1>2. \A m, dk : InitiatorTable!has_channel(m, dk) <=> has_channel(m, dk)
  BY Zenon DEF InitiatorTable!has_channel, has_channel
<1>3. \A m : InitiatorTable!alloc_local(m) = alloc_local(m)
  BY Zenon DEF InitiatorTable!alloc_local, alloc_local, InitiatorTable!FreeIds,
     FreeIds, InitiatorTable!Min, Min
<1>4. \A m, key, flag : InitiatorTable!attach_local(m, key, flag)
                            = attach_local(m, key, flag)
  BY DEF InitiatorTable!attach_local, attach_local,
         InitiatorTable!alloc_local, alloc_local, InitiatorTable!FreeIds,
         FreeIds, InitiatorTable!Min, Min, InitiatorTable!HandleOrNew,
         HandleOrNew, InitiatorTable!NewHandle, NewHandle,
         InitiatorTable!InsertHandle, InsertHandle, InitiatorTable!SetEntry,
         SetEntry, InitiatorTable!LocalIdsAfterAlloc, LocalIdsAfterAlloc,
         InitiatorTable!has_channel, has_channel
<1>5. \A m, dk, id, cap, flag : InitiatorTable!attach_remote(m, dk, id, cap, flag)
                                   = attach_remote(m, dk, id, cap, flag)
  BY DEF InitiatorTable!attach_remote, attach_remote,
         InitiatorTable!alloc_remote, alloc_remote,
         InitiatorTable!HandleOrNew, HandleOrNew, InitiatorTable!NewHandle,
         NewHandle, InitiatorTable!InsertHandle, InsertHandle,
         InitiatorTable!SetEntry, SetEntry, InitiatorTable!Resize, Resize,
         InitiatorTable!has_channel, has_channel
<1>6. \A h : InitiatorTable!LocalId(h) = LocalId(h)
  BY Zenon DEF InitiatorTable!LocalId, LocalId
<1>7. \A m, id : InitiatorTable!prepare_to_verify(m, id) = prepare_to_verify(m, id)
  BY DEF InitiatorTable!prepare_to_verify, prepare_to_verify,
         InitiatorTable!get_local, get_local, InitiatorTable!Entry, Entry,
         InitiatorTable!has_channel, has_channel, InitiatorTable!is_connected,
         is_connected
<1>8. \A m, id, queue : InitiatorTable!accept(m, id, queue) = accept(m, id, queue)
  BY DEF InitiatorTable!accept, accept, InitiatorTable!get_local, get_local,
         InitiatorTable!Entry, Entry, InitiatorTable!has_channel, has_channel,
         InitiatorTable!InsertHandle, InsertHandle
<1>9. \A m, id, queue : InitiatorTable!NewChannel(m, id, queue)
                            = NewChannel(m, id, queue)
  BY DEF InitiatorTable!NewChannel, NewChannel, InitiatorTable!get_local,
         get_local, InitiatorTable!Entry, Entry, InitiatorTable!has_channel,
         has_channel, InitiatorTable!LocalId, LocalId
<1>10. \A m, dk : InitiatorTable!remove(m, dk) = remove(m, dk)
  BY Zenon DEF InitiatorTable!remove, remove, InitiatorTable!has_channel,
     has_channel, InitiatorTable!LocalId, LocalId, InitiatorTable!RemoteId,
     RemoteId, InitiatorTable!SetEntry, SetEntry
<1>11. \A m, dk : InitiatorTable!DroppedFlags(m, dk) = DroppedFlags(m, dk)
  BY Zenon DEF InitiatorTable!DroppedFlags, DroppedFlags,
     InitiatorTable!has_channel, has_channel
<1> QED
  BY <1>1, <1>2, <1>3, <1>4, <1>5, <1>6, <1>7, <1>8, <1>9, <1>10, <1>11, Zenon

(***************************************************************************)
(* Every step is, for the initiator's table, a call that ChannelMapSpec    *)
(* allows or none, with any ids on the wire.                               *)
(***************************************************************************)
THEOREM InitiatorTableRefines ==
    ASSUME Ids = Nat
    PROVE  Spec => InitiatorTableImplemented
<1>0. Initiator \in Peers
  BY Zenon DEF Peers
<1>1. Init => InitiatorTable!Init
  BY <1>0, InitiatorTableOps, SMTT(30) DEF Init, InitiatorTable!Init
<1>2. ASSUME IInv, TableCall(Initiator)
      PROVE  UNCHANGED InitiatorTable!vars \/ InitiatorTable!Next
  <2> USE DEF InitiatorTable!FlagsAfter, FlagCount
  <2>1. ASSUME NEW key \in asked[Initiator], LocalCall(Initiator, key)
        PROVE  InitiatorTable!AttachLocal(key) \/ InitiatorTable!AcceptLocal(key)
    BY <1>0, <1>2, <2>1, CallValues, InitiatorTableOps, Zenon
       DEF LocalCall, AcceptCall, InitiatorTable!AttachLocal,
           InitiatorTable!AcceptLocal, InitiatorTable!AcceptIn
  <2>2. ASSUME NEW dk \in DKeys, NEW id \in Nat, NEW cap \in CapsMade,
               RemoteCall(Initiator, dk, id, cap)
        PROVE  \/ InitiatorTable!AttachRemote(dk, id, cap)
               \/ InitiatorTable!AcceptRemote(dk, id, cap)
    BY <1>0, <1>2, <2>2, CallValues, InitiatorTableOps, Zenon
       DEF RemoteCall, AcceptCall, InitiatorTable!AttachRemote,
           InitiatorTable!AcceptRemote, InitiatorTable!AcceptIn
  <2>3. ASSUME NEW dk \in DKeys, RemoveCall(Initiator, dk)
        PROVE  InitiatorTable!RemoveChannel(dk)
    BY <2>3, InitiatorTableOps, Zenon DEF RemoveCall, InitiatorTable!RemoveChannel
  <2>4. ASSUME NEW n \in Cids(Initiator), CloseCall(Initiator, n)
        PROVE  n \in 1..Len(chans[Initiator]) /\ InitiatorTable!CloseChannel(n)
    BY <2>4, Zenon DEF CloseCall, InitiatorTable!CloseChannel, Cids
  <2>5. UNCHANGED Table(Initiator) => UNCHANGED InitiatorTable!vars
    BY Zenon DEF Table, InitiatorTable!vars
  <2>6. asked[Initiator] \subseteq Keys /\ CapsMade \subseteq Caps \cup {None}
    BY <1>0, <1>2, CallValues, Zenon
  <2> QED
    BY <1>2, <2>1, <2>2, <2>3, <2>4, <2>5, <2>6, Zenon DEF TableCall,
       InitiatorTable!Next
<1>3. IInv /\ [Next]_vars =>
          [UNCHANGED InitiatorTable!vars \/ InitiatorTable!Next]_tableVars
  <2>1. UNCHANGED vars => UNCHANGED tableVars
    BY Zenon DEF vars
  <2>2. ASSUME IInv, NEW p \in Peers, PollNext(p) \/ App(p)
        PROVE  UNCHANGED InitiatorTable!vars \/ InitiatorTable!Next
    <3>1. TableCall(p) /\ UNCHANGED Table(Other(p))
      BY <2>2, OneTableCall, Zenon
    <3>2. CASE p = Initiator
      BY <1>2, <2>2, <3>1, <3>2, Zenon
    <3>3. CASE Other(p) = Initiator
      BY <3>1, <3>3, Zenon DEF Table, InitiatorTable!vars
    <3> QED
      BY <1>0, <3>2, <3>3, OtherPeer, Zenon
  <2> QED
    BY <2>1, <2>2, Zenon DEF Next
<1> QED
  BY <1>1, <1>3, SpecIInv, PTL DEF Spec, InitiatorTableImplemented

\* The methods of module ChannelMap are those of the responder's table.
LEMMA ResponderTableOps ==
    /\ ResponderTable!NewChannelMap = NewChannelMap
    /\ \A m, dk : ResponderTable!has_channel(m, dk) <=> has_channel(m, dk)
    /\ \A m : ResponderTable!alloc_local(m) = alloc_local(m)
    /\ \A m, key, flag : ResponderTable!attach_local(m, key, flag)
                             = attach_local(m, key, flag)
    /\ \A m, dk, id, cap, flag : ResponderTable!attach_remote(m, dk, id, cap, flag)
                                    = attach_remote(m, dk, id, cap, flag)
    /\ \A h : ResponderTable!LocalId(h) = LocalId(h)
    /\ \A m, id : ResponderTable!prepare_to_verify(m, id) = prepare_to_verify(m, id)
    /\ \A m, id, queue : ResponderTable!accept(m, id, queue) = accept(m, id, queue)
    /\ \A m, id, queue : ResponderTable!NewChannel(m, id, queue)
                             = NewChannel(m, id, queue)
    /\ \A m, dk : ResponderTable!remove(m, dk) = remove(m, dk)
    /\ \A m, dk : ResponderTable!DroppedFlags(m, dk) = DroppedFlags(m, dk)
<1>1. ResponderTable!NewChannelMap = NewChannelMap
  BY Zenon DEF ResponderTable!NewChannelMap, NewChannelMap
<1>2. \A m, dk : ResponderTable!has_channel(m, dk) <=> has_channel(m, dk)
  BY Zenon DEF ResponderTable!has_channel, has_channel
<1>3. \A m : ResponderTable!alloc_local(m) = alloc_local(m)
  BY Zenon DEF ResponderTable!alloc_local, alloc_local, ResponderTable!FreeIds,
     FreeIds, ResponderTable!Min, Min
<1>4. \A m, key, flag : ResponderTable!attach_local(m, key, flag)
                            = attach_local(m, key, flag)
  BY DEF ResponderTable!attach_local, attach_local,
         ResponderTable!alloc_local, alloc_local, ResponderTable!FreeIds,
         FreeIds, ResponderTable!Min, Min, ResponderTable!HandleOrNew,
         HandleOrNew, ResponderTable!NewHandle, NewHandle,
         ResponderTable!InsertHandle, InsertHandle, ResponderTable!SetEntry,
         SetEntry, ResponderTable!LocalIdsAfterAlloc, LocalIdsAfterAlloc,
         ResponderTable!has_channel, has_channel
<1>5. \A m, dk, id, cap, flag : ResponderTable!attach_remote(m, dk, id, cap, flag)
                                   = attach_remote(m, dk, id, cap, flag)
  BY DEF ResponderTable!attach_remote, attach_remote,
         ResponderTable!alloc_remote, alloc_remote,
         ResponderTable!HandleOrNew, HandleOrNew, ResponderTable!NewHandle,
         NewHandle, ResponderTable!InsertHandle, InsertHandle,
         ResponderTable!SetEntry, SetEntry, ResponderTable!Resize, Resize,
         ResponderTable!has_channel, has_channel
<1>6. \A h : ResponderTable!LocalId(h) = LocalId(h)
  BY Zenon DEF ResponderTable!LocalId, LocalId
<1>7. \A m, id : ResponderTable!prepare_to_verify(m, id) = prepare_to_verify(m, id)
  BY DEF ResponderTable!prepare_to_verify, prepare_to_verify,
         ResponderTable!get_local, get_local, ResponderTable!Entry, Entry,
         ResponderTable!has_channel, has_channel, ResponderTable!is_connected,
         is_connected
<1>8. \A m, id, queue : ResponderTable!accept(m, id, queue) = accept(m, id, queue)
  BY DEF ResponderTable!accept, accept, ResponderTable!get_local, get_local,
         ResponderTable!Entry, Entry, ResponderTable!has_channel, has_channel,
         ResponderTable!InsertHandle, InsertHandle
<1>9. \A m, id, queue : ResponderTable!NewChannel(m, id, queue)
                            = NewChannel(m, id, queue)
  BY DEF ResponderTable!NewChannel, NewChannel, ResponderTable!get_local,
         get_local, ResponderTable!Entry, Entry, ResponderTable!has_channel,
         has_channel, ResponderTable!LocalId, LocalId
<1>10. \A m, dk : ResponderTable!remove(m, dk) = remove(m, dk)
  BY Zenon DEF ResponderTable!remove, remove, ResponderTable!has_channel,
     has_channel, ResponderTable!LocalId, LocalId, ResponderTable!RemoteId,
     RemoteId, ResponderTable!SetEntry, SetEntry
<1>11. \A m, dk : ResponderTable!DroppedFlags(m, dk) = DroppedFlags(m, dk)
  BY Zenon DEF ResponderTable!DroppedFlags, DroppedFlags,
     ResponderTable!has_channel, has_channel
<1> QED
  BY <1>1, <1>2, <1>3, <1>4, <1>5, <1>6, <1>7, <1>8, <1>9, <1>10, <1>11, Zenon

(***************************************************************************)
(* Every step is, for the responder's table, a call that ChannelMapSpec    *)
(* allows or none, with any ids on the wire.                               *)
(***************************************************************************)
THEOREM ResponderTableRefines ==
    ASSUME Ids = Nat
    PROVE  Spec => ResponderTableImplemented
<1>0. Responder \in Peers
  BY Zenon DEF Peers
<1>1. Init => ResponderTable!Init
  BY <1>0, ResponderTableOps DEF Init, ResponderTable!Init
<1>2. ASSUME IInv, TableCall(Responder)
      PROVE  UNCHANGED ResponderTable!vars \/ ResponderTable!Next
  <2> USE DEF ResponderTable!FlagsAfter, FlagCount
  <2>1. ASSUME NEW key \in asked[Responder], LocalCall(Responder, key)
        PROVE  ResponderTable!AttachLocal(key) \/ ResponderTable!AcceptLocal(key)
    BY <1>0, <1>2, <2>1, CallValues, ResponderTableOps, Zenon
       DEF LocalCall, AcceptCall, ResponderTable!AttachLocal,
           ResponderTable!AcceptLocal, ResponderTable!AcceptIn
  <2>2. ASSUME NEW dk \in DKeys, NEW id \in Nat, NEW cap \in CapsMade,
               RemoteCall(Responder, dk, id, cap)
        PROVE  \/ ResponderTable!AttachRemote(dk, id, cap)
               \/ ResponderTable!AcceptRemote(dk, id, cap)
    BY <1>0, <1>2, <2>2, CallValues, ResponderTableOps, Zenon
       DEF RemoteCall, AcceptCall, ResponderTable!AttachRemote,
           ResponderTable!AcceptRemote, ResponderTable!AcceptIn
  <2>3. ASSUME NEW dk \in DKeys, RemoveCall(Responder, dk)
        PROVE  ResponderTable!RemoveChannel(dk)
    BY <2>3, ResponderTableOps, Zenon DEF RemoveCall, ResponderTable!RemoveChannel
  <2>4. ASSUME NEW n \in Cids(Responder), CloseCall(Responder, n)
        PROVE  n \in 1..Len(chans[Responder]) /\ ResponderTable!CloseChannel(n)
    BY <2>4, Zenon DEF CloseCall, ResponderTable!CloseChannel, Cids
  <2>5. UNCHANGED Table(Responder) => UNCHANGED ResponderTable!vars
    BY Zenon DEF Table, ResponderTable!vars
  <2>6. asked[Responder] \subseteq Keys /\ CapsMade \subseteq Caps \cup {None}
    BY <1>0, <1>2, CallValues, Zenon
  <2> QED
    BY <1>2, <2>1, <2>2, <2>3, <2>4, <2>5, <2>6, Zenon DEF TableCall,
       ResponderTable!Next
<1>3. IInv /\ [Next]_vars =>
          [UNCHANGED ResponderTable!vars \/ ResponderTable!Next]_tableVars
  <2>1. UNCHANGED vars => UNCHANGED tableVars
    BY Zenon DEF vars
  <2>2. ASSUME IInv, NEW p \in Peers, PollNext(p) \/ App(p)
        PROVE  UNCHANGED ResponderTable!vars \/ ResponderTable!Next
    <3>1. TableCall(p) /\ UNCHANGED Table(Other(p))
      BY <2>2, OneTableCall, Zenon
    <3>2. CASE p = Responder
      BY <1>2, <2>2, <3>1, <3>2, Zenon
    <3>3. CASE Other(p) = Responder
      BY <3>1, <3>3, Zenon DEF Table, ResponderTable!vars
    <3> QED
      BY <1>0, <3>2, <3>3, OtherPeer, Zenon
  <2> QED
    BY <2>1, <2>2, Zenon DEF Next
<1> QED
  BY <1>1, <1>3, SpecIInv, PTL DEF Spec, ResponderTableImplemented
=============================================================================
