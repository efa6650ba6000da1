------------------------- MODULE ProtocolTableSteps -------------------------
(***************************************************************************)
(* What a step does to the two tables: it is one of the calls that module  *)
(* ChannelMapSpec describes, it keeps the tables and their handles as the  *)
(* invariant of a connection says, and a flag that is set announces the    *)
(* end of its handle.                                                      *)
(***************************************************************************)
EXTENDS ProtocolInvariant, ChannelMapTheory

\* A change of the variables at p does not concern the other endpoint.
LEMMA TwoPeers ==
    ASSUME NEW p \in Peers
    PROVE  Other(p) \in Peers /\ Other(p) # p /\ Peers = {p, Other(p)}
BY Zenon DEF Peers, Other, Initiator, Responder

\* What the invariant says of one table.
LEMMA TableFacts ==
    ASSUME TablesOK, NEW p \in Peers
    PROVE  /\ ChannelMapType(cm[p]) /\ flags[p] \in Nat /\ Len(cm[p].local_id) > 0
           /\ FlagsOwned(cm[p], flags[p], chans[p])
           /\ closed[p] \subseteq 0..(flags[p] - 1)
           /\ chans[p] \in Seq(Channel) /\ Len(chans[p]) \in Nat
<1>1. TableInv(cm[p], closed[p], flags[p], chans[p])
  BY Zenon DEF TablesOK
<1>2. /\ TableOK(cm[p]) /\ flags[p] \in Nat /\ closed[p] \subseteq 0..(flags[p] - 1)
      /\ FlagsOwned(cm[p], flags[p], chans[p]) /\ chans[p] \in Seq(Channel)
  BY ONLY <1>1, Zenon DEF TableInv
<1>3. ChannelMapType(cm[p]) /\ Len(cm[p].local_id) > 0
  BY ONLY <1>2, Zenon DEF TableOK, LocalSlotsOwned
<1> QED
  BY ONLY <1>2, <1>3

\* The calls of on_open.
LEMMA OnOpenCalls ==
    ASSUME Shape, NEW p \in Peers, HeadsOK(p),
           OnOpenAnnounce(p) \/ OnOpenAccept(p) \/ OnOpenRefuse(p)
    PROVE  TableCall(p) /\ UNCHANGED Table(Other(p))
<1> DEFINE dk  == Message(p).discovery_key
           id  == Message(p).channel
           cap == Message(p).capability
           m   == attach_remote(cm[p], dk, id, cap, flags[p])
<1>1. HasMessage(p) /\ Message(p).type = "Open"
  BY Zenon DEF OnOpenAnnounce, OnOpenAccept, OnOpenRefuse
<1>2. dk \in DKeys /\ id \in Nat /\ cap \in CapsMade /\ Secured(p)
  BY <1>1, Zenon DEF HeadsOK
<1>3. m = RemoteAttached(p)
  BY Zenon DEF RemoteAttached
<1>4. /\ flags' = FlagsAfter(p, dk) /\ closed' = closed
      /\ \/ cm' = [cm EXCEPT ![p] = m] /\ chans' = chans
         \/ /\ is_connected(m.channels[dk])
            /\ Verified(p, m, LocalId(m.channels[dk]))
            /\ accept_channel(p, m, LocalId(m.channels[dk]))
  BY <1>3, Zenon DEF OnOpenAnnounce, OnOpenAccept, OnOpenRefuse
<1> HIDE DEF m, dk, id, cap
<1>5. /\ flags'[p] = FlagCount(cm[p], flags[p], dk) /\ closed'[p] = closed[p]
      /\ flags'[Other(p)] = flags[Other(p)] /\ closed'[Other(p)] = closed[Other(p)]
  BY <1>4, TwoPeers, Zenon DEF FlagsAfter, FlagCount, Shape
<1>6. CASE cm' = [cm EXCEPT ![p] = m] /\ chans' = chans
  <2>1. cm'[p] = m /\ chans'[p] = chans[p]
    BY <1>6, Zenon DEF Shape
  <2>2. RemoteCall(p, dk, id, cap)
    BY <1>2, <1>5, <2>1, Zenon DEF RemoteCall, m
  <2> QED
    BY <1>2, <1>5, <1>6, <2>2, TwoPeers DEF TableCall, Table
<1>7. CASE /\ is_connected(m.channels[dk])
           /\ Verified(p, m, LocalId(m.channels[dk]))
           /\ accept_channel(p, m, LocalId(m.channels[dk]))
  <2>1. AcceptCall(p, m, LocalId(m.channels[dk]))
    BY <1>7, Zenon DEF AcceptCall, accept_channel, Shape
  <2>2. RemoteCall(p, dk, id, cap)
    BY <1>2, <1>5, <1>7, <2>1, Zenon DEF RemoteCall, m
  <2>3. cm'[Other(p)] = cm[Other(p)] /\ chans'[Other(p)] = chans[Other(p)]
    BY <1>7, TwoPeers DEF accept_channel
  <2> QED
    BY <1>2, <1>5, <2>2, <2>3, Zenon DEF TableCall, Table
<1> QED
  BY <1>4, <1>6, <1>7, Zenon

\* The calls of command_open.
LEMMA CommandOpenCalls ==
    ASSUME Shape, AppOK, TablesOK, NEW p \in Peers, HeadsOK(p),
           CommandOpenFirst(p) \/ CommandOpenAccept(p) \/ CommandOpenRefuse(p)
    PROVE  TableCall(p) /\ UNCHANGED Table(Other(p))
<1> DEFINE key == Head(commands[p]).key
           dk  == DiscoveryKey[key]
           m   == attach_local(cm[p], key, flags[p])
<1>1. Commanded(p, "open")
  BY Zenon DEF CommandOpenFirst, CommandOpenAccept, CommandOpenRefuse
<1>2. key \in asked[p] /\ key \in Keys
  BY <1>1, Zenon DEF HeadsOK, AppOK
<1>3. m = LocalAttached(p, key)
  BY Zenon DEF LocalAttached
<1>4. /\ flags' = FlagsAfter(p, dk) /\ closed' = closed
      /\ \/ cm' = [cm EXCEPT ![p] = m] /\ chans' = chans
         \/ /\ Verified(p, m, LocalId(m.channels[dk]))
            /\ accept_channel(p, m, LocalId(m.channels[dk]))
  BY <1>3, Zenon DEF CommandOpenFirst, CommandOpenAccept, CommandOpenRefuse
<1>5. LocalId(m.channels[dk]) = alloc_local(cm[p])
  <2>1. ChannelMapType(cm[p]) /\ Len(cm[p].local_id) > 0 /\ flags[p] \in Nat
    BY Zenon DEF TablesOK, TableInv, TableOK, LocalSlotsOwned
  <2>2. m.channels[dk].local_state = [key |-> key, local_id |-> alloc_local(cm[p])]
    <3>1. m = attach_local(cm[p], key, flags[p]) /\ dk = DiscoveryKey[key]
      BY Zenon
    <3> HIDE DEF m, dk, key
    <3> QED
      BY ONLY <1>2, <2>1, <3>1, AttachLocalHandle
  <2> HIDE DEF m, dk, key
  <2> QED
    BY <2>2 DEF LocalId
<1> HIDE DEF m, dk, key
<1>6. /\ flags'[p] = FlagCount(cm[p], flags[p], dk) /\ closed'[p] = closed[p]
      /\ flags'[Other(p)] = flags[Other(p)] /\ closed'[Other(p)] = closed[Other(p)]
  BY <1>4, TwoPeers, Zenon DEF FlagsAfter, FlagCount, Shape
<1>7. CASE cm' = [cm EXCEPT ![p] = m] /\ chans' = chans
  <2>1. LocalCall(p, key)
    BY <1>6, <1>7, Zenon DEF LocalCall, Shape, m, dk
  <2> QED
    BY <1>2, <1>6, <1>7, <2>1, TwoPeers DEF TableCall, Table
<1>8. CASE /\ Verified(p, m, LocalId(m.channels[dk]))
           /\ accept_channel(p, m, LocalId(m.channels[dk]))
  <2>1. AcceptCall(p, m, alloc_local(cm[p]))
    BY <1>5, <1>8, Zenon DEF AcceptCall, accept_channel, Shape
  <2>2. LocalCall(p, key)
    BY <1>6, <2>1, Zenon DEF LocalCall, m, dk
  <2>3. cm'[Other(p)] = cm[Other(p)] /\ chans'[Other(p)] = chans[Other(p)]
    BY <1>8, TwoPeers DEF accept_channel
  <2> QED
    BY <1>2, <1>6, <2>2, <2>3, Zenon DEF TableCall, Table
<1> QED
  BY <1>4, <1>7, <1>8, Zenon

\* A removal, in on_close, command_close and close_local.
LEMMA RemoveAndNotifyCalls ==
    ASSUME Shape, TablesOK, NEW p \in Peers, NEW dk, has_channel(cm[p], dk),
           RemoveAndNotify(p, dk), UNCHANGED <<flags, chans>>
    PROVE  TableCall(p) /\ UNCHANGED Table(Other(p))
<1>1. dk \in DKeys
  BY Zenon DEF TablesOK, TableInv, TableOK, ChannelMapType, has_channel
<1>2. RemoveCall(p, dk)
  BY Zenon DEF RemoveCall, RemoveAndNotify, Shape
<1>3. UNCHANGED Table(Other(p))
  BY TwoPeers DEF Table, RemoveAndNotify
<1> QED
  BY <1>1, <1>2, <1>3, Zenon DEF TableCall

\* A method that is about to set a flag is the close of a Channel.
LEMMA StoringTask ==
    ASSUME TasksOK, NEW p \in Peers, NEW t \in Tasks, task[p][t].op = "store"
    PROVE  \E n \in Cids(p) : task[p][t] = Storing(chans[p][n].closed)
<1> DEFINE bs == Single(Signals) \cup Seq(Datas)
           w  == task[p][t]
<1>1. TaskOK(p, w)
  BY Zenon DEF TasksOK
<1>2. w # Idle
  BY DEF Idle
<1>3. \A n : w # Closing(p, n)
  BY DEF Closing
<1> HIDE DEF bs, w
<1>4. w.op = "store" => w \notin [op : {"send"}, batch : bs]
  OBVIOUS
<1>5. w.op = "store" => w \notin [op : {"send"}, batch : Single(Signals) \cup Seq(Datas)]
  BY ONLY <1>4, Zenon DEF bs
<1> QED
  BY <1>1, <1>2, <1>3, <1>5, Zenon DEF TaskOK, w

\* Only these steps change a table.
LEMMA TableStep ==
    ASSUME Shape, AppOK, TasksOK, TablesOK, NEW p \in Peers, HeadsOK(p),
           PollNext(p) \/ App(p)
    PROVE  TableCall(p) /\ UNCHANGED Table(Other(p))
<1> DEFINE Goal == TableCall(p) /\ UNCHANGED Table(Other(p))
<1>1. ASSUME UNCHANGED <<cm, closed, flags, chans>>
      PROVE  Goal
  BY <1>1, Zenon DEF TableCall, Table
<1>2. ASSUME NEW dk, dk # None, has_channel(cm[p], dk), RemoveAndNotify(p, dk),
             UNCHANGED <<flags, chans>>
      PROVE  Goal
  BY <1>2, RemoveAndNotifyCalls, Zenon
<1>3. \A id : /\ get_local(cm[p], id) # None => has_channel(cm[p], get_local(cm[p], id))
              /\ get_remote(cm[p], id) # None => has_channel(cm[p], get_remote(cm[p], id))
  BY Zenon DEF get_local, get_remote
<1> SUFFICES Goal
  BY Zenon
<1> HIDE DEF Goal
<1>4. CASE PollEntry(p)
  <2>1. UNCHANGED <<cm, closed, flags, chans>>
    BY <1>4, Zenon DEF PollEntry, PollGate, PollHandshake, PollQueued, PollStart,
       tableVars
  <2> QED
    BY <1>1, <2>1, Zenon
<1>5. CASE InboundRead(p)
  <2>1. CASE OnOpenAnnounce(p) \/ OnOpenAccept(p) \/ OnOpenRefuse(p)
    BY <2>1, OnOpenCalls, Zenon DEF Goal
  <2>2. CASE OnClose(p)
    <3> DEFINE dk == get_remote(cm[p], Message(p).channel)
    <3>1. UNCHANGED <<flags, chans>>
      BY <2>2, Zenon DEF OnClose
    <3>2. CASE dk = None
      <4>1. UNCHANGED <<cm, closed>>
        BY <2>2, <3>2, Zenon DEF OnClose
      <4> QED
        BY <1>1, <3>1, <4>1, Zenon
    <3>3. CASE dk # None
      <4>1. RemoveAndNotify(p, dk)
        BY <2>2, <3>3, Zenon DEF OnClose
      <4> QED
        BY <1>2, <1>3, <3>1, <3>3, <4>1, Zenon
    <3> QED
      BY <3>2, <3>3, Zenon
  <2>3. CASE \/ ReadHandshake(p) \/ ReadBadFrame(p) \/ ForwardInbound(p)
             \/ ForwardFails(p) \/ InboundPending(p)
    <3>1. UNCHANGED <<cm, closed, flags, chans>>
      BY <2>3, Zenon DEF ReadHandshake, ReadBadFrame, ForwardInbound, ForwardFails,
                  InboundPending, tableVars
    <3> QED
      BY <1>1, <3>1, Zenon
  <2> QED
    BY <1>5, <2>1, <2>2, <2>3, Zenon DEF InboundRead
<1>6. CASE Commands(p)
  <2>1. CASE CommandOpenFirst(p) \/ CommandOpenAccept(p) \/ CommandOpenRefuse(p)
    BY <2>1, CommandOpenCalls, Zenon DEF Goal
  <2>2. CASE CommandClose(p)
    <3> DEFINE dk == Head(commands[p]).discovery_key
    <3>1. dk \in DKeys /\ dk # None
      BY <2>2, NoneAssumption, Zenon DEF HeadsOK, CommandClose
    <3>2. /\ IF has_channel(cm[p], dk) THEN RemoveAndNotify(p, dk)
                                      ELSE UNCHANGED <<cm, closed>>
          /\ UNCHANGED <<flags, chans>>
      BY <2>2, Zenon DEF CommandClose
    <3> QED
      BY <1>1, <1>2, <3>1, <3>2, Zenon
  <2>3. CASE CommandSignal(p) \/ CommandsPending(p)
    <3>1. UNCHANGED <<cm, closed, flags, chans>>
      BY <2>3, Zenon DEF CommandSignal, CommandsPending, tableVars
    <3> QED
      BY <1>1, <3>1, Zenon
  <2> QED
    BY <1>6, <2>1, <2>2, <2>3, Zenon DEF Commands
<1>7. CASE OutboundWrite(p)
  <2>1. CASE PopClose(p)
    <3> DEFINE dk == get_local(cm[p], Head(Head(outbound[p])).channel)
    <3>1. /\ IF dk # None THEN RemoveAndNotify(p, dk) ELSE UNCHANGED <<cm, closed>>
          /\ UNCHANGED <<flags, chans>>
      BY <2>1, Zenon DEF PopClose
    <3> QED
      BY <1>1, <1>2, <1>3, <3>1, Zenon
  <2>2. CASE WriteFrame(p) \/ PopSignal(p) \/ PopData(p) \/ PopEmpty(p) \/ PollEnd(p)
    <3>1. UNCHANGED <<cm, closed, flags, chans>>
      BY <2>2, Zenon DEF WriteFrame, PopSignal, PopData, PopEmpty, PollEnd, tableVars
    <3> QED
      BY <1>1, <3>1, Zenon
  <2> QED
    BY <1>7, <2>1, <2>2, Zenon DEF OutboundWrite
<1>8. CASE App(p)
  <2>1. ASSUME NEW t \in Tasks, StoreClosed(p, t)
        PROVE  Goal
    <3>1. task[p][t].op = "store"
      BY <2>1, Zenon DEF StoreClosed
    <3>2. PICK n \in Cids(p) : task[p][t] = Storing(chans[p][n].closed)
      BY <3>1, StoringTask, Zenon
    <3>3. task[p][t].flag = chans[p][n].closed
      BY ONLY <3>2 DEF Storing
    <3>4. /\ closed' = [closed EXCEPT ![p] = @ \cup {chans[p][n].closed}]
          /\ UNCHANGED <<cm, flags, chans>>
      BY <2>1, <3>3, Zenon DEF StoreClosed
    <3>5. CloseCall(p, n)
      BY <3>2, <3>4, Zenon DEF CloseCall, Shape
    <3>6. UNCHANGED Table(Other(p))
      BY <3>4, TwoPeers DEF Table
    <3> QED
      BY <3>5, <3>6, Zenon DEF TableCall, Goal
  <2>2. ASSUME NEW key, Open(p, key) \/ DriverOpen(p, key)
        PROVE  Goal
    BY <1>1, <2>2, Zenon DEF Open, DriverOpen, tableVars
  <2>3. ASSUME NEW dk, CloseByKey(p, dk)
        PROVE  Goal
    BY <1>1, <2>3, Zenon DEF CloseByKey, tableVars
  <2>4. CASE SignalLocal(p)
    BY <1>1, <2>4, Zenon DEF SignalLocal, tableVars
  <2>5. ASSUME NEW t, NEW n, NEW size,
               \/ BeginSend(p, t, n, size) \/ BeginEmpty(p, t, n)
               \/ BeginSignal(p, t, n) \/ BeginClose(p, t, n)
        PROVE  Goal
    <3>1. UNCHANGED <<cm, closed, flags, chans>>
      BY <2>5, Zenon DEF BeginSend, BeginEmpty, BeginSignal, BeginClose, Begin,
         tableVars
    <3> QED
      BY <1>1, <3>1, Zenon
  <2>6. ASSUME NEW n, SendDirect(p, n) \/ DropReceiver(p, n)
        PROVE  Goal
    BY <1>1, <2>6, Zenon DEF SendDirect, DropReceiver, tableVars
  <2>7. ASSUME NEW t, Finish(p, t)
        PROVE  Goal
    BY <1>1, <2>7, Zenon DEF Finish, tableVars
  <2> QED
    BY <1>8, <2>1, <2>2, <2>3, <2>4, <2>5, <2>6, <2>7, Zenon DEF App
<1> QED
  BY <1>4, <1>5, <1>6, <1>7, <1>8, Zenon DEF PollNext

(***************************************************************************)
(* What a call does to the handles of p: one attached locally is of a key  *)
(* that was asked for, one attached remotely has a capability that came    *)
(* after the handshake, and a Channel is made from a handle whose          *)
(* capability is verified.                                                 *)
(***************************************************************************)
CallEffect(p) ==
    /\ HandlesFrom(cm[p], cm'[p], asked[p], {c \in CapsMade : Secured(p)}, chans[p])
    /\ \/ FlagsFrom(cm[p], cm'[p], flags[p], closed[p], closed'[p])
       \/ \E n \in Cids(p) : CloseCall(p, n)
    /\ \/ chans'[p] = chans[p]
       \/ \E d \in DOMAIN cm'[p].channels :
             LET h == cm'[p].channels[d]
             IN  /\ is_connected(h)
                 /\ h.remote_state.remote_capability =
                       replicate_capability(Other(p), h.local_state.key)
                 /\ \E c : c.key = h.local_state.key /\ chans'[p] = Append(chans[p], c)

\* The part of it that is about a new Channel.
LEMMA NewChannelEffect ==
    ASSUME NEW p \in Peers, Len(chans[p]) \in Nat, NEW m, ChannelMapType(m),
           NEW id, AcceptCall(p, m, id)
    PROVE  \E d \in DOMAIN cm'[p].channels :
              LET h == cm'[p].channels[d]
              IN  /\ is_connected(h)
                  /\ h.remote_state.remote_capability =
                        replicate_capability(Other(p), h.local_state.key)
                  /\ \E c : c.key = h.local_state.key /\ chans'[p] = Append(chans[p], c)
<1> DEFINE queue == Len(chans[p]) + 1
           c     == NewChannel(m, id, queue)
           v     == prepare_to_verify(m, id)
<1>1. /\ v # None /\ v.capability = replicate_capability(Other(p), v.key)
      /\ cm'[p] = accept(m, id, queue) /\ chans'[p] = Append(chans[p], c)
  BY Zenon DEF AcceptCall, Verified
<1>2. queue \in Nat
  OBVIOUS
<1> HIDE DEF queue
<1>3. PICK d \in DOMAIN cm'[p].channels :
          LET h == cm'[p].channels[d]
          IN  /\ is_connected(h)
              /\ c.key = h.local_state.key
              /\ v = [key |-> h.local_state.key,
                      capability |-> h.remote_state.remote_capability]
  BY ONLY <1>1, <1>2, ChannelMapType(m), AcceptedKey
<1> HIDE DEF c, v
<1>4. /\ v.key = cm'[p].channels[d].local_state.key
      /\ v.capability = cm'[p].channels[d].remote_state.remote_capability
  BY ONLY <1>3, Zenon
<1> QED
  BY ONLY <1>1, <1>3, <1>4, Zenon

\* Every call keeps the table sound.
LEMMA TablesStep ==
    ASSUME TablesOK, AppOK, NEW p \in Peers, TableCall(p), UNCHANGED Table(Other(p))
    PROVE  TablesOK' /\ CallEffect(p)
<1> DEFINE Sound(q) == TableInv(cm'[q], closed'[q], flags'[q], chans'[q])
           caps == {c \in CapsMade : Secured(p)}
           Goal == Sound(p) /\ CallEffect(p)
<1>1. TableInv(cm[p], closed[p], flags[p], chans[p]) /\ Len(chans[p]) \in Nat
  BY TableFacts, Zenon DEF TablesOK
<1>2. Sound(Other(p))
  BY TwoPeers, Zenon DEF TablesOK, Table
<1>3. ASSUME NEW m, NEW fl, TableInv(m, closed[p], fl, chans[p]),
             \/ cm'[p] = m /\ chans'[p] = chans[p]
             \/ \E id : AcceptCall(p, m, id),
             MaybeAccepted(m, cm'[p], chans[p], chans'[p]) =>
                /\ Sound(p)
                /\ HandlesFrom(cm[p], cm'[p], asked[p], caps, chans[p])
                /\ FlagsFrom(cm[p], cm'[p], flags[p], closed[p], closed'[p])
      PROVE  Goal
  <2>1. ChannelMapType(m)
    BY <1>3, Zenon DEF TableInv, TableOK
  <2>2. MaybeAccepted(m, cm'[p], chans[p], chans'[p])
    BY <1>3, Zenon DEF MaybeAccepted, AcceptCall, Verified
  <2> HIDE DEF Sound
  <2> QED
    BY <1>1, <1>3, <2>1, <2>2, NewChannelEffect, Zenon DEF CallEffect
<1>4. ASSUME cm'[p] = cm[p], chans'[p] = chans[p]
      PROVE  HandlesFrom(cm[p], cm'[p], asked[p], caps, chans[p])
  BY <1>4, Zenon DEF HandlesFrom
<1>5. ASSUME UNCHANGED Table(p)
      PROVE  Goal
  <2>1. FlagsFrom(cm[p], cm'[p], flags[p], closed[p], closed'[p])
    BY <1>5, Zenon DEF Table, FlagsFrom
  <2> QED
    BY <1>1, <1>4, <1>5, <2>1, Zenon DEF Table, CallEffect
<1>6. ASSUME NEW key \in asked[p], LocalCall(p, key)
      PROVE  Goal
  <2> DEFINE m  == attach_local(cm[p], key, flags[p])
             fl == FlagCount(cm[p], flags[p], DiscoveryKey[key])
  <2>1. key \in Keys
    BY Zenon DEF AppOK
  <2>2. TableInv(m, closed[p], fl, chans[p])
    BY <1>1, <2>1, AttachLocalInv, Zenon
  <2>3. /\ flags'[p] = fl /\ closed'[p] = closed[p]
        /\ \/ cm'[p] = m /\ chans'[p] = chans[p]
           \/ \E id : AcceptCall(p, m, id)
    BY <1>6, Zenon DEF LocalCall
  <2>4. MaybeAccepted(m, cm'[p], chans[p], chans'[p]) =>
            /\ TableInv(cm'[p], closed[p], fl, chans'[p])
            /\ HandlesFrom(cm[p], cm'[p], {key}, {}, chans[p])
            /\ FlagsFrom(cm[p], cm'[p], flags[p], closed[p], closed[p])
    BY ONLY <1>1, <2>1, LocalFrom, Zenon
  <2> HIDE DEF m, fl
  <2>5. HandlesFrom(cm[p], cm'[p], {key}, {}, chans[p]) =>
            HandlesFrom(cm[p], cm'[p], asked[p], caps, chans[p])
    BY Zenon DEF HandlesFrom
  <2> QED
    BY <1>3, <2>2, <2>3, <2>4, <2>5, Zenon
<1>7. ASSUME NEW dk \in DKeys, NEW id \in Nat, NEW cap \in CapsMade,
             RemoteCall(p, dk, id, cap)
      PROVE  Goal
  <2> DEFINE m  == attach_remote(cm[p], dk, id, cap, flags[p])
             fl == FlagCount(cm[p], flags[p], dk)
  <2>1. cap \in Caps \cup {None}
    BY Zenon DEF CapsMade
  <2>2. TableInv(m, closed[p], fl, chans[p])
    BY <1>1, <2>1, AttachRemoteInv, Zenon
  <2>3. /\ flags'[p] = fl /\ closed'[p] = closed[p] /\ cap \in caps
        /\ \/ cm'[p] = m /\ chans'[p] = chans[p]
           \/ \E i : AcceptCall(p, m, i)
    BY <1>7, Zenon DEF RemoteCall
  <2>4. MaybeAccepted(m, cm'[p], chans[p], chans'[p]) =>
            /\ TableInv(cm'[p], closed[p], fl, chans'[p])
            /\ HandlesFrom(cm[p], cm'[p], {}, {cap}, chans[p])
            /\ FlagsFrom(cm[p], cm'[p], flags[p], closed[p], closed[p])
    BY ONLY <1>1, dk \in DKeys, id \in Nat, <2>1, RemoteFrom, Zenon
  <2> HIDE DEF m, fl, caps
  <2>5. HandlesFrom(cm[p], cm'[p], {}, {cap}, chans[p]) =>
            HandlesFrom(cm[p], cm'[p], asked[p], caps, chans[p])
    BY <2>3, Zenon DEF HandlesFrom
  <2> QED
    BY <1>3, <2>2, <2>3, <2>4, <2>5, Zenon
<1>8. ASSUME NEW dk \in DKeys, RemoveCall(p, dk)
      PROVE  Goal
  <2>1. /\ has_channel(cm[p], dk) /\ cm'[p] = remove(cm[p], dk)
        /\ closed'[p] = closed[p] \cup DroppedFlags(cm[p], dk)
        /\ flags'[p] = flags[p] /\ chans'[p] = chans[p]
    BY <1>8, Zenon DEF RemoveCall
  <2>2. /\ Sound(p)
        /\ HandlesFrom(cm[p], cm'[p], {}, {}, chans[p])
        /\ FlagsFrom(cm[p], cm'[p], flags[p], closed[p], closed'[p])
    BY ONLY <1>1, <2>1, RemoveFrom, Zenon
  <2>3. HandlesFrom(cm[p], cm'[p], asked[p], caps, chans[p])
    BY <2>2, Zenon DEF HandlesFrom
  <2> QED
    BY <2>1, <2>2, <2>3, Zenon DEF CallEffect
<1>9. ASSUME NEW n \in Cids(p), CloseCall(p, n)
      PROVE  Goal
  <2>1. Sound(p)
    BY <1>1, <1>9, CloseInv DEF CloseCall, Cids
  <2>2. cm'[p] = cm[p] /\ chans'[p] = chans[p]
    BY <1>9, Zenon DEF CloseCall
  <2> QED
    BY <1>4, <1>9, <2>1, <2>2, Zenon DEF CallEffect
<1> HIDE DEF Goal
<1>10. Goal
  BY <1>5, <1>6, <1>7, <1>8, <1>9, Zenon DEF TableCall
<1> QED
  BY <1>2, <1>10, TwoPeers, Zenon DEF TablesOK, Goal

\* A completed handshake stays completed.
LEMMA SecuredStays ==
    ASSUME Shape, NEW p \in Peers, PollNext(p) \/ App(p), NEW q \in Peers, Secured(q)
    PROVE  Secured(q)'
<1> USE DEF Secured, ioVars
<1>1. CASE PollEntry(p)
  BY <1>1, Zenon DEF PollEntry, PollGate, PollHandshake, PollQueued, PollStart,
     Shape
<1>2. CASE ReadHandshake(p)
  BY <1>2 DEF ReadHandshake
<1>3. CASE InboundRead(p) /\ ~ReadHandshake(p)
  BY <1>3, Zenon DEF InboundRead, ReadBadFrame, OnOpenAnnounce, OnOpenAccept, OnOpenRefuse,
              OnClose, ForwardInbound, ForwardFails, InboundPending
<1>4. CASE Commands(p)
  BY <1>4, Zenon DEF Commands, CommandOpenFirst, CommandOpenAccept, CommandOpenRefuse,
              CommandClose, CommandSignal, CommandsPending
<1>5. CASE OutboundWrite(p)
  BY <1>5, Zenon DEF OutboundWrite, WriteFrame, PopClose, PopSignal, PopData, PopEmpty,
              PollEnd
<1>6. CASE App(p)
  BY <1>6, Zenon DEF App, Open, DriverOpen, CloseByKey, SignalLocal, BeginSend, BeginEmpty,
              BeginSignal, BeginClose, Begin, Finish, StoreClosed, SendDirect,
              DropReceiver
<1> QED
  BY <1>1, <1>2, <1>3, <1>4, <1>5, <1>6, Zenon DEF PollNext

-----------------------------------------------------------------------------
(***************************************************************************)
(* Handles: attached locally by request, remotely after the handshake.     *)
(***************************************************************************)
\* A verified capability was made by the remote for the key of the handle.
LEMMA VerifiedKey ==
    ASSUME AppOK, NEW p \in Peers, NEW h, HandleOK(p, h), is_connected(h),
           h.remote_state.remote_capability =
               replicate_capability(Other(p), h.local_state.key)
    PROVE  h.local_state.key \in asked[p] \cap asked[Other(p)]
<1> DEFINE key == h.local_state.key
           c   == replicate_capability(Other(p), key)
<1>1. key \in asked[p] /\ c \in CapsMade
  BY Zenon DEF HandleOK, is_connected
<1>2. c.key = key /\ c.role = Other(p)
  BY Zenon DEF replicate_capability
<1>3. c # None
  <2>1. key \in Keys
    BY <1>1, Zenon DEF AppOK
  <2>2. c \in Caps
    BY <2>1, CapsAssumption, TwoPeers
  <2> QED
    BY <2>2, CapsAssumption, Zenon
<1> HIDE DEF c
<1> QED
  BY <1>1, <1>2, <1>3, Zenon DEF CapsMade

\* Every call keeps the handles, and what is asked for or made stays so.
LEMMA HandlesStep ==
    ASSUME Shape, AppOK, TablesOK, HandlesOK, OpenedByBoth,
           NEW p \in Peers, PollNext(p) \/ App(p),
           CallEffect(p), UNCHANGED Table(Other(p)),
           \A q \in Peers : asked[q] \subseteq asked'[q]
    PROVE  /\ CapsMade \subseteq CapsMade'
           /\ HandlesOK' /\ OpenedByBoth'
<1>1. \A q \in Peers : asked[q] \subseteq asked'[q] /\ (Secured(q) => Secured(q)')
  BY SecuredStays, Zenon
<1>2. \A c \in Caps : c.role \in Peers
  BY CapsAssumption DEF replicate_capability
<1>3. CapsMade \subseteq CapsMade'
  BY <1>2, Zenon DEF CapsMade
<1>4. \A d \in DOMAIN cm'[p].channels : HandleOK(p, cm'[p].channels[d])
  BY Zenon DEF CallEffect, HandlesFrom, HandlesOK, HandleOK
<1>5. HandlesOK'
  <2>1. \A d \in DOMAIN cm'[p].channels : HandleOK(p, cm[p].channels[d])'
    BY <1>1, <1>3, <1>4, Zenon DEF HandleOK
  <2>2. \A d \in DOMAIN cm'[Other(p)].channels :
            HandleOK(Other(p), cm[Other(p)].channels[d])'
    BY <1>1, <1>3, TwoPeers, Zenon DEF Table, HandlesOK, HandleOK
  <2> QED
    BY <2>1, <2>2, TwoPeers, Zenon DEF HandlesOK
<1>6. \/ chans'[p] = chans[p]
      \/ \E c : /\ chans'[p] = Append(chans[p], c)
                /\ c.key \in asked[p] \cap asked[Other(p)]
  BY <1>4, VerifiedKey, Zenon DEF CallEffect
<1>7. OpenedByBoth'
  <2>1. ASSUME NEW n \in 1..Len(chans'[p])
        PROVE  chans'[p][n].key \in asked[p] \cap asked[Other(p)]
    <3>1. CASE chans'[p] = chans[p]
      BY <3>1, Zenon DEF OpenedByBoth, Cids
    <3>2. ASSUME NEW c, chans'[p] = Append(chans[p], c),
                 c.key \in asked[p] \cap asked[Other(p)]
          PROVE  chans'[p][n].key \in asked[p] \cap asked[Other(p)]
      <4>1. CASE n = Len(chans[p]) + 1
        BY <3>2, <4>1
      <4>2. CASE n \in 1..Len(chans[p])
        <5>1. chans'[p][n] = chans[p][n]
          BY <3>2, <4>2
        <5> QED
          BY <4>2, <5>1, Zenon DEF OpenedByBoth, Cids
      <4>3. n \in 1..(Len(chans[p]) + 1)
        BY <3>2
      <4> QED
        BY <4>1, <4>2, <4>3
    <3> QED
      BY <1>6, <3>1, <3>2, Zenon
  <2>2. ASSUME NEW n \in 1..Len(chans'[Other(p)])
        PROVE  chans'[Other(p)][n].key \in asked[p] \cap asked[Other(p)]
    <3>1. Other(Other(p)) = p /\ chans'[Other(p)] = chans[Other(p)]
      BY Zenon DEF Peers, Other, Table
    <3> QED
      BY <3>1, TwoPeers, Zenon DEF OpenedByBoth, Cids
  <2>3. Other(Other(p)) = p
    BY Zenon DEF Peers, Other
  <2> QED
    BY <2>1, <2>2, TwoPeers DEF OpenedByBoth, Cids
<1> QED
  BY <1>3, <1>5, <1>7, Zenon

-----------------------------------------------------------------------------
(***************************************************************************)
(* The messages of a frame, and the Open of a handle.                      *)
(***************************************************************************)
\* What poll_outbound_write takes is part of what was queued.
LEMMA BatchLenBounds ==
    ASSUME NEW q \in Seq(Messages), q # <<>>
    PROVE  BatchLen(q) \in 1..Len(q)
<1>1. Len(q) \in Nat /\ Len(q) >= 1
  OBVIOUS
<1> DEFINE S == {i - 1 : i \in {j \in 2..Len(q) : IsControl(q[j])}} \cup {Len(q)}
<1>2. S \in SUBSET Nat /\ S # {} /\ S \subseteq 1..Len(q)
  OBVIOUS
<1>3. Min(S) \in S
  BY <1>2, MinInSet, Zenon
<1> HIDE DEF S
<1>4. BatchLen(q) \in {1, Min(S)}
  BY Zenon DEF BatchLen, S
<1>5. Min(S) \in 1..Len(q)
  BY <1>2, <1>3, Zenon
<1>6. 1 \in 1..Len(q)
  OBVIOUS
<1> QED
  BY <1>4, <1>5

\* What a batch decodes to ends before a message of another channel.
LEMMA SameChannelBounds ==
    ASSUME NEW msgs \in Seq(Messages), msgs # <<>>
    PROVE  SameChannelLen(msgs) \in 1..Len(msgs)
<1>1. Len(msgs) \in Nat /\ Len(msgs) >= 1
  OBVIOUS
<1> DEFINE S == {i - 1 : i \in {j \in 2..Len(msgs) : msgs[j].channel # msgs[1].channel}}
                \cup {Len(msgs)}
<1>2. S \in SUBSET Nat /\ S # {} /\ S \subseteq 1..Len(msgs)
  OBVIOUS
<1>3. Min(S) \in S
  BY <1>2, MinInSet, Zenon
<1> HIDE DEF S
<1> QED
  BY <1>3 DEF SameChannelLen, S

\* The Open a command_open ends with.
LEMMA OpenMsgType ==
    ASSUME AppOK, TablesOK, NEW p \in Peers, NEW key \in asked[p]
    PROVE  OpenMsg(LocalId(LocalAttached(p, key).channels[DiscoveryKey[key]]),
                   DiscoveryKey[key], capability(p, key)) \in Opens
<1> DEFINE m  == LocalAttached(p, key)
           dk == DiscoveryKey[key]
<1>1. /\ key \in Keys /\ dk \in DKeys
      /\ ChannelMapType(cm[p]) /\ Len(cm[p].local_id) > 0 /\ flags[p] \in Nat
  BY DiscoveryKeyAssumption, Zenon DEF AppOK, TablesOK, TableInv, TableOK,
     LocalSlotsOwned
<1>2. LocallyAttached(cm[p], m, dk, alloc_local(cm[p]))
  BY <1>1, AttachLocalEffect, Zenon DEF LocalAttached
<1>3. alloc_local(cm[p]) \in 1..(Len(LocalIdsAfterAlloc(cm[p])) - 1)
  BY <1>1, AllocLocalFindsFreeSlot, Zenon
<1>4. LocalId(m.channels[dk]) \in Nat
  BY <1>2, <1>3, SMTT(30) DEF LocallyAttached
<1>5. capability(p, key) \in CapsMade
  <2>1. replicate_capability(p, key) \in Caps
    BY <1>1, CapsAssumption
  <2>2. /\ replicate_capability(p, key).role = p
        /\ replicate_capability(p, key).key = key
    BY Zenon DEF replicate_capability
  <2> QED
    BY <2>1, <2>2, Zenon DEF capability, CapsMade
<1> HIDE DEF m, dk
<1> QED
  BY <1>1, <1>4, <1>5, Zenon DEF OpenMsg, Opens, m, dk

-----------------------------------------------------------------------------
(***************************************************************************)
(* Flags.  Unless Channel::close sets it, the flag of a handle that stays  *)
(* stays as it is, and the flag of a new handle is not set.                *)
(***************************************************************************)
\* What stays in outbound_rx stays on its way.
LEMMA UnderwayStays ==
    ASSUME Shape, NEW p \in Peers, NEW q \in Peers, NEW flag, CloseUnderway(q, flag),
           \A n \in Cids(q) : n \in Cids(q)' /\ chans'[q][n] = chans[q][n],
           outbound[q] \in Seq(Batches),
           \/ outbound' = outbound
           \/ Popped(p) /\ \A id : Head(outbound[p]) # <<CloseMsg(id)>>
           \/ \E b \in Batches : Sent(p, b)
    PROVE  CloseUnderway(q, flag)'
<1>1. PICK i \in 1..Len(outbound[q]), d \in Cids(q) :
          /\ chans[q][d].closed = flag
          /\ outbound[q][i] = <<CloseMsg(chans[q][d].local_id)>>
  BY Zenon DEF CloseUnderway
<1>2. d \in Cids(q)' /\ chans'[q][d] = chans[q][d]
  BY Zenon
<1>3. \E j \in 1..Len(outbound'[q]) : outbound'[q][j] = outbound[q][i]
  <2>1. CASE outbound'[q] = outbound[q]
    BY <2>1, Zenon
  <2>2. CASE p = q /\ Popped(p) /\ \A id : Head(outbound[p]) # <<CloseMsg(id)>>
    <3>1. outbound'[q] = Tail(outbound[q]) /\ outbound[q] # <<>>
      BY <2>2, Zenon DEF Popped, Shape
    <3>2. i # 1
      BY <1>1, <2>2
    <3>3. i - 1 \in 1..Len(Tail(outbound[q])) /\ Tail(outbound[q])[i - 1] = outbound[q][i]
      BY <3>2
    <3> QED
      BY <3>1, <3>3, Zenon
  <2>3. ASSUME NEW b \in Batches, p = q, Sent(p, b)
        PROVE  \E j \in 1..Len(outbound'[q]) : outbound'[q][j] = outbound[q][i]
    <3>1. outbound'[q] = Append(outbound[q], b)
      BY <2>3, Zenon DEF Sent, Shape
    <3>2. /\ i \in 1..Len(Append(outbound[q], b))
          /\ Append(outbound[q], b)[i] = outbound[q][i]
      OBVIOUS
    <3> QED
      BY <3>1
  <2>4. p # q /\ (Popped(p) \/ \E b \in Batches : Sent(p, b)) => outbound'[q] = outbound[q]
    BY DEF Popped, Sent, Shape
  <2> QED
    BY <2>2, <2>3, <2>4, Zenon
<1> QED
  BY <1>1, <1>3, Zenon DEF CloseUnderway

\* The Close that arrives is of the handle it closes: no other keeps its flag.
LEMMA ClosedHandleGone ==
    ASSUME Shape, TablesOK, FlagsOK, OutboundOK, NEW p \in Peers, PopClose(p),
           NEW d \in DOMAIN cm'[p].channels, d \in DOMAIN cm[p].channels,
           NEW flag, Doomed(p, flag), flag = cm[p].channels[d].closed
    PROVE  CloseUnderway(p, flag)'
<1>1. PICK i \in 1..Len(outbound[p]), n \in Cids(p) :
          /\ chans[p][n].closed = flag
          /\ outbound[p][i] = <<CloseMsg(chans[p][n].local_id)>>
  <2>1. CloseUnderway(p, flag)
    BY Zenon DEF FlagsOK
  <2> QED
    BY ONLY <2>1, Zenon DEF CloseUnderway
<1>2. /\ outbound'[p] = Tail(outbound[p]) /\ outbound[p] # <<>>
      /\ chans' = chans /\ outbound[p] \in Seq(Batches)
  BY Zenon DEF PopClose, PoppedType, Popped, OutboundOK, Shape
<1>3. i # 1
  <2> SUFFICES ASSUME i = 1 PROVE FALSE
    BY Zenon
  <2> DEFINE id == chans[p][n].local_id
  <2>1. Head(Head(outbound[p])) = CloseMsg(id)
    BY <1>1
  <2>2. get_local(cm[p], id) = d
    <3>1. /\ FlagsOwned(cm[p], flags[p], chans[p])
          /\ n \in 1..Len(chans[p])
          /\ Live(cm[p], chans[p][n]) => Routed(cm[p], chans[p][n])
      BY Zenon DEF TablesOK, TableInv, Cids
    <3>2. chans[p][n].closed = cm[p].channels[d].closed
      BY ONLY <1>1, flag = cm[p].channels[d].closed, Zenon
    <3>3. chans[p][n].discovery_key = d
      BY ONLY <3>1, <3>2, d \in DOMAIN cm[p].channels, FlagHolder
    <3>4. Live(cm[p], chans[p][n])
      BY ONLY <3>2, <3>3, d \in DOMAIN cm[p].channels, Zenon DEF Live, has_channel
    <3> QED
      BY ONLY <3>1, <3>3, <3>4, Zenon DEF Routed
  <2>3. d # None /\ ChannelMapType(cm[p])
    BY NoneAssumption, TableFacts, Zenon DEF ChannelMapType
  <2>4. cm'[p] = remove(cm[p], d)
    <3>1. get_local(cm[p], Head(Head(outbound[p])).channel) = d
      BY ONLY <2>1, <2>2 DEF CloseMsg
    <3>2. cm' = [cm EXCEPT ![p] = remove(@, d)]
      BY ONLY <2>3, <3>1, PopClose(p), Zenon DEF PopClose, RemoveAndNotify
    <3> QED
      BY ONLY <3>2, Shape, Zenon DEF Shape
  <2>5. d \notin DOMAIN remove(cm[p], d).channels
    BY Zenon DEF remove, has_channel
  <2> QED
    BY <2>4, <2>5, Zenon
<1>4. i - 1 \in 1..Len(outbound'[p]) /\ outbound'[p][i - 1] = outbound[p][i]
  BY <1>2, <1>3
<1>5. n \in Cids(p)' /\ chans'[p][n] = chans[p][n]
  BY <1>2, Zenon DEF Cids
<1>6. \E j \in 1..Len(outbound'[p]), e \in Cids(p)' :
          /\ chans'[p][e].closed = flag
          /\ outbound'[p][j] = <<CloseMsg(chans'[p][e].local_id)>>
  BY <1>1, <1>4, <1>5, Zenon
<1> QED
  BY <1>6, Zenon DEF CloseUnderway

\* A close sets the flag of a handle after the Close is in outbound_rx, and the
\* handle goes when the Close is taken from there.
LEMMA FlagsStep ==
    ASSUME Shape, AppOK, TablesOK, TasksOK, OutboundOK, FlagsOK, NEW p \in Peers,
           OutboundChange(p), StoringComes(p), CallEffect(p),
           UNCHANGED Table(Other(p)), TablesOK',
           \A q \in Peers : \A n \in Cids(q) :
               n \in Cids(q)' /\ chans'[q][n] = chans[q][n]
    PROVE  FlagsOK'
<1> SUFFICES ASSUME NEW q \in Peers, NEW d \in DOMAIN cm'[q].channels,
                    NEW flag, Doomed(q, flag)', flag = cm'[q].channels[d].closed
             PROVE  CloseUnderway(q, flag)'
  BY Zenon DEF FlagsOK
<1>1. outbound[q] \in Seq(Batches)
  BY Zenon DEF OutboundOK
<1>2. ASSUME d \in DOMAIN cm[q].channels, flag = cm[q].channels[d].closed,
             Doomed(q, flag)
      PROVE  CloseUnderway(q, flag)'
  <2>1. CloseUnderway(q, flag)
    BY <1>2, Zenon DEF FlagsOK
  <2>2. CASE PopClose(p) /\ q = p
    BY <1>2, <2>2, ClosedHandleGone, Zenon
  <2>3. CASE PopClose(p) /\ q # p
    <3>1. outbound'[q] = outbound[q]
      BY <2>3 DEF PopClose, PoppedType, Popped
    <3> QED
      BY <2>1, <3>1 DEF CloseUnderway
  <2> QED
    BY <1>1, <2>1, <2>2, <2>3, UnderwayStays, Zenon DEF OutboundChange
<1>3. ASSUME q = p, CloseSent(p, flag)
      PROVE  CloseUnderway(q, flag)'
  <2>1. PICK n \in Cids(p) : /\ chans[p][n].closed = flag
                             /\ Sent(p, <<CloseMsg(chans[p][n].local_id)>>)
    BY <1>3, Zenon DEF CloseSent
  <2>2. PICK b : /\ b = <<CloseMsg(chans[p][n].local_id)>>
                 /\ outbound'[p] = Append(outbound[p], b)
    BY <2>1, Zenon DEF Sent, Shape
  <2>3. outbound[p] \in Seq(Batches)
    BY <1>1, <1>3, Zenon
  <2>4. /\ Len(outbound[p]) + 1 \in 1..Len(Append(outbound[p], b))
        /\ Append(outbound[p], b)[Len(outbound[p]) + 1] = b
    BY ONLY <2>3
  <2>5. n \in Cids(p)' /\ chans'[p][n] = chans[p][n]
    BY Zenon
  <2>6. /\ Len(outbound[p]) + 1 \in 1..Len(outbound'[p])
        /\ outbound'[p][Len(outbound[p]) + 1] = <<CloseMsg(chans'[p][n].local_id)>>
    BY <2>2, <2>4, <2>5, Zenon
  <2> QED
    BY <1>3, <2>1, <2>5, <2>6, Zenon DEF CloseUnderway
<1>4. flag \in Nat
  <2>1. TableInv(cm[q], closed[q], flags[q], chans[q])'
    BY Zenon DEF TablesOK
  <2>2. ChannelMapType(cm[q])'
    BY <2>1, Zenon DEF TableInv, TableOK
  <2> QED
    BY <2>2, Zenon DEF ChannelMapType, ChannelHandle
<1>5. CASE ~(q = p /\ CloseSent(p, flag))
  <2>1. flag \in closed'[q] \/ \E t \in Tasks : task[q][t] = Storing(flag)
    BY <1>4, <1>5, Zenon DEF Doomed, StoringComes
  <2>2. CASE q # p
    <3>0. q = Other(p)
      BY ONLY <2>2, p \in Peers, q \in Peers, TwoPeers, Zenon
    <3>1. cm'[q] = cm[q] /\ closed'[q] = closed[q]
      BY ONLY <3>0, UNCHANGED Table(Other(p)), Zenon DEF Table
    <3> QED
      BY <1>2, <2>1, <3>1, Zenon DEF Doomed
  <2>3. ASSUME q = p, NEW n \in Cids(p), CloseCall(p, n)
        PROVE  CloseUnderway(q, flag)'
    BY <1>2, <2>1, <2>3, Zenon DEF CloseCall, Doomed
  <2>4. CASE q = p /\ FlagsFrom(cm[p], cm'[p], flags[p], closed[p], closed'[p])
    <3>1. ASSUME flag = flags[p], NEW t \in Tasks, task[p][t] = Storing(flag)
          PROVE  FALSE
      <4>1. task[p][t].op = "store"
        BY ONLY <3>1 DEF Storing
      <4>2. PICK n \in Cids(p) : task[p][t] = Storing(chans[p][n].closed)
        BY <4>1, StoringTask, Zenon
      <4>3. chans[p][n].closed = flags[p]
        BY ONLY <3>1, <4>2 DEF Storing
      <4>4. TableInv(cm[p], closed[p], flags[p], chans[p])
        BY Zenon DEF TablesOK
      <4>5. flags[p] \in Nat /\ chans[p][n].closed < flags[p]
        BY ONLY <4>4, n \in Cids(p), Zenon DEF TableInv, FlagsOwned, Cids
      <4> QED
        BY ONLY <4>3, <4>5
    <3> QED
      BY <1>2, <2>1, <2>4, <3>1, Zenon DEF FlagsFrom, Doomed
  <2> QED
    BY <2>2, <2>3, <2>4, Zenon DEF CallEffect
<1> QED
  BY <1>3, <1>5, Zenon

-----------------------------------------------------------------------------
(***************************************************************************)
(* The initiator: it gets past the gate of poll_next only when the event   *)
(* of the handshake has been returned.                                     *)
(***************************************************************************)
FirstOK ==
    /\ pc[Initiator] \in {"inbound", "commands", "outbound"} =>
          handshake_emitted[Initiator]
    /\ handshake_emitted[Initiator] => first[Initiator] = "Handshake"
    /\ ~handshake_emitted[Initiator] => first[Initiator] = None

\* What a step may do to the variables of the handshake
FirstChange(p) ==
    \/ UNCHANGED <<pc, handshake_emitted, first>>
    \/ /\ UNCHANGED <<handshake_emitted, first>>
       /\ \/ \E l \in {"idle", "gate"} : pc' = [pc EXCEPT ![p] = l]
          \/ /\ pc[p] \in {"inbound", "commands"}
             /\ \E l \in {"commands", "outbound"} : pc' = [pc EXCEPT ![p] = l]
    \/ PollHandshake(p)
    \/ PollQueued(p)
    \/ PollStart(p)
    \/ PollEnd(p)

\* No other handler touches them.
LEMMA FirstChanges ==
    ASSUME NEW p \in Peers, PollNext(p) \/ App(p)
    PROVE  FirstChange(p)
<1> USE DEF pollVars
<1>1. CASE PollEntry(p)
  BY <1>1, Zenon DEF PollEntry, PollGate, FirstChange
<1>2. CASE InboundRead(p)
  BY <1>2, Zenon DEF InboundRead, ReadHandshake, ReadBadFrame, OnOpenAnnounce, OnOpenAccept,
              OnOpenRefuse, OnClose, ForwardInbound, ForwardFails, InboundPending,
              Fail, FirstChange
<1>3. CASE Commands(p)
  BY <1>3, Zenon DEF Commands, CommandOpenFirst, CommandOpenAccept,
     CommandOpenRefuse, CommandClose, CommandSignal, CommandsPending, Fail,
     FirstChange
<1>4. CASE OutboundWrite(p)
  BY <1>4, Zenon DEF OutboundWrite, WriteFrame, PopClose, PopSignal, PopData, PopEmpty,
              FirstChange
<1>5. CASE App(p)
  BY <1>5, Zenon DEF App, Open, DriverOpen, CloseByKey, SignalLocal, BeginSend, BeginEmpty,
              BeginSignal, BeginClose, Begin, Finish, StoreClosed, SendDirect,
              DropReceiver,
              FirstChange
<1> QED
  BY <1>1, <1>2, <1>3, <1>4, <1>5, Zenon DEF PollNext

\* The handshake comes first whatever is queued meanwhile.
LEMMA FirstStep ==
    ASSUME Shape, FirstOK, NEW p \in Peers, FirstChange(p)
    PROVE  FirstOK'
<1> USE DEF Shape, FirstOK
<1>0. Initiator \in Peers
  BY Zenon DEF Peers
<1>1. CASE p # Initiator
  <2>1. UNCHANGED <<pc[Initiator], handshake_emitted[Initiator], first[Initiator]>>
    <3>1. CASE PollHandshake(p) \/ PollStart(p)
      BY <1>0, <1>1, <3>1 DEF PollHandshake, PollStart
    <3>2. CASE PollQueued(p)
      BY <1>1, <3>2 DEF PollQueued, YieldEvent
    <3>3. CASE PollEnd(p)
      BY <1>0, <1>1, <3>3 DEF PollEnd, YieldEvent
    <3> QED
      BY <1>0, <1>1, <3>1, <3>2, <3>3, Zenon DEF FirstChange
  <2> QED
    BY <2>1, Zenon
<1>2. CASE p = Initiator
  <2>1. CASE PollHandshake(p)
    BY <2>1 DEF PollHandshake
  <2>2. CASE PollQueued(p)
    BY <1>2, <2>2, ProtocolAssumption, Zenon DEF PollQueued, PastHandshake,
       YieldEvent
  <2>3. CASE PollStart(p)
    BY <2>3 DEF PollStart, PastHandshake
  <2>4. CASE PollEnd(p)
    BY <1>2, <2>4, ProtocolAssumption, Zenon DEF PollEnd, YieldEvent
  <2> QED
    BY <1>2, <2>1, <2>2, <2>3, <2>4, Zenon DEF FirstChange
<1> QED
  BY <1>1, <1>2, Zenon

-----------------------------------------------------------------------------
\* The inductive invariant holds of two endpoints that have just been created.
LEMMA InitIInv == Init => IInv
<1> SUFFICES ASSUME Init PROVE IInv
  BY Zenon
<1> USE DEF Init
<1>1. Shape
  BY ProtocolAssumption, Zenon DEF Shape
<1>2. AppOK
  BY ProtocolAssumption, Zenon DEF AppOK
<1>3. IoOK
  BY DEF IoOK
<1>4. HandshakeOK
  BY Zenon DEF HandshakeOK, Secured, Peers
<1>5. EventsOK /\ CommandsOK /\ OutboundOK
  BY ProtocolAssumption DEF EventsOK, CommandsOK, OutboundOK
<1>6. TasksOK /\ InboundOK
  <2>1. \A p \in Peers : /\ DOMAIN task[p] = Tasks
                         /\ \A t \in Tasks : task[p][t] = Idle
    BY Zenon
  <2>2. \A p \in Peers, t \in Tasks : TaskOK(p, task[p][t])
    BY ONLY <2>1, Zenon DEF TaskOK
  <2>3. InboundOK
    BY DEF InboundOK
  <2> QED
    BY ONLY <2>1, <2>2, <2>3, Zenon DEF TasksOK
<1>7. TablesOK
  BY NewTableInv, Zenon DEF TablesOK
<1>8. HandlesOK /\ FlagsOK
  BY Zenon DEF HandlesOK, FlagsOK, NewChannelMap
<1>9. OpenedByBoth
  BY DEF OpenedByBoth, Cids
<1> QED
  BY <1>1, <1>2, <1>3, <1>4, <1>5, <1>6, <1>7, <1>8, <1>9, Zenon DEF IInv

-----------------------------------------------------------------------------
(***************************************************************************)
(* What a call of ChannelMapSpec asks of the values it is given.           *)
(***************************************************************************)
LEMMA CallValues ==
    ASSUME IInv, NEW p \in Peers
    PROVE  /\ asked[p] \subseteq Keys /\ CapsMade \subseteq Caps \cup {None}
           /\ alloc_local(cm[p]) \in Nat /\ Len(chans[p]) + 1 \in Nat
           /\ \A dk : FlagCount(cm[p], flags[p], dk) \in Nat
           /\ \A m, id : Verified(p, m, id) => prepare_to_verify(m, id) # None
           /\ \A h : is_connected(h) => h.local_state # None
<1>1. /\ ChannelMapType(cm[p]) /\ Len(cm[p].local_id) > 0
      /\ flags[p] \in Nat /\ chans[p] \in Seq(Channel)
  BY TableFacts, Zenon DEF IInv
<1>2. alloc_local(cm[p]) \in Nat
  BY <1>1, AllocLocalFindsFreeSlot
<1>3. \A dk : FlagCount(cm[p], flags[p], dk) \in Nat
  BY <1>1 DEF FlagCount
<1>4. \A m, id : Verified(p, m, id) => prepare_to_verify(m, id) # None
  BY Zenon DEF Verified
<1>5. \A h : is_connected(h) => h.local_state # None
  BY Zenon DEF is_connected
<1>6. asked[p] \subseteq Keys /\ CapsMade \subseteq Caps \cup {None}
  BY Zenon DEF IInv, AppOK, CapsMade
<1>7. Len(chans[p]) + 1 \in Nat
  OBVIOUS
<1> QED
  BY <1>2, <1>3, <1>4, <1>5, <1>6
=============================================================================
