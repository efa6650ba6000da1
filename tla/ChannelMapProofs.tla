-------------------------- MODULE ChannelMapProofs --------------------------
(***************************************************************************)
(* Proofs about the channel table, for any set of keys, any remote ids and *)
(* any number of calls.                                                    *)
(***************************************************************************)
EXTENDS ChannelMapSpec, ChannelMapTheory

(***************************************************************************)
(* The invariants together are not inductive: that a Channel whose flag is *)
(* not set is routed is only preserved because a flag belongs to a single  *)
(* handle and its Channels, and because new handles get new flags.         *)
(* TableInv (module ChannelMapInvariant) says so; it also needs bounds a   *)
(* removal relies on and that a handle holds its own slot.                 *)
(***************************************************************************)
IInv == TableInv(cm, closed, flags, handed)

\* Every step of a Protocol on its table preserves the invariant.
LEMMA NextIInv == IInv /\ [Next]_vars => IInv'
<1> SUFFICES ASSUME IInv, [Next]_vars
             PROVE  TableInv(cm', closed', flags', handed')
  BY DEF IInv
<1> USE DEF IInv
<1>1. \A dk : FlagsAfter(dk) = FlagCount(cm, flags, dk)
  BY DEF FlagsAfter, FlagCount
<1>2. ASSUME NEW m, NEW fl, TableInv(m, closed, fl, handed), NEW id, AcceptIn(m, id)
      PROVE  TableInv(cm', closed, fl, handed')
  BY <1>2, AcceptInv DEF AcceptIn
<1>3. ASSUME NEW key \in Keys
      PROVE  TableInv(attach_local(cm, key, flags), closed,
                      FlagsAfter(DiscoveryKey[key]), handed)
  BY <1>1, AttachLocalInv
<1>4. ASSUME NEW dk \in DKeys, NEW id \in RemoteIds, NEW cap \in Caps \cup {None}
      PROVE  TableInv(attach_remote(cm, dk, id, cap, flags), closed,
                      FlagsAfter(dk), handed)
  BY <1>1, AttachRemoteInv, RemoteIdsAssumption
<1> HIDE DEF IInv
<1>5. ASSUME NEW key \in Keys, AttachLocal(key)
      PROVE  TableInv(cm', closed', flags', handed')
  BY <1>3, <1>5 DEF AttachLocal
<1>6. ASSUME NEW key \in Keys, AcceptLocal(key)
      PROVE  TableInv(cm', closed', flags', handed')
  BY <1>2, <1>3, <1>6 DEF AcceptLocal
<1>7. ASSUME NEW dk \in DKeys, NEW id \in RemoteIds,
             NEW cap \in Caps \cup {None}, AttachRemote(dk, id, cap)
      PROVE  TableInv(cm', closed', flags', handed')
  BY <1>4, <1>7 DEF AttachRemote
<1>8. ASSUME NEW dk \in DKeys, NEW id \in RemoteIds,
             NEW cap \in Caps \cup {None}, AcceptRemote(dk, id, cap)
      PROVE  TableInv(cm', closed', flags', handed')
  BY <1>2, <1>4, <1>8 DEF AcceptRemote
<1>9. ASSUME NEW dk \in DKeys, RemoveChannel(dk)
      PROVE  TableInv(cm', closed', flags', handed')
  BY <1>9, RemoveInv DEF RemoveChannel, IInv
<1>10. ASSUME NEW n \in 1..Len(handed), CloseChannel(n)
       PROVE  TableInv(cm', closed', flags', handed')
  BY <1>10, CloseInv DEF CloseChannel, IInv
<1>11. CASE UNCHANGED vars
  BY <1>11 DEF vars, IInv
<1> QED
  BY <1>5, <1>6, <1>7, <1>8, <1>9, <1>10, <1>11 DEF Next

\* The inductive invariant holds in every reachable state.
LEMMA SpecIInv == Spec => []IInv
<1>1. Init => IInv
  BY NewTableInv DEF Init, IInv
<1> QED
  BY <1>1, NextIInv, PTL DEF Spec

\* What it implies.
LEMMA IInvImplies ==
    IInv => /\ TypeOK /\ LocalIndexSound /\ RemoteIndexInBounds
            /\ LiveChannelRouted /\ QueueOfOwnChannel
<1> SUFFICES ASSUME IInv
             PROVE  /\ TypeOK /\ LocalIndexSound /\ RemoteIndexInBounds
                    /\ LiveChannelRouted /\ QueueOfOwnChannel
  OBVIOUS
<1>1. closed \subseteq Nat
  BY DEF IInv, TableInv
<1>2. LiveChannelRouted
  BY DEF IInv, TableInv, LiveChannelRouted
<1> QED
  BY <1>1, <1>2 DEF IInv, TableInv, TableOK, TypeOK, LocalIndexSound,
                    RemoteIndexInBounds, QueueOfOwnChannel

(***************************************************************************)
(* The table is well typed whatever is called on it: channels.rs.          *)
(***************************************************************************)
THEOREM TypeCorrect == Spec => []TypeOK
BY SpecIInv, IInvImplies, PTL

(***************************************************************************)
(* No id is shared, none is freed too early, and id 0 is never given out:  *)
(* ChannelMap::alloc_local, attach_local and remove.                       *)
(***************************************************************************)
THEOREM LocalIndexIsSound == Spec => []LocalIndexSound
BY SpecIInv, IInvImplies, PTL

(***************************************************************************)
(* ChannelMap::remove never indexes remote_id out of bounds, whatever ids  *)
(* the remote announces.                                                   *)
(***************************************************************************)
THEOREM RemoteIndexIsInBounds == Spec => []RemoteIndexInBounds
BY SpecIInv, IInvImplies, PTL

(***************************************************************************)
(* A Channel whose closed() is false is still backed by the handle it was  *)
(* made from, and its id leads there.                                      *)
(***************************************************************************)
THEOREM LiveChannelsAreRouted == Spec => []LiveChannelRouted
BY SpecIInv, IInvImplies, PTL

(***************************************************************************)
(* Messages of the remote reach a Channel made from the handle its id      *)
(* names: ChannelMap::accept and forward_inbound_message.                  *)
(***************************************************************************)
THEOREM QueuesBelongToTheirHandles == Spec => []QueueOfOwnChannel
BY SpecIInv, IInvImplies, PTL

-----------------------------------------------------------------------------
\* A call that keeps the slots, the handles and their ids loses no slot.
LEMMA SameSlots ==
    ASSUME NEW m, NEW n, n.local_id = m.local_id,
           \A d \in DOMAIN m.channels :
               /\ d \in DOMAIN n.channels
               /\ n.channels[d].local_state = m.channels[d].local_state
    PROVE  LostSlots(n) \subseteq LostSlots(m)
<1>1. \A d, i : HasLocalId(m, d, i) => HasLocalId(n, d, i)
  BY DEF HasLocalId, has_channel, LocalId
<1> QED
  BY <1>1 DEF LostSlots

\* attach_local loses the slot of the handle, if it had one.
LEMMA AttachLocalSlots ==
    ASSUME NEW m, TableOK(m), NEW key \in Keys, NEW flag \in Nat,
           NEW n, n = attach_local(m, key, flag)
    PROVE  LosesOnlyToReopening(m, n)
<1> DEFINE dk == DiscoveryKey[key]
           id == alloc_local(m)
<1>1. /\ ChannelMapType(m) /\ Len(m.local_id) > 0 /\ m.local_id \in Seq(Entries)
  BY DEF TableOK, LocalSlotsOwned, ChannelMapType
<1>2. /\ LocallyAttached(m, n, dk, id)
      /\ LocalIdTaken(m.local_id, n.local_id, dk, id)
      /\ ChannelMapType(n)
  BY <1>1, AttachLocalEffect
<1>3. n.local_id = SetEntry(LocalIdsAfterAlloc(m), id, dk)
  BY DEF attach_local
<1>4. ASSUME NEW i \in 1..(Len(n.local_id) - 1), i # id
      PROVE  Entry(n.local_id, i) = Entry(m.local_id, i)
  <2>1. CASE FreeIds(m.local_id) # {}
    BY <1>1, <1>2, <1>3, <1>4, <2>1
       DEF LocalIdsAfterAlloc, SetEntry, Entry, LocalIdTaken
  <2>2. CASE FreeIds(m.local_id) = {}
    <3>1. id = Len(m.local_id) /\ LocalIdsAfterAlloc(m) = Append(m.local_id, None)
      BY <2>2 DEF LocalIdsAfterAlloc, alloc_local
    <3>2. Len(n.local_id) = Len(m.local_id) + 1
      BY ONLY <1>1, <1>3, <3>1 DEF SetEntry
    <3>3. i + 1 \in 1..Len(m.local_id)
      BY ONLY <1>1, <1>4, <3>1, <3>2
    <3>4. n.local_id = [Append(m.local_id, None) EXCEPT ![Len(m.local_id) + 1] = dk]
      BY ONLY <1>3, <3>1, Zenon DEF SetEntry
    <3>5. /\ i + 1 \in DOMAIN Append(m.local_id, None)
          /\ i + 1 # Len(m.local_id) + 1
      BY ONLY <1>1, <3>3
    <3>6. n.local_id[i + 1] = Append(m.local_id, None)[i + 1]
      BY ONLY <3>4, <3>5, Zenon
    <3> QED
      BY ONLY <1>1, <3>3, <3>6 DEF Entry
  <2> QED
    BY <2>1, <2>2
<1>5. HasLocalId(n, dk, id) /\ Entry(n.local_id, id) = dk
  BY <1>2 DEF HasLocalId, has_channel, LocallyAttached, LocalIdTaken, Entry
<1> SUFFICES ASSUME NEW i \in LostSlots(n), i \notin LostSlots(m)
             PROVE  /\ HasLocalId(m, Entry(m.local_id, i), i)
                    /\ has_channel(n, Entry(m.local_id, i))
  BY DEF LosesOnlyToReopening
<1>6. /\ i \in 1..(Len(n.local_id) - 1) /\ Entry(n.local_id, i) # None
      /\ ~HasLocalId(n, Entry(n.local_id, i), i)
  BY DEF LostSlots
<1>7. i # id /\ Entry(n.local_id, i) = Entry(m.local_id, i)
  BY <1>4, <1>5, <1>6
<1>8. i \in 1..(Len(m.local_id) - 1)
  BY <1>1, <1>6, <1>7 DEF Entry
<1>9. HasLocalId(m, Entry(m.local_id, i), i)
  BY <1>6, <1>7, <1>8 DEF LostSlots
<1> QED
  BY <1>2, <1>9 DEF HasLocalId, has_channel, LocallyAttached

\* remove frees the slot of the handle, and it has no other.
LEMMA RemoveSlots ==
    ASSUME NEW m, TableOK(m), NEW dk, has_channel(m, dk), NEW n, n = remove(m, dk)
    PROVE  LostSlots(n) \subseteq LostSlots(m)
<1>1. /\ ChannelMapType(m) /\ dk \in DOMAIN m.channels /\ m.local_id \in Seq(Entries)
      /\ LocalSlotsOwned(m) /\ RemoteIdsCovered(m)
  BY DEF TableOK, ChannelMapType, has_channel
<1>2. /\ m.channels[dk].local_state # None =>
             LocalId(m.channels[dk]) \in 0..(Len(m.local_id) - 1)
      /\ m.channels[dk].remote_state # None =>
             RemoteId(m.channels[dk]) \in 0..(Len(m.remote_id) - 1)
  <2>1. m.channels[dk] \in ChannelHandle /\ m.remote_id \in Seq(Entries)
    BY <1>1 DEF ChannelMapType
  <2> QED
    BY <1>1, <2>1
       DEF LocalSlotsOwned, RemoteIdsCovered, ChannelHandle, RemoteState, RemoteId
<1>3. /\ DOMAIN n.channels = DOMAIN m.channels \ {dk}
      /\ \A d \in DOMAIN n.channels : n.channels[d] = m.channels[d]
      /\ Len(n.local_id) = Len(m.local_id)
  BY <1>1, <1>2, RemoveEffect
<1>4. m.channels[dk].local_state # None =>
          n.local_id = SetEntry(m.local_id, LocalId(m.channels[dk]), None)
  BY DEF remove
<1>5. m.channels[dk].local_state = None => n.local_id = m.local_id
  BY DEF remove
<1> SUFFICES ASSUME NEW i \in LostSlots(n)
             PROVE  i \in LostSlots(m)
  OBVIOUS
<1>6. /\ i \in 1..(Len(m.local_id) - 1) /\ Entry(n.local_id, i) # None
      /\ ~HasLocalId(n, Entry(n.local_id, i), i)
  BY <1>3 DEF LostSlots
<1>7. /\ Entry(n.local_id, i) = Entry(m.local_id, i)
      /\ m.channels[dk].local_state # None => i # LocalId(m.channels[dk])
  BY <1>1, <1>2, <1>3, <1>4, <1>5, <1>6 DEF SetEntry, Entry
<1>8. ~HasLocalId(m, Entry(m.local_id, i), i)
  BY <1>3, <1>6, <1>7 DEF HasLocalId, has_channel
<1> QED
  BY <1>6, <1>7, <1>8 DEF LostSlots

(***************************************************************************)
(* Ids are wasted by opening a key that is open, and by nothing else:      *)
(* ChannelMap::attach_local and remove.                                    *)
(***************************************************************************)
THEOREM SlotsAreLostToReopening == Spec => SlotsLostToReopening
<1>1. ASSUME IInv, [Next]_vars
      PROVE  [LosesOnlyToReopening(cm, cm')]_vars
  <2>1. /\ TableOK(cm) /\ ChannelMapType(cm) /\ flags \in Nat /\ Len(handed) + 1 \in Nat
    BY <1>1 DEF IInv, TableInv, TableOK
  <2>2. ASSUME NEW m, ChannelMapType(m), NEW id, AcceptIn(m, id)
        PROVE  LostSlots(cm') \subseteq LostSlots(m) /\ DOMAIN cm'.channels = DOMAIN m.channels
    <3>1. /\ DOMAIN cm'.channels = DOMAIN m.channels
          /\ cm'.local_id = m.local_id
          /\ \A d \in DOMAIN m.channels :
                cm'.channels[d].local_state = m.channels[d].local_state
      BY <2>1, <2>2, AcceptEffect DEF AcceptIn
    <3> QED
      BY <3>1, SameSlots
  <2>3. ASSUME NEW key \in Keys
        PROVE  /\ ChannelMapType(attach_local(cm, key, flags))
               /\ LosesOnlyToReopening(cm, attach_local(cm, key, flags))
    <3>1. TableOK(attach_local(cm, key, flags))
      BY <2>1, AttachLocalKeeps
    <3> QED
      BY <2>1, <3>1, AttachLocalSlots DEF TableOK
  <2>4. ASSUME NEW dk \in DKeys, NEW id \in RemoteIds, NEW cap \in Caps \cup {None}
        PROVE  /\ ChannelMapType(attach_remote(cm, dk, id, cap, flags))
               /\ LostSlots(attach_remote(cm, dk, id, cap, flags)) \subseteq LostSlots(cm)
    <3> DEFINE n == attach_remote(cm, dk, id, cap, flags)
    <3>1. id \in Nat
      BY RemoteIdsAssumption
    <3>2. ChannelMapType(n) /\ RemotelyAttached(cm, n, dk, id) /\ n.local_id = cm.local_id
      BY <2>1, <3>1, AttachRemoteEffect
    <3>3. \A d \in DOMAIN cm.channels :
              /\ d \in DOMAIN n.channels
              /\ n.channels[d].local_state = cm.channels[d].local_state
      BY <3>2 DEF RemotelyAttached
    <3> QED
      BY <3>2, <3>3, SameSlots
  <2> SUFFICES ASSUME Next
               PROVE  LosesOnlyToReopening(cm, cm')
    BY <1>1
  <2>5. ASSUME NEW key \in Keys, AttachLocal(key) \/ AcceptLocal(key)
        PROVE  LosesOnlyToReopening(cm, cm')
    BY <2>2, <2>3, <2>5 DEF AttachLocal, AcceptLocal, LosesOnlyToReopening, has_channel
  <2>6. ASSUME NEW dk \in DKeys, NEW id \in RemoteIds, NEW cap \in Caps \cup {None},
               AttachRemote(dk, id, cap) \/ AcceptRemote(dk, id, cap)
        PROVE  LosesOnlyToReopening(cm, cm')
    BY <2>2, <2>4, <2>6 DEF AttachRemote, AcceptRemote, LosesOnlyToReopening
  <2>7. ASSUME NEW dk \in DKeys, RemoveChannel(dk)
        PROVE  LosesOnlyToReopening(cm, cm')
    BY <2>1, <2>7, RemoveSlots DEF RemoveChannel, LosesOnlyToReopening
  <2>8. ASSUME NEW k \in 1..Len(handed), CloseChannel(k)
        PROVE  LosesOnlyToReopening(cm, cm')
    BY <2>8 DEF CloseChannel, LosesOnlyToReopening
  <2> QED
    BY <2>5, <2>6, <2>7, <2>8 DEF Next
<1> QED
  BY <1>1, SpecIInv, PTL DEF Spec, SlotsLostToReopening
=============================================================================
