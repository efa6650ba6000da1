-------------------------- MODULE ChannelMapTheory --------------------------
(***************************************************************************)
(* What the methods of a channel table do to it, for any set of keys and   *)
(* any remote ids: lemmas about the operators of module ChannelMap.        *)
(***************************************************************************)
EXTENDS ChannelMapInvariant, WellFoundedInduction, TLAPS

(***************************************************************************)
(* A non-empty set of naturals has a least element, so Min chooses one of  *)
(* the free ids: `position' in alloc_local finds the first None.           *)
(***************************************************************************)
LEMMA MinInSet ==
    ASSUME NEW S \in SUBSET Nat, S # {}
    PROVE  Min(S) \in S /\ \A y \in S : Min(S) =< y
<1> DEFINE R == OpToRel(<, Nat)
<1>1. IsWellFoundedOn(R, Nat)
  BY NatLessThanWellFounded, Zenon
<1>2. \A x, y \in Nat : x < y => <<x, y>> \in R
  BY Zenon DEF OpToRel
<1> HIDE DEF R
<1>3. PICK x \in S : \A y \in S : ~(<<y, x>> \in R)
  BY <1>1, WFMin, Zenon
<1>4. ASSUME NEW y \in S
      PROVE  x =< y
  <2>1. x \in Nat /\ y \in Nat /\ ~(y < x)
    BY <1>2, <1>3, Zenon
  <2> QED
    BY <2>1
<1> QED
  BY <1>4, Zenon DEF Min

\* remove takes the handle of dk and leaves the others as they are.
LEMMA RemoveHandle ==
    ASSUME NEW m, NEW dk, has_channel(m, dk), NEW n, n = remove(m, dk)
    PROVE  /\ DOMAIN n.channels = DOMAIN m.channels \ {dk}
           /\ \A d \in DOMAIN n.channels : n.channels[d] = m.channels[d]
           /\ dk \in DOMAIN m.channels
           /\ DroppedFlags(m, dk) = {m.channels[dk].closed}
  BY DEF remove, has_channel, DroppedFlags

\* A Channel has the flag of no handle but its own.
LEMMA FlagHolder ==
    ASSUME NEW m, NEW fl, NEW hs, FlagsOwned(m, fl, hs),
           NEW d \in DOMAIN m.channels, NEW i \in 1..Len(hs),
           hs[i].closed = m.channels[d].closed
    PROVE  hs[i].discovery_key = d
  BY DEF FlagsOwned

-----------------------------------------------------------------------------
(***************************************************************************)
(* alloc_local returns an index of the vector it leaves, never 0, whose    *)
(* entry is None, and it keeps every other entry.                          *)
(***************************************************************************)
LEMMA AllocLocalFindsFreeSlot ==
    ASSUME NEW m, ChannelMapType(m), Len(m.local_id) > 0
    PROVE  /\ LocalIdsAfterAlloc(m) \in Seq(Entries)
           /\ Len(LocalIdsAfterAlloc(m)) >= Len(m.local_id)
           /\ alloc_local(m) \in 1..(Len(LocalIdsAfterAlloc(m)) - 1)
           /\ LocalIdsAfterAlloc(m)[alloc_local(m) + 1] = None
           /\ \A j \in 1..Len(m.local_id) :
                  LocalIdsAfterAlloc(m)[j] = m.local_id[j]
<1> DEFINE v == m.local_id
<1>1. v \in Seq(Entries) /\ Len(v) \in Nat
  BY DEF ChannelMapType
<1>2. None \in Entries
  BY Zenon DEF Entries
<1>3. CASE FreeIds(v) # {}
  <2>1. FreeIds(v) \in SUBSET Nat
    BY <1>1 DEF FreeIds
  <2>2. alloc_local(m) \in FreeIds(v)
    BY <1>3, <2>1, MinInSet, Zenon DEF alloc_local
  <2> QED
    BY <1>1, <1>3, <2>2 DEF FreeIds, LocalIdsAfterAlloc
<1>4. CASE FreeIds(v) = {}
  <2>1. alloc_local(m) = Len(v) /\ LocalIdsAfterAlloc(m) = Append(v, None)
    BY <1>4, Zenon DEF alloc_local, LocalIdsAfterAlloc
  <2> QED
    BY <1>1, <1>2, <2>1
<1> QED
  BY <1>3, <1>4, Zenon

\* The handle an attach starts from is well typed and keeps its flag.
LEMMA HandleOrNewType ==
    ASSUME NEW m, ChannelMapType(m), NEW dk \in DKeys, NEW flag \in Nat
    PROVE  HandleOrNew(m, dk, flag) \in ChannelHandle
BY Zenon DEF ChannelMapType, HandleOrNew, has_channel, NewHandle, ChannelHandle

\* n is m with the handle of dk locally attached under id.
LocallyAttached(m, n, dk, id) ==
    /\ DOMAIN n.channels = DOMAIN m.channels \cup {dk}
    /\ n.channels[dk].local_state # None
    /\ LocalId(n.channels[dk]) = id
    /\ dk \in DOMAIN m.channels =>
           /\ n.channels[dk].remote_state = m.channels[dk].remote_state
           /\ n.channels[dk].inbound_tx = m.channels[dk].inbound_tx
           /\ n.channels[dk].closed = m.channels[dk].closed
    /\ dk \notin DOMAIN m.channels =>
           /\ n.channels[dk].remote_state = None
           /\ n.channels[dk].inbound_tx = None
    /\ \A d \in DOMAIN m.channels \ {dk} : n.channels[d] = m.channels[d]

\* w is v with id, which was free, taken by dk.
LocalIdTaken(v, w, dk, id) ==
    /\ Len(w) >= Len(v)
    /\ id \in 1..(Len(w) - 1)
    /\ w[id + 1] = dk
    /\ \A j \in 1..Len(v) : v[j] # None \/ j = 1 => w[j] = v[j]

(***************************************************************************)
(* attach_local leaves the other handles alone, keeps the remote state and *)
(* the flag of a handle that exists, and takes an id nobody had.           *)
(***************************************************************************)
LEMMA AttachLocalEffect ==
    ASSUME NEW m, ChannelMapType(m), Len(m.local_id) > 0,
           NEW key \in Keys, NEW flag \in Nat,
           NEW n, n = attach_local(m, key, flag),
           NEW dk, dk = DiscoveryKey[key],
           NEW id, id = alloc_local(m)
    PROVE  /\ ChannelMapType(n)
           /\ dk \in DKeys
           /\ LocallyAttached(m, n, dk, id)
           /\ LocalIdTaken(m.local_id, n.local_id, dk, id)
           /\ n.remote_id = m.remote_id
<1>1. dk \in DKeys /\ dk \in Entries
  BY DiscoveryKeyAssumption, Zenon DEF Entries
<1> DEFINE w  == LocalIdsAfterAlloc(m)
           h0 == HandleOrNew(m, dk, flag)
           ls == [key |-> key, local_id |-> id]
           h1 == [h0 EXCEPT !.local_state = ls]
<1>2. /\ w \in Seq(Entries) /\ Len(w) >= Len(m.local_id)
      /\ id \in 1..(Len(w) - 1) /\ w[id + 1] = None
      /\ \A j \in 1..Len(m.local_id) : w[j] = m.local_id[j]
  BY AllocLocalFindsFreeSlot, Zenon
<1>3. h0 \in ChannelHandle
  BY <1>1, HandleOrNewType, Zenon
<1>4. Len(w) \in Nat /\ Len(m.local_id) \in Nat
  BY <1>2 DEF ChannelMapType
<1>5. ls \in LocalState /\ ls # None
  BY <1>2, <1>4, NoneAssumption DEF LocalState
<1>6. /\ h1 \in ChannelHandle /\ h1.local_state = ls
      /\ h1.remote_state = h0.remote_state /\ h1.closed = h0.closed
      /\ h1.inbound_tx = h0.inbound_tx
  BY <1>3, <1>5, Zenon DEF ChannelHandle
<1>7. /\ n.channels = InsertHandle(m, dk, h1)
      /\ n.local_id = SetEntry(w, id, dk)
      /\ n.remote_id = m.remote_id
      /\ DOMAIN n = {"channels", "local_id", "remote_id"}
  BY Zenon DEF attach_local
<1> HIDE DEF w, h1
<1>8. /\ DOMAIN n.channels = DOMAIN m.channels \cup {dk}
      /\ n.channels[dk] = h1
      /\ \A d \in DOMAIN m.channels \ {dk} : n.channels[d] = m.channels[d]
  BY <1>7, Zenon DEF InsertHandle
<1>9. /\ n.local_id \in Seq(Entries) /\ Len(n.local_id) = Len(w)
      /\ \A j \in 1..Len(w) :
            n.local_id[j] = IF j = id + 1 THEN dk ELSE w[j]
  BY <1>1, <1>2, <1>4, <1>7 DEF SetEntry
<1>10. ChannelMapType(n)
  BY <1>1, <1>6, <1>7, <1>8, <1>9, Zenon DEF ChannelMapType
<1>11. /\ has_channel(m, dk) => h0 = m.channels[dk]
       /\ ~has_channel(m, dk) => h0.remote_state = None /\ h0.inbound_tx = None
  BY Zenon DEF HandleOrNew, NewHandle
<1>12. LocalId(n.channels[dk]) = id /\ n.channels[dk].local_state # None
  BY <1>5, <1>6, <1>8 DEF LocalId
<1>13. \A j \in 1..Len(m.local_id) :
          m.local_id[j] # None \/ j = 1 => n.local_id[j] = m.local_id[j]
  <2> SUFFICES ASSUME NEW j \in 1..Len(m.local_id),
                      m.local_id[j] # None \/ j = 1
               PROVE  n.local_id[j] = m.local_id[j]
    BY Zenon
  <2>1. j \in 1..Len(w) /\ w[j] = m.local_id[j]
    BY <1>2, <1>4
  <2>2. j # id + 1
    BY <1>2, <1>4, <2>1
  <2> QED
    BY <1>9, <2>1, <2>2, Zenon
<1> QED
  <2>1. LocallyAttached(m, n, dk, id)
    BY <1>6, <1>8, <1>11, <1>12, Zenon DEF LocallyAttached, has_channel
  <2>2. LocalIdTaken(m.local_id, n.local_id, dk, id)
    <3>1. n.local_id[id + 1] = dk
      BY <1>2, <1>4, <1>9, SMTT(30)
    <3>2. Len(n.local_id) >= Len(m.local_id) /\ id \in 1..(Len(n.local_id) - 1)
      BY <1>2, <1>9, Zenon
    <3> QED
      BY <1>13, <3>1, <3>2, Zenon DEF LocalIdTaken
  <2> QED
    BY <1>1, <1>7, <1>10, <2>1, <2>2, Zenon

\* n is m with the handle of dk remotely attached under id.
RemotelyAttached(m, n, dk, id) ==
    /\ DOMAIN n.channels = DOMAIN m.channels \cup {dk}
    /\ n.channels[dk].remote_state # None
    /\ RemoteId(n.channels[dk]) = id
    /\ dk \in DOMAIN m.channels =>
           /\ n.channels[dk].local_state = m.channels[dk].local_state
           /\ n.channels[dk].inbound_tx = m.channels[dk].inbound_tx
           /\ n.channels[dk].closed = m.channels[dk].closed
    /\ dk \notin DOMAIN m.channels =>
           /\ n.channels[dk].local_state = None
           /\ n.channels[dk].inbound_tx = None
    /\ \A d \in DOMAIN m.channels \ {dk} : n.channels[d] = m.channels[d]

(***************************************************************************)
(* After attach_remote the vector covers the id it is given and is never   *)
(* shortened; local ids and flags stay as they are.                        *)
(***************************************************************************)
LEMMA AttachRemoteEffect ==
    ASSUME NEW m, ChannelMapType(m),
           NEW dk \in DKeys, NEW id \in Nat, NEW cap \in Caps \cup {None},
           NEW flag \in Nat,
           NEW n, n = attach_remote(m, dk, id, cap, flag)
    PROVE  /\ ChannelMapType(n)
           /\ RemotelyAttached(m, n, dk, id)
           /\ n.local_id = m.local_id
           /\ Len(n.remote_id) >= Len(m.remote_id)
           /\ id < Len(n.remote_id)
<1>1. dk \in Entries /\ None \in Entries
  BY Zenon DEF Entries
<1> DEFINE r  == alloc_remote(m, id)
           h0 == HandleOrNew(m, dk, flag)
           rs == [remote_id |-> id, remote_capability |-> cap]
           h1 == [h0 EXCEPT !.remote_state = rs]
<1>2. m.remote_id \in Seq(Entries) /\ Len(m.remote_id) \in Nat
  BY DEF ChannelMapType
<1>3. r \in Seq(Entries) /\ Len(r) >= Len(m.remote_id) /\ id < Len(r)
      /\ Len(r) \in Nat
  <2>1. CASE Len(m.remote_id) > id
    <3>1. r = [m.remote_id EXCEPT ![id + 1] = None]
      BY <2>1, Zenon DEF alloc_remote, SetEntry
    <3> QED
      BY <1>1, <1>2, <2>1, <3>1
  <2>2. CASE ~(Len(m.remote_id) > id)
    <3>1. r = Resize(m.remote_id, id + 1)
      BY <2>2, Zenon DEF alloc_remote
    <3>2. r \in [1..(id + 1) -> Entries]
      BY <1>1, <1>2, <3>1 DEF Resize
    <3>3. r \in Seq(Entries) /\ Len(r) = id + 1
      BY <3>2, <3>1 DEF Resize
    <3> QED
      BY <1>2, <2>2, <3>3
  <2> QED
    BY <2>1, <2>2, Zenon
<1>4. h0 \in ChannelHandle
  BY HandleOrNewType, Zenon
<1>5. rs \in RemoteState /\ rs # None
  BY NoneAssumption DEF RemoteState
<1>6. /\ h1 \in ChannelHandle /\ h1.remote_state = rs
      /\ h1.local_state = h0.local_state /\ h1.closed = h0.closed
      /\ h1.inbound_tx = h0.inbound_tx
  BY <1>4, <1>5, Zenon DEF ChannelHandle
<1>7. /\ n.channels = InsertHandle(m, dk, h1)
      /\ n.local_id = m.local_id
      /\ n.remote_id = SetEntry(r, id, dk)
      /\ DOMAIN n = {"channels", "local_id", "remote_id"}
  BY Zenon DEF attach_remote
<1> HIDE DEF r, h1
<1>8. /\ DOMAIN n.channels = DOMAIN m.channels \cup {dk}
      /\ n.channels[dk] = h1
      /\ \A d \in DOMAIN m.channels \ {dk} : n.channels[d] = m.channels[d]
  BY <1>7, Zenon DEF InsertHandle
<1>9. n.remote_id \in Seq(Entries) /\ Len(n.remote_id) = Len(r)
  BY <1>1, <1>3, <1>7 DEF SetEntry
<1>10. ChannelMapType(n)
  BY <1>6, <1>7, <1>8, <1>9, Zenon DEF ChannelMapType
<1>11. /\ has_channel(m, dk) => h0 = m.channels[dk]
       /\ ~has_channel(m, dk) => h0.local_state = None /\ h0.inbound_tx = None
  BY Zenon DEF HandleOrNew, NewHandle
<1>12. RemoteId(n.channels[dk]) = id /\ n.channels[dk].remote_state # None
  BY <1>5, <1>6, <1>8 DEF RemoteId
<1> QED
  <2>1. RemotelyAttached(m, n, dk, id)
    BY <1>6, <1>8, <1>11, <1>12, Zenon DEF RemotelyAttached, has_channel
  <2> QED
    BY <1>3, <1>7, <1>9, <1>10, <2>1, Zenon

(***************************************************************************)
(* remove: the handle goes, and only its own two slots are cleared.        *)
(***************************************************************************)
LEMMA RemoveEffect ==
    ASSUME NEW m, ChannelMapType(m), NEW dk, has_channel(m, dk),
           m.channels[dk].local_state # None =>
               LocalId(m.channels[dk]) \in 0..(Len(m.local_id) - 1),
           m.channels[dk].remote_state # None =>
               RemoteId(m.channels[dk]) \in 0..(Len(m.remote_id) - 1),
           NEW n, n = remove(m, dk)
    PROVE  /\ ChannelMapType(n)
           /\ DOMAIN n.channels = DOMAIN m.channels \ {dk}
           /\ \A d \in DOMAIN n.channels : n.channels[d] = m.channels[d]
           /\ Len(n.local_id) = Len(m.local_id)
           /\ \A j \in 1..Len(m.local_id) :
                 \/ n.local_id[j] = m.local_id[j]
                 \/ /\ n.local_id[j] = None
                    /\ m.channels[dk].local_state # None
                    /\ j = LocalId(m.channels[dk]) + 1
           /\ Len(n.remote_id) = Len(m.remote_id)
<1>1. None \in Entries
  BY Zenon DEF Entries
<1> DEFINE h == m.channels[dk]
<1>2. /\ m.local_id \in Seq(Entries) /\ m.remote_id \in Seq(Entries)
      /\ Len(m.local_id) \in Nat /\ Len(m.remote_id) \in Nat
  BY DEF ChannelMapType
<1>3. /\ n.channels = [d \in DOMAIN m.channels \ {dk} |-> m.channels[d]]
      /\ n.local_id = IF h.local_state # None
                      THEN SetEntry(m.local_id, LocalId(h), None)
                      ELSE m.local_id
      /\ n.remote_id = IF h.remote_state # None
                       THEN SetEntry(m.remote_id, RemoteId(h), None)
                       ELSE m.remote_id
      /\ DOMAIN n = {"channels", "local_id", "remote_id"}
  BY Zenon DEF remove
<1>4. /\ n.local_id \in Seq(Entries) /\ Len(n.local_id) = Len(m.local_id)
      /\ \A j \in 1..Len(m.local_id) :
            \/ n.local_id[j] = m.local_id[j]
            \/ /\ n.local_id[j] = None
               /\ h.local_state # None
               /\ j = LocalId(h) + 1
  <2>1. CASE h.local_state # None
    <3>1. LocalId(h) + 1 \in 1..Len(m.local_id)
      BY <1>2, <2>1
    <3> QED
      BY <1>1, <1>2, <1>3, <2>1, <3>1 DEF SetEntry
  <2>2. CASE h.local_state = None
    BY <1>2, <1>3, <2>2, Zenon
  <2> QED
    BY <2>1, <2>2, Zenon
<1>5. n.remote_id \in Seq(Entries) /\ Len(n.remote_id) = Len(m.remote_id)
  <2>1. CASE h.remote_state # None
    <3>1. RemoteId(h) + 1 \in 1..Len(m.remote_id)
      BY <1>2, <2>1
    <3> QED
      BY <1>1, <1>2, <1>3, <2>1, <3>1 DEF SetEntry
  <2>2. CASE h.remote_state = None
    BY <1>2, <1>3, <2>2, Zenon
  <2> QED
    BY <2>1, <2>2, Zenon
<1>6. ChannelMapType(n)
  BY <1>3, <1>4, <1>5, Zenon DEF ChannelMapType
<1> QED
  BY <1>3, <1>4, <1>5, <1>6, Zenon

(***************************************************************************)
(* accept changes nothing but the queue of the handle that the id leads    *)
(* to, and the Channel it makes has that handle's discovery key and flag.  *)
(***************************************************************************)
LEMMA AcceptEffect ==
    ASSUME NEW m, ChannelMapType(m), NEW id, prepare_to_verify(m, id) # None,
           NEW queue \in Nat, NEW n, n = accept(m, id, queue),
           NEW dk, dk = get_local(m, id)
    PROVE  /\ ChannelMapType(n)
           /\ dk \in DOMAIN m.channels
           /\ is_connected(m.channels[dk])
           /\ DOMAIN n.channels = DOMAIN m.channels
           /\ n.local_id = m.local_id /\ n.remote_id = m.remote_id
           /\ \A d \in DOMAIN m.channels :
                 /\ n.channels[d].local_state = m.channels[d].local_state
                 /\ n.channels[d].remote_state = m.channels[d].remote_state
                 /\ n.channels[d].closed = m.channels[d].closed
                 /\ n.channels[d].inbound_tx =
                       IF d = dk THEN queue ELSE m.channels[d].inbound_tx
           /\ NewChannel(m, id, queue) \in Channel
           /\ NewChannel(m, id, queue).discovery_key = dk
           /\ NewChannel(m, id, queue).local_id = LocalId(m.channels[dk])
           /\ NewChannel(m, id, queue).closed = m.channels[dk].closed
<1>1. dk \in DOMAIN m.channels /\ is_connected(m.channels[dk])
  <2>1. dk # None /\ is_connected(m.channels[dk])
    BY Zenon DEF prepare_to_verify
  <2> QED
    BY <2>1, Zenon DEF get_local, has_channel
<1> DEFINE h == [m.channels[dk] EXCEPT !.inbound_tx = queue]
           c == NewChannel(m, id, queue)
<1>2. m.channels[dk] \in ChannelHandle /\ dk \in DKeys
  BY <1>1, Zenon DEF ChannelMapType
<1>3. /\ h \in ChannelHandle
      /\ h.local_state = m.channels[dk].local_state
      /\ h.remote_state = m.channels[dk].remote_state
      /\ h.closed = m.channels[dk].closed
      /\ h.inbound_tx = queue
  BY <1>2, Zenon DEF ChannelHandle
<1>4. /\ n.channels = InsertHandle(m, dk, h)
      /\ n.local_id = m.local_id /\ n.remote_id = m.remote_id
      /\ DOMAIN n = {"channels", "local_id", "remote_id"}
  BY Zenon DEF accept, ChannelMapType
<1>5. m.channels[dk].local_state \in LocalState
  BY <1>1, <1>2, Zenon DEF ChannelHandle, is_connected
<1>6. /\ c \in Channel /\ c.discovery_key = dk
      /\ c.local_id = LocalId(m.channels[dk])
      /\ c.closed = m.channels[dk].closed
  BY <1>2, <1>5, Zenon DEF NewChannel, Channel, LocalId, LocalState, ChannelHandle
<1> HIDE DEF h, c
<1>7. /\ DOMAIN n.channels = DOMAIN m.channels
      /\ n.channels[dk] = h
      /\ \A d \in DOMAIN m.channels \ {dk} : n.channels[d] = m.channels[d]
  BY <1>1, <1>4, Zenon DEF InsertHandle
<1>8. ChannelMapType(n)
  BY <1>3, <1>4, <1>7, Zenon DEF ChannelMapType
<1> QED
  BY <1>1, <1>3, <1>4, <1>6, <1>7, <1>8, Zenon DEF c

-----------------------------------------------------------------------------
(***************************************************************************)
(* What each method preserves.  A table is sound when every handle owns    *)
(* its local slot and its remote id is covered.                            *)
(***************************************************************************)
\* What LocalSlotsOwned says of one handle, with Entry expanded.
LEMMA SlotMeans ==
    ASSUME NEW m, TableOK(m), NEW dk \in DOMAIN m.channels,
           m.channels[dk].local_state # None
    PROVE  /\ LocalId(m.channels[dk]) \in 1..(Len(m.local_id) - 1)
           /\ m.local_id[LocalId(m.channels[dk]) + 1] = dk
           /\ get_local(m, LocalId(m.channels[dk])) = dk
<1>1. Len(m.local_id) \in Nat
  BY DEF TableOK, ChannelMapType
<1>2. /\ LocalId(m.channels[dk]) \in 1..(Len(m.local_id) - 1)
      /\ Entry(m.local_id, LocalId(m.channels[dk])) = dk
  BY Zenon DEF TableOK, LocalSlotsOwned
<1> QED
  BY <1>1, <1>2 DEF Entry, get_local, has_channel

\* What Routed says, with get_local expanded: this much ...
LEMMA RoutedMeans ==
    ASSUME NEW m, TableOK(m), NEW c \in Channel, Routed(m, c)
    PROVE  /\ c.discovery_key \in DOMAIN m.channels
           /\ c.discovery_key # None
           /\ c.local_id \in Nat
           /\ c.local_id + 1 \in 1..Len(m.local_id)
           /\ m.local_id[c.local_id + 1] = c.discovery_key
           /\ m.channels[c.discovery_key].closed = c.closed
<1>1. /\ c.discovery_key \in DKeys /\ c.local_id \in Nat
      /\ c.discovery_key # None
  BY NoneAssumption, Zenon DEF Channel
<1>2. Len(m.local_id) \in Nat
  BY DEF TableOK, ChannelMapType
<1> QED
  BY <1>1, <1>2 DEF Routed, get_local, Entry, has_channel

\* ... and no more.
LEMMA RoutedIf ==
    ASSUME NEW m, ChannelMapType(m), NEW c \in Channel,
           c.discovery_key \in DOMAIN m.channels,
           c.local_id + 1 \in 1..Len(m.local_id),
           m.local_id[c.local_id + 1] = c.discovery_key,
           m.channels[c.discovery_key].closed = c.closed
    PROVE  Routed(m, c)
<1>1. c.local_id \in Nat /\ Len(m.local_id) \in Nat
  BY DEF ChannelMapType, Channel
<1> QED
  BY <1>1 DEF Routed, get_local, Entry, has_channel

(***************************************************************************)
(* attach_local keeps the table sound, keeps every Channel routed and      *)
(* every queue with its owner.                                             *)
(***************************************************************************)
LEMMA AttachLocalKeeps ==
    ASSUME NEW m, TableOK(m), NEW key \in Keys, NEW flag \in Nat,
           NEW n, n = attach_local(m, key, flag)
    PROVE  /\ TableOK(n)
           /\ \A c \in Channel : Routed(m, c) => Routed(n, c)
           /\ \A hs : QueuesOwned(m, hs) => QueuesOwned(n, hs)
<1> DEFINE dk == DiscoveryKey[key]
           id == alloc_local(m)
<1>1. /\ ChannelMapType(m) /\ Len(m.local_id) > 0 /\ m.local_id[1] = None
      /\ Len(m.local_id) \in Nat /\ DOMAIN m.channels \subseteq DKeys
  BY DEF TableOK, LocalSlotsOwned, ChannelMapType
<1>2. /\ ChannelMapType(n)
      /\ LocallyAttached(m, n, dk, id)
      /\ LocalIdTaken(m.local_id, n.local_id, dk, id)
      /\ n.remote_id = m.remote_id
  BY <1>1, AttachLocalEffect
<1> HIDE DEF dk, id
<1>3. Len(n.local_id) \in Nat
  BY <1>2 DEF ChannelMapType
<1>4. LocalSlotsOwned(n)
  <2>1. Len(n.local_id) > 0 /\ n.local_id[1] = None
    BY <1>1, <1>2, <1>3 DEF LocalIdTaken
  <2>2. ASSUME NEW d \in DOMAIN n.channels, n.channels[d].local_state # None
        PROVE  /\ LocalId(n.channels[d]) \in 1..(Len(n.local_id) - 1)
               /\ Entry(n.local_id, LocalId(n.channels[d])) = d
    <3>1. CASE d = dk
      BY <1>2, <1>3, <3>1 DEF Entry, LocallyAttached, LocalIdTaken
    <3>2. CASE d # dk
      <4>1. d \in DOMAIN m.channels /\ n.channels[d] = m.channels[d]
        BY <1>2, <2>2, <3>2, Zenon DEF LocallyAttached
      <4>2. /\ LocalId(m.channels[d]) \in 1..(Len(m.local_id) - 1)
            /\ m.local_id[LocalId(m.channels[d]) + 1] = d
        BY <2>2, <4>1, SlotMeans
      <4>3. d # None
        BY <1>1, <4>1, NoneAssumption, Zenon
      <4>4. /\ n.local_id[LocalId(m.channels[d]) + 1] = d
            /\ Len(n.local_id) >= Len(m.local_id)
        <5>1. LocalId(m.channels[d]) + 1 \in 1..Len(m.local_id)
          BY <1>1, <4>2
        <5> QED
          BY <1>2, <4>2, <4>3, <5>1, Zenon DEF LocalIdTaken
      <4> QED
        BY <1>1, <1>3, <4>1, <4>2, <4>4 DEF Entry
    <3> QED
      BY <3>1, <3>2, Zenon
  <2> QED
    BY <2>1, <2>2, Zenon DEF LocalSlotsOwned
<1>5. RemoteIdsCovered(n)
  BY <1>2 DEF TableOK, RemoteIdsCovered, LocallyAttached, RemoteId
<1>6. ASSUME NEW c \in Channel, Routed(m, c)
      PROVE  Routed(n, c)
  <2>1. /\ c.discovery_key \in DOMAIN m.channels
        /\ c.discovery_key # None
        /\ c.local_id \in Nat
        /\ c.local_id + 1 \in 1..Len(m.local_id)
        /\ m.local_id[c.local_id + 1] = c.discovery_key
        /\ m.channels[c.discovery_key].closed = c.closed
    BY <1>6, RoutedMeans, Zenon
  <2>2. n.local_id[c.local_id + 1] = c.discovery_key
    BY <1>2, <2>1, Zenon DEF LocalIdTaken
  <2>3. c.local_id + 1 \in 1..Len(n.local_id)
    BY <1>1, <1>2, <1>3, <2>1, SMTT(30) DEF LocalIdTaken
  <2>4. /\ c.discovery_key \in DOMAIN n.channels
        /\ n.channels[c.discovery_key].closed = c.closed
    BY <1>2, <2>1, Zenon DEF LocallyAttached
  <2> QED
    BY <1>2, <2>2, <2>3, <2>4, RoutedIf, Zenon
<1>7. ASSUME NEW hs, QueuesOwned(m, hs)
      PROVE  QueuesOwned(n, hs)
  BY <1>2, <1>7 DEF QueuesOwned, LocallyAttached, is_connected
<1> QED
  BY <1>2, <1>4, <1>5, <1>6, <1>7, Zenon DEF TableOK

(***************************************************************************)
(* So does attach_remote, whatever id the remote announces.                *)
(***************************************************************************)
LEMMA AttachRemoteKeeps ==
    ASSUME NEW m, TableOK(m), NEW dk \in DKeys, NEW id \in Nat,
           NEW cap \in Caps \cup {None}, NEW flag \in Nat,
           NEW n, n = attach_remote(m, dk, id, cap, flag)
    PROVE  /\ TableOK(n)
           /\ dk \in DOMAIN n.channels
           /\ \A c \in Channel : Routed(m, c) => Routed(n, c)
           /\ \A hs : QueuesOwned(m, hs) => QueuesOwned(n, hs)
<1>1. /\ ChannelMapType(m) /\ Len(m.remote_id) \in Nat
      /\ DOMAIN m.channels \subseteq DKeys
  BY DEF TableOK, ChannelMapType
<1>2. /\ ChannelMapType(n)
      /\ RemotelyAttached(m, n, dk, id)
      /\ n.local_id = m.local_id
      /\ Len(n.remote_id) >= Len(m.remote_id)
      /\ id < Len(n.remote_id)
  BY <1>1, AttachRemoteEffect
<1>3. LocalSlotsOwned(n)
  BY <1>2 DEF TableOK, LocalSlotsOwned, RemotelyAttached, LocalId
<1>4. RemoteIdsCovered(n)
  <2> SUFFICES ASSUME NEW d \in DOMAIN n.channels,
                      n.channels[d].remote_state # None
               PROVE  RemoteId(n.channels[d]) < Len(n.remote_id)
    BY Zenon DEF RemoteIdsCovered
  <2>1. CASE d = dk
    BY <1>2, <2>1, Zenon DEF RemotelyAttached
  <2>2. CASE d # dk
    <3>1. d \in DOMAIN m.channels /\ n.channels[d] = m.channels[d]
      BY <1>2, <2>2, Zenon DEF RemotelyAttached
    <3>2. /\ RemoteId(m.channels[d]) < Len(m.remote_id)
          /\ RemoteId(m.channels[d]) \in Nat
      BY <1>1, <3>1, Zenon DEF TableOK, RemoteIdsCovered, ChannelMapType,
         ChannelHandle, RemoteState, RemoteId
    <3>3. Len(n.remote_id) \in Nat
      BY <1>2 DEF ChannelMapType
    <3> QED
      BY <1>1, <1>2, <3>1, <3>2, <3>3
  <2> QED
    BY <2>1, <2>2, Zenon
<1>5. ASSUME NEW c \in Channel, Routed(m, c)
      PROVE  Routed(n, c)
  <2>1. /\ c.discovery_key \in DOMAIN m.channels
        /\ c.local_id + 1 \in 1..Len(m.local_id)
        /\ m.local_id[c.local_id + 1] = c.discovery_key
        /\ m.channels[c.discovery_key].closed = c.closed
    BY <1>5, RoutedMeans, Zenon
  <2>2. /\ c.discovery_key \in DOMAIN n.channels
        /\ n.channels[c.discovery_key].closed = c.closed
    BY <1>2, <2>1, Zenon DEF RemotelyAttached
  <2> QED
    BY <1>2, <2>1, <2>2, RoutedIf, Zenon
<1>6. ASSUME NEW hs, QueuesOwned(m, hs)
      PROVE  QueuesOwned(n, hs)
  <2> SUFFICES ASSUME NEW d \in DOMAIN n.channels, n.channels[d].inbound_tx # None
               PROVE  /\ is_connected(n.channels[d])
                      /\ n.channels[d].inbound_tx \in 1..Len(hs)
                      /\ hs[n.channels[d].inbound_tx].discovery_key = d
                      /\ hs[n.channels[d].inbound_tx].closed = n.channels[d].closed
    BY Zenon DEF QueuesOwned
  <2>1. /\ d \in DOMAIN m.channels
        /\ n.channels[d].inbound_tx = m.channels[d].inbound_tx
        /\ n.channels[d].closed = m.channels[d].closed
        /\ n.channels[d].local_state = m.channels[d].local_state
        /\ m.channels[d].remote_state # None => n.channels[d].remote_state # None
    BY <1>2, Zenon DEF RemotelyAttached
  <2> QED
    BY <1>6, <2>1, Zenon DEF QueuesOwned, is_connected
<1> QED
  BY <1>2, <1>3, <1>4, <1>5, <1>6, Zenon DEF TableOK, RemotelyAttached

(***************************************************************************)
(* accept: the Channel it makes is routed and owns the handle's queue; the *)
(* other Channels and handles are as before.                               *)
(***************************************************************************)
LEMMA AcceptKeeps ==
    ASSUME NEW m, TableOK(m), NEW id, prepare_to_verify(m, id) # None,
           NEW hs \in Seq(Channel), QueuesOwned(m, hs),
           NEW n, n = accept(m, id, Len(hs) + 1),
           NEW c, c = NewChannel(m, id, Len(hs) + 1)
    PROVE  /\ TableOK(n)
           /\ c \in Channel /\ Routed(n, c)
           /\ \A d \in Channel : Routed(m, d) => Routed(n, d)
           /\ QueuesOwned(n, Append(hs, c))
<1> DEFINE dk    == get_local(m, id)
           queue == Len(hs) + 1
<1>1. Len(hs) \in Nat /\ queue \in Nat
  OBVIOUS
<1>2. /\ ChannelMapType(n)
      /\ dk \in DOMAIN m.channels
      /\ is_connected(m.channels[dk])
      /\ DOMAIN n.channels = DOMAIN m.channels
      /\ n.local_id = m.local_id /\ n.remote_id = m.remote_id
      /\ \A d \in DOMAIN m.channels :
            /\ n.channels[d].local_state = m.channels[d].local_state
            /\ n.channels[d].remote_state = m.channels[d].remote_state
            /\ n.channels[d].closed = m.channels[d].closed
            /\ n.channels[d].inbound_tx =
                  IF d = dk THEN queue ELSE m.channels[d].inbound_tx
      /\ c \in Channel
      /\ c.discovery_key = dk
      /\ c.local_id = LocalId(m.channels[dk])
      /\ c.closed = m.channels[dk].closed
  BY <1>1, AcceptEffect DEF TableOK
<1> HIDE DEF dk
<1>3. LocalSlotsOwned(n) /\ RemoteIdsCovered(n)
  <2>1. LocalSlotsOwned(n)
    BY <1>2, SMTT(30) DEF TableOK, LocalSlotsOwned, LocalId
  <2>2. RemoteIdsCovered(n)
    BY <1>2 DEF TableOK, RemoteIdsCovered, RemoteId
  <2> QED
    BY <2>1, <2>2, Zenon
<1>4. \A d \in Channel :
          /\ d.discovery_key \in DOMAIN m.channels
          /\ Routed(m, d)
          => Routed(n, d)
  BY <1>2, Zenon DEF Routed, get_local, has_channel
<1>5. ASSUME NEW d \in Channel, Routed(m, d)
      PROVE  Routed(n, d)
  BY <1>4, <1>5, RoutedMeans, Zenon
<1>6. Routed(n, c)
  <2>1. get_local(m, c.local_id) = dk
    BY <1>2, SlotMeans DEF is_connected
  <2> QED
    BY <1>2, <1>4, <2>1, Zenon DEF Routed
<1>7. QueuesOwned(n, Append(hs, c))
  <2>1. /\ Len(Append(hs, c)) = queue
        /\ Append(hs, c)[queue] = c
        /\ \A i \in 1..Len(hs) : Append(hs, c)[i] = hs[i]
    BY <1>2
  <2> SUFFICES ASSUME NEW d \in DOMAIN n.channels,
                      n.channels[d].inbound_tx # None
               PROVE  /\ is_connected(n.channels[d])
                      /\ n.channels[d].inbound_tx \in 1..queue
                      /\ Append(hs, c)[n.channels[d].inbound_tx].discovery_key = d
                      /\ Append(hs, c)[n.channels[d].inbound_tx].closed
                            = n.channels[d].closed
    BY <2>1, Zenon DEF QueuesOwned
  <2>2. CASE d = dk
    BY <1>1, <1>2, <2>1, <2>2, SMTT(30) DEF is_connected
  <2>3. CASE d # dk
    <3> DEFINE q == m.channels[d].inbound_tx
    <3>1. n.channels[d].inbound_tx = q /\ q # None
      BY <1>2, <2>3, Zenon
    <3>2. /\ is_connected(m.channels[d])
          /\ q \in 1..Len(hs)
          /\ hs[q].discovery_key = d
          /\ hs[q].closed = m.channels[d].closed
      BY <1>2, <3>1, Zenon DEF QueuesOwned
    <3> HIDE DEF q
    <3> QED
      BY <1>1, <1>2, <2>1, <3>1, <3>2 DEF is_connected
  <2> QED
    BY <2>2, <2>3, Zenon
<1> QED
  BY <1>2, <1>3, <1>5, <1>6, <1>7, Zenon DEF TableOK

(***************************************************************************)
(* remove keeps everything that does not belong to the handle it drops.    *)
(***************************************************************************)
LEMMA RemoveKeeps ==
    ASSUME NEW m, TableOK(m), NEW dk, has_channel(m, dk),
           NEW n, n = remove(m, dk)
    PROVE  /\ TableOK(n)
           /\ \A c \in Channel :
                 Routed(m, c) /\ c.closed # m.channels[dk].closed => Routed(n, c)
           /\ \A hs : QueuesOwned(m, hs) => QueuesOwned(n, hs)
<1> DEFINE h == m.channels[dk]
<1>1. /\ ChannelMapType(m) /\ dk \in DOMAIN m.channels
      /\ Len(m.local_id) \in Nat /\ Len(m.remote_id) \in Nat
      /\ Len(m.local_id) > 0 /\ m.local_id[1] = None
  BY DEF TableOK, ChannelMapType, has_channel, LocalSlotsOwned
<1>2. h.local_state # None =>
          /\ LocalId(h) \in 1..(Len(m.local_id) - 1)
          /\ m.local_id[LocalId(h) + 1] = dk
  BY <1>1, SlotMeans, Zenon
<1>3. h.remote_state # None => RemoteId(h) \in 0..(Len(m.remote_id) - 1)
  <2>1. h \in ChannelHandle
    BY <1>1, Zenon DEF ChannelMapType
  <2>2. h.remote_state # None => RemoteId(h) \in Nat
    BY <2>1, Zenon DEF ChannelHandle, RemoteState, RemoteId
  <2> QED
    BY <1>1, <2>2 DEF TableOK, RemoteIdsCovered
<1>4. h.local_state # None => LocalId(h) \in 0..(Len(m.local_id) - 1)
  BY <1>1, <1>2
<1>5. /\ ChannelMapType(n)
      /\ DOMAIN n.channels = DOMAIN m.channels \ {dk}
      /\ \A d \in DOMAIN n.channels : n.channels[d] = m.channels[d]
      /\ Len(n.local_id) = Len(m.local_id)
      /\ \A j \in 1..Len(m.local_id) :
            \/ n.local_id[j] = m.local_id[j]
            \/ /\ n.local_id[j] = None
               /\ h.local_state # None
               /\ j = LocalId(h) + 1
      /\ Len(n.remote_id) = Len(m.remote_id)
  BY <1>1, <1>3, <1>4, RemoveEffect
<1>6. \A j \in 1..Len(m.local_id) :
          \/ n.local_id[j] = m.local_id[j]
          \/ n.local_id[j] = None /\ m.local_id[j] = dk
  BY <1>2, <1>5, Zenon
<1> HIDE DEF h
<1>7. LocalSlotsOwned(n)
  <2>1. Len(n.local_id) > 0 /\ n.local_id[1] = None
    BY <1>1, <1>5, <1>6
  <2>2. ASSUME NEW d \in DOMAIN n.channels, n.channels[d].local_state # None
        PROVE  /\ LocalId(n.channels[d]) \in 1..(Len(n.local_id) - 1)
               /\ Entry(n.local_id, LocalId(n.channels[d])) = d
    <3>1. d \in DOMAIN m.channels /\ n.channels[d] = m.channels[d] /\ d # dk
      BY <1>5, Zenon
    <3>2. /\ LocalId(m.channels[d]) \in 1..(Len(m.local_id) - 1)
          /\ m.local_id[LocalId(m.channels[d]) + 1] = d
      BY <2>2, <3>1, SlotMeans, Zenon
    <3>3. n.local_id[LocalId(m.channels[d]) + 1] = d
      <4>1. LocalId(m.channels[d]) + 1 \in 1..Len(m.local_id)
        BY <1>1, <3>2
      <4> QED
        BY <1>6, <3>1, <3>2, <4>1, Zenon
    <3> QED
      BY <1>1, <1>5, <3>1, <3>2, <3>3 DEF Entry
  <2> QED
    BY <2>1, <2>2, Zenon DEF LocalSlotsOwned
<1>8. RemoteIdsCovered(n)
  BY <1>5, Zenon DEF TableOK, RemoteIdsCovered
<1>9. ASSUME NEW c \in Channel, Routed(m, c), c.closed # m.channels[dk].closed
      PROVE  Routed(n, c)
  <2>1. /\ c.discovery_key \in DOMAIN m.channels
        /\ c.local_id \in Nat
        /\ c.local_id + 1 \in 1..Len(m.local_id)
        /\ m.local_id[c.local_id + 1] = c.discovery_key
        /\ m.channels[c.discovery_key].closed = c.closed
    BY <1>9, RoutedMeans, Zenon
  <2>2. c.discovery_key # dk
    BY <1>9, <2>1, Zenon
  <2>3. n.local_id[c.local_id + 1] = c.discovery_key
    BY <1>6, <2>1, <2>2, Zenon
  <2>4. c.discovery_key \in DOMAIN n.channels
    BY <1>5, <2>1, <2>2, Zenon
  <2> QED
    BY <1>5, <2>1, <2>3, <2>4, RoutedIf, Zenon
<1>10. ASSUME NEW hs, QueuesOwned(m, hs)
       PROVE  QueuesOwned(n, hs)
  BY <1>5, <1>10 DEF QueuesOwned
<1> QED
  BY <1>5, <1>7, <1>8, <1>9, <1>10, Zenon DEF TableOK

-----------------------------------------------------------------------------
\* The handle attach_local leaves for its key.
LEMMA AttachLocalHandle ==
    ASSUME NEW m, ChannelMapType(m), Len(m.local_id) > 0,
           NEW key \in Keys, NEW flag \in Nat,
           NEW n, n = attach_local(m, key, flag),
           NEW dk, dk = DiscoveryKey[key]
    PROVE  /\ n.channels[dk].local_state = [key |-> key, local_id |-> alloc_local(m)]
           /\ Attached(m, n, dk, flag)
<1>1. HandleOrNew(m, dk, flag) \in ChannelHandle
  BY HandleOrNewType, DiscoveryKeyAssumption, Zenon
<1>2. n.channels = InsertHandle(m, dk,
                     [HandleOrNew(m, dk, flag) EXCEPT !.local_state =
                          [key |-> key, local_id |-> alloc_local(m)]])
  BY Zenon DEF attach_local
<1>3. n.channels[dk].local_state = [key |-> key, local_id |-> alloc_local(m)]
  BY <1>1, <1>2, Zenon DEF InsertHandle, ChannelHandle
<1>4. dk \notin DOMAIN m.channels => n.channels[dk].closed = flag
  BY <1>2, Zenon DEF InsertHandle, HandleOrNew, NewHandle, has_channel
<1>5. LocallyAttached(m, n, dk, alloc_local(m))
  BY AttachLocalEffect, Zenon
<1> QED
  BY <1>3, <1>4, <1>5, Zenon DEF LocallyAttached, Attached

\* The handle attach_remote leaves for its discovery key.
LEMMA AttachRemoteHandle ==
    ASSUME NEW m, ChannelMapType(m),
           NEW dk \in DKeys, NEW id \in Nat, NEW cap \in Caps \cup {None},
           NEW flag \in Nat,
           NEW n, n = attach_remote(m, dk, id, cap, flag)
    PROVE  /\ n.channels[dk].remote_state =
                  [remote_id |-> id, remote_capability |-> cap]
           /\ Attached(m, n, dk, flag)
<1>1. HandleOrNew(m, dk, flag) \in ChannelHandle
  BY HandleOrNewType, Zenon
<1>2. n.channels = InsertHandle(m, dk,
                     [HandleOrNew(m, dk, flag) EXCEPT !.remote_state =
                          [remote_id |-> id, remote_capability |-> cap]])
  BY Zenon DEF attach_remote
<1>3. n.channels[dk].remote_state = [remote_id |-> id, remote_capability |-> cap]
  BY <1>1, <1>2, Zenon DEF InsertHandle, ChannelHandle
<1>4. dk \notin DOMAIN m.channels => n.channels[dk].closed = flag
  BY <1>2, Zenon DEF InsertHandle, HandleOrNew, NewHandle, has_channel
<1>5. RemotelyAttached(m, n, dk, id)
  BY AttachRemoteEffect, Zenon
<1> QED
  BY <1>3, <1>4, <1>5, Zenon DEF RemotelyAttached, Attached

(***************************************************************************)
(* An attach that keeps the table sound, its Channels routed and its       *)
(* queues owned keeps the invariant: a new handle has a new flag.          *)
(***************************************************************************)
LEMMA AttachedInv ==
    ASSUME NEW m, NEW cl, NEW fl, NEW hs, TableInv(m, cl, fl, hs),
           NEW n, NEW dk, Attached(m, n, dk, fl), TableOK(n),
           \A c \in Channel : Routed(m, c) => Routed(n, c),
           QueuesOwned(n, hs)
    PROVE  TableInv(n, cl, FlagCount(m, fl, dk), hs)
<1> DEFINE fl2 == FlagCount(m, fl, dk)
<1>1. /\ fl \in Nat /\ fl2 \in Nat /\ fl <= fl2 /\ cl \subseteq 0..(fl2 - 1)
      /\ dk \notin DOMAIN m.channels => fl < fl2
  BY DEF TableInv, FlagCount, has_channel
<1>2. hs \in Seq(Channel) /\ \A i \in 1..Len(hs) : hs[i] \in Channel /\ hs[i].closed \in Nat
  <2>1. hs \in Seq(Channel) /\ \A i \in 1..Len(hs) : hs[i] \in Channel
    BY DEF TableInv
  <2> QED
    BY <2>1, Zenon DEF Channel
<1>3. /\ \A d \in DOMAIN m.channels : m.channels[d].closed \in Nat
      /\ \A d \in DOMAIN n.channels : n.channels[d].closed \in Nat
  BY Zenon DEF TableInv, TableOK, ChannelMapType, ChannelHandle
<1> HIDE DEF fl2
<1>4. FlagsOwned(n, fl2, hs)
  <2>1. /\ \A d \in DOMAIN m.channels : m.channels[d].closed < fl
        /\ \A i \in 1..Len(hs) : hs[i].closed < fl
        /\ \A d, e \in DOMAIN m.channels :
              m.channels[d].closed = m.channels[e].closed => d = e
        /\ \A d \in DOMAIN m.channels, i \in 1..Len(hs) :
              m.channels[d].closed = hs[i].closed => hs[i].discovery_key = d
        /\ \A i, j \in 1..Len(hs) :
              hs[i].closed = hs[j].closed => hs[i].discovery_key = hs[j].discovery_key
    BY Zenon DEF TableInv, FlagsOwned
  <2>2. \A d \in DOMAIN n.channels :
            \/ d \in DOMAIN m.channels /\ n.channels[d].closed = m.channels[d].closed
            \/ dk \notin DOMAIN m.channels /\ d = dk /\ n.channels[d].closed = fl
    BY Zenon DEF Attached
  <2>3. /\ \A d \in DOMAIN m.channels : m.channels[d].closed # fl
        /\ \A i \in 1..Len(hs) : hs[i].closed # fl
    BY ONLY <1>1, <1>2, <1>3, <2>1
  <2>4. \A d \in DOMAIN n.channels : n.channels[d].closed < fl2
    BY ONLY <1>1, <1>3, <2>1, <2>2
  <2>5. \A i \in 1..Len(hs) : hs[i].closed < fl2
    BY ONLY <1>1, <1>2, <2>1
  <2>6. \A d, e \in DOMAIN n.channels :
            n.channels[d].closed = n.channels[e].closed => d = e
    <3> SUFFICES ASSUME NEW d \in DOMAIN n.channels, NEW e \in DOMAIN n.channels,
                        n.channels[d].closed = n.channels[e].closed
                 PROVE  d = e
      OBVIOUS
    <3>1. CASE d \in DOMAIN m.channels /\ e \in DOMAIN m.channels
      BY <2>1, <3>1 DEF Attached
    <3>2. CASE d \notin DOMAIN m.channels \/ e \notin DOMAIN m.channels
      BY <2>2, <2>3, <3>2
    <3> QED
      BY <3>1, <3>2, Zenon
  <2>7. \A d \in DOMAIN n.channels, i \in 1..Len(hs) :
            n.channels[d].closed = hs[i].closed => hs[i].discovery_key = d
    <3> SUFFICES ASSUME NEW d \in DOMAIN n.channels, NEW i \in 1..Len(hs),
                        n.channels[d].closed = hs[i].closed
                 PROVE  hs[i].discovery_key = d
      OBVIOUS
    <3>1. d \in DOMAIN m.channels /\ m.channels[d].closed = hs[i].closed
      BY <2>2, <2>3
    <3> QED
      BY <2>1, <3>1
  <2> QED
    BY <2>1, <2>4, <2>5, <2>6, <2>7, Zenon DEF FlagsOwned
<1>5. ASSUME NEW i \in 1..Len(hs)
      PROVE  /\ hs[i].closed \notin cl => Live(n, hs[i])
             /\ Live(n, hs[i]) => Routed(n, hs[i])
  <2>1. Live(n, hs[i]) <=> Live(m, hs[i])
    BY <1>1, <1>2, <1>3 DEF Live, has_channel, Attached, TableInv, FlagsOwned
  <2> QED
    BY <1>2, <2>1, Zenon DEF TableInv
<1> QED
  BY <1>1, <1>2, <1>4, <1>5, Zenon DEF TableInv, fl2

\* A new table satisfies the invariant.
LEMMA NewTableInv == TableInv(NewChannelMap, {}, 0, <<>>)
<1>1. /\ DOMAIN NewChannelMap.channels = {}
      /\ NewChannelMap.local_id = <<None>> /\ NewChannelMap.remote_id = <<>>
      /\ DOMAIN NewChannelMap = {"channels", "local_id", "remote_id"}
  BY Zenon DEF NewChannelMap
<1>2. TableOK(NewChannelMap)
  BY <1>1 DEF TableOK, ChannelMapType, Entries, LocalSlotsOwned, RemoteIdsCovered
<1> QED
  BY <1>1, <1>2 DEF TableInv, QueuesOwned, FlagsOwned

\* attach_local preserves it ...
LEMMA AttachLocalInv ==
    ASSUME NEW m, NEW cl, NEW fl, NEW hs, TableInv(m, cl, fl, hs), NEW key \in Keys
    PROVE  TableInv(attach_local(m, key, fl), cl,
                    FlagCount(m, fl, DiscoveryKey[key]), hs)
<1> DEFINE n == attach_local(m, key, fl)
<1>1. /\ TableOK(m) /\ QueuesOwned(m, hs) /\ fl \in Nat
      /\ ChannelMapType(m) /\ Len(m.local_id) > 0
  BY Zenon DEF TableInv, TableOK, LocalSlotsOwned
<1>2. /\ TableOK(n) /\ QueuesOwned(n, hs)
      /\ \A c \in Channel : Routed(m, c) => Routed(n, c)
  BY <1>1, AttachLocalKeeps, Zenon
<1>3. Attached(m, n, DiscoveryKey[key], fl)
  BY <1>1, AttachLocalHandle, Zenon
<1> QED
  BY <1>2, <1>3, AttachedInv, Zenon

\* ... and so does attach_remote.
LEMMA AttachRemoteInv ==
    ASSUME NEW m, NEW cl, NEW fl, NEW hs, TableInv(m, cl, fl, hs),
           NEW dk \in DKeys, NEW id \in Nat, NEW cap \in Caps \cup {None}
    PROVE  TableInv(attach_remote(m, dk, id, cap, fl), cl, FlagCount(m, fl, dk), hs)
<1> DEFINE n == attach_remote(m, dk, id, cap, fl)
<1>1. TableOK(m) /\ QueuesOwned(m, hs) /\ fl \in Nat /\ ChannelMapType(m)
  BY Zenon DEF TableInv, TableOK
<1>2. /\ TableOK(n) /\ QueuesOwned(n, hs)
      /\ \A c \in Channel : Routed(m, c) => Routed(n, c)
  BY <1>1, AttachRemoteKeeps
<1>3. Attached(m, n, dk, fl)
  BY <1>1, AttachRemoteHandle, Zenon
<1> QED
  BY <1>2, <1>3, AttachedInv, Zenon

(***************************************************************************)
(* accept: the new Channel shares its flag only with Channels made from    *)
(* the same handle.                                                        *)
(***************************************************************************)
LEMMA AcceptInv ==
    ASSUME NEW m, NEW cl, NEW fl, NEW hs, TableInv(m, cl, fl, hs),
           NEW id, prepare_to_verify(m, id) # None
    PROVE  TableInv(accept(m, id, Len(hs) + 1), cl, fl,
                    Append(hs, NewChannel(m, id, Len(hs) + 1)))
<1> DEFINE queue == Len(hs) + 1
           n     == accept(m, id, queue)
           c     == NewChannel(m, id, queue)
           hs2   == Append(hs, c)
           dk    == get_local(m, id)
<1>1. /\ TableOK(m) /\ ChannelMapType(m) /\ QueuesOwned(m, hs)
      /\ fl \in Nat /\ hs \in Seq(Channel) /\ Len(hs) \in Nat /\ queue \in Nat
      /\ FlagsOwned(m, fl, hs)
  BY DEF TableInv, TableOK
<1>2. /\ TableOK(n) /\ c \in Channel /\ Routed(n, c)
      /\ \A d \in Channel : Routed(m, d) => Routed(n, d)
      /\ QueuesOwned(n, hs2)
  BY <1>1, AcceptKeeps
<1>3. /\ dk \in DOMAIN m.channels
      /\ DOMAIN n.channels = DOMAIN m.channels
      /\ \A d \in DOMAIN m.channels : n.channels[d].closed = m.channels[d].closed
      /\ c.discovery_key = dk /\ c.closed = m.channels[dk].closed
  BY <1>1, AcceptEffect
<1> HIDE DEF queue, n, c, dk
<1>4. /\ hs2 \in Seq(Channel) /\ Len(hs2) = Len(hs) + 1
      /\ hs2[Len(hs) + 1] = c
      /\ \A i \in 1..Len(hs) : hs2[i] = hs[i]
  BY <1>1, <1>2
<1> HIDE DEF hs2
<1>5. ASSUME NEW i \in 1..Len(hs2)
      PROVE  \/ i = Len(hs) + 1 /\ hs2[i] = c
             \/ i \in 1..Len(hs) /\ hs2[i] = hs[i]
  BY <1>1, <1>4
<1>6. FlagsOwned(n, fl, hs2)
  <2>1. \A i \in 1..Len(hs2) : hs2[i].closed < fl
    BY <1>1, <1>3, <1>5, Zenon DEF FlagsOwned
  <2>2. \A d \in DOMAIN n.channels, i \in 1..Len(hs2) :
           n.channels[d].closed = hs2[i].closed => hs2[i].discovery_key = d
    <3> SUFFICES ASSUME NEW d \in DOMAIN n.channels, NEW i \in 1..Len(hs2),
                        n.channels[d].closed = hs2[i].closed
                 PROVE  hs2[i].discovery_key = d
      OBVIOUS
    <3>1. d \in DOMAIN m.channels /\ m.channels[d].closed = hs2[i].closed
      BY <1>3
    <3>2. CASE hs2[i] = c
      BY ONLY <1>1, <1>3, <3>1, <3>2 DEF FlagsOwned
    <3>3. CASE i \in 1..Len(hs) /\ hs2[i] = hs[i]
      BY ONLY <1>1, <3>1, <3>3 DEF FlagsOwned
    <3> QED
      BY <1>5, <3>2, <3>3
  <2>3. \A i, j \in 1..Len(hs2) :
           hs2[i].closed = hs2[j].closed
               => hs2[i].discovery_key = hs2[j].discovery_key
    <3> SUFFICES ASSUME NEW i \in 1..Len(hs2), NEW j \in 1..Len(hs2),
                        hs2[i].closed = hs2[j].closed
                 PROVE  hs2[i].discovery_key = hs2[j].discovery_key
      OBVIOUS
    <3>1. CASE hs2[i] = c \/ hs2[j] = c
      <4>1. n.channels[dk].closed = c.closed /\ dk \in DOMAIN n.channels
        BY <1>3
      <4> QED
        BY ONLY <2>2, <3>1, <4>1, i \in 1..Len(hs2), j \in 1..Len(hs2),
                hs2[i].closed = hs2[j].closed
    <3>2. CASE i \in 1..Len(hs) /\ hs2[i] = hs[i] /\ j \in 1..Len(hs) /\ hs2[j] = hs[j]
      BY ONLY <1>1, <3>2, hs2[i].closed = hs2[j].closed DEF FlagsOwned
    <3> QED
      BY <1>5, <3>1, <3>2, Zenon
  <2> QED
    BY <1>1, <1>3, <2>1, <2>2, <2>3, Zenon DEF FlagsOwned
<1>7. ASSUME NEW i \in 1..Len(hs2)
      PROVE  /\ hs2[i].closed \notin cl => Live(n, hs2[i])
             /\ Live(n, hs2[i]) => Routed(n, hs2[i])
  <2>1. CASE hs2[i] = c
    BY <1>2, <1>3, <2>1, Zenon DEF Live, has_channel
  <2>2. CASE i \in 1..Len(hs) /\ hs2[i] = hs[i]
    <3>1. Live(n, hs[i]) <=> Live(m, hs[i])
      BY <1>3, Zenon DEF Live, has_channel
    <3>2. hs[i] \in Channel
      BY <1>1, <2>2
    <3> QED
      BY <1>2, <2>2, <3>1, <3>2, Zenon DEF TableInv
  <2> QED
    BY <1>5, <2>1, <2>2, Zenon
<1> QED
  BY <1>1, <1>2, <1>4, <1>6, <1>7, Zenon DEF TableInv, queue, n, c, hs2

\* remove, with the flag that dropping the handle sets.
LEMMA RemoveInv ==
    ASSUME NEW m, NEW cl, NEW fl, NEW hs, TableInv(m, cl, fl, hs),
           NEW dk, has_channel(m, dk)
    PROVE  TableInv(remove(m, dk), cl \cup DroppedFlags(m, dk), fl, hs)
<1> DEFINE n == remove(m, dk)
           cl2 == cl \cup {m.channels[dk].closed}
<1>1. /\ TableOK(m) /\ ChannelMapType(m) /\ QueuesOwned(m, hs)
      /\ fl \in Nat /\ hs \in Seq(Channel) /\ cl \subseteq 0..(fl - 1)
      /\ FlagsOwned(m, fl, hs) /\ DroppedFlags(m, dk) = {m.channels[dk].closed}
      /\ \A i \in 1..Len(hs) : hs[i] \in Channel
  BY DEF TableInv, TableOK, DroppedFlags
<1>2. /\ TableOK(n) /\ QueuesOwned(n, hs)
      /\ \A c \in Channel :
            Routed(m, c) /\ c.closed # m.channels[dk].closed => Routed(n, c)
  BY <1>1, RemoveKeeps, Zenon
<1>3. m.channels[dk].closed \in 0..(fl - 1)
  BY <1>1 DEF ChannelMapType, ChannelHandle, has_channel, FlagsOwned
<1>4. /\ DOMAIN n.channels = DOMAIN m.channels \ {dk}
      /\ \A d \in DOMAIN n.channels : n.channels[d] = m.channels[d]
  BY Zenon DEF remove
<1> HIDE DEF n
<1>5. FlagsOwned(n, fl, hs)
  BY <1>1, <1>4, SMTT(30) DEF FlagsOwned
<1>6. ASSUME NEW i \in 1..Len(hs)
      PROVE  /\ hs[i].closed \notin cl2 => Live(n, hs[i])
             /\ Live(n, hs[i]) => Routed(n, hs[i])
  <2>1. Live(n, hs[i]) => Live(m, hs[i]) /\ hs[i].closed # m.channels[dk].closed
    BY <1>1, <1>4, Zenon DEF Live, has_channel, FlagsOwned
  <2>2. Live(m, hs[i]) /\ hs[i].closed # m.channels[dk].closed => Live(n, hs[i])
    BY <1>4, Zenon DEF Live, has_channel
  <2> QED
    BY <1>1, <1>2, <2>1, <2>2, Zenon DEF TableInv
<1> QED
  BY <1>1, <1>2, <1>3, <1>5, <1>6, Zenon DEF TableInv, n

\* Channel::close sets the flag of a Channel.
LEMMA CloseInv ==
    ASSUME NEW m, NEW cl, NEW fl, NEW hs, TableInv(m, cl, fl, hs),
           NEW i \in 1..Len(hs)
    PROVE  TableInv(m, cl \cup {hs[i].closed}, fl, hs)
<1>1. hs[i] \in Channel /\ hs[i].closed < fl /\ fl \in Nat
  BY DEF TableInv, FlagsOwned
<1>2. hs[i].closed \in 0..(fl - 1)
  BY <1>1 DEF Channel
<1> QED
  BY <1>2, Zenon DEF TableInv

-----------------------------------------------------------------------------
(***************************************************************************)
(* The calls as the Protocol makes them: attach, and then perhaps accept.  *)
(***************************************************************************)
\* accept keeps what a handle says of its two sides, and its flag.
LEMMA AcceptedHandles ==
    ASSUME NEW m, ChannelMapType(m), NEW hs, Len(hs) \in Nat, NEW n, NEW hs2,
           MaybeAccepted(m, n, hs, hs2)
    PROVE  /\ DOMAIN n.channels = DOMAIN m.channels
           /\ \A d \in DOMAIN m.channels :
                 /\ n.channels[d].local_state = m.channels[d].local_state
                 /\ n.channels[d].remote_state = m.channels[d].remote_state
                 /\ n.channels[d].closed = m.channels[d].closed
                 /\ \/ n.channels[d].inbound_tx = m.channels[d].inbound_tx
                    \/ n.channels[d].inbound_tx \notin 1..Len(hs)
<1>1. CASE n = m
  BY <1>1, Zenon
<1>2. ASSUME NEW id, prepare_to_verify(m, id) # None, n = accept(m, id, Len(hs) + 1)
      PROVE  /\ DOMAIN n.channels = DOMAIN m.channels
             /\ \A d \in DOMAIN m.channels :
                   /\ n.channels[d].local_state = m.channels[d].local_state
                   /\ n.channels[d].remote_state = m.channels[d].remote_state
                   /\ n.channels[d].closed = m.channels[d].closed
                   /\ n.channels[d].inbound_tx \in {Len(hs) + 1, m.channels[d].inbound_tx}
  BY <1>2, AcceptEffect
<1> QED
  BY <1>1, <1>2 DEF MaybeAccepted

\* The key and the capability that accept verifies are those of a handle, and
\* the key is the one of the Channel it makes.
LEMMA AcceptedKey ==
    ASSUME NEW m, ChannelMapType(m), NEW id, prepare_to_verify(m, id) # None,
           NEW queue \in Nat
    PROVE  \E d \in DOMAIN accept(m, id, queue).channels :
              LET h == accept(m, id, queue).channels[d]
              IN  /\ is_connected(h)
                  /\ NewChannel(m, id, queue).key = h.local_state.key
                  /\ prepare_to_verify(m, id) =
                        [key |-> h.local_state.key,
                         capability |-> h.remote_state.remote_capability]
<1> DEFINE n == accept(m, id, queue)
           d == get_local(m, id)
<1>1. /\ d \in DOMAIN n.channels /\ is_connected(m.channels[d])
      /\ n.channels[d].local_state = m.channels[d].local_state
      /\ n.channels[d].remote_state = m.channels[d].remote_state
  BY AcceptEffect
<1>2. /\ NewChannel(m, id, queue).key = m.channels[d].local_state.key
      /\ prepare_to_verify(m, id) =
            [key |-> m.channels[d].local_state.key,
             capability |-> m.channels[d].remote_state.remote_capability]
  BY Zenon DEF NewChannel, prepare_to_verify
<1> HIDE DEF n, d
<1>3. is_connected(n.channels[d])
  BY <1>1, Zenon DEF is_connected
<1> QED
  BY <1>1, <1>2, <1>3, Zenon DEF n

\* What an attach is known to do, and accept after it.
LEMMA AttachedFrom ==
    ASSUME NEW m, NEW cl, NEW fl, NEW hs, TableInv(m, cl, fl, hs),
           NEW dk, NEW a, TableInv(a, cl, FlagCount(m, fl, dk), hs),
           Attached(m, a, dk, fl), NEW keys, NEW caps, HandlesFrom(m, a, keys, caps, hs),
           NEW n, NEW hs2, MaybeAccepted(a, n, hs, hs2)
    PROVE  /\ TableInv(n, cl, FlagCount(m, fl, dk), hs2)
           /\ HandlesFrom(m, n, keys, caps, hs)
           /\ FlagsFrom(m, n, fl, cl, cl)
<1>1. ChannelMapType(a) /\ Len(hs) \in Nat /\ fl \in Nat /\ fl \notin cl
  BY DEF TableInv, TableOK
<1>2. TableInv(n, cl, FlagCount(m, fl, dk), hs2)
  BY AcceptInv, Zenon DEF MaybeAccepted
<1>3. /\ DOMAIN n.channels = DOMAIN a.channels
      /\ \A d \in DOMAIN a.channels :
            /\ n.channels[d].local_state = a.channels[d].local_state
            /\ n.channels[d].remote_state = a.channels[d].remote_state
            /\ n.channels[d].closed = a.channels[d].closed
            /\ \/ n.channels[d].inbound_tx = a.channels[d].inbound_tx
               \/ n.channels[d].inbound_tx \notin 1..Len(hs)
  BY <1>1, AcceptedHandles, Zenon
<1>4. HandlesFrom(m, n, keys, caps, hs)
  BY <1>3, Zenon DEF HandlesFrom
<1>5. FlagsFrom(m, n, fl, cl, cl)
  BY <1>1, <1>3, Zenon DEF FlagsFrom, Attached
<1> QED
  BY <1>2, <1>4, <1>5, Zenon

\* command_open attaches locally.
LEMMA LocalFrom ==
    ASSUME NEW m, NEW cl, NEW fl, NEW hs, TableInv(m, cl, fl, hs), NEW key \in Keys,
           NEW n, NEW hs2, MaybeAccepted(attach_local(m, key, fl), n, hs, hs2)
    PROVE  /\ TableInv(n, cl, FlagCount(m, fl, DiscoveryKey[key]), hs2)
           /\ HandlesFrom(m, n, {key}, {}, hs)
           /\ FlagsFrom(m, n, fl, cl, cl)
<1> DEFINE a  == attach_local(m, key, fl)
           dk == DiscoveryKey[key]
<1>1. ChannelMapType(m) /\ Len(m.local_id) > 0 /\ fl \in Nat
  BY Zenon DEF TableInv, TableOK, LocalSlotsOwned
<1>2. TableInv(a, cl, FlagCount(m, fl, dk), hs)
  BY AttachLocalInv, Zenon
<1>3. /\ a.channels[dk].local_state = [key |-> key, local_id |-> alloc_local(m)]
      /\ Attached(m, a, dk, fl)
  BY <1>1, AttachLocalHandle, Zenon
<1>4. LocallyAttached(m, a, dk, alloc_local(m))
  BY <1>1, AttachLocalEffect, Zenon
<1>5. None \notin 1..Len(hs)
  BY NoneAssumption
<1> HIDE DEF a, dk
<1>6. HandlesFrom(m, a, {key}, {}, hs)
  BY <1>3, <1>4, <1>5 DEF HandlesFrom, LocallyAttached
<1>7. MaybeAccepted(a, n, hs, hs2)
  BY Zenon DEF a
<1> QED
  BY <1>2, <1>3, <1>6, <1>7, AttachedFrom, Zenon DEF dk

\* on_open attaches remotely.
LEMMA RemoteFrom ==
    ASSUME NEW m, NEW cl, NEW fl, NEW hs, TableInv(m, cl, fl, hs),
           NEW dk \in DKeys, NEW id \in Nat, NEW cap \in Caps \cup {None},
           NEW n, NEW hs2, MaybeAccepted(attach_remote(m, dk, id, cap, fl), n, hs, hs2)
    PROVE  /\ TableInv(n, cl, FlagCount(m, fl, dk), hs2)
           /\ HandlesFrom(m, n, {}, {cap}, hs)
           /\ FlagsFrom(m, n, fl, cl, cl)
<1> DEFINE a == attach_remote(m, dk, id, cap, fl)
<1>1. ChannelMapType(m) /\ fl \in Nat
  BY Zenon DEF TableInv, TableOK
<1>2. TableInv(a, cl, FlagCount(m, fl, dk), hs)
  BY AttachRemoteInv, Zenon
<1>3. /\ a.channels[dk].remote_state = [remote_id |-> id, remote_capability |-> cap]
      /\ Attached(m, a, dk, fl)
  BY <1>1, AttachRemoteHandle, Zenon
<1>4. RemotelyAttached(m, a, dk, id)
  BY <1>1, AttachRemoteEffect, Zenon
<1>5. None \notin 1..Len(hs)
  BY NoneAssumption
<1> HIDE DEF a
<1>6. HandlesFrom(m, a, {}, {cap}, hs)
  BY <1>3, <1>4, <1>5 DEF HandlesFrom, RemotelyAttached
<1>7. MaybeAccepted(a, n, hs, hs2)
  BY Zenon DEF a
<1> QED
  BY <1>2, <1>3, <1>6, <1>7, AttachedFrom, Zenon

\* on_close and Command::Close remove, which sets the flag of the handle that goes.
LEMMA RemoveFrom ==
    ASSUME NEW m, NEW cl, NEW fl, NEW hs, TableInv(m, cl, fl, hs),
           NEW dk, has_channel(m, dk), NEW n, n = remove(m, dk),
           NEW cl2, cl2 = cl \cup DroppedFlags(m, dk)
    PROVE  /\ TableInv(n, cl2, fl, hs)
           /\ HandlesFrom(m, n, {}, {}, hs)
           /\ FlagsFrom(m, n, fl, cl, cl2)
<1>1. TableInv(n, cl2, fl, hs)
  BY RemoveInv, Zenon
<1>2. /\ DOMAIN n.channels = DOMAIN m.channels \ {dk}
      /\ \A d \in DOMAIN n.channels : n.channels[d] = m.channels[d]
      /\ dk \in DOMAIN m.channels
      /\ cl2 = cl \cup {m.channels[dk].closed}
  BY RemoveHandle
<1>3. FlagsOwned(m, fl, hs)
  BY Zenon DEF TableInv
<1>4. HandlesFrom(m, n, {}, {}, hs)
  BY <1>2, Zenon DEF HandlesFrom
<1>5. FlagsFrom(m, n, fl, cl, cl2)
  BY <1>2, <1>3, Zenon DEF FlagsFrom, FlagsOwned
<1> QED
  BY <1>1, <1>4, <1>5, Zenon
=============================================================================
