----------------------------- MODULE ChannelMap -----------------------------
(***************************************************************************)
(* The table of channels a Protocol keeps (src/channels.rs): handles keyed *)
(* by discovery key, plus two vectors that map local and remote wire ids   *)
(* to discovery keys.  Every method of the table is an operator that takes *)
(* the table m and returns what the method leaves behind.                  *)
(*                                                                         *)
(* A key is a member of Keys, its discovery key (a keyed hash, never       *)
(* computed here) the value of DiscoveryKey, and the hex string that       *)
(* indexes the hash map is the discovery key itself.  `closed' is the      *)
(* identity of the handle's shared flag (Arc<AtomicBool>), `inbound_tx'    *)
(* the identity of the queue the handle forwards messages to.              *)
(***************************************************************************)
EXTENDS Integers, Sequences, FiniteSetsExt

CONSTANTS
    Keys,           \* keys of hypercores
    DKeys,          \* discovery keys
    DiscoveryKey,   \* the discovery key of each key
    Caps,           \* capabilities an Open message may carry
    None            \* Option::None

\* struct LocalState
LocalState == [key : Keys, local_id : Nat]

\* struct RemoteState
RemoteState == [remote_id : Nat, remote_capability : Caps \cup {None}]

ASSUME DiscoveryKeyAssumption == DiscoveryKey \in [Keys -> DKeys]

ASSUME NoneAssumption ==
    /\ None \notin DKeys
    /\ None \notin Nat
    /\ None \notin LocalState
    /\ None \notin RemoteState

-----------------------------------------------------------------------------
\* struct ChannelHandle.  The discovery key is the handle's index in the map.
ChannelHandle ==
    [local_state  : LocalState \cup {None},
     remote_state : RemoteState \cup {None},
     inbound_tx   : Nat \cup {None},
     closed       : Nat]

\* ChannelHandle::new, with a fresh flag
NewHandle(flag) ==
    [local_state  |-> None,
     remote_state |-> None,
     inbound_tx   |-> None,
     closed       |-> flag]

\* ChannelHandle::is_connected
is_connected(h) == h.local_state # None /\ h.remote_state # None

\* Some(local_id) of a handle that is locally attached
LocalId(h) == h.local_state.local_id

RemoteId(h) == h.remote_state.remote_id

-----------------------------------------------------------------------------
(***************************************************************************)
(* Vec<Option<String>> with the index of the code, which starts at 0.      *)
(***************************************************************************)
Entries == DKeys \cup {None}

\* vec.get(i), an absent entry and a None entry being treated alike
Entry(v, i) == IF i < Len(v) THEN v[i + 1] ELSE None

\* vec[i] = x
SetEntry(v, i, x) == [v EXCEPT ![i + 1] = x]

\* vec.resize(n, None) of a vector no longer than n
Resize(v, n) == [j \in 1..n |-> IF j <= Len(v) THEN v[j] ELSE None]

\* Mutant of FreeIds: without skip(1)
FreeIdsNoSkip(v) == {i \in 0..(Len(v) - 1) : v[i + 1] = None}

\* The indices alloc_local may reuse; index 0 is skipped.
FreeIds(v) == {i \in 1..(Len(v) - 1) : v[i + 1] = None}

-----------------------------------------------------------------------------
\* struct ChannelMap
ChannelMapType(m) ==
    /\ DOMAIN m = {"channels", "local_id", "remote_id"}
    /\ DOMAIN m.channels \subseteq DKeys
    /\ \A dk \in DOMAIN m.channels : m.channels[dk] \in ChannelHandle
    /\ m.local_id \in Seq(Entries)
    /\ m.remote_id \in Seq(Entries)

\* ChannelMap::new.  Local ids start at 1.
NewChannelMap ==
    [channels  |-> [dk \in {} |-> None],
     local_id  |-> <<None>>,
     remote_id |-> <<>>]

\* ChannelMap::has_channel
has_channel(m, dk) == dk \in DOMAIN m.channels

\* The handle entry(dk).or_insert_with(new) refers to
HandleOrNew(m, dk, flag) ==
    IF has_channel(m, dk) THEN m.channels[dk] ELSE NewHandle(flag)

\* channels.insert(dk, h)
InsertHandle(m, dk, h) ==
    [d \in DOMAIN m.channels \cup {dk} |-> IF d = dk THEN h ELSE m.channels[d]]

\* ChannelMap::alloc_local: the id it returns ...
alloc_local(m) ==
    LET free == FreeIds(m.local_id)
    IN  IF free # {} THEN Min(free) ELSE Len(m.local_id)

\* ... and the vector it leaves
LocalIdsAfterAlloc(m) ==
    IF FreeIds(m.local_id) # {} THEN m.local_id ELSE Append(m.local_id, None)

\* Mutant of alloc_remote: resize(id, None)
alloc_remoteShort(m, id) ==
    IF Len(m.remote_id) > id
    THEN SetEntry(m.remote_id, id, None)
    ELSE Resize(m.remote_id, id)

\* ChannelMap::alloc_remote
alloc_remote(m, id) ==
    IF Len(m.remote_id) > id
    THEN SetEntry(m.remote_id, id, None)
    ELSE Resize(m.remote_id, id + 1)

\* Mutant of attach_local: the slot gets the key in place of the discovery key
attach_localByKey(m, key, flag) ==
    LET dk == DiscoveryKey[key]
        id == alloc_local(m)
        h  == HandleOrNew(m, dk, flag)
    IN  [channels  |-> InsertHandle(m, dk,
                         [h EXCEPT !.local_state =
                                       [key |-> key, local_id |-> id]]),
         local_id  |-> SetEntry(LocalIdsAfterAlloc(m), id, key),
         remote_id |-> m.remote_id]

\* ChannelMap::attach_local
attach_local(m, key, flag) ==
    LET dk == DiscoveryKey[key]
        id == alloc_local(m)
        h  == HandleOrNew(m, dk, flag)
    IN  [channels  |-> InsertHandle(m, dk,
                         [h EXCEPT !.local_state =
                                       [key |-> key, local_id |-> id]]),
         local_id  |-> SetEntry(LocalIdsAfterAlloc(m), id, dk),
         remote_id |-> m.remote_id]

\* ChannelMap::attach_remote
attach_remote(m, dk, id, cap, flag) ==
    LET h == HandleOrNew(m, dk, flag)
    IN  [channels  |-> InsertHandle(m, dk,
                         [h EXCEPT !.remote_state =
                                       [remote_id |-> id,
                                        remote_capability |-> cap]]),
         local_id  |-> m.local_id,
         remote_id |-> SetEntry(alloc_remote(m, id), id, dk)]

\* ChannelMap::get_local and get_local_mut: the discovery key of the handle
\* they find, or None
get_local(m, id) ==
    LET dk == Entry(m.local_id, id)
    IN  IF has_channel(m, dk) THEN dk ELSE None

\* Mutant of get_remote: looks the id up among the local ones
get_remoteByLocal(m, id) ==
    LET dk == Entry(m.local_id, id)
    IN  IF has_channel(m, dk) THEN dk ELSE None

\* ChannelMap::get_remote and get_remote_mut
get_remote(m, id) ==
    LET dk == Entry(m.remote_id, id)
    IN  IF has_channel(m, dk) THEN dk ELSE None

\* Mutant of remove: the slot of the local id is not cleared
removeKeepsSlot(m, dk) ==
    IF has_channel(m, dk)
    THEN LET h == m.channels[dk]
         IN  [channels  |-> [d \in DOMAIN m.channels \ {dk} |-> m.channels[d]],
              local_id  |-> m.local_id,
              remote_id |-> IF h.remote_state # None
                            THEN SetEntry(m.remote_id, RemoteId(h), None)
                            ELSE m.remote_id]
    ELSE m

\* ChannelMap::remove.  The handle is dropped, which sets its flag: see
\* DroppedFlags.
remove(m, dk) ==
    IF has_channel(m, dk)
    THEN LET h == m.channels[dk]
         IN  [channels  |-> [d \in DOMAIN m.channels \ {dk} |-> m.channels[d]],
              local_id  |-> IF h.local_state # None
                            THEN SetEntry(m.local_id, LocalId(h), None)
                            ELSE m.local_id,
              remote_id |-> IF h.remote_state # None
                            THEN SetEntry(m.remote_id, RemoteId(h), None)
                            ELSE m.remote_id]
    ELSE m

\* Mutant of DroppedFlags: without the Drop implementation
DroppedFlagsNone(m, dk) == {}

\* Drop for ChannelHandle: the flags remove(m, dk) sets
DroppedFlags(m, dk) ==
    IF has_channel(m, dk) THEN {m.channels[dk].closed} ELSE {}

\* Mutant of prepare_to_verify: is_connected is not asked for
prepare_to_verifyAny(m, id) ==
    LET dk == get_local(m, id)
    IN  IF dk # None
        THEN [key |-> m.channels[dk].local_state.key, capability |-> None]
        ELSE None

\* ChannelMap::prepare_to_verify: what the capability of a connected handle is
\* verified with; None is the error
prepare_to_verify(m, id) ==
    LET dk == get_local(m, id)
        h  == m.channels[dk]
    IN  IF dk # None /\ is_connected(h)
        THEN [key |-> h.local_state.key,
              capability |-> h.remote_state.remote_capability]
        ELSE None

\* ChannelMap::accept of the local id of a connected handle.  ChannelHandle::open
\* makes the handle forward to a new queue from now on ...
accept(m, id, queue) ==
    LET dk == get_local(m, id)
    IN  [m EXCEPT !.channels = InsertHandle(m, dk,
                      [m.channels[dk] EXCEPT !.inbound_tx = queue])]

\* ... and this is the Channel the application gets.
NewChannel(m, id, queue) ==
    LET dk == get_local(m, id)
        h  == m.channels[dk]
    IN  [discovery_key |-> dk,
         key           |-> h.local_state.key,
         local_id      |-> LocalId(h),
         closed        |-> h.closed,
         inbound       |-> queue]

Channel ==
    [discovery_key : DKeys, key : Keys, local_id : Nat, closed : Nat,
     inbound : Nat]

-----------------------------------------------------------------------------
\* Every locally attached handle owns the slot of its local id, and slot 0
\* belongs to nobody.
LocalSlotsOwned(m) ==
    /\ Len(m.local_id) > 0 /\ m.local_id[1] = None
    /\ \A dk \in DOMAIN m.channels :
          m.channels[dk].local_state # None =>
              /\ LocalId(m.channels[dk]) \in 1..(Len(m.local_id) - 1)
              /\ Entry(m.local_id, LocalId(m.channels[dk])) = dk

\* The vector of remote ids covers the remote id of every handle.
RemoteIdsCovered(m) ==
    \A dk \in DOMAIN m.channels :
        m.channels[dk].remote_state # None =>
            RemoteId(m.channels[dk]) < Len(m.remote_id)

\* The handle Channel c was made from is in the table, and c's id leads there.
Routed(m, c) ==
    /\ get_local(m, c.local_id) = c.discovery_key
    /\ m.channels[c.discovery_key].closed = c.closed

\* A handle that forwards is connected, and forwards to the queue of a Channel
\* in hs that was made from it.
QueuesOwned(m, hs) ==
    \A dk \in DOMAIN m.channels :
        LET h == m.channels[dk]
        IN  h.inbound_tx # None =>
                /\ is_connected(h)
                /\ h.inbound_tx \in 1..Len(hs)
                /\ hs[h.inbound_tx].discovery_key = dk
                /\ hs[h.inbound_tx].closed = h.closed

\* The handle of dk is there and has local id i.
HasLocalId(m, dk, i) ==
    /\ has_channel(m, dk)
    /\ m.channels[dk].local_state # None
    /\ LocalId(m.channels[dk]) = i

\* The slots that no removal frees any more: the handle they name is gone or has
\* another id.
LostSlots(m) ==
    {i \in 1..(Len(m.local_id) - 1) :
        /\ Entry(m.local_id, i) # None
        /\ ~HasLocalId(m, Entry(m.local_id, i), i)}

\* A slot that n has lost and m has not is that of a handle which has got
\* another one.
LosesOnlyToReopening(m, n) ==
    \A i \in LostSlots(n) \ LostSlots(m) :
        LET dk == Entry(m.local_id, i)
        IN  HasLocalId(m, dk, i) /\ has_channel(n, dk)
=============================================================================
