--------------------------- MODULE ChannelMapSpec ---------------------------
(***************************************************************************)
(* What a Protocol does to its channel table, whatever the application     *)
(* asks for and whatever the remote sends: opens of any key, Open messages *)
(* with any remote id and capability, removals, and Channel::close setting *)
(* the shared flag from another thread.  The order of the calls, the ids a *)
(* remote picks, the verdict on a capability and opens of a key that is    *)
(* open already are unrestricted here.  Both endpoints of module Protocol  *)
(* implement this specification (module ProtocolTables).                   *)
(***************************************************************************)
EXTENDS ChannelMap

CONSTANTS
    RemoteIds,      \* the ids a remote may announce
    LocalIds,       \* the local ids that may be given out
    FlagCounts,     \* how many handles may have been created
    Queues          \* the queues a Channel may be given

ASSUME RemoteIdsAssumption == RemoteIds \subseteq Nat

VARIABLES
    cm,             \* the table
    closed,         \* the flags that are set
    flags,          \* number of flags created so far
    handed          \* the Channels the application was given, in order

vars == <<cm, closed, flags, handed>>

Init ==
    /\ cm = NewChannelMap
    /\ closed = {}
    /\ flags = 0
    /\ handed = <<>>

\* A handle is created, and its flag with it, unless dk has one.
FlagsAfter(dk) == IF has_channel(cm, dk) THEN flags ELSE flags + 1

\* Protocol::accept_channel in table m, after the capability was verified
AcceptIn(m, id) ==
    LET queue == Len(handed) + 1
    IN  /\ queue \in Queues
        /\ prepare_to_verify(m, id) # None
        /\ cm' = accept(m, id, queue)
        /\ handed' = Append(handed, NewChannel(m, id, queue))

\* Protocol::command_open of a channel the remote has not opened, or whose
\* capability is refused
AttachLocal(key) ==
    /\ FlagsAfter(DiscoveryKey[key]) \in FlagCounts
    /\ alloc_local(cm) \in LocalIds
    /\ cm' = attach_local(cm, key, flags)
    /\ flags' = FlagsAfter(DiscoveryKey[key])
    /\ UNCHANGED <<closed, handed>>

\* Protocol::command_open of a channel the remote has opened
AcceptLocal(key) ==
    /\ FlagsAfter(DiscoveryKey[key]) \in FlagCounts
    /\ alloc_local(cm) \in LocalIds
    /\ AcceptIn(attach_local(cm, key, flags), alloc_local(cm))
    /\ flags' = FlagsAfter(DiscoveryKey[key])
    /\ UNCHANGED closed

\* Protocol::on_open of a channel that is not open here, or whose capability is
\* refused
AttachRemote(dk, id, cap) ==
    /\ FlagsAfter(dk) \in FlagCounts
    /\ cm' = attach_remote(cm, dk, id, cap, flags)
    /\ flags' = FlagsAfter(dk)
    /\ UNCHANGED <<closed, handed>>

\* Protocol::on_open of a channel that is open here
AcceptRemote(dk, id, cap) ==
    LET m == attach_remote(cm, dk, id, cap, flags)
    IN  /\ FlagsAfter(dk) \in FlagCounts
        /\ m.channels[dk].local_state # None
        /\ AcceptIn(m, LocalId(m.channels[dk]))
        /\ flags' = FlagsAfter(dk)
        /\ UNCHANGED closed

\* Protocol::close_local, command_close and on_close of a known channel
RemoveChannel(dk) ==
    /\ has_channel(cm, dk)
    /\ cm' = remove(cm, dk)
    /\ closed' = closed \cup DroppedFlags(cm, dk)
    /\ UNCHANGED <<flags, handed>>

\* Channel::close stores the flag before Protocol has seen the Close message.
CloseChannel(n) ==
    /\ closed' = closed \cup {handed[n].closed}
    /\ UNCHANGED <<cm, flags, handed>>

Next ==
    \/ \E key \in Keys : AttachLocal(key) \/ AcceptLocal(key)
    \/ \E dk \in DKeys, id \in RemoteIds, cap \in Caps \cup {None} :
            AttachRemote(dk, id, cap) \/ AcceptRemote(dk, id, cap)
    \/ \E dk \in DKeys : RemoveChannel(dk)
    \/ \E n \in 1..Len(handed) : CloseChannel(n)

Spec == Init /\ [][Next]_vars

-----------------------------------------------------------------------------
\* The types of the state.
TypeOK ==
    /\ ChannelMapType(cm)
    /\ closed \subseteq Nat
    /\ flags \in Nat
    /\ handed \in Seq(Channel)

(***************************************************************************)
(* Every handle is the one its own local id leads to: alloc_local never    *)
(* gives out an id that a handle still holds, remove never clears the slot *)
(* of another handle, and `self.local_id[local_id]' in remove never        *)
(* panics.  Id 0 stays reserved for the stream.                            *)
(***************************************************************************)
LocalIndexSound == LocalSlotsOwned(cm)

(***************************************************************************)
(* `self.remote_id[remote_id] = None' in remove never panics: the vector   *)
(* covers the remote id of every handle, however a remote picks its ids.   *)
(***************************************************************************)
RemoteIndexInBounds == RemoteIdsCovered(cm)

(***************************************************************************)
(* Dropping a handle reaches every Channel made from it: a Channel whose   *)
(* flag is not set still has its handle in the table, and the id the       *)
(* Channel puts on what it sends resolves to that very handle.  So         *)
(* Channel::closed() may be trusted, across re-opens of the same key and   *)
(* reuse of ids.                                                           *)
(***************************************************************************)
LiveChannelRouted ==
    \A n \in 1..Len(handed) :
        handed[n].closed \notin closed => Routed(cm, handed[n])

(***************************************************************************)
(* A handle is only ever forwarded to after both sides have attached it,   *)
(* and the queue it forwards to is that of a Channel of the same key: an   *)
(* acceptance never lands on another handle than the one it verified.      *)
(***************************************************************************)
QueueOfOwnChannel == QueuesOwned(cm, handed)

(***************************************************************************)
(* An id goes out of use only when a key is opened that is open already:   *)
(* attach_local then gives the handle a second slot, and remove clears     *)
(* that one.  No other sequence of opens and removals wastes ids.          *)
(***************************************************************************)
SlotsLostToReopening == [][LosesOnlyToReopening(cm, cm')]_vars
=============================================================================
