------------------------ MODULE ChannelMapInvariant -------------------------
(***************************************************************************)
(* What holds of a table m, the Channels hs made from it, the set cl of    *)
(* flags that are set and the number fl of flags created, after any calls  *)
(* whatever.                                                               *)
(***************************************************************************)
EXTENDS ChannelMap

\* Every handle owns its local slot, and its remote id is covered.
TableOK(m) == ChannelMapType(m) /\ LocalSlotsOwned(m) /\ RemoteIdsCovered(m)

\* The handle that c was made from is in the table.
Live(m, c) ==
    /\ has_channel(m, c.discovery_key)
    /\ m.channels[c.discovery_key].closed = c.closed

\* A flag belongs to one handle, past or present, and to its Channels.
FlagsOwned(m, fl, hs) ==
    /\ \A d \in DOMAIN m.channels : m.channels[d].closed < fl
    /\ \A i \in 1..Len(hs) : hs[i].closed < fl
    /\ \A d, e \in DOMAIN m.channels :
          m.channels[d].closed = m.channels[e].closed => d = e
    /\ \A d \in DOMAIN m.channels, i \in 1..Len(hs) :
          m.channels[d].closed = hs[i].closed => hs[i].discovery_key = d
    /\ \A i, j \in 1..Len(hs) :
          hs[i].closed = hs[j].closed => hs[i].discovery_key = hs[j].discovery_key

\* All of it: the handles, the flags and the Channels agree.
TableInv(m, cl, fl, hs) ==
    /\ TableOK(m)
    /\ fl \in Nat /\ cl \subseteq 0..(fl - 1) /\ hs \in Seq(Channel)
    /\ QueuesOwned(m, hs)
    /\ FlagsOwned(m, fl, hs)
    /\ \A i \in 1..Len(hs) : /\ hs[i].closed \notin cl => Live(m, hs[i])
                             /\ Live(m, hs[i]) => Routed(m, hs[i])

\* The flag counter after a call that may create the handle of dk.
FlagCount(m, fl, dk) == IF has_channel(m, dk) THEN fl ELSE fl + 1

\* n has the handles of m, with their flags, and one of dk, new or not.
Attached(m, n, dk, fl) ==
    /\ DOMAIN n.channels = DOMAIN m.channels \cup {dk}
    /\ \A d \in DOMAIN m.channels : n.channels[d].closed = m.channels[d].closed
    /\ dk \notin DOMAIN m.channels => n.channels[dk].closed = fl

\* n is m, or what accept makes of m for one more Channel.
MaybeAccepted(m, n, hs, hs2) ==
    \/ n = m /\ hs2 = hs
    \/ \E id : /\ prepare_to_verify(m, id) # None
               /\ n = accept(m, id, Len(hs) + 1)
               /\ hs2 = Append(hs, NewChannel(m, id, Len(hs) + 1))

\* A handle of n was attached in m, or it is with one of the keys or of the
\* capabilities; and it has the queue of a Channel of hs only if it had it in m.
HandlesFrom(m, n, keys, caps, hs) ==
    \A d \in DOMAIN n.channels :
        LET h == n.channels[d]
        IN  /\ \/ h.local_state = None
               \/ h.local_state.key \in keys
               \/ d \in DOMAIN m.channels /\ h.local_state = m.channels[d].local_state
            /\ \/ h.remote_state = None
               \/ h.remote_state.remote_capability \in caps
               \/ d \in DOMAIN m.channels /\ h.remote_state = m.channels[d].remote_state
            /\ h.inbound_tx \in 1..Len(hs) =>
                  d \in DOMAIN m.channels /\ h.inbound_tx = m.channels[d].inbound_tx

\* A handle of n has the flag it had in m, set only if it was, or it is new and
\* its flag is fl, which is not set.
FlagsFrom(m, n, fl, cl, cl2) ==
    \A d \in DOMAIN n.channels :
        LET f == n.channels[d].closed
        IN  \/ /\ d \in DOMAIN m.channels /\ f = m.channels[d].closed
               /\ f \in cl2 => f \in cl
            \/ f = fl /\ fl \notin cl2
=============================================================================
