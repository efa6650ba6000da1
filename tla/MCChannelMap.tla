---------------------------- MODULE MCChannelMap ----------------------------
(* Two keys, two remote ids with a gap between them.  The table only       *)
(* stores capabilities, so one value (None) is enough.                     *)
EXTENDS ChannelMapSpec, TLC

CONSTANTS k1, k2, d1, d2

MCKeys == {k1, k2}
MCDKeys == {d1, d2}
MCDiscoveryKey == [k \in MCKeys |-> IF k = k1 THEN d1 ELSE d2]
MCCaps == {}
MCRemoteIds == {0, 2}
MCLocalIds == 0..3
MCFlagCounts == 1..3
MCQueues == 1..2

\* Exchanging the two keys together with their discovery keys.
Swap == {k1 :> k2 @@ k2 :> k1 @@ d1 :> d2 @@ d2 :> d1}
=============================================================================
