----------------------------- MODULE MCProtocol -----------------------------
(* Values of the constants of module Protocol and its refinements for TLC. *)
EXTENDS ProtocolTables, ProtocolPipes, TLC

CONSTANTS k1, k2, d1, d2, t1, t2

OneKey == {k1}
OneDKey == {d1}
TwoKeys == {k1, k2}
TwoDKeys == {d1, d2}
MCDiscoveryKey == [k \in Keys |-> IF k = k1 THEN d1 ELSE d2]
MCCaps == {replicate_capability(role, key) : role \in Peers, key \in Keys}

\* More ids than two are never given out in these scenarios.
MCIds == 1..2

OneTask == {t1}
TwoTasks == {t1, t2}
TaskSymmetry == Permutations(TwoTasks)

\* Nothing, apart from what `some' says
Limit(some) == some @@ [op \in AppOps |-> 0]
Scenario(keys, policy, initiator, responder) ==
    [keys   |-> keys,
     policy |-> policy,
     limits |-> [p \in Peers |-> Limit(IF p = Initiator THEN initiator ELSE responder)]]

\* The example's loop, with two messages to send and a channel to close ...
Driving == Scenario(TwoKeys, "driven", [send |-> 2, close |-> 1], [send |-> 0])
\* ... and one open and two messages on either side, and nothing is closed.
Delivering ==
    Scenario(TwoKeys, "tracked", [open |-> 1, send |-> 2], [open |-> 1, send |-> 2])
DrivenScenarios == {Driving, Delivering}

\* Open, close and open again: both sides close, one of them twice or with a
\* message to send.
ReopenScenarios ==
    {Scenario(OneKey, "tracked", [open |-> 2, close |-> 2], [open |-> 2, close |-> 1]),
     Scenario(OneKey, "tracked", [open |-> 2, send |-> 1, close |-> 1],
                                 [open |-> 2, close |-> 1])}

\* Closing either way while the other side opens twice; closing what was opened
\* twice; a receiver that goes away, signals and nothing to send; both keys
\* opened by both sides, and a receiver of one goes away.  All of it in any order.
FreeScenarios ==
    {Scenario(OneKey, "free", [open |-> 1, send |-> 1, close |-> 1],
                              [open |-> 2, command_close |-> 1, drop |-> 1]),
     Scenario(OneKey, "free", [open |-> 2, close |-> 1], [open |-> 1, signal |-> 1]),
     Scenario(OneKey, "free", [open |-> 1, send |-> 1, signal |-> 1],
                              [open |-> 1, drop |-> 1, direct |-> 1, empty |-> 1]),
     Scenario(TwoKeys, "tracked", [open |-> 2, send |-> 2], [open |-> 2, drop |-> 1])}

\* One side sends, the other closes, and there is a key left to open.
ReuseScenarios ==
    {Scenario(TwoKeys, "tracked", [open |-> 2, send |-> 1], [open |-> 2, close |-> 1])}

\* Both sides open the key, and that is all.
OpenScenarios == {Scenario(OneKey, "free", [open |-> 1], [open |-> 1])}
=============================================================================
