---------------------------- MODULE ChannelPipe ----------------------------
(***************************************************************************)
(* What the Channels of one key promise their users, in one direction: a   *)
(* pipe.  What one side sends comes out on the other side, in order and    *)
(* once.  Once something disturbs the channel (a close, whichever side it  *)
(* is on) messages may be lost, but what still arrives does so in order.   *)
(* Module ProtocolPipes shows that module Protocol implements this, and    *)
(* module Replication relies on it.                                        *)
(***************************************************************************)
EXTENDS SequencesExt

VARIABLES
    pipe,           \* messages on their way, the oldest one first
    got,            \* messages that came out
    disturbed       \* messages may get lost

vars == <<pipe, got, disturbed>>

Init ==
    /\ pipe = <<>>
    /\ got = <<>>
    /\ disturbed = FALSE

Send ==
    /\ IsStrictPrefix(pipe, pipe')
    /\ UNCHANGED <<got, disturbed>>

Deliver ==
    /\ pipe # <<>>
    /\ pipe' = Tail(pipe)
    /\ got' = Append(got, Head(pipe))
    /\ UNCHANGED disturbed

Disturb ==
    /\ disturbed' = TRUE
    /\ UNCHANGED <<pipe, got>>

Lose ==
    /\ disturbed
    /\ pipe' \in AllSubSeqs(pipe)
    /\ UNCHANGED <<got, disturbed>>

Next == Send \/ Deliver \/ Disturb \/ Lose

Spec == Init /\ [][Next]_vars
=============================================================================
