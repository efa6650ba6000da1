--------------------------- MODULE ProtocolTables ---------------------------
(***************************************************************************)
(* The table of either endpoint of module Protocol behaves as module       *)
(* ChannelMapSpec says, so that what is proved there of one table, under   *)
(* any order of calls, holds in a running connection.                      *)
(***************************************************************************)
EXTENDS Protocol

CONSTANT Ids        \* the ids that messages carry

InitiatorTable == INSTANCE ChannelMapSpec WITH
    cm <- cm[Initiator], closed <- closed[Initiator],
    flags <- flags[Initiator], handed <- chans[Initiator],
    RemoteIds <- Ids, LocalIds <- Nat, FlagCounts <- Nat, Queues <- Nat

ResponderTable == INSTANCE ChannelMapSpec WITH
    cm <- cm[Responder], closed <- closed[Responder],
    flags <- flags[Responder], handed <- chans[Responder],
    RemoteIds <- Ids, LocalIds <- Nat, FlagCounts <- Nat, Queues <- Nat

(***************************************************************************)
(* Every step of a connection is, for the initiator's table, a call that   *)
(* ChannelMapSpec allows, or none: no handler changes the table in two     *)
(* calls between which another thread could look, or closes a channel it   *)
(* did not hand out.  (This is InitiatorTable!Spec, with the steps that    *)
(* leave the table alone recognized first.)                                *)
(***************************************************************************)
InitiatorTableImplemented ==
    /\ InitiatorTable!Init
    /\ [][UNCHANGED InitiatorTable!vars \/ InitiatorTable!Next]_tableVars

\* The same for the responder's table.
ResponderTableImplemented ==
    /\ ResponderTable!Init
    /\ [][UNCHANGED ResponderTable!vars \/ ResponderTable!Next]_tableVars
=============================================================================
