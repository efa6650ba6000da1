---------------------------- MODULE Replication -----------------------------
(***************************************************************************)
(* The replicator of examples/replication.rs: a server process and its     *)
(* clients, each with one hypercore of the same key, and one onpeer task   *)
(* per end of a connection.  A Channel is the pair of queues that module   *)
(* ChannelPipe promises.  One action is what a task does while it holds    *)
(* the lock on its hypercore; the message it goes on to send is a later    *)
(* step, with the steps of other tasks of the process in between.          *)
(*                                                                         *)
(* Crate hypercore is external: a length, the set of blocks that are       *)
(* there, and proofs that carry an upgrade or a block.  Nothing is ever    *)
(* truncated, so every fork is 0 and the tests on it are true.             *)
(***************************************************************************)
EXTENDS Integers, Sequences, FiniteSetsExt

CONSTANTS
    Server,         \* the process that listens
    Clients,        \* the processes that connect to it
    Writers,        \* the processes that may have made the hypercore
    N,              \* number of blocks the writer appends before it connects
    MaxDisconnects, \* number of connections that break
    None

Processes == {Server} \cup Clients

ASSUME ReplicationAssumption ==
    /\ Server \notin Clients
    /\ Writers \subseteq Processes
    /\ N \in Nat \ {0}
    /\ MaxDisconnects \in Nat

\* An end of a connection: the process it runs in, and the one it talks to
Ends == (Clients \X {Server}) \cup ({Server} \X Clients)
Far(e) == <<e[2], e[1]>>
Client(e) == IF e[1] = Server THEN e[2] ELSE e[1]

VARIABLES
    writer,         \* the process that was started without a key
    core,           \* Hypercore of each process
    link,           \* the connection of each client: "new", "up" or "down"
    state,          \* of each onpeer task: "off", "new", "ready" or "stopped"
    peer_state,     \* PeerState of each onpeer task
    out,            \* the batch a task is about to send, or None
    inbox,          \* what the other end has sent and this one has not read
    vouched,        \* ends of an unbroken connection whose hypercore was
                    \* complete when they started
    disconnects

procVars == <<writer, core>>
linkVars == <<link, disconnects>>
vars == <<procVars, linkVars, state, peer_state, out, inbox, vouched>>

-----------------------------------------------------------------------------
Synchronize(length, remote_length) ==
    [type |-> "Synchronize", length |-> length, remote_length |-> remote_length]
RangeMsg(length) == [type |-> "Range", length |-> length]
RequestUpgrade(start, length) ==
    [type |-> "Request", upgrade |-> TRUE, start |-> start, length |-> length]
RequestBlock(index) == [type |-> "Request", upgrade |-> FALSE, index |-> index]
DataUpgrade(start, length) ==
    [type |-> "Data", upgrade |-> TRUE, start |-> start, length |-> length]
DataBlock(index) == [type |-> "Data", upgrade |-> FALSE, index |-> index]

Messages ==
    [type : {"Synchronize"}, length : 0..N, remote_length : 0..N]
        \cup [type : {"Range"}, length : 0..N]
        \cup [type : {"Request", "Data"}, upgrade : {TRUE}, start : 0..N, length : 0..N]
        \cup [type : {"Request", "Data"}, upgrade : {FALSE}, index : 0..(N - 1)]

\* No batch is None.
ASSUME NoneAssumption == None \notin Seq(Messages)

\* struct PeerState and its Default
PeerState == [remote_length : 0..N, remote_synced : BOOLEAN]
DefaultPeerState == [remote_length |-> 0, remote_synced |-> FALSE]

\* A hypercore made from a public key, and the writer's
EmptyCore == [length |-> 0, blocks |-> {}]
FullCore == [length |-> N, blocks |-> 0..(N - 1)]

\* info().contiguous_length
contiguous_length(c) == Min({i \in 0..N : i \notin c.blocks})

Init ==
    /\ writer \in Writers
    /\ core = [p \in Processes |-> IF p = writer THEN FullCore ELSE EmptyCore]
    /\ link = [c \in Clients |-> "new"]
    /\ state = [e \in Ends |-> "off"]
    /\ peer_state = [e \in Ends |-> DefaultPeerState]
    /\ out = [e \in Ends |-> None]
    /\ inbox = [e \in Ends |-> <<>>]
    /\ vouched = {}
    /\ disconnects = 0

-----------------------------------------------------------------------------
(***************************************************************************)
(* Connections.                                                            *)
(***************************************************************************)
\* A client connects, the channel opens and onpeer spawns a task at each end.
\* A client that connects again is a new process, with an empty hypercore in
\* memory; a writer that is started again makes another hypercore.
Connect(c) ==
    /\ link[c] = "new" \/ (link[c] = "down" /\ c # writer)
    /\ link' = [link EXCEPT ![c] = "up"]
    /\ core' = IF c = writer THEN core ELSE [core EXCEPT ![c] = EmptyCore]
    /\ state' = [e \in Ends |-> IF Client(e) = c THEN "new" ELSE state[e]]
    /\ peer_state' = [e \in Ends |-> IF Client(e) = c THEN DefaultPeerState
                                     ELSE peer_state[e]]
    /\ out' = [e \in Ends |-> IF Client(e) = c THEN None ELSE out[e]]
    /\ inbox' = [e \in Ends |-> IF Client(e) = c THEN <<>> ELSE inbox[e]]
    /\ vouched' = {e \in vouched : Client(e) # c}
    /\ UNCHANGED <<writer, disconnects>>

\* onconnection returns an error: the Protocol is gone, and of what was sent
\* only a part has reached the Channels.
Disconnect(c) ==
    /\ link[c] = "up"
    /\ disconnects < MaxDisconnects
    /\ disconnects' = disconnects + 1
    /\ link' = [link EXCEPT ![c] = "down"]
    /\ \E n \in 0..Len(inbox[<<c, Server>>]), m \in 0..Len(inbox[<<Server, c>>]) :
          inbox' = [inbox EXCEPT ![<<c, Server>>] = SubSeq(@, 1, n),
                                 ![<<Server, c>>] = SubSeq(@, 1, m)]
    /\ vouched' = {e \in vouched : Client(e) # c}
    /\ UNCHANGED <<procVars, state, peer_state, out>>

-----------------------------------------------------------------------------
(***************************************************************************)
(* HypercoreWrapper::onpeer and onmessage.                                 *)
(***************************************************************************)
\* onpeer, up to its send: info() under the lock
onpeer(e) ==
    LET info == core[e[1]]
        sync == Synchronize(info.length, DefaultPeerState.remote_length)
    IN  /\ state[e] = "new"
        /\ state' = [state EXCEPT ![e] = "ready"]
        /\ out' = [out EXCEPT ![e] =
                      IF contiguous_length(info) > 0
                      THEN <<sync, RangeMsg(contiguous_length(info))>>
                      ELSE <<sync>>]
        /\ vouched' = IF info = FullCore /\ link[Client(e)] = "up"
                      THEN vouched \cup {e} ELSE vouched
        /\ UNCHANGED <<procVars, linkVars, peer_state, inbox>>

\* Channel::send and send_batch complete, also of an empty batch.
Send(e) ==
    /\ state[e] = "ready" /\ out[e] # None
    /\ link[Client(e)] = "up"
    /\ inbox' = [inbox EXCEPT ![Far(e)] = @ \o out[e]]
    /\ out' = [out EXCEPT ![e] = None]
    /\ UNCHANGED <<procVars, linkVars, state, peer_state, vouched>>

\* The Protocol is gone: `?' ends the task's loop, unwrap() its thread.
SendFails(e) ==
    /\ state[e] = "ready" /\ out[e] # None
    /\ link[Client(e)] = "down"
    /\ state' = [state EXCEPT ![e] = "stopped"]
    /\ out' = [out EXCEPT ![e] = None]
    /\ UNCHANGED <<procVars, linkVars, peer_state, inbox, vouched>>

\* channel.next() yields a message of the type.
Message(e) == Head(inbox[e])
Receives(e, type) ==
    /\ state[e] = "ready" /\ out[e] = None
    /\ inbox[e] # <<>> /\ Message(e).type = type
    /\ inbox' = [inbox EXCEPT ![e] = Tail(@)]

\* Mutant of MayUpgrade: without length_changed
MayUpgradeAlways(e, m, info) ==
    /\ m.length > info.length
    /\ m.remote_length = info.length

\* The remote has more, knows how much there is here, and has just said so.
MayUpgrade(e, m, info) ==
    /\ m.length > info.length
    /\ m.remote_length = info.length
    /\ m.length # peer_state[e].remote_length

\* Mutant of Synchronized: the length the remote acknowledges is stored
SynchronizedAcked(m) ==
    [remote_length |-> m.remote_length, remote_synced |-> TRUE]

\* Mutant of Synchronized: the head of the remote is stored
SynchronizedHead(m) == [remote_length |-> m.length - 1, remote_synced |-> TRUE]

\* PeerState after a Synchronize
Synchronized(m) == [remote_length |-> m.length, remote_synced |-> TRUE]

\* onmessage of a Synchronize
OnSynchronize(e) ==
    LET m    == Message(e)
        info == core[e[1]]
        sync == IF peer_state[e].remote_synced
                THEN <<>> ELSE <<Synchronize(info.length, m.length)>>
        req  == IF MayUpgrade(e, m, info)
                THEN <<RequestUpgrade(info.length, m.length - info.length)>>
                ELSE <<>>
    IN  /\ Receives(e, "Synchronize")
        /\ peer_state' = [peer_state EXCEPT ![e] = Synchronized(m)]
        /\ out' = [out EXCEPT ![e] = sync \o req]
        /\ UNCHANGED <<procVars, linkVars, state, vouched>>

\* onmessage of a Request that create_proof answers
OnRequest(e) ==
    LET m == Message(e)
    IN  /\ Receives(e, "Request")
        /\ ~m.upgrade => m.index \in core[e[1]].blocks
        /\ out' = [out EXCEPT ![e] =
                      IF m.upgrade THEN <<DataUpgrade(m.start, m.length)>>
                                   ELSE <<DataBlock(m.index)>>]
        /\ UNCHANGED <<procVars, linkVars, state, peer_state, vouched>>

\* onmessage of a Request for a block that is not there: create_proof returns
\* None, or an error that ends the task when it lacks nodes of the tree too.
OnRequestMissing(e) ==
    LET m == Message(e)
    IN  /\ Receives(e, "Request")
        /\ ~m.upgrade /\ m.index \notin core[e[1]].blocks
        /\ \/ UNCHANGED state
           \/ state' = [state EXCEPT ![e] = "stopped"]
        /\ UNCHANGED <<procVars, linkVars, peer_state, out, vouched>>

\* Mutant of FirstBlock: from the end
FirstBlockLast(old_info, m) ==
    IF old_info.length < m.length THEN <<RequestBlock(m.length - 1)>> ELSE <<>>

\* "When getting the initial upgrade, send a request for the first missing block"
FirstBlock(old_info, m) ==
    IF old_info.length < m.length THEN <<RequestBlock(old_info.length)>> ELSE <<>>

\* onmessage of a Data that upgrades.  What the code takes for the new length,
\* and compares the old one with, is the length of the upgrade.
OnDataUpgrade(e) ==
    LET m        == Message(e)
        old_info == core[e[1]]
        sync     == Synchronize(m.length, peer_state[e].remote_length)
    IN  /\ Receives(e, "Data") /\ m.upgrade
        /\ core' = [core EXCEPT ![e[1]].length = m.start + m.length]
        /\ out' = [out EXCEPT ![e] = <<sync>> \o FirstBlock(old_info, m)]
        /\ UNCHANGED <<writer, linkVars, state, peer_state, vouched>>

\* Mutant of NextBlock: compares with remote_length
NextBlockPast(e, m) ==
    IF m.index < peer_state[e].remote_length
    THEN <<RequestBlock(m.index + 1)>>
    ELSE <<>>

\* Mutant of NextBlock: stops one early
NextBlockShort(e, m) ==
    IF m.index + 1 < peer_state[e].remote_length - 1
    THEN <<RequestBlock(m.index + 1)>>
    ELSE <<>>

\* "When receiving a block, ask for the next, if there are still some missing"
NextBlock(e, m) ==
    IF m.index < peer_state[e].remote_length - 1
    THEN <<RequestBlock(m.index + 1)>>
    ELSE <<>>

\* onmessage of a Data with a block
OnDataBlock(e) ==
    LET m == Message(e)
    IN  /\ Receives(e, "Data") /\ ~m.upgrade
        /\ core' = [core EXCEPT ![e[1]].blocks = @ \cup {m.index}]
        /\ out' = [out EXCEPT ![e] = NextBlock(e, m)]
        /\ UNCHANGED <<writer, linkVars, state, peer_state, vouched>>

\* onmessage of anything else
OnOther(e) ==
    /\ Receives(e, "Range")
    /\ UNCHANGED <<procVars, linkVars, state, peer_state, out, vouched>>

\* A step of the task at e
Task(e) ==
    \/ onpeer(e) \/ Send(e) \/ SendFails(e)
    \/ OnSynchronize(e) \/ OnRequest(e) \/ OnRequestMissing(e)
    \/ OnDataUpgrade(e) \/ OnDataBlock(e) \/ OnOther(e)

Next ==
    \/ \E c \in Clients : Connect(c) \/ Disconnect(c)
    \/ \E e \in Ends : Task(e)

\* Every task that can go on is scheduled.
Fairness == \A e \in Ends : WF_vars(Task(e))

Spec == Init /\ [][Next]_vars /\ Fairness

-----------------------------------------------------------------------------
Elements(q) == {q[i] : i \in 1..Len(q)}

\* What e has sent or is about to send and Far(e) has not handled yet
OnItsWay(e) == inbox[Far(e)] \o (IF out[e] = None THEN <<>> ELSE out[e])

\* The requests of e that have not been answered, and the answers e has not
\* handled, by their places
Places(q, type) == {i \in 1..Len(q) : q[i].type = type}
Outstanding(e) == ({"asked"} \X Places(OnItsWay(e), "Request"))
                      \cup ({"answered"} \X Places(OnItsWay(Far(e)), "Data"))

\* The types of the state.
TypeOK ==
    /\ writer \in Writers
    /\ core \in [Processes -> [length : {0, N}, blocks : SUBSET (0..(N - 1))]]
    /\ link \in [Clients -> {"new", "up", "down"}]
    /\ state \in [Ends -> {"off", "new", "ready", "stopped"}]
    /\ peer_state \in [Ends -> PeerState]
    /\ out \in [Ends -> {None} \cup Seq(Messages)]
    /\ inbox \in [Ends -> Seq(Messages)]
    /\ vouched \subseteq Ends

(***************************************************************************)
(* "There should be proper handling for in-flight request ids"             *)
(* (replication.rs:306): the request for the upgrade and the one for the   *)
(* first block have the same id, which does no harm because a task never   *)
(* has more than one request in flight, whatever Synchronize messages it   *)
(* gets and however late it reads the length of its hypercore.             *)
(***************************************************************************)
OneOutstanding == \A e \in Ends : \A x, y \in Outstanding(e) : x = y

(***************************************************************************)
(* A request never goes beyond what the other hypercore has announced and  *)
(* has: create_proof is asked for an upgrade within its length, and for a  *)
(* block of a log it has been upgraded to.                                 *)
(***************************************************************************)
RequestsServable ==
    \A e \in Ends : \A m \in Elements(OnItsWay(e)) :
        m.type = "Request" =>
            IF m.upgrade THEN m.length > 0 /\ m.start + m.length <= core[e[2]].length
                         ELSE m.index < core[e[2]].length

(***************************************************************************)
(* An upgrade is applied to the hypercore it was requested for: between    *)
(* the request and its answer no other task of the process has changed the *)
(* length, so `upgrade.length' is the new length (replication.rs:402).     *)
(***************************************************************************)
UpgradeFits ==
    \A e \in Ends : \A m \in Elements(OnItsWay(e)) :
        m.type = "Data" /\ m.upgrade => core[e[2]].length = m.start /\ m.start = 0

(***************************************************************************)
(* `peer_state.remote_length - 1' (replication.rs:365) does not underflow, *)
(* and the block that arrives is one the remote has announced.             *)
(***************************************************************************)
NoUnderflow ==
    \A e \in Ends : \A m \in Elements(inbox[e]) :
        m.type = "Data" /\ ~m.upgrade => m.index < peer_state[e].remote_length

(***************************************************************************)
(* Blocks arrive in order and only into a log that covers them, so that    *)
(* contiguous_length = length means that hypercore.get(i) is there for     *)
(* every i that is printed (replication.rs:380-392).                       *)
(***************************************************************************)
HoldsPrefix ==
    \A p \in Processes :
        /\ core[p].blocks = 0..(contiguous_length(core[p]) - 1)
        /\ contiguous_length(core[p]) <= core[p].length

(***************************************************************************)
(* "Replication succeeded": whoever is connected to a process that was     *)
(* complete when its end started gets every block, unless the connection   *)
(* breaks.                                                                 *)
(***************************************************************************)
Replicates ==
    \A e \in Ends :
        e \in vouched ~> core[e[2]] = FullCore \/ e \notin vouched
=============================================================================
