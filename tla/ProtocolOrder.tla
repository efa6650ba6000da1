--------------------------- MODULE ProtocolOrder ----------------------------
(***************************************************************************)
(* Why the messages of a task arrive in order: what is nearer to the       *)
(* receiver was sent earlier, at every stage of a message's way and within *)
(* each of them.  And why the messages of a frame share their fate.        *)
(***************************************************************************)
EXTENDS Protocol

\* The messages of applications among those of sequence s, and of the
\* sequences ss
DataIn(s) == {m \in {s[i] : i \in 1..Len(s)} : m.type = "Data"}
DataInAll(ss) == UNION {DataIn(ss[i]) : i \in 1..Len(ss)}

\* a was sent before b, as far as one task has sent them.
Precedes(a, b) == a.body.task = b.body.task => a.body.left > b.body.left

\* All of A before all of B
Ahead(A, B) == \A a \in A, b \in B : Precedes(a, b)

\* The messages of s, and of the sequences ss one after the other, come in the
\* order they were sent.
Falling(s) ==
    \A j \in 1..Len(s) : \A i \in 1..(j - 1) :
        s[i].type = "Data" /\ s[j].type = "Data" => Precedes(s[i], s[j])
FallingAll(ss) ==
    /\ \A i \in 1..Len(ss) : Falling(ss[i])
    /\ \A j \in 1..Len(ss) : \A i \in 1..(j - 1) :
          Ahead(DataIn(ss[i]), DataIn(ss[j]))

\* The messages of the frames fs
Contents(fs) == [i \in 1..Len(fs) |-> fs[i].messages]

\* The batches that the methods ts are about to send.  A batch is of one task.
Batched(ts) == UNION {DataIn(ts[t].batch) : t \in {u \in Tasks : ts[u] # Idle}}
BatchesFall(ts) ==
    \A t \in Tasks : ts[t] # Idle =>
        /\ Falling(ts[t].batch)
        /\ \A m \in DataIn(ts[t].batch) : m.body.task = t

\* The stages, the one nearest to the receiver first: queues of Channels,
\* frames, write queue, outbound queue and suspended methods
Stages(queues, frames, writing, sent, ts) ==
    <<DataInAll(queues), DataInAll(Contents(frames)), DataIn(writing),
      DataInAll(sent), Batched(ts)>>

\* Stages in order.  What is still to be sent comes after all of it.
StagesFall(S, unsent) ==
    /\ \A k, l \in 1..5 : k < l => Ahead(S[k], S[l])
    /\ \A k \in 1..5 : \A m \in S[k] : m.body.left >= unsent

\* The way of the messages to an endpoint
WayOK(queues, frames, writing, sent, ts, unsent) ==
    /\ \A n \in 1..Len(queues) : Falling(queues[n])
    /\ FallingAll(Contents(frames)) /\ Falling(writing) /\ FallingAll(sent)
    /\ BatchesFall(ts)
    /\ StagesFall(Stages(queues, frames, writing, sent, ts), unsent)

WayTo(p) ==
    LET q == Other(p)
    IN  WayOK(inbound[p], wire[p], write_queue[q], outbound[q], task[q], left[q].send)

\* After a Close there is nothing in s but what a Channel sends to itself.
HasClose(s) == \E i \in 1..Len(s) : s[i].type = "Close"
CloseIsLast(s) ==
    \A i \in 1..Len(s) : s[i].type = "Close" =>
        \A j \in (i + 1)..Len(s) : s[j].type = "LocalSignal"

\* A queue that has received a Close is no handle's any more.
ClosesLast(p) ==
    \A n \in Cids(p) :
        /\ CloseIsLast(inbound[p][n])
        /\ HasClose(inbound[p][n]) =>
              \A dk \in DOMAIN cm[p].channels : cm[p].channels[dk].inbound_tx # n

\* All of s is for one channel, and Opens and Closes are not mixed with others.
Uniform(s) ==
    \A i, j \in 1..Len(s) : /\ s[i].channel = s[j].channel
                            /\ IsControl(s[i]) <=> IsControl(s[j])
AllUniform(frames) == \A i \in 1..Len(frames) : Uniform(frames[i].messages)

OrderInv == \A p \in Peers : WayTo(p) /\ ClosesLast(p)
=============================================================================
