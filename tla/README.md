# TLA+ models and proofs of hypercore-protocol-rs

Models of the channel protocol in `src/`: the channel table, the `Protocol`
state machine with the applications that use it, when it is polled, the
encoding of messages and frames, and the replicator of the example. Line
numbers refer to the files in `src/src/`, unless another directory is named.

## The system and its parts

| Part | Source | State | Operations | Modules |
|---|---|---|---|---|
| Channel table | `channels.rs` | handles by discovery key, vectors of local and remote ids, a shared `closed` flag per handle | `attach_local`, `attach_remote`, `accept`, `remove`, `get_*`, id allocation | `ChannelMap`, `ChannelMapSpec` |
| Protocol endpoint | `protocol.rs` | table, command queue, outbound queue, queued events, handshake state | `poll_next` and its three loops, the handlers, `CommandTx` | `Protocol`, `Connection` |
| Channel | `channels.rs` | local id, flag, inbound queue | `send`, `send_batch`, `close`, `signal_local_protocol`, `local_sender` | `Protocol` (application actions), `ChannelPipe` |
| Message queue | `mqueue.rs` | write queue | `enqueue`, `poll_outbound`, `poll_inbound` | `MessageIo`; with back-pressure in `Protocol`, with wakers in `Connection` |
| Frames | `message.rs` | none | `vec_encode`, `vec_encoded_size`, `vec_decode` | `Framing` |
| Message bodies | `schema.rs` | none | `encode`, `encoded_size`, `decode` of 12 types | `Schema` |
| Capabilities | `crypto/handshake.rs` | none | `capability`, `verify_remote_capability` | `Protocol` |
| Replicator | `examples/replication.rs` | a hypercore per process, a `PeerState` per connection | `onpeer`, `onmessage`; the loop of `onconnection` | `Replication`; the loop in `Protocol` |
| Cipher, encodings, hypercore | external crates | handshake, frames in flight, length and blocks | | `Protocol`, `Connection`, `CompactEncoding`, `Replication` (external) |

How they interact: an application sends a command or, through a `Channel`, a
batch to a bounded queue. `poll_next` reads frames, handles commands, drains
the outbound queue into the write queue and writes frames. `Open` messages
attach the remote side of a handle, commands the local side. A handle attached
on both sides with a verified capability becomes a `Channel`, given to the
application as an event. A handle is dropped on `Close` from either side, which
sets the flag every `Channel` made from it shares.

What is hard about it: `Channel` methods run on other threads and suspend
between looking at the flag and queueing the message; ids are reused; both
sides open and close at once; what shares a frame depends on back-pressure;
the handshake completes at different times on the two sides; a poll that stops
early must have left its waker everywhere. `PROJECT.json` lists these hazards
at their lines, and for each the properties that would catch it going wrong.

## Modules

    Replication ........ relies on ........ ChannelPipe
                                                ^ implemented by (ProtocolPipes)
    Connection: when it is polled            Protocol: what a poll does
                                                | implements (ProtocolTables)
    MessageIo > Framing > Schema                v
              > CompactEncoding              ChannelMapSpec > ChannelMap

* `ChannelMap` has one operator per method of the table. Vectors keep the
  index of the code, which starts at 0. A hash is an uninterpreted function.
* `ChannelMapSpec` is what a Protocol does to its table: one action per handler
  that calls it (`command_open`, `on_open`, the three ways to remove, and
  `Channel::close` from another thread), in any order, with any remote id and
  capability.
* `Protocol` puts two endpoints on one connection. A step is one iteration of
  a loop of `poll_next` (`pc` says which) or one atomic piece of an
  asynchronous method: `BeginSend`, `BeginClose` and their like go up to the
  await, and `Finish` queues the message. A `close` then has its flag still to
  set, `StoreClosed`, and anything may come between the two. The cipher is a two-message handshake and then a
  reliable FIFO that takes `WireCap` frames.
* `ProtocolProperties` has what is claimed of a connection. `ProtocolTables` and
  `ProtocolPipes` hold the refinement mappings: the table
  of either endpoint is a `ChannelMapSpec`, and the Channels of a key are a
  `ChannelPipe` in either direction. Under the second mapping the pipe holds
  what is in the frames, the write queue and the outbound queue of the sender,
  in this order.
* `Connection` is one endpoint seen by its executor: `poll_next` in its program
  order, with the waker that each source keeps when it has nothing. What is
  handled is abstracted to how much of it there is. The remote, the network,
  other tasks and three kinds of sink are its environment.
* `CompactEncoding`, `Schema` and `Framing` are the encodings, down to bytes.
  `MessageIo` is one direction of a connection with real frames.
* `Replication` is the example: a server and its clients, a task per end of a
  connection. What a task does under the lock of its hypercore is one step, and
  its send another. Connections break, and clients come back empty.
* The proofs. `ChannelMapInvariant`, `ProtocolInvariant` and `ProtocolOrder`
  define invariants. `ChannelMapTheory` has the lemmas on the methods of a table,
  `ProtocolSteps` those on queues, frames and the handshake, `ProtocolTableSteps`
  those on the tables of the endpoints, `ProtocolOrderSteps` those on the order of
  messages. `ChannelMapProofs`, `ProtocolProofs`, `ConnectionProofs` and
  `ReplicationProofs` have the theorems.
* `MC*` give the constants values.

`Protocol` does not compute bytes. What a frame that mixes channels decodes to
is `Protocol!Received`, and `FrameOutcome`, checked in `MessageIo`, justifies
it: an error, or the messages before the first change of channel. `Protocol`
polls whenever there is something to do; `NoLostWakeup` and `WorkIsDone`,
checked in `Connection`, justify that.

### Policies of the application

The code leaves to the application when to open and close. A *scenario* says
under which policy, with which keys and how often each side does what.

* `free` opens at any time, also what is open already.
* `tracked` opens after `Event::Handshake`, and only keys that are not open as
  far as its events tell.
* `driven` is the loop of `examples/replication.rs:108`: the task that polls
  also opens, all its keys after the handshake if it is the initiator, else the
  keys that are announced, and does not poll while it waits for room. Other
  tasks use the Channels, and close none before there is one for every key.

Properties that need a policy are checked under it, and the runs below that
violate a property show why.

## Runs

Passing:

| Run | Checks | Instance |
|---|---|---|
| `channel_map` | `TypeOK`, `LocalIndexSound`, `RemoteIndexInBounds`, `LiveChannelRouted`, `QueueOfOwnChannel`, `SlotsLostToReopening` | two keys, remote ids with gaps, repeated opens, reuse of ids |
| `message_io` | `TypeOK`, `SizeExact`, `ReadsWhatWasWritten`, `FrameOutcome` | every message type next to any other; three messages on two channels |
| `protocol_driven` | `InOrder`, `Agreement`, `NoRefusal`, `Delivered`, `OpensEventually`, `DriverOpensAll`, `PipeToResponder`, `PipeToInitiator` | two keys; `driven` with sends and a close, and `tracked` with sends from both sides |
| `protocol_reopen` | `TypeOK`, `NothingAfterClose`, `Agreement`, `ClosedFlagAgrees`, `NoSlotLeft` | one key, two tasks, `tracked`, both sides close and reopen |
| `protocol_free` | `InitiatorHandshakeFirst`, `AcceptNeverPanics`, `OpenedByBoth`, `NoCrossTalk`, `LostTogether`, `InitiatorTableImplemented`, `ResponderTableImplemented` | four scenarios, three of them `free`, with every operation of an application |
| `connection` | `TypeOK`, `NoLostWakeup`, `WorkIsDone` | either role, three kinds of sink, two of everything that may arrive |
| `replication` | `TypeOK`, `OneOutstanding`, `RequestsServable`, `UpgradeFits`, `NoUnderflow`, `HoldsPrefix`, `Replicates` | a server and two clients, three blocks written by the server or a client, two connections break |

Disagreements between the code and its documentation:

| Run | Violates | What happens |
|---|---|---|
| `message_mixed_batch` | `ReadsWhateverWasWritten` | the decoder takes the separator for the channel (`message.rs:58`) |
| `protocol_reuse` | `NoCrossTalk` | a late message arrives on the channel that got the freed id (`channels.rs:101`) |
| `protocol_early_open` | `OpensEventually` | a responder's early `Open` has no capability and is refused: at least the initiator gets no `Channel` (`protocol.rs:427`) |
| `connection_end` | `LoopEnds` | the end of the inbound stream is taken for `Pending` (`protocol.rs:268`) |
| `connection_handshake` | `HandshakeAnnounced` | a responder's `Event::Handshake` waits for something else to wake the task (`protocol.rs:196`) |

In `connection_handshake` the cipher gives a responder one handshake frame to
read, and nothing makes the remote send more. How soon a later frame wakes the
task in practice depends on the cipher, which is external; in `tests/basic.rs` one
does.

Three more behaviours that the models have and no run refutes a claim with.
`CommandTx::close` removes the channel on one side only (`protocol.rs:358`), so
`Agreement` is checked where Channels are closed with `Channel::close`. A key that
is opened while it is open leaks an id (`channels.rs:367`); `SlotsLostToReopening`
says that nothing else does, after any calls, and `NoSlotLeft` that under `tracked`
there is no leak. And `poll_outbound` does not flush again when `poll_flush` was
`Pending` after the last frame (`mqueue.rs:108`): with a sink that passes frames on
only when it is polled, the task sleeps while that frame is in the sink's buffer.
`WorkIsDone` ends where a frame is handed to the sink.

### Bounds

A scenario's `limits` say how often each application does what, per side;
`ChannelCap`, `WireCap` and `MaxBatch` bound the queues, the connection and a
batch. Queues of one or two elements are full and empty in turn, so suspension
and back-pressure happen. Two keys are the fewest for ids to change hands, two
opens of a key the fewest for a reopen. The scenarios are not symmetric in the
two sides where that keeps them small: of the two scenarios of `protocol_reopen`
one has a message of the initiator's and the other a second close. Several messages
in a row, and traffic both ways, are in `protocol_driven`.
`DriverOpensAll` needs `ChannelCap` to be at least the number of keys, as
`CHANNEL_CAP` is in practice. Integers in messages stay below 2^31, so the
nine-byte form of a `u64` is not covered.

In `Replication` three blocks are the fewest with a first, a middle and a last
one, and two clients the fewest for tasks to share a hypercore.

`MessageIo` stops when everything is read, `ChannelMapSpec` may stop at its
bounds, `Connection` when its driver sleeps and `Replication` when everything is
replicated, so deadlock is not checked for these. It is for `Protocol`, where
it says little: an endpoint can always be polled again. That applications and
endpoints do not wait for each other is what `OpensEventually` and
`DriverOpensAll` are about.

`Event::Handshake` is documented as the first event (`protocol.rs:46`). This is
checked for initiators only: `poll_next` holds back nobody else
(`protocol.rs:188`), so a responder may return a `LocalSignal` before it.

### Fairness

* `Protocol`: weak fairness of `poll_next` of each endpoint, that is, the
  application polls its stream and is woken when there is something to do
  (`Connection` checks that the wakers for it are registered), and of `Finish`,
  since `async_channel` wakes a waiting sender when there is room, and of
  `StoreClosed`, which waits for nothing. Nothing is
  assumed of what an application starts, except that a driver opens what its
  loop tells it to.
* `Connection`: the executor runs a task that is not waiting, and a network that
  takes nothing takes something again later.
* `Replication`: every task that can go on is scheduled. Nothing makes a client
  connect or a connection break.

## Proofs

All for every value of the constants: any keys, scenarios, number of tasks,
messages and queue lengths.

`ChannelMapProofs`, about one table and any sequence of calls:

* `TypeCorrect`: the table is well typed;
* `LocalIndexIsSound`: each locally attached handle owns the slot of its id;
* `RemoteIndexIsInBounds`: `remove` never indexes `remote_id` out of bounds;
* `LiveChannelsAreRouted`: a `Channel` whose `closed()` is false is backed by
  the handle it was made from;
* `QueuesBelongToTheirHandles`: a handle forwards to a queue of its own;
* `SlotsAreLostToReopening`: a call leaves a slot without an owner only when it
  gives a handle that has an id another one.

`ProtocolProofs`, about two endpoints:

* `HandshakeComesFirst`: an initiator's first event is `Event::Handshake`;
* `TypeCorrect`: the state is well typed and the queues keep to `CHANNEL_CAP`;
* `AcceptDoesNotPanic`: `accept_channel` is reached only after the handshake;
* `ChannelsAreOpenedByBoth`: a `Channel` exists only for a key both
  applications have opened;
* `ClosedFlagsAgree`: a `Channel` that is not closed has its handle, and a
  handle that is closed has a `Close` on its way;
* `MessagesComeInOrder`: what one task sends arrives on a `Channel` in the order
  it was sent and at most once, whatever else the applications do;
* `NothingComesAfterClose`: after the remote's `Close` nothing of the remote's
  arrives on a `Channel`;
* `FramesAreLostTogether`: the messages that are given up with one that cannot be
  forwarded could not be forwarded either;
* `InitiatorTableRefines` and `ResponderTableRefines`, which carry the first
  list over to this system: every step of a connection is a call that
  `ChannelMapSpec` allows, or leaves the table alone, where remote ids may be
  any natural number.

`ConnectionProofs`, about one endpoint and its executor, for either role, any
kind of sink and any amount of work:

* `TypeCorrect`: the queues keep to their capacity and no counter is negative;
* `NoWakeupIsLost`: after a `poll_next` that returned `Pending`, whatever there
  is to do has called the waker or will.

`ReplicationProofs`, for a log of any length, any clients, any writer and any
number of connections that break:

* `TypeCorrect`: lengths, blocks and messages are those of the log;
* `OneRequestOutstanding`: a task has one request or answer on its way at most;
* `RequestsAreServable`: `create_proof` is asked for what there is;
* `UpgradesFit`: a hypercore has not been upgraded by another task between the
  request for an upgrade and its answer;
* `NeverUnderflows`: `remote_length - 1` (`examples/replication.rs:365`);
* `PrefixIsHeld`: a process holds the first blocks of the log and no others.

The assumptions: `DiscoveryKey` is a function from keys to discovery keys (it
need not be injective), capabilities are equal only when role and key are,
`None` is none of the values it stands beside, the bounds are natural numbers,
the server of `Replication` is not one of its clients and the log is not empty.

### The arguments

`ChannelMapTheory` has a lemma on what each method leaves behind
(`AttachLocalEffect` and so on) and `TableInv`, the conjunction of the five
properties of a table. Type correctness needs the bounds, since an assignment
outside a vector would not leave a vector; routing needs that no other handle
owns the slot. Handlers attach and accept in one step, so `TableInv` is shown
for the table in between too; `LocalFrom`, `RemoteFrom` and `RemoveFrom` say what
such a step does to the handles, and are all that the proofs about connections
use.

`ProtocolInvariant` has the inductive invariant `IInv` of a connection. What it
adds to the properties:

* `TablesOK`, `TableInv` of both tables;
* `IoOK` and `HandlesOK`: a capability that travels or is kept was made for a
  key its side had asked for (`CapsMade`), so that a good verdict means that the
  remote asked for it, which is `OpenedByBoth`;
* `HandshakeOK`: no frame with messages comes before the handshake, on either
  side, so that a handle with a remote is on a side that is done;
* `TasksOK` and `OutboundOK`: a suspended `close` is about to send the `Close`
  of the Channel whose flag it will set; and `FlagsOK`: a handle whose flag is
  set, or about to be set by a `close` that has sent its message (`Doomed`), has
  that `Close` on its way. The second case is what makes `FlagsOK` inductive over
  `StoreClosed`;
* types of everything in a queue, and that every `Event::Channel` names a
  Channel there is (`EventsOK`).

For each part of the state there is an abstraction of what a step may do to it
(`TableCall`, `OutboundChange`, `EventChange`, `InboundChange`, `WireChange`), a
lemma that every step is one of these, by cases of the actions, and a lemma that
these preserve the conjunct. `TableCall` is also what the refinement rests on.
`NextIInv` puts them together.

`InOrder` is not a consequence of `IInv`: the order in a queue of a `Channel`
depends on everything a message went through. `ProtocolOrder!OrderInv` says it of
the whole way. The stages are the queues of the receiver's Channels, the frames,
the sender's write queue, its outbound queue and the batches of its suspended
methods; within each stage messages come in the order they were sent, and
what is nearer to the receiver was sent earlier (`WayTo`). The numbers of the
messages still to be sent are smaller than all of these. A step moves
messages from the end of one stage to the start of the next, drops some of
them, or adds one at the far end: the `Flow` and `Falls` lemmas of
`ProtocolOrderSteps`. Batches may be queued in any order when several tasks are
suspended, so the order is claimed for one task; a task has one batch at a time.
That a `Close` is last (`ClosesLast`) needs that no handle is left to forward to a
queue that has received one, and that a queue belongs to one handle, which is part
of `TableInv`. That a frame is of one channel (`AllUniform`), which
`FramesAreLostTogether` rests on, comes from where `poll_outbound` ends a batch and
where the decoder loses step. `OrderInv` has been checked with TLC in the scenarios of
`protocol_driven`, `protocol_reopen` and `protocol_free` before it was proved.

`ConnectionProofs!IInv` says what a poll knows at each point of `poll_next`:
every source it has polled in vain so far is idle and has the waker, or has
called it since (`SourcesWake`). `NoLostWakeup` is the case of `Pending`. The
gate of an initiator leaves commands and events alone; that this forgets nothing
needs that it reads nothing but the handshake before it passes (`GateOK`), which
needs that the handshake is the first frame (`HandshakeFirst`).

`ReplicationProofs!IInv` rests on who asks whom. A client asks the server and
the server asks the writer only (`Asker`), since nobody is longer than the
server but the writer (`CoresOK`). So a hypercore changes by the answers at one
connection, although the tasks of all connections share it, and what a request
says of its sender stays true until the answer is read (`Wanted`). A second
request cannot start in between: for an upgrade the remote would have to
announce a length a second time after it was stored, so the lengths on their
way never decrease (`Rising`) and the stored one is no larger; for a block the
answer before must have been the only message of its kind (`Single`). A break
of a connection loses any part of what is on its way, which keeps the order of
the rest; the lemmas on `Thinned` are about that.

Only model-checked: liveness, which is outside the prover's reach; `NoCrossTalk`,
`Agreement`, `NoSlotLeft` and `NoRefusal`, which hold under a policy or in a
scenario only; the pipes; and the encodings, since `BatchDecode` and
`vec_decode` are recursive.

## Not modelled

* Errors of the sink. `poll_next` returns one of `start_send` or `poll_flush`,
  and the messages of that frame are lost; one of `poll_ready` is taken for
  `Pending` (`mqueue.rs:70`). The connection is of no use after either.
* An `Open` whose discovery key is not 32 bytes long, which `on_open` refuses
  (`protocol.rs:373`): a peer of this code sends no such.
* `Open` or `Close` messages an application passes to `send` itself.
* The `Stream` implementation of `MessageIo`, which nothing uses.
* In `Replication`: truncation of a log (every fork is 0), and processes with
  more than one hypercore, which do not interact above the Protocol.
* Hash functions and the cipher's internals.
* `stream.rs`, `error.rs`, text formatting, command lines, tests and benches.
