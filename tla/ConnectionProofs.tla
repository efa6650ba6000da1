-------------------------- MODULE ConnectionProofs --------------------------
(***************************************************************************)
(* No wakeup is lost, for queues and a sink of any capacity and for any    *)
(* number of frames, commands and batches.                                 *)
(*                                                                         *)
(* NoLostWakeup speaks of the moment poll_next returns Pending, but the    *)
(* sources are polled one after the other before, while the others go on.  *)
(* The invariant follows them: from the place on where poll_next has       *)
(* polled a source in vain, that source is idle and has the waker, or it   *)
(* has called it since.                                                    *)
(***************************************************************************)
EXTENDS Connection, TLAPS

\* A source called the waker, or is idle and will.
StreamWakes   == woken \/ (frames = <<>> /\ ("stream" \in wakers \/ ended))
CommandsWake  == woken \/ (commands = 0 /\ "commands" \in wakers)
OutboundWakes == woken \/ (outbound = 0 /\ "outbound" \in wakers)
SinkWakes     == woken \/ write_queue = 0 \/ "sink" \in wakers

\* Where poll_next has polled each source in vain
SourcesWake ==
    /\ pc \in {"commands", "write", "outbound", "gate_end", "pending"} => StreamWakes
    /\ pc \in {"write", "outbound"} => CommandsWake
    /\ pc = "pending" /\ ~Gated => CommandsWake
    /\ pc \in {"gate_read", "gate_end", "pending"} => OutboundWakes
    /\ pc \in {"outbound", "gate_outbound", "gate_read", "gate_end", "pending"}
          => SinkWakes

(***************************************************************************)
(* Only an initiator passes the gate, and until the handshake it does      *)
(* nothing else: so what it leaves alone while it waits is no event.       *)
(***************************************************************************)
GateOK ==
    /\ pc \in {"gate_write", "gate_outbound", "gate_read", "gate_end"} => initiator
    /\ Gated => /\ queued_events = 0
                /\ pc \notin {"inbound", "commands", "write", "outbound"}
    /\ pc = "pending" => queued_events = 0

\* The remote's handshake is the first frame.
HandshakeFirst ==
    secured \/ IF frames = <<>> THEN to_come.handshake = 1
                                ELSE Head(frames) = "handshake"

Types ==
    /\ TypeOK
    /\ {initiator, woken, secured, handshake_emitted, ended, congested} \subseteq BOOLEAN
    /\ kind \in SinkKinds
    /\ frames \in Seq({"handshake", "message", "error"})
    /\ to_come \in [{"frames", "commands", "batches", "handshake"} -> Nat]

IInv == Types /\ HandshakeFirst /\ GateOK /\ SourcesWake

-----------------------------------------------------------------------------
\* Counters stay within their bounds.
LEMMA TypesStep == Types /\ [Next]_vars => Types'
<1> SUFFICES ASSUME Types, [Next]_vars PROVE Types'
  BY Zenon
<1>0. ChannelCap \in Nat \ {0} /\ SinkCap \in Nat \ {0}
  BY ConnectionAssumption, Zenon
<1> USE DEF Types, TypeOK, vars, inVars, outVars, Goto, Register, Wake, Spend,
            Reading, AfterReading, Writing, ToOutbound, SinkReady, Kept, PollOn
<1>1. CASE PollGate
  BY <1>1, Zenon DEF PollGate
<1>2. CASE PollHandshake
  BY <1>2, Zenon DEF PollHandshake
<1>3. CASE PollQueued
  BY <1>3 DEF PollQueued
<1>4. CASE PollStart
  BY <1>4, Zenon DEF PollStart
<1>5. CASE GatePending
  BY <1>5, Zenon DEF GatePending
<1>6. CASE ReadHandshake
  BY <1>6 DEF ReadHandshake
<1>7. CASE ReadMessage
  BY <1>7 DEF ReadMessage
<1>8. CASE ReadError
  BY <1>8 DEF ReadError
<1>9. CASE InboundPending
  BY <1>9, Zenon DEF InboundPending
<1>10. CASE InboundEnded
  BY <1>10, Zenon DEF InboundEnded
<1>11. CASE OnCommand
  <2>1. PICK w \in 0..1, e \in 0..1 :
            write_queue' = write_queue + w /\ queued_events' = queued_events + e
    BY <1>11, Zenon DEF OnCommand
  <2>2. write_queue' \in Nat /\ queued_events' \in Nat
    BY <2>1
  <2>3. commands' \in 0..ChannelCap
    BY <1>0, <1>11 DEF OnCommand
  <2> QED
    BY <1>11, <2>2, <2>3, Zenon DEF OnCommand
<1>11a. CASE CommandError
  <2>1. commands' \in 0..ChannelCap
    BY <1>0, <1>11a DEF CommandError
  <2> QED
    BY <1>11a, <2>1, Zenon DEF CommandError
<1>12. CASE CommandsPending
  BY <1>12, Zenon DEF CommandsPending
<1>13. CASE SinkPending
  BY <1>13, Zenon DEF SinkPending
<1>14. CASE NothingToWrite
  BY <1>14 DEF NothingToWrite
<1>15. CASE WriteFlushed
  <2>1. write_queue' \in Nat /\ 0 \in 0..SinkCap
    BY <1>0, <1>15 DEF WriteFlushed
  <2> QED
    BY <1>15, <2>1, Zenon DEF WriteFlushed
<1>16. CASE WriteBuffered
  <2>1. write_queue' \in Nat
    BY <1>16 DEF WriteBuffered
  <2>2. Kept + 1 \in 0..SinkCap
    BY <1>0, <1>16 DEF WriteBuffered
  <2> QED
    BY <1>16, <2>1, <2>2, Zenon DEF WriteBuffered
<1>17. CASE PopBatch
  <2>1. PICK w \in 0..1, e \in 0..1 :
            write_queue' = write_queue + w /\ queued_events' = queued_events + e
    BY <1>17, Zenon DEF PopBatch
  <2>2. write_queue' \in Nat /\ queued_events' \in Nat
    BY <2>1
  <2>3. outbound' \in 0..ChannelCap
    BY <1>0, <1>17 DEF PopBatch
  <2> QED
    BY <1>17, <2>2, <2>3, Zenon DEF PopBatch
<1>18. CASE OutboundPending
  BY <1>18 DEF OutboundPending
<1>19. CASE Resume
  BY <1>19, Zenon DEF Resume
<1>20. CASE HandshakeArrives
  BY <1>20 DEF HandshakeArrives
<1>21. CASE FrameArrives
  BY <1>21 DEF FrameArrives
<1>22. CASE StreamEnds
  BY <1>22, Zenon DEF StreamEnds
<1>23. CASE SendCommand
  <2>1. commands' \in 0..ChannelCap
    BY <1>0, <1>23 DEF SendCommand
  <2>2. to_come' \in [{"frames", "commands", "batches", "handshake"} -> Nat]
    BY <1>23 DEF SendCommand
  <2> QED
    BY <1>23, <2>1, <2>2, Zenon DEF SendCommand
<1>24. CASE SendBatch
  <2>1. outbound' \in 0..ChannelCap
    BY <1>0, <1>24 DEF SendBatch
  <2>2. to_come' \in [{"frames", "commands", "batches", "handshake"} -> Nat]
    BY <1>24 DEF SendBatch
  <2> QED
    BY <1>24, <2>1, <2>2, Zenon DEF SendBatch
<1>25. CASE Uncongest
  <2>1. buffered' \in 0..SinkCap
    BY <1>0, <1>25 DEF Uncongest
  <2> QED
    BY <1>25, <2>1, Zenon DEF Uncongest
<1>26. CASE UNCHANGED vars
  BY <1>26, Zenon
<1> QED
  BY <1>1, <1>2, <1>3, <1>4, <1>5, <1>6, <1>7, <1>8, <1>9, <1>10, <1>11, <1>12,
     <1>13, <1>14, <1>15, <1>16, <1>17, <1>18, <1>19, <1>20, <1>21, <1>22,
     <1>23, <1>24, <1>25, <1>26, <1>11a, Zenon
  DEF Next, Driver, Environment

\* A frame is taken from the front, and all but the handshake come after it.
LEMMA HandshakeStep == Types /\ HandshakeFirst /\ [Next]_vars => HandshakeFirst'
<1> SUFFICES ASSUME Types, HandshakeFirst, [Next]_vars PROVE HandshakeFirst'
  BY Zenon
<1> USE DEF Types, HandshakeFirst, vars, inVars, outVars, Spend, Reading
<1>1. CASE ReadHandshake
  BY <1>1, Zenon DEF ReadHandshake
<1>2. CASE ReadMessage
  BY <1>2, Zenon DEF ReadMessage
<1>3. CASE ReadError
  BY <1>3, Zenon DEF ReadError
<1>4. CASE HandshakeArrives
  BY <1>4 DEF HandshakeArrives
<1>5. CASE FrameArrives
  BY <1>5, SMTT(30) DEF FrameArrives
<1>6. CASE SendCommand
  BY <1>6, Zenon DEF SendCommand
<1>7. CASE SendBatch
  BY <1>7, Zenon DEF SendBatch
<1>8. ASSUME UNCHANGED <<secured, frames, to_come>>
      PROVE  HandshakeFirst'
  BY <1>8, Zenon
<1>9. CASE PollGate \/ PollHandshake \/ PollQueued \/ PollStart \/ GatePending
           \/ InboundPending \/ InboundEnded \/ OnCommand \/ CommandError
           \/ CommandsPending
  BY <1>8, <1>9, Zenon DEF PollGate, PollHandshake, PollQueued, PollStart,
     GatePending, InboundPending, InboundEnded, OnCommand, CommandError, CommandsPending
<1>10. CASE SinkPending \/ NothingToWrite \/ WriteFlushed \/ WriteBuffered
            \/ PopBatch \/ OutboundPending \/ Resume \/ StreamEnds \/ Uncongest
  BY <1>8, <1>10, Zenon DEF SinkPending, NothingToWrite, WriteFlushed,
     WriteBuffered, PopBatch, OutboundPending, Resume, StreamEnds, Uncongest
<1>11. CASE UNCHANGED vars
  BY <1>8, <1>11, Zenon
<1> QED
  BY <1>1, <1>2, <1>3, <1>4, <1>5, <1>6, <1>7, <1>9, <1>10, <1>11, Zenon DEF Next,
     Driver, Environment

(***************************************************************************)
(* A gated initiator reads nothing but the handshake, which opens the      *)
(* gate: no message queues an event before.                                *)
(***************************************************************************)
LEMMA GateStep ==
    Types /\ HandshakeFirst /\ GateOK /\ [Next]_vars => GateOK'
<1> SUFFICES ASSUME Types, HandshakeFirst, GateOK, [Next]_vars PROVE GateOK'
  BY Zenon
<1> USE DEF Types, TypeOK, HandshakeFirst, GateOK, Gated, vars, inVars, outVars,
            Goto, Reading, AfterReading, Writing, ToOutbound, PollOn
<1>1. CASE PollGate
  BY <1>1, Zenon DEF PollGate
<1>2. CASE PollHandshake
  BY <1>2, Zenon DEF PollHandshake
<1>3. CASE PollQueued
  BY <1>3, Zenon DEF PollQueued
<1>4. CASE PollStart
  BY <1>4, Zenon DEF PollStart
<1>5. CASE GatePending
  BY <1>5, Zenon DEF GatePending
<1>6. CASE ReadHandshake
  BY <1>6, Zenon DEF ReadHandshake
<1>7. CASE ReadMessage
  BY <1>7, Zenon DEF ReadMessage
<1>8. CASE ReadError
  BY <1>8, Zenon DEF ReadError
<1>9. CASE InboundPending
  BY <1>9, Zenon DEF InboundPending
<1>10. CASE InboundEnded
  BY <1>10, Zenon DEF InboundEnded
<1>11. CASE OnCommand
  BY <1>11, Zenon DEF OnCommand
<1>11a. CASE CommandError
  BY <1>11a, Zenon DEF CommandError
<1>12. CASE CommandsPending
  BY <1>12, Zenon DEF CommandsPending
<1>13. CASE SinkPending
  BY <1>13, Zenon DEF SinkPending
<1>14. CASE NothingToWrite
  BY <1>14, Zenon DEF NothingToWrite
<1>15. CASE WriteFlushed
  BY <1>15, Zenon DEF WriteFlushed
<1>16. CASE WriteBuffered
  BY <1>16, Zenon DEF WriteBuffered
<1>17. CASE PopBatch
  BY <1>17, Zenon DEF PopBatch
<1>18. CASE OutboundPending
  BY <1>18 DEF OutboundPending
<1>19. CASE Resume
  BY <1>19, Zenon DEF Resume
<1>20. CASE HandshakeArrives
  BY <1>20, Zenon DEF HandshakeArrives
<1>21. CASE FrameArrives
  BY <1>21, Zenon DEF FrameArrives
<1>22. CASE StreamEnds
  BY <1>22, Zenon DEF StreamEnds
<1>23. CASE SendCommand
  BY <1>23, Zenon DEF SendCommand
<1>24. CASE SendBatch
  BY <1>24, Zenon DEF SendBatch
<1>25. CASE Uncongest
  BY <1>25, Zenon DEF Uncongest
<1>26. CASE UNCHANGED vars
  BY <1>26, Zenon
<1> QED
  BY <1>1, <1>2, <1>3, <1>4, <1>5, <1>6, <1>7, <1>8, <1>9, <1>10, <1>11, <1>12,
     <1>13, <1>14, <1>15, <1>16, <1>17, <1>18, <1>19, <1>20, <1>21, <1>22,
     <1>23, <1>24, <1>25, <1>26, <1>11a, Zenon
  DEF Next, Driver, Environment

(***************************************************************************)
(* A poll that finds a source idle leaves the waker there, and what        *)
(* happens at a source with the waker calls it.                            *)
(***************************************************************************)
LEMMA WakeStep ==
    Types /\ GateOK /\ SourcesWake /\ [Next]_vars => SourcesWake'
<1> SUFFICES ASSUME Types, GateOK, SourcesWake, [Next]_vars PROVE SourcesWake'
  BY Zenon
<1> USE DEF Types, TypeOK, GateOK, SourcesWake, StreamWakes, CommandsWake,
            OutboundWakes, SinkWakes, Gated, vars, inVars, outVars, Goto,
            Register, Wake, Reading, AfterReading, Writing, ToOutbound, PollOn
<1>1. CASE PollGate
  BY <1>1, Zenon DEF PollGate
<1>2. CASE PollHandshake
  BY <1>2, Zenon DEF PollHandshake
<1>3. CASE PollQueued
  BY <1>3, Zenon DEF PollQueued
<1>4. CASE PollStart
  BY <1>4, Zenon DEF PollStart
<1>5. CASE GatePending
  BY <1>5, Zenon DEF GatePending
<1>6. CASE ReadHandshake
  BY <1>6, Zenon DEF ReadHandshake
<1>7. CASE ReadMessage
  BY <1>7, Zenon DEF ReadMessage
<1>8. CASE ReadError
  BY <1>8, Zenon DEF ReadError
<1>9. CASE InboundPending
  BY <1>9, Zenon DEF InboundPending
<1>10. CASE InboundEnded
  BY <1>10, Zenon DEF InboundEnded
<1>11. CASE OnCommand
  BY <1>11, Zenon DEF OnCommand
<1>11a. CASE CommandError
  BY <1>11a, Zenon DEF CommandError
<1>12. CASE CommandsPending
  BY <1>12, Zenon DEF CommandsPending
<1>13. CASE SinkPending
  BY <1>13, Zenon DEF SinkPending
<1>14. CASE NothingToWrite
  BY <1>14, Zenon DEF NothingToWrite
<1>15. CASE WriteFlushed
  BY <1>15, Zenon DEF WriteFlushed
<1>16. CASE WriteBuffered
  BY <1>16, Zenon DEF WriteBuffered
<1>17. CASE PopBatch
  BY <1>17, Zenon DEF PopBatch
<1>18. CASE OutboundPending
  BY <1>18, Zenon DEF OutboundPending
<1>19. CASE Resume
  BY <1>19, Zenon DEF Resume
<1>20. CASE HandshakeArrives
  BY <1>20, Zenon DEF HandshakeArrives
<1>21. CASE FrameArrives
  BY <1>21, Zenon DEF FrameArrives
<1>22. CASE StreamEnds
  BY <1>22, Zenon DEF StreamEnds
<1>23. CASE SendCommand
  BY <1>23, Zenon DEF SendCommand
<1>24. CASE SendBatch
  BY <1>24, Zenon DEF SendBatch
<1>25. CASE Uncongest
  BY <1>25, Zenon DEF Uncongest
<1>26. CASE UNCHANGED vars
  BY <1>26, Zenon
<1> QED
  BY <1>1, <1>2, <1>3, <1>4, <1>5, <1>6, <1>7, <1>8, <1>9, <1>10, <1>11, <1>12,
     <1>13, <1>14, <1>15, <1>16, <1>17, <1>18, <1>19, <1>20, <1>21, <1>22,
     <1>23, <1>24, <1>25, <1>26, <1>11a, Zenon
  DEF Next, Driver, Environment

-----------------------------------------------------------------------------
\* The invariant holds of a new Protocol and of every step of it.
THEOREM Invariance == Spec => []IInv
<1>1. Init => IInv
  <2> SUFFICES ASSUME Init PROVE IInv
    BY Zenon
  <2>1. 0 \in 0..ChannelCap /\ 0 \in 0..SinkCap
    BY ConnectionAssumption
  <2>2. to_come \in [{"frames", "commands", "batches", "handshake"} -> Nat]
    BY ConnectionAssumption DEF Init
  <2>3. TypeOK
    BY <2>1, Zenon DEF Init, TypeOK
  <2>4. <<>> \in Seq({"handshake", "message", "error"})
    OBVIOUS
  <2>5. Types
    BY <2>2, <2>3, <2>4, Zenon DEF Init, Types
  <2> QED
    BY <2>5, Zenon DEF Init, IInv, HandshakeFirst, GateOK, Gated, SourcesWake
<1>2. IInv /\ [Next]_vars => IInv'
  BY TypesStep, HandshakeStep, GateStep, WakeStep, Zenon DEF IInv
<1> QED
  BY <1>1, <1>2, PTL DEF Spec

(***************************************************************************)
(* The types of the state: no queue between the task and the others grows  *)
(* beyond its capacity, and no counter falls below zero.                   *)
(***************************************************************************)
THEOREM TypeCorrect == Spec => []TypeOK
<1>1. IInv => TypeOK
  BY Zenon DEF IInv, Types
<1> QED
  BY <1>1, Invariance, PTL

(***************************************************************************)
(* When poll_next has returned Pending and no waker was called since,      *)
(* every source is idle and has the waker: nothing that was there to do is *)
(* forgotten, whichever source it came from and whenever it came.          *)
(***************************************************************************)
THEOREM NoWakeupIsLost == Spec => []NoLostWakeup
<1>1. IInv => NoLostWakeup
  <2> SUFFICES ASSUME IInv, Asleep PROVE NoLostWakeup
    BY Zenon DEF NoLostWakeup
  <2>1. /\ StreamWakes /\ OutboundWakes /\ SinkWakes /\ (Gated \/ CommandsWake)
        /\ queued_events = 0
    BY Zenon DEF IInv, SourcesWake, GateOK, Asleep
  <2> QED
    BY <2>1 DEF NoLostWakeup, Asleep, StreamWakes, OutboundWakes, CommandsWake,
                SinkWakes
<1> QED
  BY <1>1, Invariance, PTL
=============================================================================
