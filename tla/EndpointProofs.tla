---------------------------- MODULE EndpointProofs ----------------------------
(***************************************************************************)
(* Proofs about Endpoint, for any number of callers, any queue and any     *)
(* number of datagrams and packets.                                        *)
(***************************************************************************)
EXTENDS Endpoint, SequenceTheorems, TLAPS

USE DEF carrier, reader, stats, inbox, rtp, outcome, users

(* What the pump hands over is no OPTIONS: it answers those itself.        *)
QueueKinds == queue \in Seq(Kinds \ {"OPTIONS"})

(* The state before the first step is well typed.                          *)
LEMMA InitIsTyped == Init => TypeOK /\ QueueKinds
<1> SUFFICES ASSUME Init PROVE TypeOK /\ QueueKinds
  OBVIOUS
<1>1. queue \in Seq(Kinds) /\ queue \in Seq(Kinds \ {"OPTIONS"}) /\ Len(queue) = 0
  BY DEF Init
<1>2. caller \in [Callers -> {"idle", "wait", "close", "shutdown"}]
      /\ told \in [Callers -> Results \cup {NoResult}]
  BY DEF Init
<1>3. Len(queue) <= QueueSize
  BY <1>1, EndpointAssumption
<1> QED
  BY <1>1, <1>2, <1>3 DEF Init, TypeOK, QueueKinds, Kinds

(* A datagram is queued only where there is room.                          *)
LEMMA EnqueueIsTyped ==
  ASSUME TypeOK, QueueKinds, NEW kind \in Kinds \ {"OPTIONS"}, Enqueue(kind)
  PROVE  /\ queue' \in Seq(Kinds) /\ queue' \in Seq(Kinds \ {"OPTIONS"})
         /\ Len(queue') <= QueueSize
         /\ ignored' \in Nat /\ offered' \in Nat /\ late' \in Nat
         /\ UNCHANGED <<received, malformed, failed>>
<1>1. queue \in Seq(Kinds) /\ queue \in Seq(Kinds \ {"OPTIONS"}) /\ Len(queue) <= QueueSize
      /\ ignored \in Nat /\ offered \in Nat /\ late \in Nat /\ QueueSize \in Nat
  BY EndpointAssumption DEF TypeOK, QueueKinds
<1>2. CASE UNCHANGED queue
  BY <1>1, <1>2 DEF Enqueue
<1>3. CASE Len(queue) < QueueSize /\ queue' = Append(queue, kind) /\ UNCHANGED <<stats, late>>
  BY <1>1, <1>3 DEF Enqueue
<1> QED
  BY <1>2, <1>3 DEF Enqueue

(* Every step keeps the state well typed.                                  *)
LEMMA StepIsTyped ==
  ASSUME TypeOK, QueueKinds, [Next]_vars
  PROVE  TypeOK' /\ QueueKinds'
<1>1. CASE Begin
  BY <1>1 DEF Begin, TypeOK, QueueKinds
<1>2. CASE BeginFails
  BY <1>2 DEF BeginFails, TypeOK, QueueKinds
<1>3. CASE MakerFails
  BY <1>3 DEF MakerFails, TypeOK, QueueKinds
<1>4. CASE ShutdownBegins
  BY <1>4 DEF ShutdownBegins, TypeOK, QueueKinds
<1>5. CASE CloseSocket
  BY <1>5 DEF CloseSocket, TypeOK, QueueKinds
<1>6. CASE ShutdownEnds
  BY <1>6 DEF ShutdownEnds, TypeOK, QueueKinds
<1>7. CASE \E kind \in Kinds : PumpReads(kind)
  BY <1>7 DEF PumpReads, TypeOK, QueueKinds
<1>8. CASE PumpFindsSocketClosed
  BY <1>8 DEF PumpFindsSocketClosed, TypeOK, QueueKinds
<1>9. CASE PumpExitsOnError
  BY <1>9 DEF PumpExitsOnError, TypeOK, QueueKinds
<1>10. CASE PumpHandles
  <2>1. CASE Active /\ hand # "OPTIONS"
    <3>1. Enqueue(hand) /\ hand \in Kinds \ {"OPTIONS"}
      BY <1>10, <2>1 DEF PumpHandles, TypeOK
    <3>2. queue' \in Seq(Kinds) /\ queue' \in Seq(Kinds \ {"OPTIONS"})
          /\ Len(queue') <= QueueSize
          /\ ignored' \in Nat /\ offered' \in Nat /\ late' \in Nat
          /\ UNCHANGED <<received, malformed, failed>>
      BY <3>1, EnqueueIsTyped
    <3> QED
      BY <1>10, <3>2 DEF PumpHandles, TypeOK, QueueKinds
  <2>2. CASE ~(Active /\ hand # "OPTIONS")
    BY <1>10, <2>2 DEF PumpHandles, TypeOK, QueueKinds
  <2> QED
    BY <2>1, <2>2
<1>11. CASE ReadQueue
  <2>1. queue # <<>> /\ queue' = Tail(queue)
    BY <1>11 DEF ReadQueue
  <2>2. queue' \in Seq(Kinds) /\ queue' \in Seq(Kinds \ {"OPTIONS"})
        /\ Len(queue') <= QueueSize
    BY <2>1, EndpointAssumption DEF TypeOK, QueueKinds
  <2>3. received' \in Nat /\ malformed' \in Nat /\ failed' \in Nat
    BY <1>11 DEF ReadQueue, Count, TypeOK
  <2>4. loop' \in {loop, "drain"}
    BY <1>11 DEF ReadQueue
  <2> QED
    BY <1>11, <2>2, <2>3, <2>4 DEF ReadQueue, TypeOK, QueueKinds
<1>12. CASE CallEnds
  BY <1>12 DEF CallEnds, Goto, TypeOK, QueueKinds
<1>13. CASE NetworkLost
  BY <1>13 DEF NetworkLost, Goto, TypeOK, QueueKinds
<1>14. CASE LossShutdown
  BY <1>14 DEF LossShutdown, Goto, TypeOK, QueueKinds
<1>15. CASE DrainEnds
  BY <1>15 DEF DrainEnds, TypeOK, QueueKinds
<1>16. CASE CloseRTPSocket
  BY <1>16 DEF CloseRTPSocket, TypeOK, QueueKinds
<1>17. CASE Collect
  <2>1. snapshot' \in Results
    BY <1>17 DEF Collect, Snapshot, TypeOK, Results
  <2> QED
    BY <1>17, <2>1 DEF Collect, TypeOK, QueueKinds
<1>18. CASE Publish
  BY <1>18 DEF Publish, TypeOK, QueueKinds
<1>19. CASE CancelContext
  BY <1>19 DEF CancelContext, TypeOK, QueueKinds
<1>20. CASE CloseDone
  BY <1>20 DEF CloseDone, Goto, TypeOK, QueueKinds
<1>21. CASE ContextExpires
  BY <1>21 DEF ContextExpires, TypeOK, QueueKinds
<1>22. CASE RTPReads
  BY <1>22 DEF RTPReads, TypeOK, QueueKinds
<1>23. CASE RTPAccepts
  BY <1>23 DEF RTPAccepts, TypeOK, QueueKinds
<1>24. CASE RTPExits
  BY <1>24 DEF RTPExits, TypeOK, QueueKinds
<1>25. CASE \E c \in Callers : Wait(c)
  BY <1>25 DEF Wait, TypeOK, QueueKinds
<1>26. CASE \E c \in Callers : Close(c)
  BY <1>26 DEF Close, TypeOK, QueueKinds
<1>27. CASE \E c \in Callers : CloseCarrier(c)
  BY <1>27 DEF CloseCarrier, TypeOK, QueueKinds
<1>28. CASE \E c \in Callers : Return(c)
  BY <1>28 DEF Return, TypeOK, QueueKinds
<1>29. CASE UNCHANGED vars
  BY <1>29 DEF vars, TypeOK, QueueKinds
<1> QED
  BY <1>1, <1>2, <1>3, <1>4, <1>5, <1>6, <1>7, <1>8, <1>9, <1>10, <1>11, <1>12, <1>13, <1>14, <1>15, <1>16, <1>17, <1>18, <1>19, <1>20, <1>21, <1>22, <1>23, <1>24, <1>25, <1>26, <1>27, <1>28, <1>29
     DEF Next, Make, Shutdown, Pump, Execute, RTPLoop, Use

(* Both hold of every behaviour.                                           *)
LEMMA AlwaysTyped == Spec => [](TypeOK /\ QueueKinds)
<1>1. Init => TypeOK /\ QueueKinds
  BY InitIsTyped
<1>2. TypeOK /\ QueueKinds /\ [Next]_vars => TypeOK' /\ QueueKinds'
  BY StepIsTyped
<1> QED
  BY <1>1, <1>2, PTL DEF Spec

(* The endpoint and its session are always well typed.                     *)
THEOREM TypeCorrect == Spec => []TypeOK
BY AlwaysTyped, PTL

-----------------------------------------------------------------------------
(* Where each goroutine can be while the others are where they are.        *)

Stopped == {"publish", "cancel", "shutdown", "done"}

Lifecycle ==
  /\ maker # "returned" => loop = "none"
  /\ maker = "failed" => once = "done"
  /\ once \in {"joining", "done"} => socket = "closed"
  /\ once = "done" => pump = "exited"
  /\ loop = "none" => rtpSocket = "none" /\ rtpLoop = "none"
  /\ loop \in Stopped \cup {"joinRTP"} => rtpSocket = "closed"
  /\ loop \in Stopped => rtpLoop = "exited"
  /\ loop \in {"shutdown", "done"} => ctx = "ended"
  /\ loop = "done" => once = "done"

(* The positions of the goroutines fit together after every step.          *)
LEMMA StepKeepsLifecycle ==
  ASSUME TypeOK, Lifecycle, [Next]_vars
  PROVE  Lifecycle'
<1>1. CASE Begin
  BY <1>1 DEF Begin, TypeOK, Lifecycle, Stopped, Active, ShuttingDown
<1>2. CASE BeginFails
  BY <1>2 DEF BeginFails, TypeOK, Lifecycle, Stopped, Active, ShuttingDown
<1>3. CASE MakerFails
  BY <1>3 DEF MakerFails, TypeOK, Lifecycle, Stopped, Active, ShuttingDown
<1>4. CASE ShutdownBegins
  BY <1>4 DEF ShutdownBegins, TypeOK, Lifecycle, Stopped, Active, ShuttingDown
<1>5. CASE CloseSocket
  BY <1>5 DEF CloseSocket, TypeOK, Lifecycle, Stopped, Active, ShuttingDown
<1>6. CASE ShutdownEnds
  BY <1>6 DEF ShutdownEnds, TypeOK, Lifecycle, Stopped, Active, ShuttingDown
<1>7. CASE \E kind \in Kinds : PumpReads(kind)
  BY <1>7 DEF PumpReads, TypeOK, Lifecycle, Stopped, Active, ShuttingDown
<1>8. CASE PumpFindsSocketClosed
  BY <1>8 DEF PumpFindsSocketClosed, TypeOK, Lifecycle, Stopped, Active, ShuttingDown
<1>9. CASE PumpExitsOnError
  BY <1>9 DEF PumpExitsOnError, TypeOK, Lifecycle, Stopped, Active, ShuttingDown
<1>10. CASE PumpHandles
  BY <1>10 DEF PumpHandles, TypeOK, Lifecycle, Stopped, Active, ShuttingDown
<1>11. CASE ReadQueue
  BY <1>11 DEF ReadQueue, Count, TypeOK, Lifecycle, Stopped, Active, ShuttingDown
<1>12. CASE CallEnds
  BY <1>12 DEF CallEnds, Goto, TypeOK, Lifecycle, Stopped, Active, ShuttingDown
<1>13. CASE NetworkLost
  BY <1>13 DEF NetworkLost, Goto, TypeOK, Lifecycle, Stopped, Active, ShuttingDown
<1>14. CASE LossShutdown
  BY <1>14 DEF LossShutdown, Goto, TypeOK, Lifecycle, Stopped, Active, ShuttingDown
<1>15. CASE DrainEnds
  BY <1>15 DEF DrainEnds, TypeOK, Lifecycle, Stopped, Active, ShuttingDown
<1>16. CASE CloseRTPSocket
  BY <1>16 DEF CloseRTPSocket, TypeOK, Lifecycle, Stopped, Active, ShuttingDown
<1>17. CASE Collect
  BY <1>17 DEF Collect, Snapshot, TypeOK, Lifecycle, Stopped, Active, ShuttingDown
<1>18. CASE Publish
  BY <1>18 DEF Publish, TypeOK, Lifecycle, Stopped, Active, ShuttingDown
<1>19. CASE CancelContext
  BY <1>19 DEF CancelContext, TypeOK, Lifecycle, Stopped, Active, ShuttingDown
<1>20. CASE CloseDone
  BY <1>20 DEF CloseDone, Goto, TypeOK, Lifecycle, Stopped, Active, ShuttingDown
<1>21. CASE ContextExpires
  BY <1>21 DEF ContextExpires, TypeOK, Lifecycle, Stopped, Active, ShuttingDown
<1>22. CASE RTPReads
  BY <1>22 DEF RTPReads, TypeOK, Lifecycle, Stopped, Active, ShuttingDown
<1>23. CASE RTPAccepts
  BY <1>23 DEF RTPAccepts, TypeOK, Lifecycle, Stopped, Active, ShuttingDown
<1>24. CASE RTPExits
  BY <1>24 DEF RTPExits, TypeOK, Lifecycle, Stopped, Active, ShuttingDown
<1>25. CASE \E c \in Callers : Wait(c)
  BY <1>25 DEF Wait, TypeOK, Lifecycle, Stopped, Active, ShuttingDown
<1>26. CASE \E c \in Callers : Close(c)
  BY <1>26 DEF Close, TypeOK, Lifecycle, Stopped, Active, ShuttingDown
<1>27. CASE \E c \in Callers : CloseCarrier(c)
  BY <1>27 DEF CloseCarrier, TypeOK, Lifecycle, Stopped, Active, ShuttingDown
<1>28. CASE \E c \in Callers : Return(c)
  BY <1>28 DEF Return, TypeOK, Lifecycle, Stopped, Active, ShuttingDown
<1>29. CASE UNCHANGED vars
  BY <1>29 DEF vars, TypeOK, Lifecycle, Stopped, Active, ShuttingDown
<1> QED
  BY <1>1, <1>2, <1>3, <1>4, <1>5, <1>6, <1>7, <1>8, <1>9, <1>10, <1>11, <1>12, <1>13, <1>14, <1>15, <1>16, <1>17, <1>18, <1>19, <1>20, <1>21, <1>22, <1>23, <1>24, <1>25, <1>26, <1>27, <1>28, <1>29
     DEF Next, Make, Shutdown, Pump, Execute, RTPLoop, Use

(* They always do.                                                         *)
LEMMA AlwaysLifecycle == Spec => []Lifecycle
<1>1. Init => Lifecycle
  BY DEF Init, Lifecycle, Stopped
<1>2. TypeOK /\ Lifecycle /\ [Next]_vars => Lifecycle'
  BY StepKeepsLifecycle
<1> QED
  BY <1>1, <1>2, AlwaysTyped, PTL DEF Spec

(* When a session is done or was not made, pump and RTP reader have        *)
(* exited, both sockets are closed and the context has ended: shutdown     *)
(* joins the pump, Receiver.Stop the RTP reader.                           *)
THEOREM Cleanup == Spec => []NothingRunsAfterwards
<1>1. Lifecycle => NothingRunsAfterwards
  BY DEF Lifecycle, NothingRunsAfterwards, Active, Stopped
<1> QED
  BY <1>1, AlwaysLifecycle, PTL

-----------------------------------------------------------------------------
(* What the session has made of its result. *)

Media ==
  /\ snapshot # NoResult <=> loop \in Stopped
  /\ result # NoResult <=> loop \in {"cancel", "shutdown", "done"}
  /\ result # NoResult => result = snapshot
  /\ snapshot # NoResult => snapshot.packets = packets

(* The snapshot is taken when the RTP reader is gone and kept afterwards.  *)
LEMMA StepKeepsMedia ==
  ASSUME TypeOK, Lifecycle, Media, [Next]_vars
  PROVE  Media'
<1>1. CASE Begin
  BY <1>1 DEF Begin, TypeOK, Lifecycle, Media, Stopped
<1>2. CASE BeginFails
  BY <1>2 DEF BeginFails, TypeOK, Media, Stopped
<1>3. CASE MakerFails
  BY <1>3 DEF MakerFails, TypeOK, Media, Stopped
<1>4. CASE ShutdownBegins
  BY <1>4 DEF ShutdownBegins, TypeOK, Media, Stopped
<1>5. CASE CloseSocket
  BY <1>5 DEF CloseSocket, TypeOK, Media, Stopped
<1>6. CASE ShutdownEnds
  BY <1>6 DEF ShutdownEnds, TypeOK, Media, Stopped
<1>7. CASE \E kind \in Kinds : PumpReads(kind)
  BY <1>7 DEF PumpReads, TypeOK, Media, Stopped
<1>8. CASE PumpFindsSocketClosed
  BY <1>8 DEF PumpFindsSocketClosed, TypeOK, Media, Stopped
<1>9. CASE PumpExitsOnError
  BY <1>9 DEF PumpExitsOnError, TypeOK, Media, Stopped
<1>10. CASE PumpHandles
  BY <1>10 DEF PumpHandles, TypeOK, Media, Stopped
<1>11. CASE ReadQueue
  BY <1>11 DEF ReadQueue, Count, TypeOK, Media, Stopped
<1>12. CASE CallEnds
  BY <1>12 DEF CallEnds, Goto, TypeOK, Media, Stopped
<1>13. CASE NetworkLost
  BY <1>13 DEF NetworkLost, Goto, TypeOK, Media, Stopped
<1>14. CASE LossShutdown
  BY <1>14 DEF LossShutdown, Goto, TypeOK, Media, Stopped
<1>15. CASE DrainEnds
  BY <1>15 DEF DrainEnds, TypeOK, Media, Stopped
<1>16. CASE CloseRTPSocket
  BY <1>16 DEF CloseRTPSocket, TypeOK, Media, Stopped
<1>17. CASE Collect
  <2>1. snapshot' \in Results /\ snapshot'.packets = packets'
    BY <1>17 DEF Collect, Snapshot, TypeOK, Results
  <2>2. snapshot' # NoResult
    BY <2>1, NoResultAssumption
  <2> QED
    BY <1>17, <2>1, <2>2 DEF Collect, Media, Stopped
<1>18. CASE Publish
  BY <1>18 DEF Publish, TypeOK, Media, Stopped
<1>19. CASE CancelContext
  BY <1>19 DEF CancelContext, TypeOK, Media, Stopped
<1>20. CASE CloseDone
  BY <1>20 DEF CloseDone, Goto, TypeOK, Media, Stopped
<1>21. CASE ContextExpires
  BY <1>21 DEF ContextExpires, TypeOK, Media, Stopped
<1>22. CASE RTPReads
  BY <1>22 DEF RTPReads, TypeOK, Media, Stopped
<1>23. CASE RTPAccepts
  BY <1>23 DEF RTPAccepts, TypeOK, Lifecycle, Media, Stopped
<1>24. CASE RTPExits
  BY <1>24 DEF RTPExits, TypeOK, Media, Stopped
<1>25. CASE \E c \in Callers : Wait(c)
  BY <1>25 DEF Wait, TypeOK, Media, Stopped
<1>26. CASE \E c \in Callers : Close(c)
  BY <1>26 DEF Close, TypeOK, Media, Stopped
<1>27. CASE \E c \in Callers : CloseCarrier(c)
  BY <1>27 DEF CloseCarrier, TypeOK, Media, Stopped
<1>28. CASE \E c \in Callers : Return(c)
  BY <1>28 DEF Return, TypeOK, Media, Stopped
<1>29. CASE UNCHANGED vars
  BY <1>29 DEF vars, TypeOK, Media, Stopped
<1> QED
  BY <1>1, <1>2, <1>3, <1>4, <1>5, <1>6, <1>7, <1>8, <1>9, <1>10, <1>11, <1>12, <1>13, <1>14, <1>15, <1>16, <1>17, <1>18, <1>19, <1>20, <1>21, <1>22, <1>23, <1>24, <1>25, <1>26, <1>27, <1>28, <1>29
     DEF Next, Make, Shutdown, Pump, Execute, RTPLoop, Use

(* It always is.                                                           *)
LEMMA AlwaysMedia == Spec => []Media
<1>1. Init => Media
  BY DEF Init, Media, Stopped
<1>2. TypeOK /\ Lifecycle /\ Media /\ [Next]_vars => Media'
  BY StepKeepsMedia
<1> QED
  BY <1>1, <1>2, AlwaysTyped, AlwaysLifecycle, PTL DEF Spec

(* The result holds every RTP packet that was ever accepted.               *)
THEOREM CompleteResult == Spec => []ResultHoldsAllMedia
<1>1. Media => ResultHoldsAllMedia
  BY DEF Media, ResultHoldsAllMedia
<1> QED
  BY <1>1, AlwaysMedia, PTL

-----------------------------------------------------------------------------
(* Datagrams. *)

(* One datagram fewer waits and one more has been read.                    *)
LEMMA MovedOnce ==
  ASSUME NEW a \in Nat, NEW b \in Nat, NEW c \in Nat, NEW d \in Nat, NEW e \in Nat, NEW f \in Nat
  PROVE  /\ a + b + c + d + e + f = (a - 1) + (b + 1) + c + d + e + f
         /\ a + b + c + d + e + f = (a - 1) + b + (c + 1) + d + e + f
         /\ a + b + c + d + e + f = (a - 1) + b + c + (d + 1) + e + f
OBVIOUS

(* A step moves a datagram from one account to another.                    *)
LEMMA StepKeepsAccount ==
  ASSUME TypeOK, QueueKinds, DatagramsAccountedFor, [Next]_vars
  PROVE  DatagramsAccountedFor'
<1>1. CASE Begin
  BY <1>1 DEF Begin, TypeOK, DatagramsAccountedFor
<1>2. CASE BeginFails
  BY <1>2 DEF BeginFails, TypeOK, DatagramsAccountedFor
<1>3. CASE MakerFails
  BY <1>3 DEF MakerFails, TypeOK, DatagramsAccountedFor
<1>4. CASE ShutdownBegins
  BY <1>4 DEF ShutdownBegins, TypeOK, DatagramsAccountedFor
<1>5. CASE CloseSocket
  BY <1>5 DEF CloseSocket, TypeOK, DatagramsAccountedFor
<1>6. CASE ShutdownEnds
  BY <1>6 DEF ShutdownEnds, TypeOK, DatagramsAccountedFor
<1>7. CASE \E kind \in Kinds : PumpReads(kind)
  BY <1>7 DEF PumpReads, TypeOK, DatagramsAccountedFor
<1>8. CASE PumpFindsSocketClosed
  BY <1>8 DEF PumpFindsSocketClosed, TypeOK, DatagramsAccountedFor
<1>9. CASE PumpExitsOnError
  BY <1>9 DEF PumpExitsOnError, TypeOK, DatagramsAccountedFor
<1>10. CASE PumpHandles
  <2>1. CASE Active /\ hand # "OPTIONS"
    <3>1. Enqueue(hand) /\ hand \in Kinds
      BY <1>10, <2>1 DEF PumpHandles, TypeOK
    <3>2. CASE Len(queue) < QueueSize /\ queue' = Append(queue, hand) /\ UNCHANGED <<stats, late>>
      <4>1. Len(queue') = Len(queue) + 1
        BY <3>1, <3>2 DEF TypeOK
      <4> QED
        BY <1>10, <3>1, <3>2, <4>1 DEF PumpHandles, Enqueue, TypeOK, DatagramsAccountedFor
    <3>3. CASE ctx = "ended" /\ late' = late + 1 /\ UNCHANGED <<queue, stats>>
      BY <1>10, <3>1, <3>3 DEF PumpHandles, Enqueue, TypeOK, DatagramsAccountedFor
    <3>4. CASE ignored' = ignored + 1 /\ UNCHANGED <<queue, received, malformed, failed, late>>
      BY <1>10, <3>1, <3>4 DEF PumpHandles, Enqueue, TypeOK, DatagramsAccountedFor
    <3> QED
      BY <3>1, <3>2, <3>3, <3>4 DEF Enqueue
  <2>2. CASE ~(Active /\ hand # "OPTIONS")
    BY <1>10, <2>2 DEF PumpHandles, TypeOK, DatagramsAccountedFor
  <2> QED
    BY <2>1, <2>2
<1>11. CASE ReadQueue
  <2>1. Len(queue') = Len(queue) - 1 /\ Len(queue) \in Nat
        /\ Len(queue') \in Nat
    BY <1>11 DEF ReadQueue, TypeOK
  <2>2. Head(queue) \in {"message", "malformed", "error"}
    BY <1>11 DEF ReadQueue, QueueKinds, Kinds
  <2>3. received \in Nat /\ malformed \in Nat /\ failed \in Nat
        /\ ignored \in Nat /\ late \in Nat
    BY DEF TypeOK
  <2>4. offered = Len(queue) + received + malformed + failed + ignored + late
    BY DEF DatagramsAccountedFor
  <2>5. UNCHANGED <<ignored, offered, late, ctx>>
    BY <1>11 DEF ReadQueue
  <2>6. offered = Len(queue') + received' + malformed' + failed' + ignored + late
    <3>1. CASE Head(queue) = "message"
      <4>1. received' = received + 1 /\ UNCHANGED <<malformed, failed>>
        BY <1>11, <3>1 DEF ReadQueue, Count
      <4> QED
        BY <2>1, <2>3, <2>4, <4>1, MovedOnce
    <3>2. CASE Head(queue) = "malformed"
      <4>1. malformed' = malformed + 1 /\ UNCHANGED <<received, failed>>
        BY <1>11, <3>2 DEF ReadQueue, Count
      <4> QED
        BY <2>1, <2>3, <2>4, <4>1, MovedOnce
    <3>3. CASE Head(queue) = "error"
      <4>1. failed' = failed + 1 /\ UNCHANGED <<received, malformed>>
        BY <1>11, <3>3 DEF ReadQueue, Count
      <4> QED
        BY <2>1, <2>3, <2>4, <4>1, MovedOnce
    <3> QED
      BY <2>2, <3>1, <3>2, <3>3
  <2> QED
    BY <2>5, <2>6 DEF DatagramsAccountedFor
<1>12. CASE CallEnds
  BY <1>12 DEF CallEnds, Goto, TypeOK, DatagramsAccountedFor
<1>13. CASE NetworkLost
  BY <1>13 DEF NetworkLost, Goto, TypeOK, DatagramsAccountedFor
<1>14. CASE LossShutdown
  BY <1>14 DEF LossShutdown, Goto, TypeOK, DatagramsAccountedFor
<1>15. CASE DrainEnds
  BY <1>15 DEF DrainEnds, TypeOK, DatagramsAccountedFor
<1>16. CASE CloseRTPSocket
  BY <1>16 DEF CloseRTPSocket, TypeOK, DatagramsAccountedFor
<1>17. CASE Collect
  BY <1>17 DEF Collect, Snapshot, TypeOK, DatagramsAccountedFor
<1>18. CASE Publish
  BY <1>18 DEF Publish, TypeOK, DatagramsAccountedFor
<1>19. CASE CancelContext
  BY <1>19 DEF CancelContext, TypeOK, DatagramsAccountedFor
<1>20. CASE CloseDone
  BY <1>20 DEF CloseDone, Goto, TypeOK, DatagramsAccountedFor
<1>21. CASE ContextExpires
  BY <1>21 DEF ContextExpires, TypeOK, DatagramsAccountedFor
<1>22. CASE RTPReads
  BY <1>22 DEF RTPReads, TypeOK, DatagramsAccountedFor
<1>23. CASE RTPAccepts
  BY <1>23 DEF RTPAccepts, TypeOK, DatagramsAccountedFor
<1>24. CASE RTPExits
  BY <1>24 DEF RTPExits, TypeOK, DatagramsAccountedFor
<1>25. CASE \E c \in Callers : Wait(c)
  BY <1>25 DEF Wait, TypeOK, DatagramsAccountedFor
<1>26. CASE \E c \in Callers : Close(c)
  BY <1>26 DEF Close, TypeOK, DatagramsAccountedFor
<1>27. CASE \E c \in Callers : CloseCarrier(c)
  BY <1>27 DEF CloseCarrier, TypeOK, DatagramsAccountedFor
<1>28. CASE \E c \in Callers : Return(c)
  BY <1>28 DEF Return, TypeOK, DatagramsAccountedFor
<1>29. CASE UNCHANGED vars
  BY <1>29 DEF vars, TypeOK, DatagramsAccountedFor
<1> QED
  BY <1>1, <1>2, <1>3, <1>4, <1>5, <1>6, <1>7, <1>8, <1>9, <1>10, <1>11, <1>12, <1>13, <1>14, <1>15, <1>16, <1>17, <1>18, <1>19, <1>20, <1>21, <1>22, <1>23, <1>24, <1>25, <1>26, <1>27, <1>28, <1>29
     DEF Next, Make, Shutdown, Pump, Execute, RTPLoop, Use

(* No datagram of a session disappears: it waits, was read, or was counted *)
(* as ignored, and only an ended context gives one up (enqueueSIP).        *)
THEOREM NoSilentLoss == Spec => []DatagramsAccountedFor
<1>1. Init => DatagramsAccountedFor
  BY DEF Init, DatagramsAccountedFor
<1>2. TypeOK /\ QueueKinds /\ DatagramsAccountedFor /\ [Next]_vars => DatagramsAccountedFor'
  BY StepKeepsAccount
<1> QED
  BY <1>1, <1>2, AlwaysTyped, PTL DEF Spec

-----------------------------------------------------------------------------
(* The endpoint implements SessionHandle. *)

(* What a caller is blocked in, as SessionHandle sees it.                  *)
Call == [c \in Callers |-> IF caller[c] \in {"wait", "close"} THEN caller[c] ELSE "none"]

USE DEF Call

(* A step of the endpoint is one of SessionHandle or changes nothing that  *)
(* a caller sees: Publish decides, CloseDone finishes.                     *)
LEMMA StepRefines ==
  ASSUME TypeOK, Lifecycle, Media, [Next]_vars
  PROVE  [Handle!Next]_(Handle!vars)
<1>1. CASE Begin
  <2>1. loop # "done" /\ loop' # "done"
    BY <1>1 DEF Begin, Lifecycle
  <2> QED
    BY <1>1, <2>1 DEF Begin, Handle!vars
<1>2. CASE BeginFails
  BY <1>2 DEF BeginFails, Handle!vars
<1>3. CASE MakerFails
  BY <1>3 DEF MakerFails, Handle!vars
<1>4. CASE ShutdownBegins
  BY <1>4 DEF ShutdownBegins, Handle!vars
<1>5. CASE CloseSocket
  BY <1>5 DEF CloseSocket, Handle!vars
<1>6. CASE ShutdownEnds
  BY <1>6 DEF ShutdownEnds, Handle!vars
<1>7. CASE \E kind \in Kinds : PumpReads(kind)
  BY <1>7 DEF PumpReads, Handle!vars
<1>8. CASE PumpFindsSocketClosed
  BY <1>8 DEF PumpFindsSocketClosed, Handle!vars
<1>9. CASE PumpExitsOnError
  BY <1>9 DEF PumpExitsOnError, Handle!vars
<1>10. CASE PumpHandles
  BY <1>10 DEF PumpHandles, Handle!vars
<1>11. CASE ReadQueue
  BY <1>11 DEF ReadQueue, Count, Handle!vars
<1>12. CASE CallEnds
  BY <1>12 DEF CallEnds, Goto, Handle!vars
<1>13. CASE NetworkLost
  BY <1>13 DEF NetworkLost, Goto, Handle!vars
<1>14. CASE LossShutdown
  BY <1>14 DEF LossShutdown, Goto, Handle!vars
<1>15. CASE DrainEnds
  BY <1>15 DEF DrainEnds, Handle!vars
<1>16. CASE CloseRTPSocket
  BY <1>16 DEF CloseRTPSocket, Handle!vars
<1>17. CASE Collect
  BY <1>17 DEF Collect, Snapshot, Handle!vars
<1>18. CASE Publish
  <2>1. loop = "publish" /\ result = NoResult /\ result' \in Results /\ loop' = "cancel"
    BY <1>18 DEF Publish, Media, Stopped, TypeOK
  <2> QED
    BY <1>18, <2>1 DEF Publish, Handle!Next, Handle!Decide
<1>19. CASE CancelContext
  BY <1>19 DEF CancelContext, Handle!vars
<1>20. CASE CloseDone
  <2>1. loop = "shutdown" /\ loop' = "done" /\ result # NoResult
    BY <1>20 DEF CloseDone, Goto, Media
  <2> QED
    BY <1>20, <2>1 DEF CloseDone, Goto, Handle!Next, Handle!Finish
<1>21. CASE ContextExpires
  BY <1>21 DEF ContextExpires, Handle!vars
<1>22. CASE RTPReads
  BY <1>22 DEF RTPReads, Handle!vars
<1>23. CASE RTPAccepts
  BY <1>23 DEF RTPAccepts, Handle!vars
<1>24. CASE RTPExits
  BY <1>24 DEF RTPExits, Handle!vars
<1>25. CASE \E c \in Callers : Wait(c)
  <2>1. PICK c \in Callers : Wait(c)
    BY <1>25
  <2>2. caller[c] = "idle" /\ caller' = [caller EXCEPT ![c] = "wait"]
        /\ UNCHANGED <<told, loop, result>>
    BY <2>1 DEF Wait
  <2>3. Call' = [Call EXCEPT ![c] = "wait"] /\ Call[c] = "none"
    BY <2>2 DEF TypeOK
  <2>4. Handle!Invoke(c)
    BY <2>2, <2>3 DEF Handle!Invoke
  <2> QED
    BY <2>4 DEF Handle!Next
<1>26. CASE \E c \in Callers : Close(c)
  <2>1. PICK c \in Callers : Close(c)
    BY <1>26
  <2>2. caller[c] = "idle" /\ caller' = [caller EXCEPT ![c] = "close"]
        /\ UNCHANGED <<told, loop, result>>
    BY <2>1 DEF Close
  <2>3. Call' = [Call EXCEPT ![c] = "close"] /\ Call[c] = "none"
    BY <2>2 DEF TypeOK
  <2>4. Handle!Invoke(c)
    BY <2>2, <2>3 DEF Handle!Invoke
  <2> QED
    BY <2>4 DEF Handle!Next
<1>27. CASE \E c \in Callers : CloseCarrier(c)
  <2>1. PICK c \in Callers : CloseCarrier(c)
    BY <1>27
  <2>2. Call' = Call
    BY <2>1 DEF CloseCarrier, TypeOK
  <2> QED
    BY <2>1, <2>2 DEF CloseCarrier, Handle!vars
<1>28. CASE \E c \in Callers : Return(c)
  <2>1. PICK c \in Callers : Return(c)
    BY <1>28
  <2>2. UNCHANGED <<loop, result>> /\ caller' = [caller EXCEPT ![c] = "idle"]
        /\ told' = IF caller[c] = "wait" THEN [told EXCEPT ![c] = result] ELSE told
    BY <2>1 DEF Return
  <2>3. CASE caller[c] \in {"wait", "close"} /\ loop = "done"
    <3>1. Call' = [Call EXCEPT ![c] = "none"] /\ Call[c] = caller[c]
      BY <2>2, <2>3 DEF TypeOK
    <3>2. Handle!Return(c)
      BY <2>2, <2>3, <3>1 DEF Handle!Return
    <3> QED
      BY <3>2 DEF Handle!Next
  <2>4. CASE caller[c] = "shutdown"
    <3>1. Call' = Call
      BY <2>2, <2>4 DEF TypeOK
    <3> QED
      BY <2>2, <2>4, <3>1 DEF Handle!vars
  <2> QED
    BY <2>1, <2>3, <2>4 DEF Return
<1>29. CASE UNCHANGED vars
  BY <1>29 DEF vars, Handle!vars
<1> QED
  BY <1>1, <1>2, <1>3, <1>4, <1>5, <1>6, <1>7, <1>8, <1>9, <1>10, <1>11, <1>12, <1>13, <1>14, <1>15, <1>16, <1>17, <1>18, <1>19, <1>20, <1>21, <1>22, <1>23, <1>24, <1>25, <1>26, <1>27, <1>28, <1>29
     DEF Next, Make, Shutdown, Pump, Execute, RTPLoop, Use

(* No Wait or Close returns before the session has finished, and every     *)
(* Wait returns its one result, however many goroutines call them (Wait,   *)
(* Close, execute).                                                        *)
THEOREM SessionHandleImplemented == Spec => ImplementsSessionHandle
<1>1. Init => Handle!Init
  BY DEF Init, Handle!Init
<1>2. TypeOK /\ Lifecycle /\ Media /\ [Next]_vars => [Handle!Next]_(Handle!vars)
  BY StepRefines
<1> QED
  BY <1>1, <1>2, AlwaysTyped, AlwaysLifecycle, AlwaysMedia, PTL
     DEF Spec, ImplementsSessionHandle, Handle!Spec
=============================================================================
