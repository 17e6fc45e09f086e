------------------------------- MODULE Endpoint -------------------------------
(***************************************************************************)
(* One SIP endpoint and the life of its only session: src/carrier.go,      *)
(* session.go and the life of the RTP reader of rtpverifier/receiver.go.   *)
(*                                                                         *)
(* Goroutines: the maker (ExpectOutboundCall or Call), the SIP read pump,  *)
(* the session (execute), the RTP read loop, and the callers of the test.  *)
(* The call the session plays is reduced to reading its queue until it     *)
(* ends, which it may do at any moment; OutboundCall and InboundCall say   *)
(* what it does.  OPTIONS requests are answered by the pump itself.        *)
(***************************************************************************)
EXTENDS Naturals, Sequences

CONSTANTS
  Callers,        \* goroutines of the test that use the session
  QueueSize,      \* capacity of Session.sipInput
  MaxDatagrams,   \* bound: reads of the SIP socket
  MaxPackets,     \* bound: reads of the RTP socket
  NoResult

ASSUME EndpointAssumption ==
  /\ QueueSize \in Nat \ {0}
  /\ MaxDatagrams \in Nat /\ MaxPackets \in Nat

(* What one read of the SIP socket yields.                                 *)
Kinds == {"message", "malformed", "OPTIONS", "error"}

VARIABLES
  maker,      \* binding, shutdown, returned or failed
  closed,     \* carrier.closed
  once,       \* carrier.closeOnce with the steps of its function
  socket,     \* the SIP socket
  pump,       \* readPump: reading, holding a datagram, or exited
  hand,       \* what it read last
  loop,       \* where execute stands
  ctx,        \* the session context: live or ended
  queue,      \* Session.sipInput
  received, malformed, ignored,    \* counters of sipStats; ignored: queue full
  failed,     \* history: read errors the session has met
  rtpClosed, rtpSocket, rtpLoop,   \* Receiver.closed, its socket, its readLoop
  packets,    \* packets the receiver has accepted
  snapshot,   \* the result under construction
  result,     \* Session.result, NoResult before it is assigned
  caller,     \* what each caller is blocked in
  told,       \* history: what the last Wait of each caller returned
  reads,      \* history: reads of the SIP socket
  offered,    \* history: datagrams the pump passed to enqueueSIP
  late        \* history: those it gave up because the context had ended

carrier == <<maker, closed, once, socket>>
reader  == <<pump, hand, reads>>
stats   == <<received, malformed, ignored, failed>>
inbox   == <<queue, stats, offered, late>>
rtp     == <<rtpClosed, rtpSocket, rtpLoop, packets>>
outcome == <<snapshot, result>>
users   == <<caller, told>>
vars    == <<carrier, reader, inbox, loop, ctx, rtp, outcome, users>>

Active == loop # "none"   \* carrier.active, which nothing resets

(* Result of a session, as far as it depends on when it is taken.          *)
Results == [received : Nat, malformed : Nat, ignored : Nat, packets : Nat]

ASSUME NoResultAssumption == NoResult \notin Results

TypeOK ==
  /\ maker \in {"binding", "shutdown", "returned", "failed"}
  /\ closed \in BOOLEAN
  /\ once \in {"free", "closing", "joining", "done"}
  /\ socket \in {"open", "closed"} /\ rtpSocket \in {"none", "open", "closed"}
  /\ pump \in {"reading", "holding", "exited"} /\ hand \in Kinds
  /\ loop \in {"none", "running", "loss", "drain", "stopRTP", "joinRTP", "publish",
               "cancel", "shutdown", "done"}
  /\ ctx \in {"live", "ended"}
  /\ queue \in Seq(Kinds) /\ Len(queue) <= QueueSize
  /\ received \in Nat /\ malformed \in Nat /\ ignored \in Nat /\ failed \in Nat
  /\ rtpClosed \in BOOLEAN /\ rtpLoop \in {"none", "reading", "holding", "exited"}
  /\ packets \in Nat
  /\ snapshot \in Results \cup {NoResult} /\ result \in Results \cup {NoResult}
  /\ caller \in [Callers -> {"idle", "wait", "close", "shutdown"}]
  /\ told \in [Callers -> Results \cup {NoResult}]
  /\ reads \in Nat /\ offered \in Nat /\ late \in Nat

(* newCarrier has bound the socket and started the pump.                   *)
Init ==
  /\ maker = "binding" /\ closed = FALSE /\ once = "free" /\ socket = "open"
  /\ pump = "reading" /\ hand = "message" /\ reads = 0
  /\ loop = "none" /\ ctx = "live"
  /\ queue = <<>> /\ offered = 0 /\ late = 0
  /\ received = 0 /\ malformed = 0 /\ ignored = 0 /\ failed = 0
  /\ rtpClosed = FALSE /\ rtpSocket = "none" /\ rtpLoop = "none" /\ packets = 0
  /\ snapshot = NoResult /\ result = NoResult
  /\ caller = [c \in Callers |-> "idle"] /\ told = [c \in Callers |-> NoResult]

-----------------------------------------------------------------------------
(* The maker. *)

(* beginSession and the start of execute.  Tests that hold the carrier     *)
(* itself do not close it while they begin a session.                      *)
Begin ==
  /\ maker = "binding" /\ ~closed
  /\ \A c \in Callers : caller[c] = "idle"
  /\ maker' = "returned" /\ loop' = "running"
  /\ rtpSocket' = "open" /\ rtpLoop' = "reading"
  /\ UNCHANGED <<closed, once, socket, reader, inbox, ctx, rtpClosed, packets, outcome, users>>

(* Invalid scenario, closed carrier, or no socket for RTP.                 *)
BeginFails ==
  /\ maker = "binding" /\ maker' = "shutdown"
  /\ UNCHANGED <<closed, once, socket, reader, inbox, loop, ctx, rtp, outcome, users>>

MakerFails ==
  /\ maker = "shutdown" /\ once = "done" /\ maker' = "failed"
  /\ UNCHANGED <<closed, once, socket, reader, inbox, loop, ctx, rtp, outcome, users>>

-----------------------------------------------------------------------------
(* shutdown: the first goroutine to enter it runs the function, the others *)
(* wait for it inside closeOnce.Do.                                        *)

ShuttingDown ==
  \/ maker = "shutdown" \/ loop \in {"loss", "shutdown"}
  \/ \E c \in Callers : caller[c] = "shutdown"

ShutdownBegins ==
  /\ ShuttingDown /\ once = "free"
  /\ once' = "closing" /\ closed' = TRUE
  /\ UNCHANGED <<maker, socket, reader, inbox, loop, ctx, rtp, outcome, users>>

(* Faulty variant: the pump is joined before its socket is closed.         *)
CloseSocketAfterPump ==
  /\ once = "closing" /\ pump = "exited" /\ once' = "joining" /\ socket' = "closed"
  /\ UNCHANGED <<maker, closed, reader, inbox, loop, ctx, rtp, outcome, users>>

CloseSocket ==
  /\ once = "closing" /\ once' = "joining" /\ socket' = "closed"
  /\ UNCHANGED <<maker, closed, reader, inbox, loop, ctx, rtp, outcome, users>>

(* Faulty variant: the pump is not waited for.                             *)
ShutdownEndsWithoutPump ==
  /\ once = "joining" /\ once' = "done"
  /\ UNCHANGED <<maker, closed, socket, reader, inbox, loop, ctx, rtp, outcome, users>>

ShutdownEnds ==
  /\ once = "joining" /\ pump = "exited" /\ once' = "done"
  /\ UNCHANGED <<maker, closed, socket, reader, inbox, loop, ctx, rtp, outcome, users>>

-----------------------------------------------------------------------------
(* readPump. *)

PumpReads(kind) ==
  /\ pump = "reading" /\ socket = "open" /\ reads < MaxDatagrams
  /\ pump' = "holding" /\ hand' = kind /\ reads' = reads + 1
  /\ UNCHANGED <<carrier, inbox, loop, ctx, rtp, outcome, users>>

(* The read that returns net.ErrClosed.                                    *)
PumpFindsSocketClosed ==
  /\ pump = "reading" /\ socket = "closed" /\ pump' = "exited"
  /\ UNCHANGED <<hand, reads, carrier, inbox, loop, ctx, rtp, outcome, users>>

(* Any other read error after shutdown has begun.                          *)
PumpExitsOnError ==
  /\ pump = "holding" /\ hand = "error" /\ closed /\ pump' = "exited"
  /\ UNCHANGED <<hand, reads, carrier, inbox, loop, ctx, rtp, outcome, users>>

(* Faulty variant: a full queue loses the datagram without a trace.        *)
EnqueueSilently(kind) ==
  /\ offered' = offered + 1
  /\ \/ ctx = "ended" /\ late' = late + 1 /\ UNCHANGED <<queue, stats>>
     \/ /\ Len(queue) < QueueSize
        /\ queue' = Append(queue, kind) /\ UNCHANGED <<stats, late>>
     \/ ctx = "live" /\ Len(queue) = QueueSize /\ UNCHANGED <<queue, stats, late>>

(* Faulty variant: the queue grows without limit.                          *)
EnqueueUnbounded(kind) ==
  /\ offered' = offered + 1
  /\ \/ ctx = "ended" /\ late' = late + 1 /\ UNCHANGED <<queue, stats>>
     \/ queue' = Append(queue, kind) /\ UNCHANGED <<stats, late>>

(* enqueueSIP: a select that never blocks and takes any ready case.        *)
Enqueue(kind) ==
  /\ offered' = offered + 1
  /\ \/ ctx = "ended" /\ late' = late + 1 /\ UNCHANGED <<queue, stats>>
     \/ /\ Len(queue) < QueueSize
        /\ queue' = Append(queue, kind) /\ UNCHANGED <<stats, late>>
     \/ /\ ctx = "live" /\ Len(queue) = QueueSize
        /\ ignored' = ignored + 1
        /\ UNCHANGED <<queue, received, malformed, failed, late>>

(* The reply to OPTIONS and what arrives without a session leave no trace. *)
PumpHandles ==
  /\ pump = "holding" /\ ~(hand = "error" /\ closed)
  /\ pump' = "reading"
  /\ IF Active /\ hand # "OPTIONS" THEN Enqueue(hand) ELSE UNCHANGED inbox
  /\ UNCHANGED <<hand, reads, carrier, loop, ctx, rtp, outcome, users>>

-----------------------------------------------------------------------------
(* The session: runOutbound or runInbound, then the rest of execute. *)

Count(kind) ==
  /\ received'  = IF kind = "message"   THEN received + 1  ELSE received
  /\ malformed' = IF kind = "malformed" THEN malformed + 1 ELSE malformed
  /\ failed'    = IF kind = "error"     THEN failed + 1    ELSE failed

(* readSIPWithTimers; a read error of the socket ends the call.            *)
ReadQueue ==
  /\ loop = "running" /\ queue # <<>>
  /\ Count(Head(queue)) /\ queue' = Tail(queue)
  /\ loop' = IF Head(queue) = "error" THEN "drain" ELSE loop
  /\ UNCHANGED <<ignored, offered, late, carrier, reader, ctx, rtp, outcome, users>>

Goto(from, to) ==
  /\ loop = from /\ loop' = to
  /\ UNCHANGED <<carrier, reader, inbox, ctx, rtp, outcome, users>>

(* The scenario is played, or it failed; NetworkLoss shuts the endpoint    *)
(* down first.                                                             *)
CallEnds     == Goto("running", "drain")
NetworkLost  == Goto("running", "loss")
LossShutdown == once = "done" /\ Goto("loss", "drain")

(* A cancelled or expired context ends the call.                           *)
CallIsCut == ctx = "ended" /\ CallEnds

ContextExpires ==
  /\ Active /\ ctx = "live" /\ ctx' = "ended"
  /\ UNCHANGED <<carrier, reader, inbox, loop, rtp, outcome, users>>

(* Receiver.Stop: the line was quiet long enough or the drain is over;     *)
(* Close then closes the socket and joins the read loop.                   *)
DrainEnds ==
  /\ loop = "drain" /\ loop' = "stopRTP" /\ rtpClosed' = TRUE
  /\ UNCHANGED <<carrier, reader, inbox, ctx, rtpSocket, rtpLoop, packets, outcome, users>>

CloseRTPSocket ==
  /\ loop = "stopRTP" /\ loop' = "joinRTP" /\ rtpSocket' = "closed"
  /\ UNCHANGED <<carrier, reader, inbox, ctx, rtpClosed, rtpLoop, packets, outcome, users>>

(* Receiver.Result and the copy of sipStats.                               *)
Snapshot == snapshot' = [received |-> received, malformed |-> malformed,
                         ignored |-> ignored, packets |-> packets]

(* Faulty variant: the read loop is not joined.                            *)
CollectEarly ==
  /\ loop = "joinRTP"
  /\ loop' = "publish" /\ Snapshot
  /\ UNCHANGED <<carrier, reader, inbox, ctx, rtp, result, users>>

Collect ==
  /\ loop = "joinRTP" /\ rtpLoop = "exited"
  /\ loop' = "publish" /\ Snapshot
  /\ UNCHANGED <<carrier, reader, inbox, ctx, rtp, result, users>>

Publish ==
  /\ loop = "publish" /\ loop' = "cancel" /\ result' = snapshot
  /\ UNCHANGED <<carrier, reader, inbox, ctx, rtp, snapshot, users>>

CancelContext ==
  /\ loop = "cancel" /\ loop' = "shutdown" /\ ctx' = "ended"
  /\ UNCHANGED <<carrier, reader, inbox, rtp, outcome, users>>

CloseDone == once = "done" /\ Goto("shutdown", "done")

-----------------------------------------------------------------------------
(* Receiver.readLoop. *)

RTPReads ==
  /\ rtpLoop = "reading" /\ rtpSocket = "open" /\ packets < MaxPackets
  /\ rtpLoop' = "holding"
  /\ UNCHANGED <<rtpClosed, rtpSocket, packets, carrier, reader, inbox, loop, ctx, outcome, users>>

RTPAccepts ==
  /\ rtpLoop = "holding" /\ rtpLoop' = "reading" /\ packets' = packets + 1
  /\ UNCHANGED <<rtpClosed, rtpSocket, carrier, reader, inbox, loop, ctx, outcome, users>>

(* A read error, or net.ErrClosed.                                         *)
RTPExits ==
  /\ rtpLoop = "reading" /\ rtpLoop' = "exited"
  /\ UNCHANGED <<rtpClosed, rtpSocket, packets, carrier, reader, inbox, loop, ctx, outcome, users>>

-----------------------------------------------------------------------------
(* The test. *)

Wait(c) ==
  /\ maker = "returned" /\ caller[c] = "idle"
  /\ caller' = [caller EXCEPT ![c] = "wait"]
  /\ UNCHANGED <<told, carrier, reader, inbox, loop, ctx, rtp, outcome>>

(* Session.Close, and carrier.Close on an endpoint with a session.         *)
Close(c) ==
  /\ maker = "returned" /\ caller[c] = "idle"
  /\ caller' = [caller EXCEPT ![c] = "close"] /\ ctx' = "ended"
  /\ UNCHANGED <<told, carrier, reader, inbox, loop, rtp, outcome>>

(* carrier.Close on an endpoint without one.                               *)
CloseCarrier(c) ==
  /\ ~Active /\ caller[c] = "idle"
  /\ caller' = [caller EXCEPT ![c] = "shutdown"]
  /\ UNCHANGED <<told, carrier, reader, inbox, loop, ctx, rtp, outcome>>

(* Faulty variant: Wait follows the context instead of done.               *)
ReturnOnContext(c) ==
  /\ \/ caller[c] = "close" /\ loop = "done"
     \/ caller[c] = "wait" /\ ctx = "ended"
     \/ caller[c] = "shutdown" /\ once = "done"
  /\ caller' = [caller EXCEPT ![c] = "idle"]
  /\ told' = IF caller[c] = "wait" THEN [told EXCEPT ![c] = result] ELSE told
  /\ UNCHANGED <<carrier, reader, inbox, loop, ctx, rtp, outcome>>

Return(c) ==
  /\ \/ caller[c] \in {"wait", "close"} /\ loop = "done"
     \/ caller[c] = "shutdown" /\ once = "done"
  /\ caller' = [caller EXCEPT ![c] = "idle"]
  /\ told' = IF caller[c] = "wait" THEN [told EXCEPT ![c] = result] ELSE told
  /\ UNCHANGED <<carrier, reader, inbox, loop, ctx, rtp, outcome>>

-----------------------------------------------------------------------------
Make     == Begin \/ BeginFails \/ MakerFails
Shutdown == ShutdownBegins \/ CloseSocket \/ ShutdownEnds
Pump     == \/ \E kind \in Kinds : PumpReads(kind)
            \/ PumpFindsSocketClosed \/ PumpExitsOnError \/ PumpHandles
Execute  == \/ ReadQueue \/ CallEnds \/ NetworkLost \/ LossShutdown \/ DrainEnds
            \/ CloseRTPSocket \/ Collect \/ Publish \/ CancelContext \/ CloseDone
RTPLoop  == RTPReads \/ RTPAccepts \/ RTPExits
Use(c)   == Wait(c) \/ Close(c) \/ CloseCarrier(c) \/ Return(c)

Next == Make \/ Shutdown \/ Pump \/ Execute \/ ContextExpires \/ RTPLoop
        \/ \E c \in Callers : Use(c)

Spec == Init /\ [][Next]_vars

(* The runtime schedules every goroutine that can run; the session has a   *)
(* timeout; a drain is bounded.  Nothing obliges a call to end before its  *)
(* context, or a peer to send.                                             *)
Fairness ==
  /\ WF_vars(MakerFails) /\ WF_vars(Shutdown)
  /\ WF_vars(PumpFindsSocketClosed) /\ WF_vars(PumpExitsOnError) /\ WF_vars(PumpHandles)
  /\ WF_vars(ContextExpires) /\ WF_vars(CallIsCut)
  /\ WF_vars(LossShutdown \/ DrainEnds \/ CloseRTPSocket \/ Collect \/ Publish
             \/ CancelContext \/ CloseDone)
  /\ WF_vars(RTPAccepts) /\ WF_vars(rtpSocket = "closed" /\ RTPExits)
  /\ \A c \in Callers : WF_vars(Return(c))

FairSpec == Spec /\ Fairness

-----------------------------------------------------------------------------
(* Properties. *)

(* Once a session is done, or the call that should have made it has        *)
(* failed, the read pump, the RTP reader and the session are gone, both    *)
(* sockets are closed and the session's context has ended, on which        *)
(* whatever else the call started waits: the helper of CancelAfter         *)
(* (inbound.go) is not joined and leaves by that context                   *)
(* (execute's defers, shutdown, Receiver.Close).                           *)
NothingRunsAfterwards ==
  loop = "done" \/ maker = "failed" =>
    /\ once = "done" /\ socket = "closed" /\ pump = "exited"
    /\ rtpSocket # "open" /\ rtpLoop \in {"none", "exited"}
    /\ Active => ctx = "ended"

(* The result that Wait hands out counts every RTP packet that was ever    *)
(* accepted: none is accepted after it was taken (Receiver.Stop joins the  *)
(* read loop before Result).                                               *)
ResultHoldsAllMedia == result # NoResult => result.packets = packets

(* Of the datagrams passed to a session, none disappears: each is waiting, *)
(* was read, or was counted as ignored because the queue was full; only    *)
(* an ended context gives datagrams up uncounted (enqueueSIP).             *)
DatagramsAccountedFor ==
  /\ offered = Len(queue) + received + malformed + failed + ignored + late
  /\ ctx = "live" => late = 0

(* The endpoint keeps the promise of SessionHandle.                        *)
Handle == INSTANCE SessionHandle WITH
  finished <- loop = "done",
  outcome  <- result,
  call     <- [c \in Callers |-> IF caller[c] \in {"wait", "close"} THEN caller[c] ELSE "none"]

ImplementsSessionHandle == Handle!Spec

(* Every Wait, Close and carrier.Close returns, whatever the peer does and *)
(* whichever goroutine runs shutdown first.                                *)
EveryCallReturns == \A c \in Callers : caller[c] # "idle" ~> caller[c] = "idle"
=============================================================================
