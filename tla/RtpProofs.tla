------------------------------ MODULE RtpProofs ------------------------------
(***************************************************************************)
(* Proofs about RtpStream, for every modulus, every length of the stream   *)
(* and whatever the network and strangers do.                              *)
(***************************************************************************)
EXTENDS RtpStream, TLAPS

(* A number is a multiple of the modulus and its remainder.               *)
LEMMA Division ==
  ASSUME NEW m \in Nat \ {0}, NEW a \in Int
  PROVE  /\ a % m \in 0 .. m - 1 /\ a \div m \in Int
         /\ a = (m * (a \div m)) + (a % m)
OBVIOUS

(* In only one way.                                                        *)
LEMMA DivisionUnique ==
  ASSUME NEW m \in Nat \ {0}, NEW q \in Int, NEW p \in Int, NEW r \in 0 .. m - 1, NEW s \in 0 .. m - 1,
         (m * q) + r = (m * p) + s
  PROVE  q = p /\ r = s
OBVIOUS

(* A remainder may be taken before or after an addition.                   *)
LEMMA ModAdd ==
  ASSUME NEW m \in Nat \ {0}, NEW a \in Int, NEW b \in Int
  PROVE  ((a % m) + b) % m = (a + b) % m
<1> DEFINE q == a \div m
           r == a % m
           c == r + b
           d == a + b
<1>1. q \in Int /\ r \in 0 .. m - 1 /\ a = (m * q) + r
  BY Division
<1>2. c \in Int /\ a + b = (m * q) + c
  BY <1>1
<1>3. c \div m \in Int /\ c % m \in 0 .. m - 1 /\ c = (m * (c \div m)) + (c % m)
  BY <1>2, Division
<1>4. d \in Int
  OBVIOUS
<1>5. d \div m \in Int /\ d % m \in 0 .. m - 1 /\ d = (m * (d \div m)) + (d % m)
  BY <1>4, Division
<1>6. d = (m * q) + c
  BY <1>2
<1>7. (a % m) + b = c /\ a + b = d
  OBVIOUS
<1> DEFINE e == c \div m
           f == c % m
           g == d \div m
           h == d % m
<1>8. e \in Int /\ f \in 0 .. m - 1 /\ c = (m * e) + f
  BY <1>3
<1>9. g \in Int /\ h \in 0 .. m - 1 /\ d = (m * g) + h
  BY <1>5
<1>10. f = h
  <2> HIDE DEF q, r, c, d, e, f, g, h
  <2>1. m * (q + e) = (m * q) + (m * e)
    BY <1>1, <1>8
  <2>2. PICK k \in Int : k = q + e
    BY <1>1, <1>8
  <2>3. (m * k) + f = (m * g) + h
    BY <1>1, <1>2, <1>6, <1>8, <1>9, <2>1, <2>2
  <2> QED
    BY <1>8, <1>9, <2>2, <2>3, DivisionUnique, Zenon
<1> QED
  BY <1>7, <1>10

(* Near the highest number seen so far the extension is exact: a number is *)
(* recovered from its remainder if it is less than half a modulus away     *)
(* from it, ahead or behind (unwrap16, unwrap32).                          *)
THEOREM UnwrapExact ==
  ASSUME NEW modulus \in Nat \ {0}, NEW number \in Int, NEW high \in Int, high # None,
         2 * (number - high) < modulus, 2 * (high - number) < modulus
  PROVE  Unwrap(number % modulus, high, modulus) = number
<1> DEFINE q == high \div modulus
           r == high % modulus
           p == number \div modulus
           s == number % modulus
           h == modulus \div 2
           candidate == (q * modulus) + s
<1>1. q \in Int /\ r \in 0 .. modulus - 1 /\ high = (modulus * q) + r
  BY Division
<1>2. p \in Int /\ s \in 0 .. modulus - 1 /\ number = (modulus * p) + s
  BY Division
<1>3. h \in Nat /\ 2 * h <= modulus /\ modulus <= (2 * h) + 1
  OBVIOUS
<1>4. Unwrap(s, high, modulus) =
        candidate + (CASE candidate - high > h -> -modulus
                       [] high - candidate > h -> modulus
                       [] OTHER -> 0)
  BY DEF Unwrap
<1> HIDE DEF q, r, p, s, h
<1>5. candidate \in Int /\ q * modulus = modulus * q
  BY <1>1, <1>2
<1>6. p \in {q - 1, q, q + 1}
  BY <1>1, <1>2
<1> SUFFICES Unwrap(s, high, modulus) = number
  BY DEF s
<1>7. CASE p = q
  <2>1. candidate = number
    BY <1>1, <1>2, <1>5, <1>7
  <2>2. ~(candidate - high > h) /\ ~(high - candidate > h)
    BY <1>3, <2>1
  <2> QED
    BY <1>4, <1>5, <2>1, <2>2
<1>8. CASE p = q + 1
  <2>1. candidate = number - modulus
    BY <1>1, <1>2, <1>5, <1>8
  <2>2. ~(candidate - high > h) /\ high - candidate > h
    BY <1>3, <2>1
  <2> QED
    BY <1>4, <1>5, <2>1, <2>2
<1>9. CASE p = q - 1
  <2>1. candidate = number + modulus
    BY <1>1, <1>2, <1>5, <1>9
  <2>2. candidate - high > h /\ ~(high - candidate > h)
    BY <1>3, <2>1
  <2> QED
    BY <1>4, <1>5, <2>1, <2>2
<1> QED
  BY <1>6, <1>7, <1>8, <1>9

-----------------------------------------------------------------------------
(* The sender. *)

USE DEF sender

(* Samples of the timeline that are behind the sender.                     *)
Position == (frame * FrameSamples) + (digit * EventSamples)

Sendable ==
  {p \in [seq : Int, ts : Int, ssrc : {Stream}, payload : {AudioPayload, EventPayload},
          source : {Endpoint}, n : Nat, at : Nat,
          body : [frame : Nat] \cup [digit : 0 .. 15, end : BOOLEAN, duration : Nat]] :
     p.payload = AudioPayload \/ p.body.digit \in 0 .. 15}

Progress ==
  /\ origin \in (0 .. SeqModulus - 1) \X (0 .. TsModulus - 1)
  /\ frame \in 0 .. Frames /\ digit \in 0 .. Len(Digits)
  /\ burst \in 0 .. Len(EventDurations) /\ failed \in BOOLEAN /\ attempts \in Nat
  /\ ~failed => burst < Len(EventDurations)
  /\ digit > 0 => frame = Frames

Counts ==
  /\ sequence = (origin[1] + attempts) % SeqModulus
  /\ timestamp = (origin[2] + Position) % TsModulus
  /\ wire \in Seq(Sendable)

(* The constants are numbers.                                              *)
LEMMA ConstantsAreNumbers ==
  /\ SeqModulus \in Nat \ {0} /\ TsModulus \in Nat \ {0} /\ FrameSamples \in Nat \ {0}
  /\ EventSamples \in Nat /\ Frames \in Nat /\ Len(Digits) \in Nat
  /\ Len(EventDurations) \in Nat \ {0} /\ EventDurations \in Seq(Nat)
  /\ Digits \in Seq(0 .. 15)
BY PacketsAssumption, SenderAssumption

(* A position is a number of samples.                                      *)
LEMMA PositionIsTyped ==
  ASSUME Progress PROVE Position \in Nat /\ frame \in Nat /\ digit \in Nat
<1>1. \A a, b \in Nat : a * b \in Nat
  OBVIOUS
<1>2. frame \in Nat /\ digit \in Nat
  BY ConstantsAreNumbers DEF Progress
<1>3. frame * FrameSamples \in Nat /\ digit * EventSamples \in Nat
  BY <1>1, <1>2, ConstantsAreNumbers
<1> QED
  BY <1>2, <1>3 DEF Position

(* Multiplication distributes over addition.                               *)
LEMMA Distribution ==
  ASSUME NEW a \in Nat, NEW b \in Nat, NEW c \in Nat
  PROVE  (a + b) * c = (a * c) + (b * c) /\ a * c \in Nat /\ b * c \in Nat
OBVIOUS

(* A remainder moves with its number.                                      *)
LEMMA Advance ==
  ASSUME NEW m \in Nat \ {0}, NEW start \in Nat, NEW from \in Nat, NEW by \in Nat
  PROVE  (((start + from) % m) + by) % m = (start + (from + by)) % m
<1>1. PICK a \in Int : a = start + from
  OBVIOUS
<1>2. ((a % m) + by) % m = (a + by) % m
  <2>1. by \in Int
    OBVIOUS
  <2> QED
    BY <2>1, ModAdd, Zenon
<1>3. a + by = start + (from + by)
  BY <1>1
<1> QED
  BY <1>1, <1>2, <1>3

(* writePacket keeps the order of the wire: what is there stays, and the   *)
(* new packet has the next place.                                          *)
LEMMA WriteInPlace ==
  ASSUME Progress, Counts, TimelineKept, NEW packet \in Sendable, NEW ok \in BOOLEAN,
         Write(packet, ok), UNCHANGED origin,
         packet.ts = timestamp, packet.at = Position,
         packet.seq = sequence, packet.n = attempts
  PROVE  /\ TimelineKept' /\ wire' \in Seq(Sendable)
         /\ attempts' \in Nat /\ failed' = ~ok
         /\ sequence' = (origin[1] + attempts') % SeqModulus
<1>1. attempts' = attempts + 1 /\ attempts' \in Nat /\ failed' = ~ok
  BY DEF Write, Progress
<1>2. sequence' = (origin[1] + attempts') % SeqModulus
  <2>1. origin[1] \in Nat /\ attempts \in Nat
    BY DEF Progress
  <2>2. (((origin[1] + attempts) % SeqModulus) + 1) % SeqModulus
          = (origin[1] + (attempts + 1)) % SeqModulus
    <3>1. 1 \in Nat /\ SeqModulus \in Nat \ {0}
      BY ConstantsAreNumbers
    <3> QED
      BY <2>1, <3>1, Advance, ZenonT(60)
  <2> QED
    BY <1>1, <2>2 DEF Write, Counts
<1>3. wire \in Seq(Sendable)
  BY DEF Counts
<1>4. CASE wire' = wire
  BY <1>1, <1>2, <1>3, <1>4 DEF TimelineKept
<1>5. CASE wire' = Append(wire, packet)
  <2>1. wire' \in Seq(Sendable)
    BY <1>3, <1>5
  <2>2. \A i \in DOMAIN wire' :
           \/ i \in DOMAIN wire /\ wire'[i] = wire[i]
           \/ wire'[i] = packet
    BY <1>3, <1>5
  <2>3. packet.ts = (origin[2] + packet.at) % TsModulus
        /\ packet.seq = (origin[1] + packet.n) % SeqModulus
    BY DEF Counts
  <2>4. TimelineKept'
    BY <2>2, <2>3 DEF TimelineKept
  <2> QED
    BY <1>1, <1>2, <2>1, <2>4
<1> QED
  BY <1>4, <1>5 DEF Write

(* The numbers of the sender are integers.                                 *)
LEMMA NumbersAreTyped ==
  ASSUME Progress, Counts
  PROVE  sequence \in Int /\ timestamp \in Int /\ origin[1] \in Nat /\ origin[2] \in Nat
<1>1. origin[1] \in Nat /\ origin[2] \in Nat
  BY ConstantsAreNumbers DEF Progress
<1>2. PICK a, b \in Int : a = origin[1] + attempts /\ b = origin[2] + Position
  BY <1>1, PositionIsTyped DEF Progress
<1>3. a % SeqModulus \in Int /\ b % TsModulus \in Int
  BY ConstantsAreNumbers
<1> QED
  BY <1>1, <1>2, <1>3 DEF Counts

(* One more frame, and several that are skipped, take their time.          *)
LEMMA FramesAdvance ==
  ASSUME Progress, NEW frames \in Nat, frame < Frames, frame' = frame + frames, UNCHANGED digit
  PROVE  Position' = Position + (frames * FrameSamples) /\ frames * FrameSamples \in Nat
<1>1. frame \in Nat /\ digit = 0
  BY ConstantsAreNumbers DEF Progress
<1>2. (frame + frames) * FrameSamples = (frame * FrameSamples) + (frames * FrameSamples)
      /\ frame * FrameSamples \in Nat /\ frames * FrameSamples \in Nat
  BY <1>1, Distribution, ConstantsAreNumbers
<1>3. digit * EventSamples = 0 /\ digit' * EventSamples = 0
  BY <1>1, ConstantsAreNumbers
<1> QED
  BY <1>2, <1>3 DEF Position

(* Play keeps the timeline.                                                *)
LEMMA AudioFrameKeeps ==
  ASSUME Progress, Counts, TimelineKept, NEW ok \in BOOLEAN, SendAudioFrame(ok)
  PROVE  Progress' /\ Counts' /\ TimelineKept'
<1> DEFINE packet == Packet(AudioPayload, frame * FrameSamples, [frame |-> frame])
<1>1. frame \in Nat /\ digit = 0 /\ frame < Frames /\ ~failed
      /\ frame' = frame + 1 /\ UNCHANGED <<origin, digit, burst>>
      /\ Write(packet, ok) /\ timestamp' = (timestamp + FrameSamples) % TsModulus
  BY ConstantsAreNumbers DEF SendAudioFrame, Progress
<1>2. Position = frame * FrameSamples /\ Position \in Nat
  <2>1. digit * EventSamples = 0
    BY <1>1, ConstantsAreNumbers
  <2>2. Position \in Nat /\ frame * FrameSamples \in Nat
    BY <1>1, PositionIsTyped, ConstantsAreNumbers, Distribution
  <2> QED
    BY <2>1, <2>2 DEF Position
<1>3. sequence \in Int /\ timestamp \in Int /\ origin[1] \in Nat /\ origin[2] \in Nat
  BY NumbersAreTyped
<1>4. /\ packet \in Sendable /\ packet.ts = timestamp /\ packet.at = Position
      /\ packet.seq = sequence /\ packet.n = attempts
  BY <1>1, <1>2, <1>3 DEF Packet, Sendable, Progress
<1> HIDE DEF packet
<1>5. /\ TimelineKept' /\ wire' \in Seq(Sendable) /\ attempts' \in Nat /\ failed' = ~ok
      /\ sequence' = (origin[1] + attempts') % SeqModulus
  BY <1>1, <1>4, WriteInPlace
<1>6. Position' = Position + FrameSamples
  BY <1>1, FramesAdvance, ConstantsAreNumbers
<1>7. timestamp' = (origin[2] + Position') % TsModulus
  <2>1. (((origin[2] + Position) % TsModulus) + FrameSamples) % TsModulus
          = (origin[2] + (Position + FrameSamples)) % TsModulus
    <3>1. FrameSamples \in Nat /\ TsModulus \in Nat \ {0}
      BY ConstantsAreNumbers
    <3>2. Position \in Nat /\ origin[2] \in Nat
      BY <1>2, <1>3
    <3> QED
      BY <3>1, <3>2, Advance, ZenonT(60)
  <2> QED
    BY <1>1, <1>6, <2>1 DEF Counts
<1> QED
  BY <1>1, <1>5, <1>7, ConstantsAreNumbers DEF Progress, Counts

(* Skipping frames keeps the timeline.                                     *)
LEMMA SkipKeeps ==
  ASSUME Progress, Counts, TimelineKept, NEW frames \in 1 .. Frames, SkipLateFrames(frames)
  PROVE  Progress' /\ Counts' /\ TimelineKept'
<1>1. /\ frames \in 1 .. (Frames - frame) /\ frame < Frames /\ frame' = frame + frames
      /\ timestamp' = (timestamp + (frames * FrameSamples)) % TsModulus
      /\ UNCHANGED <<origin, sequence, digit, burst, failed, attempts, wire>>
  BY DEF SkipLateFrames
<1>2. Position' = Position + (frames * FrameSamples) /\ frames * FrameSamples \in Nat
      /\ Position \in Nat
  BY <1>1, FramesAdvance, PositionIsTyped, ConstantsAreNumbers
<1>3. timestamp' = (origin[2] + Position') % TsModulus
  <2>1. origin[2] \in Nat /\ TsModulus \in Nat \ {0}
    BY ConstantsAreNumbers DEF Progress
  <2>2. (((origin[2] + Position) % TsModulus) + (frames * FrameSamples)) % TsModulus
          = (origin[2] + (Position + (frames * FrameSamples))) % TsModulus
    BY <1>2, <2>1, Advance, ZenonT(60)
  <2> QED
    BY <1>1, <1>2, <2>2 DEF Counts
<1>4. frame' \in 0 .. Frames /\ (digit > 0 => FALSE)
  BY <1>1, ConstantsAreNumbers DEF Progress
<1> QED
  BY <1>1, <1>3, <1>4 DEF Progress, Counts, TimelineKept

(* An element of a sequence belongs to what the sequence is made of.       *)
LEMMA ElementTyped ==
  ASSUME NEW S, NEW q \in Seq(S), NEW i \in 1 .. Len(q)
  PROVE  q[i] \in S
OBVIOUS

(* SendDTMF keeps the timeline: its packets stay where the event started,  *)
(* and the event takes its time after the last of them.                    *)
LEMMA EventPacketKeeps ==
  ASSUME Progress, Counts, TimelineKept, NEW ok \in BOOLEAN, SendEventPacket(ok)
  PROVE  Progress' /\ Counts' /\ TimelineKept'
<1> DEFINE body == [digit |-> Digits[digit + 1], end |-> burst + 1 >= FirstEnd,
                    duration |-> EventDurations[burst + 1]]
           packet == Packet(EventPayload, EventAt, body)
<1>1. frame = Frames /\ digit < Len(Digits) /\ ~failed /\ UNCHANGED <<origin, frame>>
      /\ Write(packet, ok)
  BY DEF SendEventPacket
<1>2. \/ digit' = digit + 1 /\ burst' = 0 /\ timestamp' = (timestamp + EventSamples) % TsModulus
      \/ burst' = burst + 1 /\ (ok => burst' # Len(EventDurations)) /\ UNCHANGED <<digit, timestamp>>
  BY DEF SendEventPacket
<1>3. Position = EventAt /\ Position \in Nat /\ digit \in Nat /\ burst \in Nat
      /\ burst < Len(EventDurations)
  BY <1>1, PositionIsTyped, ConstantsAreNumbers DEF Position, EventAt, Progress
<1>4. sequence \in Int /\ timestamp \in Int /\ origin[1] \in Nat /\ origin[2] \in Nat
  BY NumbersAreTyped
<1>5. body \in [digit : 0 .. 15, end : BOOLEAN, duration : Nat]
  <2>1. Digits \in Seq(0 .. 15) /\ EventDurations \in Seq(Nat)
    BY ConstantsAreNumbers
  <2>2. digit + 1 \in 1 .. Len(Digits) /\ burst + 1 \in 1 .. Len(EventDurations)
    BY <1>1, <1>3, <2>1
  <2>3. Digits[digit + 1] \in 0 .. 15 /\ EventDurations[burst + 1] \in Nat
    BY <2>1, <2>2, ElementTyped
  <2>4. (burst + 1 >= FirstEnd) \in BOOLEAN
    OBVIOUS
  <2> QED
    BY <2>3, <2>4
<1> HIDE DEF body
<1>6. /\ packet \in Sendable /\ packet.ts = timestamp /\ packet.at = Position
      /\ packet.seq = sequence /\ packet.n = attempts
  BY <1>3, <1>4, <1>5 DEF Packet, Sendable, Progress
<1> HIDE DEF packet
<1>7. /\ TimelineKept' /\ wire' \in Seq(Sendable) /\ attempts' \in Nat /\ failed' = ~ok
      /\ sequence' = (origin[1] + attempts') % SeqModulus
  BY <1>1, <1>6, WriteInPlace
<1>8. CASE digit' = digit + 1 /\ burst' = 0 /\ timestamp' = (timestamp + EventSamples) % TsModulus
  <2>1. Position' = Position + EventSamples
    <3>1. (digit + 1) * EventSamples = (digit * EventSamples) + (1 * EventSamples)
          /\ digit * EventSamples \in Nat
      BY <1>3, Distribution, ConstantsAreNumbers
    <3>2. frame * FrameSamples \in Nat /\ frame \in Nat
      BY <1>1, Distribution, ConstantsAreNumbers
    <3> QED
      BY <1>1, <1>8, <3>1, <3>2, ConstantsAreNumbers DEF Position
  <2>2. (((origin[2] + Position) % TsModulus) + EventSamples) % TsModulus
          = (origin[2] + (Position + EventSamples)) % TsModulus
    <3>1. EventSamples \in Nat /\ TsModulus \in Nat \ {0}
      BY ConstantsAreNumbers
    <3>2. Position \in Nat /\ origin[2] \in Nat
      BY <1>3, <1>4
    <3> QED
      BY <3>1, <3>2, Advance, ZenonT(60)
  <2>3. timestamp' = (origin[2] + Position') % TsModulus
    BY <1>8, <2>1, <2>2 DEF Counts
  <2>4. Progress'
    <3>1. UNCHANGED <<origin, frame>> /\ frame = Frames /\ attempts' \in Nat
      BY <1>1, <1>7
    <3>2. digit' \in 0 .. Len(Digits) /\ burst' \in 0 .. Len(EventDurations)
          /\ burst' < Len(EventDurations)
      BY <1>1, <1>3, <1>8, ConstantsAreNumbers
    <3>3. failed' \in BOOLEAN
      BY <1>7
    <3> QED
      BY <3>1, <3>2, <3>3 DEF Progress
  <2> QED
    BY <1>1, <1>7, <2>3, <2>4 DEF Counts
<1>9. CASE burst' = burst + 1 /\ (ok => burst' # Len(EventDurations)) /\ UNCHANGED <<digit, timestamp>>
  <2>1. Position' = Position
    BY <1>1, <1>9 DEF Position
  <2>2. Progress'
    <3>1. UNCHANGED <<origin, frame>> /\ frame = Frames /\ attempts' \in Nat
      BY <1>1, <1>7
    <3>2. UNCHANGED digit /\ burst' \in 0 .. Len(EventDurations)
          /\ (ok => burst' < Len(EventDurations))
      BY <1>1, <1>3, <1>9, ConstantsAreNumbers
    <3>3. failed' \in BOOLEAN /\ (~failed' => ok)
      BY <1>7
    <3> QED
      BY <3>1, <3>2, <3>3 DEF Progress
  <2>3. timestamp' = (origin[2] + Position') % TsModulus
    BY <1>1, <1>9, <2>1 DEF Counts
  <2> QED
    BY <1>1, <1>7, <2>2, <2>3 DEF Counts
<1> QED
  BY <1>2, <1>8, <1>9

(* What is known of the sender after every step.                           *)
THEOREM SenderInvariance == Spec => [](Progress /\ Counts /\ TimelineKept)
<1>1. Init => Progress /\ Counts /\ TimelineKept
  <2> SUFFICES ASSUME Init PROVE Progress /\ Counts /\ TimelineKept
    OBVIOUS
  <2>1. Progress
    <3>1. origin \in (0 .. SeqModulus - 1) \X (0 .. TsModulus - 1)
      BY SenderAssumption DEF Init, SenderInit
    <3>2. frame = 0 /\ digit = 0 /\ burst = 0 /\ failed = FALSE /\ attempts = 0
      BY DEF Init, SenderInit
    <3>3. /\ 0 \in 0 .. Frames /\ 0 \in 0 .. Len(Digits) /\ 0 \in 0 .. Len(EventDurations)
          /\ 0 < Len(EventDurations) /\ ~(0 > 0) /\ 0 \in Nat
      BY ConstantsAreNumbers
    <3> QED
      BY <3>1, <3>2, <3>3 DEF Progress
  <2>2. origin[1] \in 0 .. SeqModulus - 1 /\ origin[2] \in 0 .. TsModulus - 1
    BY <2>1 DEF Progress
  <2>3. Position = 0
    BY ConstantsAreNumbers DEF Init, SenderInit, Position
  <2>4. sequence = (origin[1] + attempts) % SeqModulus /\ timestamp = (origin[2] + Position) % TsModulus
    <3>1. sequence = origin[1] /\ timestamp = origin[2] /\ attempts = 0
      BY DEF Init, SenderInit
    <3>2. \A m \in Nat \ {0} : \A a \in 0 .. m - 1 : (a + 0) % m = a
      OBVIOUS
    <3> QED
      BY <2>2, <2>3, <3>1, <3>2, ConstantsAreNumbers
  <2>5. wire = <<>>
    BY DEF Init, SenderInit
  <2> QED
    BY <2>1, <2>4, <2>5 DEF Counts, TimelineKept
<1>2. Progress /\ Counts /\ TimelineKept /\ [Next]_vars => (Progress /\ Counts /\ TimelineKept)'
  <2> SUFFICES ASSUME Progress, Counts, TimelineKept, [Next]_vars
               PROVE  (Progress /\ Counts /\ TimelineKept)'
    OBVIOUS
  <2>1. CASE UNCHANGED sender
    BY <2>1 DEF Progress, Counts, Position, TimelineKept
  <2>2. CASE Send
    BY <2>2, AudioFrameKeeps, SkipKeeps, EventPacketKeeps DEF Send, SenderNext
  <2>3. Send \/ UNCHANGED sender
    BY DEF Next, vars, Deliver, DeliverStray, Receive, Negotiate, NegotiationFails
  <2> QED
    BY <2>1, <2>2, <2>3
<1> QED
  BY <1>1, <1>2, PTL DEF Spec

(* The numbers on the wire are those of the timeline, whatever is skipped, *)
(* fails or wraps (Sender.Play, SendDTMF, writePacket).                    *)
THEOREM Timeline == Spec => []TimelineKept
BY SenderInvariance, PTL
-----------------------------------------------------------------------------
(* The order of the wire. *)

(* A packet of Play, and one of SendDTMF.                                  *)
OfAudio(p) ==
  /\ p.payload = AudioPayload
  /\ \E f \in 0 .. Frames - 1 : p.at = f * FrameSamples /\ p.body = [frame |-> f]

OfEvent(p) ==
  /\ p.payload = EventPayload
  /\ \E d \in 1 .. Len(Digits), k \in 1 .. Len(EventDurations) :
       /\ p.at = EventStart(d)
       /\ p.body = [digit |-> Digits[d], end |-> k >= FirstEnd, duration |-> EventDurations[k]]

(* Packets are counted as they are written.  Events follow each other: the *)
(* packets of earlier ones are burst places back or more, so that an end   *)
(* packet comes FirstEnd places after them or later.                       *)
Ordered ==
  /\ ~failed => attempts = Len(wire)
  /\ \A i \in DOMAIN wire : wire[i].n = i - 1 /\ (OfAudio(wire[i]) \/ OfEvent(wire[i]))
  /\ frame < Frames => \A i \in DOMAIN wire : wire[i].payload # EventPayload
  /\ \A i \in DOMAIN wire : wire[i].payload = EventPayload =>
       /\ wire[i].at <= EventAt
       /\ ~failed /\ wire[i].at < EventAt => i + burst <= Len(wire)
  /\ \A i, j \in DOMAIN wire :
       /\ wire[i].payload = EventPayload /\ wire[j].payload = EventPayload
       /\ wire[i].at < wire[j].at /\ wire[j].body.end
       => i + FirstEnd <= j

(* What Append does.                                                       *)
LEMMA Appended ==
  ASSUME NEW S, NEW s \in Seq(S), NEW e \in S
  PROVE  /\ Append(s, e) \in Seq(S) /\ Len(Append(s, e)) = Len(s) + 1 /\ Len(s) \in Nat
         /\ DOMAIN s = 1 .. Len(s) /\ DOMAIN Append(s, e) = 1 .. Len(s) + 1
         /\ \A i \in 1 .. Len(s) : Append(s, e)[i] = s[i]
         /\ Append(s, e)[Len(s) + 1] = e
OBVIOUS

LEMMA SendAudioOrdered ==
  ASSUME Progress, Counts, Ordered, NEW ok \in BOOLEAN, SendAudioFrame(ok)
  PROVE  Ordered'
<1> DEFINE packet == Packet(AudioPayload, frame * FrameSamples, [frame |-> frame])
<1>1. /\ ~failed /\ frame < Frames /\ frame \in Nat /\ frame' = frame + 1 /\ failed' = ~ok
      /\ attempts' = attempts + 1 /\ UNCHANGED <<digit, burst>>
      /\ wire' = IF ok THEN Append(wire, packet) ELSE wire
  BY ConstantsAreNumbers DEF SendAudioFrame, Write, Progress
<1>2. packet.payload = AudioPayload /\ packet.n = attempts /\ OfAudio(packet)
  BY <1>1, ConstantsAreNumbers DEF Packet, OfAudio
<1>3. EventAt' = EventAt
  BY <1>1 DEF EventAt
<1>4. \A i \in DOMAIN wire : wire[i].payload # EventPayload
  BY <1>1 DEF Ordered
<1>5. AudioPayload # EventPayload
  BY SenderAssumption
<1>6. CASE ~ok
  BY <1>1, <1>3, <1>4, <1>6 DEF Ordered, OfAudio, OfEvent
<1>7. CASE ok
  <2> HIDE DEF packet
  <2>1. /\ Len(wire') = Len(wire) + 1 /\ Len(wire) \in Nat
        /\ DOMAIN wire = 1 .. Len(wire) /\ DOMAIN wire' = 1 .. Len(wire) + 1
        /\ \A i \in 1 .. Len(wire) : wire'[i] = wire[i]
        /\ wire'[Len(wire) + 1] = packet
    <3>1. wire \in Seq(Sendable \cup {packet}) /\ packet \in Sendable \cup {packet}
      BY DEF Counts
    <3>2. wire' = Append(wire, packet)
      BY <1>1, <1>7
    <3> QED
      BY <3>1, <3>2, Appended
  <2>2. \A i \in DOMAIN wire' : wire'[i].payload # EventPayload
    BY <1>2, <1>4, <1>5, <2>1
  <2>3. attempts = Len(wire)
    BY <1>1 DEF Ordered
  <2>4. \A i \in DOMAIN wire' : wire'[i].n = i - 1 /\ (OfAudio(wire'[i]) \/ OfEvent(wire'[i]))
    BY <1>2, <2>1, <2>3 DEF Ordered
  <2> QED
    BY <1>1, <1>7, <2>1, <2>2, <2>3, <2>4 DEF Ordered, OfAudio, OfEvent
<1> QED
  BY <1>6, <1>7

LEMMA SkipOrdered ==
  ASSUME Progress, Ordered, NEW frames \in 1 .. Frames, SkipLateFrames(frames)
  PROVE  Ordered'
<1>1. /\ frame < Frames /\ UNCHANGED <<digit, burst, failed, attempts, wire>>
  BY DEF SkipLateFrames
<1>2. EventAt' = EventAt
  BY <1>1 DEF EventAt
<1> QED
  BY <1>1, <1>2 DEF Ordered, OfAudio, OfEvent

(* The next event starts after the one before.                             *)
LEMMA EventsAdvance ==
  ASSUME Progress
  PROVE  /\ EventAt \in Nat /\ EventStart(digit + 1) = EventAt
         /\ digit' = digit + 1 => EventAt' > EventAt
<1>1. digit \in Nat /\ Frames \in Nat /\ FrameSamples \in Nat /\ EventSamples \in Nat /\ EventSamples > 0
  BY ConstantsAreNumbers, SenderAssumption DEF Progress
<1>2. Frames * FrameSamples \in Nat /\ digit * EventSamples \in Nat
      /\ (digit + 1) * EventSamples = (digit * EventSamples) + (1 * EventSamples)
  BY <1>1, Distribution
<1>3. (digit + 1) - 1 = digit
  BY <1>1
<1> QED
  BY <1>1, <1>2, <1>3 DEF EventAt, EventStart

LEMMA SendEventOrdered ==
  ASSUME Progress, Counts, Ordered, NEW ok \in BOOLEAN, SendEventPacket(ok)
  PROVE  Ordered'
<1> DEFINE body == [digit |-> Digits[digit + 1], end |-> burst + 1 >= FirstEnd,
                    duration |-> EventDurations[burst + 1]]
           packet == Packet(EventPayload, EventAt, body)
<1>1. /\ ~failed /\ frame = Frames /\ digit < Len(Digits) /\ UNCHANGED frame /\ failed' = ~ok
      /\ attempts' = attempts + 1 /\ wire' = IF ok THEN Append(wire, packet) ELSE wire
  BY DEF SendEventPacket, Write
<1>2. \/ digit' = digit + 1 /\ burst' = 0
      \/ UNCHANGED digit /\ burst' = burst + 1
  BY DEF SendEventPacket
<1>3. /\ EventAt \in Nat /\ digit \in Nat /\ burst \in Nat /\ burst < Len(EventDurations)
      /\ Frames \in Nat /\ FirstEnd \in Nat
  BY <1>1, EventsAdvance, ConstantsAreNumbers, SenderAssumption DEF Progress
<1>4. packet.payload = EventPayload /\ packet.n = attempts /\ packet.at = EventAt
      /\ packet.body.end = (burst + 1 >= FirstEnd) /\ OfEvent(packet)
  <2>1. packet.payload = EventPayload /\ packet.n = attempts /\ packet.at = EventAt
        /\ packet.body = body /\ body.end = (burst + 1 >= FirstEnd)
    BY DEF Packet
  <2>2. digit + 1 \in 1 .. Len(Digits) /\ burst + 1 \in 1 .. Len(EventDurations)
    BY <1>1, <1>3, ConstantsAreNumbers
  <2> HIDE DEF packet
  <2>3. packet.at = EventStart(digit + 1)
    BY <2>1, EventsAdvance
  <2> QED
    BY <2>1, <2>2, <2>3 DEF OfEvent
<1> HIDE DEF packet
<1>5. EventAt' = EventAt \/ (burst' = 0 /\ EventAt' > EventAt)
  BY <1>2, EventsAdvance DEF EventAt
<1>6. /\ EventAt' \in Nat /\ Len(wire) \in Nat /\ wire \in Seq(Sendable)
      /\ \A i \in DOMAIN wire : wire[i].at \in Nat
  <2>1. EventAt' \in Nat
    <3>1. digit' \in Nat /\ \A a, b \in Nat : a * b \in Nat /\ a + b \in Nat
      BY <1>2, <1>3
    <3> QED
      BY <3>1, ConstantsAreNumbers DEF EventAt
  <2> QED
    BY <2>1 DEF Counts, Sendable
<1>7. CASE ~ok
  <2>1. wire' = wire /\ failed'
    BY <1>1, <1>7
  <2>2. \A i \in DOMAIN wire : wire[i].payload = EventPayload => wire[i].at <= EventAt'
    BY <1>3, <1>5, <1>6 DEF Ordered
  <2> QED
    <3>1. ~(frame' < Frames)
      BY <1>1, <1>3
    <3>2. \A i \in DOMAIN wire : wire[i].n = i - 1 /\ (OfAudio(wire[i]) \/ OfEvent(wire[i]))
      BY DEF Ordered
    <3>3. \A i \in DOMAIN wire' : wire'[i].n = i - 1 /\ (OfAudio(wire'[i]) \/ OfEvent(wire'[i]))
      BY <2>1, <3>2
    <3>4. \A i, j \in DOMAIN wire :
            /\ wire[i].payload = EventPayload /\ wire[j].payload = EventPayload
            /\ wire[i].at < wire[j].at /\ wire[j].body.end
            => i + FirstEnd <= j
      BY DEF Ordered
    <3> QED
      BY <2>1, <2>2, <3>1, <3>3, <3>4 DEF Ordered, OfAudio, OfEvent
<1>8. CASE ok
  <2>1. /\ Len(wire') = Len(wire) + 1
        /\ DOMAIN wire = 1 .. Len(wire) /\ DOMAIN wire' = 1 .. Len(wire) + 1
        /\ \A i \in 1 .. Len(wire) : wire'[i] = wire[i]
        /\ wire'[Len(wire) + 1] = packet
    <3>1. wire \in Seq(Sendable \cup {packet}) /\ packet \in Sendable \cup {packet}
      BY DEF Counts
    <3>2. wire' = Append(wire, packet)
      BY <1>1, <1>8
    <3> QED
      BY <3>1, <3>2, Appended
  <2>2. attempts = Len(wire)
    BY <1>1 DEF Ordered
  <2>3. \A i \in DOMAIN wire' : wire'[i].n = i - 1 /\ (OfAudio(wire'[i]) \/ OfEvent(wire'[i]))
    <3>1. \A i \in DOMAIN wire : wire[i].n = i - 1 /\ (OfAudio(wire[i]) \/ OfEvent(wire[i]))
      BY DEF Ordered
    <3>2. \A i \in 1 .. Len(wire) : wire'[i].n = i - 1 /\ (OfAudio(wire'[i]) \/ OfEvent(wire'[i]))
      BY <2>1, <3>1
    <3>3. packet.n = (Len(wire) + 1) - 1
      BY <1>4, <1>6, <2>2
    <3>4. \A i \in DOMAIN wire' : i \in 1 .. Len(wire) \/ i = Len(wire) + 1
      BY <1>6, <2>1
    <3> QED
      BY <1>4, <2>1, <3>2, <3>3, <3>4
  <2>4. \A i \in DOMAIN wire' : wire'[i].payload = EventPayload =>
          /\ wire'[i].at <= EventAt'
          /\ wire'[i].at < EventAt' => i + burst' <= Len(wire')
    <3> SUFFICES ASSUME NEW i \in DOMAIN wire', wire'[i].payload = EventPayload
                 PROVE  /\ wire'[i].at <= EventAt'
                        /\ wire'[i].at < EventAt' => i + burst' <= Len(wire')
      OBVIOUS
    <3>1. i \in 1 .. Len(wire) + 1
      BY <2>1
    <3>2. CASE i = Len(wire) + 1
      BY <1>2, <1>3, <1>4, <1>5, <1>6, <2>1, <3>2
    <3>3. CASE i \in 1 .. Len(wire)
      <4>1. wire[i].payload = EventPayload /\ wire'[i] = wire[i] /\ wire[i].at \in Nat
        BY <1>6, <2>1, <3>3
      <4>2. wire[i].at <= EventAt /\ (wire[i].at < EventAt => i + burst <= Len(wire))
        BY <1>1, <2>1, <3>3, <4>1 DEF Ordered
      <4> QED
        BY <1>2, <1>3, <1>5, <1>6, <2>1, <3>3, <4>1, <4>2
    <3> QED
      BY <1>6, <3>1, <3>2, <3>3
  <2>5. ASSUME NEW i \in DOMAIN wire', NEW j \in DOMAIN wire',
               wire'[i].payload = EventPayload, wire'[j].payload = EventPayload,
               wire'[i].at < wire'[j].at, wire'[j].body.end
        PROVE  i + FirstEnd <= j
    <3>1. CASE i = Len(wire) + 1
      <4>1. wire'[i].at = EventAt /\ wire'[j].at <= EventAt
        BY <1>3, <1>4, <1>6, <2>1, <2>5, <3>1 DEF Ordered
      <4>2. wire'[j].at \in Nat
        BY <1>3, <1>4, <1>6, <2>1
      <4> QED
        BY <1>3, <2>5, <4>1, <4>2
    <3>2. CASE i \in 1 .. Len(wire) /\ j = Len(wire) + 1
      <4>1. i + burst <= Len(wire)
        BY <1>1, <1>4, <2>1, <2>5, <3>2 DEF Ordered
      <4>2. burst + 1 >= FirstEnd
        BY <1>4, <2>1, <2>5, <3>2
      <4> QED
        BY <1>3, <1>6, <3>2, <4>1, <4>2
    <3>3. CASE i \in 1 .. Len(wire) /\ j \in 1 .. Len(wire)
      BY <2>1, <2>5, <3>3 DEF Ordered
    <3> QED
      BY <1>6, <2>1, <3>1, <3>2, <3>3
  <2> QED
    <3>1. attempts' = Len(wire') /\ ~(frame' < Frames)
      BY <1>1, <1>3, <1>8, <2>1, <2>2
    <3>2. \A i, j \in DOMAIN wire' :
            /\ wire'[i].payload = EventPayload /\ wire'[j].payload = EventPayload
            /\ wire'[i].at < wire'[j].at /\ wire'[j].body.end
            => i + FirstEnd <= j
      BY <2>5
    <3> QED
      BY <2>3, <2>4, <3>1, <3>2 DEF Ordered, OfAudio, OfEvent
<1> QED
  BY <1>7, <1>8

(* Packets keep their places on the wire, those of an event together       *)
(* (Sender.Play, SendDTMF).                                                *)
THEOREM WireInOrder == Spec => []Ordered
<1>1. Init => Ordered
  <2> SUFFICES ASSUME Init PROVE Ordered
    OBVIOUS
  <2>1. wire = <<>> /\ attempts = 0
    BY DEF Init, SenderInit
  <2>2. DOMAIN wire = {} /\ Len(wire) = 0
    BY <2>1
  <2> QED
    BY <2>1, <2>2 DEF Ordered
<1>2. Progress /\ Counts /\ Ordered /\ [Next]_vars => Ordered'
  <2> SUFFICES ASSUME Progress, Counts, Ordered, [Next]_vars PROVE Ordered'
    OBVIOUS
  <2>1. CASE UNCHANGED sender
    BY <2>1 DEF Ordered, OfAudio, OfEvent, EventAt
  <2>2. CASE Send
    BY <2>2, SendAudioOrdered, SkipOrdered, SendEventOrdered DEF Send, SenderNext
  <2>3. Send \/ UNCHANGED sender
    BY DEF Next, vars, Deliver, DeliverStray, Receive, Negotiate, NegotiationFails
  <2> QED
    BY <2>1, <2>2, <2>3
<1> QED
  BY <1>1, <1>2, SenderInvariance, PTL DEF Spec

(* Frames follow each other on the timeline without overlap.               *)
FramesApart ==
  /\ \A i \in DOMAIN wire : wire[i].payload = AudioPayload =>
       wire[i].at + FrameSamples <= frame * FrameSamples
  /\ \A i, j \in DOMAIN wire :
       wire[i].payload = AudioPayload /\ wire[j].payload = AudioPayload /\ i < j
       => wire[i].at + FrameSamples <= wire[j].at

LEMMA SendKeepsFramesApart ==
  ASSUME Progress, Counts, FramesApart, SenderNext
  PROVE  FramesApart'
<1>1. /\ frame \in Nat /\ FrameSamples \in Nat /\ frame * FrameSamples \in Nat
      /\ Len(wire) \in Nat /\ DOMAIN wire = 1 .. Len(wire)
      /\ \A i \in DOMAIN wire : wire[i].at \in Nat
  <2>1. \A i \in DOMAIN wire : wire[i].at \in Nat
    BY DEF Counts, Sendable
  <2>2. frame \in Nat /\ FrameSamples \in Nat
    BY ConstantsAreNumbers DEF Progress
  <2> QED
    BY <2>1, <2>2, Distribution DEF Counts
<1>2. ASSUME NEW k \in Nat, frame' = frame + k, UNCHANGED wire PROVE FramesApart'
  <2>1. frame' * FrameSamples = (frame * FrameSamples) + (k * FrameSamples) /\ k * FrameSamples \in Nat
    BY <1>1, <1>2, Distribution
  <2>2. \A i \in DOMAIN wire : wire[i].payload = AudioPayload =>
          wire[i].at + FrameSamples <= frame' * FrameSamples
    BY <1>1, <2>1 DEF FramesApart
  <2> QED
    BY <1>2, <2>2 DEF FramesApart
<1>3. ASSUME NEW ok \in BOOLEAN, SendAudioFrame(ok) PROVE FramesApart'
  <2> DEFINE packet == Packet(AudioPayload, frame * FrameSamples, [frame |-> frame])
  <2>1. frame' = frame + 1 /\ packet.at = frame * FrameSamples /\ packet.payload = AudioPayload
        /\ (UNCHANGED wire \/ wire' = Append(wire, packet))
    BY <1>3 DEF SendAudioFrame, Write, Packet
  <2> HIDE DEF packet
  <2>2. CASE UNCHANGED wire
    BY <1>2, <2>1, <2>2
  <2>3. CASE wire' = Append(wire, packet)
    <3>1. frame' * FrameSamples = (frame * FrameSamples) + FrameSamples
      <4>1. (frame + 1) * FrameSamples = (frame * FrameSamples) + (1 * FrameSamples)
        BY <1>1, Distribution
      <4> QED
        BY <1>1, <2>1, <4>1
    <3>2. /\ DOMAIN wire' = 1 .. Len(wire) + 1 /\ wire'[Len(wire) + 1] = packet
          /\ \A i \in 1 .. Len(wire) : wire'[i] = wire[i]
      <4>1. wire \in Seq(Sendable \cup {packet}) /\ packet \in Sendable \cup {packet}
        BY DEF Counts
      <4> QED
        BY <2>3, <4>1, Appended
    <3>3. ASSUME NEW i \in DOMAIN wire', wire'[i].payload = AudioPayload
          PROVE  /\ wire'[i].at + FrameSamples <= frame' * FrameSamples
                 /\ i < Len(wire) + 1 => wire'[i].at + FrameSamples <= packet.at
      <4>1. CASE i = Len(wire) + 1
        BY <1>1, <2>1, <3>1, <3>2, <4>1
      <4>2. CASE i \in 1 .. Len(wire)
        <5>1. wire[i].at + FrameSamples <= frame * FrameSamples
          BY <1>1, <3>2, <3>3, <4>2 DEF FramesApart
        <5> QED
          BY <1>1, <2>1, <3>1, <3>2, <4>2, <5>1
      <4> QED
        BY <1>1, <3>2, <4>1, <4>2
    <3>4. ASSUME NEW i \in DOMAIN wire', NEW j \in DOMAIN wire', i < j,
                 wire'[i].payload = AudioPayload, wire'[j].payload = AudioPayload
          PROVE  wire'[i].at + FrameSamples <= wire'[j].at
      <4>1. CASE j = Len(wire) + 1
        BY <3>2, <3>3, <3>4, <4>1
      <4>2. CASE j \in 1 .. Len(wire)
        <5>1. i \in 1 .. Len(wire)
          BY <1>1, <3>2, <3>4, <4>2
        <5> QED
          BY <1>1, <3>2, <3>4, <4>2, <5>1 DEF FramesApart
      <4> QED
        BY <1>1, <3>2, <4>1, <4>2
    <3> QED
      BY <3>3, <3>4 DEF FramesApart
  <2> QED
    BY <2>1, <2>2, <2>3
<1>4. ASSUME NEW ok \in BOOLEAN, SendEventPacket(ok) PROVE FramesApart'
  <2>1. PICK packet : /\ packet.payload = EventPayload /\ UNCHANGED frame
                      /\ UNCHANGED wire \/ wire' = Append(wire, packet)
    BY <1>4 DEF SendEventPacket, Write, Packet
  <2>2. CASE UNCHANGED wire
    BY <2>1, <2>2 DEF FramesApart
  <2>3. CASE wire' = Append(wire, packet)
    <3>1. /\ DOMAIN wire' = 1 .. Len(wire) + 1 /\ wire'[Len(wire) + 1] = packet
          /\ \A i \in 1 .. Len(wire) : wire'[i] = wire[i]
      <4>1. wire \in Seq(Sendable \cup {packet}) /\ packet \in Sendable \cup {packet}
        BY DEF Counts
      <4> QED
        BY <2>3, <4>1, Appended
    <3>2. \A i \in DOMAIN wire' : wire'[i].payload = AudioPayload =>
            i \in DOMAIN wire /\ wire'[i] = wire[i]
      BY <1>1, <2>1, <3>1, SenderAssumption
    <3> QED
      BY <2>1, <3>2 DEF FramesApart
  <2> QED
    BY <2>1, <2>2, <2>3
<1>5. ASSUME NEW frames \in 1 .. Frames, SkipLateFrames(frames) PROVE FramesApart'
  BY <1>2, <1>5, ConstantsAreNumbers DEF SkipLateFrames
<1> QED
  BY <1>3, <1>4, <1>5 DEF SenderNext

(* Whatever is skipped, no two frames on the wire overlap (Sender.Play).   *)
THEOREM WireApart == Spec => []FramesApart
<1>1. Init => FramesApart
  <2> SUFFICES ASSUME Init PROVE FramesApart
    OBVIOUS
  <2>1. wire = <<>>
    BY DEF Init, SenderInit
  <2>2. DOMAIN wire = {}
    BY <2>1
  <2> QED
    BY <2>2 DEF FramesApart
<1>2. Progress /\ Counts /\ FramesApart /\ [Next]_vars => FramesApart'
  <2> SUFFICES ASSUME Progress, Counts, FramesApart, [Next]_vars PROVE FramesApart'
    OBVIOUS
  <2>1. CASE UNCHANGED sender
    BY <2>1 DEF FramesApart
  <2>2. CASE Send
    BY <2>2, SendKeepsFramesApart DEF Send
  <2>3. Send \/ UNCHANGED sender
    BY DEF Next, vars, Deliver, DeliverStray, Receive, Negotiate, NegotiationFails
  <2> QED
    BY <2>1, <2>2, <2>3
<1> QED
  BY <1>1, <1>2, SenderInvariance, PTL DEF Spec
=============================================================================
