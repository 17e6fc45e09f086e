--------------------------- MODULE RtpStreamProofs ---------------------------
(***************************************************************************)
(* Proofs about the receiver of RtpStream: that it is well typed, and that *)
(* it keeps to one stream, whatever the network and strangers do.          *)
(***************************************************************************)
EXTENDS RtpProofs, FiniteSetTheorems, WellFoundedInduction

USE DEF sender, receiver

Configurations == Negotiations \cup {DefaultMedia}

Numbers == Int \cup {None}

-----------------------------------------------------------------------------
(* The inductive invariant. *)

(* The type of the receiver's state; a number is stored once per stream.   *)
Received ==
  /\ stream \in Streams \cup {None}
  /\ highest \in [Streams -> Numbers] /\ highestTs \in [Streams -> Numbers]
  /\ IsFiniteSet(seen) /\ Cardinality(seen) <= MaxRetained
  /\ \A r, s \in seen : r.packet.ssrc = s.packet.ssrc /\ r.seq = s.seq => r = s
  /\ space \subseteq {r.seq : r \in seen}
  /\ DOMAIN dtmf \subseteq Streams \X (0 .. TsModulus - 1) \X (0 .. 15)
  /\ switched \in BOOLEAN

(* Before the first audio nothing is selected; afterwards all audio kept   *)
(* has the selected SSRC, address and codec under the present              *)
(* configuration.                                                          *)
Chosen ==
  /\ stream # None => source # None
  /\ \A r \in seen : r.audio =>
       /\ stream # None /\ r.packet.ssrc = stream /\ r.packet.source = source
       /\ r.packet.payload \in DOMAIN media.audio /\ media.audio[r.packet.payload] = codec

(* The configuration is the default one until it is negotiated, and from   *)
(* then on everything kept fits it.                                        *)
Configured ==
  /\ negotiated # "done" => media = DefaultMedia
  /\ negotiated = "done" =>
       /\ media \in Negotiations
       /\ \A r \in seen : /\ r.packet.payload \in DOMAIN media.audio \cup {media.event}
                          /\ r.packet.source.host = media.host

RInv == Received /\ Chosen /\ Configured

(* What holds of a packet that arrives.                                    *)
Arriving(p) ==
  /\ p.ssrc \in Streams /\ p.source # None
  /\ p.seq \in Int /\ p.ts \in 0 .. TsModulus - 1
  /\ IsEvent(p) => p.body.digit \in 0 .. 15 \cup {None}

-----------------------------------------------------------------------------
(* Packets. *)

LEMMA MediaIsConfiguration ==
  ASSUME Configured PROVE media \in Configurations
BY DEF Configured, Configurations

(* A packet of the sender.                                                 *)
LEMMA OwnPacketArrives ==
  ASSUME Configured, Counts, Progress, TimelineKept, NEW i \in DOMAIN wire
  PROVE  Arriving(wire[i])
<1>1. wire[i] \in Sendable
  BY DEF Counts
<1>2. wire[i].ssrc = Stream /\ wire[i].source = Endpoint /\ wire[i].seq \in Int /\ wire[i].at \in Nat
  BY <1>1 DEF Sendable
<1>3. wire[i].ts \in 0 .. TsModulus - 1
  <2>1. wire[i].ts = (origin[2] + wire[i].at) % TsModulus
    BY DEF TimelineKept
  <2>2. origin[2] \in Nat
    BY NumbersAreTyped
  <2>3. \A a \in Int : a % TsModulus \in 0 .. TsModulus - 1
    BY ConstantsAreNumbers, Division
  <2>4. PICK a \in Int : a = origin[2] + wire[i].at
    BY <1>2, <2>2
  <2> QED
    BY <2>1, <2>3, <2>4
<1>4. IsEvent(wire[i]) => wire[i].body.digit \in 0 .. 15
  <2>1. media.event # AudioPayload
    BY MediaIsConfiguration, NegotiationAssumption DEF Configurations
  <2> QED
    BY <1>1, <2>1 DEF IsEvent, Sendable
<1> QED
  BY <1>2, <1>3, <1>4, StreamAssumption DEF Arriving

(* A packet of a stranger.                                                 *)
LEMMA StrayArrives ==
  ASSUME Configured, NEW p \in Strays
  PROVE  Arriving(p)
<1>1. media \in Negotiations \cup {DefaultMedia}
  BY MediaIsConfiguration DEF Configurations
<1>2. p.seq \in Int
  BY StraysAssumption, ConstantsAreNumbers
<1> QED
  BY <1>1, <1>2, StraysAssumption DEF Arriving, IsEvent

(* The extension of a number is a number.                                  *)
LEMMA UnwrapIsTyped ==
  ASSUME NEW value \in Int, NEW high \in Numbers, NEW modulus \in Nat \ {0}
  PROVE  Unwrap(value, high, modulus) \in Int
<1>1. CASE high = None
  BY <1>1 DEF Unwrap
<1>2. CASE high # None
  <2>1. high \in Int
    BY <1>2 DEF Numbers
  <2>2. high \div modulus \in Int
    BY <2>1, Division
  <2>3. PICK candidate \in Int : candidate = (high \div modulus) * modulus + value
    <3>1. \A a, b \in Int : a * b \in Int
      OBVIOUS
    <3> QED
      BY <2>2, <3>1
  <2> QED
    BY <1>2, <2>3 DEF Unwrap
<1> QED
  BY <1>1, <1>2

-----------------------------------------------------------------------------
(* A packet is kept. *)

LEMMA SelectKeepsChosen ==
  ASSUME RInv, NEW p, Arriving(p), ~Refused(p), ~SwitchesCodec(p), Select(p), UNCHANGED media
  PROVE  /\ stream' \in Streams \cup {None}
         /\ stream' # None => source' # None
         /\ \A r \in seen : r.audio =>
              /\ stream' # None /\ r.packet.ssrc = stream' /\ r.packet.source = source'
              /\ r.packet.payload \in DOMAIN media.audio /\ media.audio[r.packet.payload] = codec'
         /\ IsAudio(p) =>
              /\ stream' # None /\ p.ssrc = stream' /\ p.source = source'
              /\ p.payload \in DOMAIN media.audio /\ media.audio[p.payload] = codec'
<1>1. CASE IsAudio(p) /\ stream = None
  BY <1>1, StreamAssumption DEF RInv, Received, Chosen, Select, Arriving, IsAudio
<1>2. CASE ~(IsAudio(p) /\ stream = None)
  <2>1. UNCHANGED <<stream, codec, source>>
    BY <1>2 DEF Select
  <2>2. IsAudio(p) => stream # None /\ source # None
    BY <1>2 DEF RInv, Chosen
  <2>3. IsAudio(p) => p.ssrc = stream /\ p.source = source /\ media.audio[p.payload] = codec
    BY <2>2 DEF Refused, SwitchesCodec
  <2> QED
    BY <2>1, <2>2, <2>3 DEF RInv, Received, Chosen, IsAudio
<1> QED
  BY <1>1, <1>2

LEMMA EventIsTyped ==
  ASSUME Received, NEW p, Arriving(p), IsEvent(p), AcceptDTMF(p)
  PROVE  DOMAIN dtmf' \subseteq Streams \X (0 .. TsModulus - 1) \X (0 .. 15)
<1>1. CASE p.body.digit = None
  BY <1>1 DEF AcceptDTMF, Received
<1>2. CASE p.body.digit # None
  <2>1. p.body.digit \in 0 .. 15 /\ p.ssrc \in Streams /\ p.ts \in 0 .. TsModulus - 1
    BY <1>2 DEF Arriving
  <2>2. EventId(p) \in Streams \X (0 .. TsModulus - 1) \X (0 .. 15)
    BY <2>1 DEF EventId
  <2>3. PICK index : dtmf' = Updated(p, index)
    BY <1>2 DEF AcceptDTMF
  <2>4. DOMAIN dtmf' = {EventId(p)} \cup DOMAIN dtmf
    BY <2>3 DEF Updated
  <2> QED
    BY <2>2, <2>4 DEF Received
<1> QED
  BY <1>1, <1>2

LEMMA StoreKeeps ==
  ASSUME RInv, NEW p, Arriving(p), ~Refused(p), ~SwitchesCodec(p), Select(p),
         NEW q \in Int, ~Repeated(p, q), Cardinality(seen) < MaxRetained, Store(p, q),
         UNCHANGED <<media, switched, negotiated>>
  PROVE  RInv'
<1> DEFINE t == Unwrap(p.ts, highestTs[p.ssrc], TsModulus)
           record == [packet |-> p, seq |-> q, ts |-> t, audio |-> IsAudio(p)]
<1>1. t \in Int
  <2>1. p.ts \in Int /\ p.ssrc \in Streams
    BY ConstantsAreNumbers DEF Arriving
  <2>2. highestTs[p.ssrc] \in Numbers
    BY <2>1 DEF RInv, Received
  <2> QED
    BY <2>1, <2>2, UnwrapIsTyped, ConstantsAreNumbers
<1>2. /\ highest' = [highest EXCEPT ![p.ssrc] = Raised(highest[p.ssrc], q)]
      /\ highestTs' = [highestTs EXCEPT ![p.ssrc] = Raised(highestTs[p.ssrc], t)]
      /\ seen' = seen \cup {record}
      /\ space' = space \/ space' = space \cup {q}
      /\ IF IsEvent(p) THEN AcceptDTMF(p) ELSE UNCHANGED <<dtmf, digits>>
  BY DEF Store
<1> HIDE DEF t
<1>3. /\ record.packet = p /\ record.seq = q /\ record.audio = IsAudio(p)
  OBVIOUS
<1> HIDE DEF record
<1>4. Received'
  <2>1. stream' \in Streams \cup {None}
    BY SelectKeepsChosen
  <2>2. highest' \in [Streams -> Numbers] /\ highestTs' \in [Streams -> Numbers]
    BY <1>1, <1>2 DEF RInv, Received, Raised, Numbers
  <2>3. IsFiniteSet(seen') /\ Cardinality(seen') <= MaxRetained
    <3>1. IsFiniteSet(seen)
      BY DEF RInv, Received
    <3>2. Cardinality(seen) \in Nat /\ MaxRetained \in Nat
      BY <3>1, FS_CardinalityType, StreamAssumption
    <3>3. IsFiniteSet(seen') /\ Cardinality(seen') \in {Cardinality(seen), Cardinality(seen) + 1}
      BY <1>2, <3>1, FS_AddElement
    <3> QED
      BY <3>2, <3>3
  <2>4. \A r, s \in seen' : r.packet.ssrc = s.packet.ssrc /\ r.seq = s.seq => r = s
    BY <1>2, <1>3 DEF RInv, Received, Repeated
  <2>5. space' \subseteq {r.seq : r \in seen'}
    BY <1>2, <1>3 DEF RInv, Received
  <2>6. DOMAIN dtmf' \subseteq Streams \X (0 .. TsModulus - 1) \X (0 .. 15)
    BY <1>2, EventIsTyped DEF RInv, Received
  <2> QED
    BY <2>1, <2>2, <2>3, <2>4, <2>5, <2>6 DEF RInv, Received
<1>5. Chosen'
  BY <1>2, <1>3, SelectKeepsChosen DEF Chosen
<1>6. Configured'
  <2>1. IsAudio(p) \/ IsEvent(p)
    BY DEF Refused
  <2>2. media.host # None => p.source.host = media.host
    BY DEF Refused
  <2>3. media \in Negotiations => media.host # None
    BY NegotiationAssumption
  <2> QED
    BY <1>2, <1>3, <2>1, <2>2, <2>3 DEF RInv, Configured, IsAudio, IsEvent
<1> QED
  BY <1>4, <1>5, <1>6 DEF RInv

(* accept: whatever arrives, the receiver keeps to its stream.             *)
LEMMA ReceiveKeeps ==
  ASSUME RInv, NEW p, Arriving(p), Receive(p)
  PROVE  RInv'
<1>1. UNCHANGED negotiated
  BY DEF Receive
<1>2. CASE UNCHANGED receiver
  BY <1>1, <1>2 DEF RInv, Received, Chosen, Configured
<1>3. CASE ~Refused(p) /\ Accept(p)
  <2>1. CASE SwitchesCodec(p)
    BY <1>1, <1>3, <2>1 DEF Accept, RInv, Received, Chosen, Configured
  <2>2. CASE ~SwitchesCodec(p)
    <3> DEFINE q == Unwrap(p.seq, highest[p.ssrc], SeqModulus)
    <3>1. q \in Int
      <4>1. p.seq \in Int /\ highest[p.ssrc] \in Numbers
        BY DEF Arriving, RInv, Received
      <4> QED
        BY <4>1, UnwrapIsTyped, ConstantsAreNumbers
    <3>2. /\ Select(p) /\ UNCHANGED <<media, switched>>
          /\ IF Repeated(p, q) \/ TooLate(p, q) \/ Cardinality(seen) >= MaxRetained
             THEN UNCHANGED <<highest, highestTs, seen, space, newest, dtmf, digits>>
             ELSE Store(p, q)
      BY <1>3, <2>2 DEF Accept
    <3> HIDE DEF q
    <3>3. CASE UNCHANGED <<highest, highestTs, seen, space, newest, dtmf, digits>>
      <4>1. Received'
        BY <1>3, <2>2, <3>2, <3>3, SelectKeepsChosen DEF RInv, Received
      <4>2. Chosen'
        BY <1>3, <2>2, <3>2, <3>3, SelectKeepsChosen DEF RInv, Chosen
      <4>3. Configured'
        BY <1>1, <3>2, <3>3 DEF RInv, Configured
      <4> QED
        BY <4>1, <4>2, <4>3 DEF RInv
    <3>4. CASE ~Repeated(p, q) /\ ~(Cardinality(seen) >= MaxRetained) /\ Store(p, q)
      <4>1. Cardinality(seen) < MaxRetained
        <5>1. Cardinality(seen) \in Nat /\ MaxRetained \in Nat
          BY FS_CardinalityType, StreamAssumption DEF RInv, Received
        <5> QED
          BY <3>4, <5>1
      <4> QED
        BY <1>1, <1>3, <2>2, <3>1, <3>2, <3>4, <4>1, StoreKeeps
    <3> QED
      BY <3>2, <3>3, <3>4
  <2> QED
    BY <2>1, <2>2
<1> QED
  BY <1>2, <1>3 DEF Receive, Accept

(* Configure: what came before negotiation and stays fits it.              *)
LEMMA NegotiateKeeps ==
  ASSUME RInv, NEW m \in Negotiations, Negotiate(m)
  PROVE  RInv'
<1>1. /\ media' = m /\ negotiated = "none" /\ negotiated' = "done" /\ \A r \in seen : Fits(r, m)
      /\ UNCHANGED <<stream, codec, source, highest, highestTs, seen, space, newest, dtmf,
                     digits, switched>>
  BY DEF Negotiate, Configure
<1>2. media = DefaultMedia
  BY <1>1 DEF RInv, Configured
<1>3. Received'
  BY <1>1 DEF RInv, Received
<1>4. Chosen'
  <2> SUFFICES ASSUME NEW r \in seen, r.audio
               PROVE  r.packet.payload \in DOMAIN m.audio /\ m.audio[r.packet.payload] = codec
    BY <1>1 DEF RInv, Chosen
  <2>1. r.packet.payload \in DOMAIN DefaultMedia.audio /\ r.packet.ssrc = stream
    BY <1>2 DEF RInv, Chosen
  <2>2. r.packet.payload # m.event
    BY <2>1, NegotiationAssumption
  <2> QED
    BY <1>1, <2>1, <2>2 DEF Fits
<1>5. Configured'
  BY <1>1 DEF Configured, Fits
<1> QED
  BY <1>3, <1>4, <1>5 DEF RInv

-----------------------------------------------------------------------------
(* Theorems. *)

(* What is known of the receiver after every step.                         *)
THEOREM ReceiverInvariance == Spec => []RInv
<1>1. Init => RInv
  <2> SUFFICES ASSUME Init PROVE RInv
    OBVIOUS
  <2>1. /\ media = DefaultMedia /\ stream = None /\ negotiated = "none"
        /\ highest = [s \in Streams |-> None] /\ highestTs = [s \in Streams |-> None]
        /\ seen = {} /\ space = {} /\ dtmf = <<>> /\ switched = FALSE
    BY DEF Init, ReceiverInit
  <2>2. IsFiniteSet(seen) /\ Cardinality(seen) <= MaxRetained
    BY <2>1, FS_EmptySet, StreamAssumption
  <2>3. DOMAIN dtmf = {}
    BY <2>1
  <2> QED
    BY <2>1, <2>2, <2>3 DEF RInv, Received, Chosen, Configured, Numbers
<1>2. RInv /\ Progress /\ Counts /\ TimelineKept /\ [Next]_vars => RInv'
  <2> SUFFICES ASSUME RInv, Progress, Counts, TimelineKept, [Next]_vars PROVE RInv'
    OBVIOUS
  <2>1. CASE UNCHANGED <<receiver, negotiated>>
    BY <2>1 DEF RInv, Received, Chosen, Configured
  <2>2. CASE Send
    BY <2>1, <2>2 DEF Send
  <2>3. ASSUME NEW i \in DOMAIN wire, Deliver(i) PROVE RInv'
    BY <2>3, OwnPacketArrives, ReceiveKeeps DEF Deliver, RInv
  <2>4. ASSUME NEW p \in Strays, DeliverStray(p) PROVE RInv'
    BY <2>4, StrayArrives, ReceiveKeeps DEF DeliverStray, RInv
  <2>5. ASSUME NEW m \in Negotiations, Negotiate(m) PROVE RInv'
    BY <2>5, NegotiateKeeps
  <2>6. ASSUME NEW m \in Negotiations, NegotiationFails(m) PROVE RInv'
    <3>1. UNCHANGED receiver /\ negotiated = "none" /\ negotiated' = "refused"
      BY <2>6 DEF NegotiationFails
    <3> QED
      BY <3>1 DEF RInv, Received, Chosen, Configured
  <2> QED
    BY <2>1, <2>2, <2>3, <2>4, <2>5, <2>6 DEF Next, vars
<1> QED
  BY <1>1, <1>2, SenderInvariance, PTL DEF Spec

(* The state of both ends has its types: numbers on the wire stay below    *)
(* their moduli, no more packets are kept than allowed and none twice.     *)
THEOREM TypeCorrect == Spec => []TypeOK
<1>1. RInv /\ Progress /\ Counts => TypeOK
  <2> SUFFICES ASSUME RInv, Progress, Counts PROVE TypeOK
    OBVIOUS
  <2>1. sequence \in 0 .. SeqModulus - 1 /\ timestamp \in 0 .. TsModulus - 1
    <3>1. origin[1] + attempts \in Int /\ origin[2] + Position \in Int
      <4>1. origin[1] \in Nat /\ origin[2] \in Nat /\ attempts \in Nat /\ Position \in Nat
        BY NumbersAreTyped, PositionIsTyped DEF Progress
      <4> QED
        BY <4>1
    <3>2. \A a \in Int : a % SeqModulus \in 0 .. SeqModulus - 1 /\ a % TsModulus \in 0 .. TsModulus - 1
      BY ConstantsAreNumbers, Division
    <3> QED
      BY <3>1, <3>2 DEF Counts
  <2> QED
    BY <2>1 DEF TypeOK, RInv, Received, Progress, Numbers
<1> QED
  BY <1>1, ReceiverInvariance, SenderInvariance, PTL

(* The recording is one stream's: one SSRC, one address, one codec, and    *)
(* after negotiation nothing that does not fit it (accept, Configure).     *)
THEOREM OneStreamCorrect == Spec => []OneNegotiatedStream
<1>1. RInv => OneNegotiatedStream
  <2> SUFFICES ASSUME RInv PROVE OneNegotiatedStream
    OBVIOUS
  <2>1. \A a, b \in DOMAIN media.audio : media.audio[a] = media.audio[b] => a = b
    BY MediaIsConfiguration, NegotiationAssumption DEF RInv, Configurations
  <2>2. \A r, s \in {o \in seen : o.audio} :
          r.packet.ssrc = s.packet.ssrc /\ r.packet.source = s.packet.source
          /\ r.packet.payload = s.packet.payload
    BY <2>1 DEF RInv, Chosen
  <2>3. stream # None => \A i \in Reported : digits[i].ssrc = stream
    BY DEF Reported
  <2>4. negotiated = "done" =>
          \A r \in seen : /\ r.packet.payload \in DOMAIN media.audio \cup {media.event}
                           /\ r.packet.source.host = media.host
    BY DEF RInv, Configured
  <2> QED
    BY <2>2, <2>3, <2>4 DEF OneNegotiatedStream
<1> QED
  BY <1>1, ReceiverInvariance, PTL

-----------------------------------------------------------------------------
(* What is kept, and where it comes from. *)

(* Every record is a packet of the wire or of a stranger; highest is the   *)
(* greatest number kept of each SSRC; sequenceSpace has numbers of the     *)
(* selected one and, if any, a least and a greatest; newest is the audio   *)
(* packet of the greatest number.                                          *)
FromSomewhere == \A r \in seen : r.packet \in Strays \/ \E i \in DOMAIN wire : r.packet = wire[i]

HighestKept ==
  /\ \A r \in seen :
       r.packet.ssrc \in Streams /\ r.seq \in Int
       /\ highest[r.packet.ssrc] # None /\ r.seq <= highest[r.packet.ssrc]
  /\ \A s \in Streams : highest[s] # None => \E r \in seen : r.packet.ssrc = s /\ r.seq = highest[s]

SpaceOfStream ==
  /\ IsFiniteSet(space)
  /\ \A q \in space : stream # None /\ \E r \in seen : r.packet.ssrc = stream /\ r.seq = q
  /\ space # {} => \E low, high \in space : \A q \in space : low <= q /\ q <= high

NewestKept ==
  /\ newest.seq = None => \A r \in seen : ~r.audio
  /\ newest.seq # None =>
       /\ \E r \in seen : r.audio /\ newest.seq = r.seq /\ newest.packet = r.packet
       /\ \A r \in seen : r.audio => r.seq <= newest.seq

FromHost == media.host # None => \A r \in seen : r.packet.source.host = media.host

Tracked == FromSomewhere /\ HighestKept /\ SpaceOfStream /\ NewestKept /\ FromHost

(* No number is None.                                                      *)
LEMMA NoneIsNoNumber == None \notin Int
BY PacketsAssumption

(* What a packet that arrives may do: nothing but count or fail, select    *)
(* the stream only, or be stored.                                          *)
LEMMA ReceiveCases ==
  ASSUME RInv, NEW p, Arriving(p), Receive(p)
  PROVE  \/ UNCHANGED <<media, stream, codec, source, highest, highestTs, seen, space, newest,
                        dtmf, digits>>
            /\ (Refused(p) \/ SwitchesCodec(p))
         \/ /\ ~Refused(p) /\ ~SwitchesCodec(p) /\ Select(p)
            /\ UNCHANGED <<media, switched, highest, highestTs, seen, space, newest, dtmf, digits>>
            /\ LET q == Unwrap(p.seq, highest[p.ssrc], SeqModulus)
               IN Repeated(p, q) \/ TooLate(p, q) \/ Cardinality(seen) >= MaxRetained
         \/ /\ ~Refused(p) /\ ~SwitchesCodec(p) /\ Select(p) /\ UNCHANGED <<media, switched>>
            /\ \E q \in Int :
                 /\ q = Unwrap(p.seq, highest[p.ssrc], SeqModulus)
                 /\ ~Repeated(p, q) /\ ~TooLate(p, q) /\ Store(p, q)
<1>1. CASE UNCHANGED receiver /\ Refused(p)
  BY <1>1
<1>2. CASE ~Refused(p) /\ Accept(p)
  <2>1. CASE SwitchesCodec(p)
    BY <1>2, <2>1 DEF Accept
  <2>2. CASE ~SwitchesCodec(p)
    <3> DEFINE q == Unwrap(p.seq, highest[p.ssrc], SeqModulus)
    <3>1. q \in Int
      <4>1. p.seq \in Int /\ highest[p.ssrc] \in Numbers
        BY DEF Arriving, RInv, Received
      <4> QED
        BY <4>1, UnwrapIsTyped, ConstantsAreNumbers
    <3>2. /\ Select(p) /\ UNCHANGED <<media, switched>>
          /\ IF Repeated(p, q) \/ TooLate(p, q) \/ Cardinality(seen) >= MaxRetained
             THEN UNCHANGED <<highest, highestTs, seen, space, newest, dtmf, digits>>
             ELSE Store(p, q)
      BY <1>2, <2>2 DEF Accept
    <3> HIDE DEF q
    <3>3. CASE Repeated(p, q) \/ TooLate(p, q) \/ Cardinality(seen) >= MaxRetained
      BY <1>2, <2>2, <3>2, <3>3 DEF q
    <3>4. CASE ~(Repeated(p, q) \/ TooLate(p, q) \/ Cardinality(seen) >= MaxRetained)
      BY <1>2, <2>2, <3>1, <3>2, <3>4 DEF q
    <3> QED
      BY <3>3, <3>4
  <2> QED
    BY <2>1, <2>2
<1> QED
  BY <1>1, <1>2 DEF Receive, Accept

(* What storing a packet adds.                                             *)
LEMMA StoreAdds ==
  ASSUME RInv, NEW p, Arriving(p), NEW q \in Int, Store(p, q)
  PROVE  \E record :
           /\ record.packet = p /\ record.seq = q /\ record.ts \in Int
           /\ record.audio = IsAudio(p)
           /\ seen' = seen \cup {record}
           /\ highest' = [highest EXCEPT ![p.ssrc] = Raised(highest[p.ssrc], q)]
           /\ space' = IF stream' = p.ssrc THEN space \cup {q} ELSE space
           /\ newest' = IF Newer(p, q) THEN [seq |-> q, packet |-> p] ELSE newest
           /\ IF IsEvent(p) THEN AcceptDTMF(p) ELSE UNCHANGED <<dtmf, digits>>
<1> DEFINE t == Unwrap(p.ts, highestTs[p.ssrc], TsModulus)
<1>1. t \in Int
  <2>1. p.ts \in Int /\ p.ssrc \in Streams
    BY ConstantsAreNumbers DEF Arriving
  <2>2. highestTs[p.ssrc] \in Numbers
    BY <2>1 DEF RInv, Received
  <2> QED
    BY <2>1, <2>2, UnwrapIsTyped, ConstantsAreNumbers
<1> DEFINE record == [packet |-> p, seq |-> q, ts |-> t, audio |-> IsAudio(p)]
<1>2. /\ seen' = seen \cup {record}
      /\ highest' = [highest EXCEPT ![p.ssrc] = Raised(highest[p.ssrc], q)]
      /\ space' = IF stream' = p.ssrc THEN space \cup {q} ELSE space
      /\ newest' = IF Newer(p, q) THEN [seq |-> q, packet |-> p] ELSE newest
      /\ IF IsEvent(p) THEN AcceptDTMF(p) ELSE UNCHANGED <<dtmf, digits>>
  BY DEF Store
<1> HIDE DEF t
<1>3. record.packet = p /\ record.seq = q /\ record.ts = t /\ record.audio = IsAudio(p)
  OBVIOUS
<1> HIDE DEF record
<1> QED
  BY <1>1, <1>2, <1>3

(* What is on the wire stays there.                                        *)
LEMMA WireStays ==
  ASSUME Counts, [Next]_vars
  PROVE  /\ \A i \in DOMAIN wire : i \in DOMAIN wire' /\ wire'[i] = wire[i]
         /\ Len(wire) \in Nat /\ DOMAIN wire = 1 .. Len(wire) /\ Len(wire') >= Len(wire)
<1>1. Len(wire) \in Nat /\ DOMAIN wire = 1 .. Len(wire)
  BY DEF Counts
<1>2. CASE UNCHANGED wire
  BY <1>1, <1>2
<1>3. ASSUME NEW packet, wire' = Append(wire, packet)
      PROVE  /\ \A i \in DOMAIN wire : i \in DOMAIN wire' /\ wire'[i] = wire[i]
             /\ Len(wire') >= Len(wire)
  <2>1. wire \in Seq(Sendable \cup {packet}) /\ packet \in Sendable \cup {packet}
    BY DEF Counts
  <2> QED
    BY <1>3, <2>1, Appended
<1>4. UNCHANGED wire \/ \E packet : wire' = Append(wire, packet)
  <2>1. CASE Send
    BY <2>1 DEF Send, SenderNext, SendAudioFrame, SkipLateFrames, SendEventPacket, Write
  <2>2. Send \/ UNCHANGED sender
    BY DEF Next, vars, Deliver, DeliverStray, Receive, Negotiate, NegotiationFails
  <2> QED
    BY <2>1, <2>2
<1> QED
  BY <1>1, <1>2, <1>3, <1>4

(* What a stored packet does to highest, sequenceSpace and newest.         *)
LEMMA StoreKeepsHighest ==
  ASSUME RInv, HighestKept, NEW p, Arriving(p), NEW q \in Int, NEW record,
         record.packet = p, record.seq = q, seen' = seen \cup {record},
         highest' = [highest EXCEPT ![p.ssrc] = Raised(highest[p.ssrc], q)]
  PROVE  HighestKept'
<1>1. p.ssrc \in Streams /\ highest \in [Streams -> Numbers]
  BY DEF Arriving, RInv, Received
<1>2. /\ highest'[p.ssrc] = Raised(highest[p.ssrc], q)
      /\ \A s \in Streams : s # p.ssrc => highest'[s] = highest[s]
  BY <1>1
<1>3. /\ highest'[p.ssrc] \in {q, highest[p.ssrc]} /\ highest'[p.ssrc] # None
      /\ q <= highest'[p.ssrc]
      /\ highest[p.ssrc] # None => highest[p.ssrc] \in Int /\ highest[p.ssrc] <= highest'[p.ssrc]
  <2>1. highest[p.ssrc] = None \/ highest[p.ssrc] \in Int
    BY <1>1 DEF Numbers
  <2> QED
    BY <1>2, <2>1, NoneIsNoNumber DEF Raised
<1>4. ASSUME NEW r \in seen'
      PROVE  /\ r.packet.ssrc \in Streams /\ r.seq \in Int
             /\ highest'[r.packet.ssrc] # None /\ r.seq <= highest'[r.packet.ssrc]
  <2>1. CASE r = record
    BY <1>1, <1>3, <2>1
  <2>2. CASE r \in seen /\ r.packet.ssrc # p.ssrc
    BY <1>2, <2>2 DEF HighestKept
  <2>3. CASE r \in seen /\ r.packet.ssrc = p.ssrc
    <3>1. r.seq \in Int /\ highest[p.ssrc] # None /\ r.seq <= highest[p.ssrc]
      BY <2>3 DEF HighestKept
    <3>2. highest'[p.ssrc] \in Int
      BY <1>3, <3>1
    <3> QED
      BY <1>1, <1>3, <2>3, <3>1, <3>2
  <2> QED
    BY <2>1, <2>2, <2>3
<1>5. ASSUME NEW s \in Streams, highest'[s] # None
      PROVE  \E r \in seen' : r.packet.ssrc = s /\ r.seq = highest'[s]
  <2>1. CASE s # p.ssrc
    BY <1>2, <1>5, <2>1 DEF HighestKept
  <2>2. CASE s = p.ssrc /\ highest'[s] = q
    BY <2>2
  <2>3. CASE s = p.ssrc /\ highest'[s] = highest[s]
    BY <1>5, <2>3 DEF HighestKept
  <2> QED
    BY <1>3, <2>1, <2>2, <2>3
<1> QED
  BY <1>4, <1>5 DEF HighestKept

LEMMA StoreKeepsSpace ==
  ASSUME RInv, HighestKept, SpaceOfStream, NEW p, Select(p), NEW q \in Int, NEW record,
         record.packet = p, record.seq = q, seen' = seen \cup {record}, p.ssrc # None,
         space' = IF stream' = p.ssrc THEN space \cup {q} ELSE space
  PROVE  SpaceOfStream'
<1>1. stream' = stream \/ (stream = None /\ stream' = p.ssrc)
  BY DEF Select
<1>2. space # {} => stream' = stream
  BY <1>1 DEF SpaceOfStream
<1>3. \A x \in space : x \in Int
  BY DEF SpaceOfStream, HighestKept
<1>4. CASE space' = space
  BY <1>2, <1>4 DEF SpaceOfStream
<1>5. CASE stream' = p.ssrc /\ space' = space \cup {q}
  <2>1. IsFiniteSet(space')
    BY <1>5, FS_AddElement DEF SpaceOfStream
  <2>2. \A x \in space' : stream' # None /\ \E r \in seen' : r.packet.ssrc = stream' /\ r.seq = x
    BY <1>2, <1>5 DEF SpaceOfStream
  <2>3. \E low, high \in space' : \A x \in space' : low <= x /\ x <= high
    <3>1. CASE space = {}
      BY <1>5, <3>1
    <3>2. CASE space # {}
      <4>1. PICK low \in space, high \in space : \A x \in space : low <= x /\ x <= high
        BY <3>2 DEF SpaceOfStream
      <4>2. low \in Int /\ high \in Int
        BY <1>3
      <4>3. CASE q < low
        BY <1>3, <1>5, <4>1, <4>2, <4>3
      <4>4. CASE q > high
        BY <1>3, <1>5, <4>1, <4>2, <4>4
      <4>5. CASE low <= q /\ q <= high
        BY <1>3, <1>5, <4>1, <4>2, <4>5
      <4> QED
        BY <4>2, <4>3, <4>4, <4>5
    <3> QED
      BY <3>1, <3>2
  <2> QED
    BY <2>1, <2>2, <2>3 DEF SpaceOfStream
<1> QED
  BY <1>4, <1>5

LEMMA StoreKeepsNewest ==
  ASSUME HighestKept, NewestKept, NEW p, NEW q \in Int, NEW record,
         record.packet = p, record.seq = q, record.audio = IsAudio(p), seen' = seen \cup {record},
         newest' = IF Newer(p, q) THEN [seq |-> q, packet |-> p] ELSE newest
  PROVE  NewestKept'
<1>1. \A r \in seen : r.seq \in Int
  BY DEF HighestKept
<1>2. q # None
  BY NoneIsNoNumber
<1>3. CASE Newer(p, q)
  <2>1. newest'.seq = q /\ newest'.packet = p /\ record.audio
    BY <1>3 DEF Newer
  <2>2. \A r \in seen : r.audio => r.seq <= q
    <3>1. CASE newest.seq = None
      BY <3>1 DEF NewestKept
    <3>2. CASE newest.seq # None /\ q > newest.seq
      <4>1. newest.seq \in Int
        BY <1>1, <3>2 DEF NewestKept
      <4> QED
        BY <1>1, <3>2, <4>1 DEF NewestKept
    <3> QED
      BY <1>3, <3>1, <3>2 DEF Newer
  <2> QED
    BY <1>2, <2>1, <2>2 DEF NewestKept
<1>4. CASE ~Newer(p, q)
  <2>1. newest' = newest
    BY <1>4
  <2>2. CASE ~IsAudio(p)
    BY <2>1, <2>2 DEF NewestKept
  <2>3. CASE newest.seq # None /\ ~(q > newest.seq)
    <3>1. newest.seq \in Int
      BY <1>1, <2>3 DEF NewestKept
    <3>2. q <= newest.seq
      BY <2>3, <3>1
    <3> QED
      BY <2>1, <2>3, <3>2 DEF NewestKept
  <2> QED
    BY <1>4, <2>2, <2>3 DEF Newer
<1> QED
  BY <1>3, <1>4

(* A packet of the wire or of a stranger that arrives.                     *)
Known(p) == p \in Strays \/ \E i \in DOMAIN wire : p = wire[i]

LEMMA StoreKeepsTracked ==
  ASSUME RInv, Tracked, NEW p, Arriving(p), Known(p), ~Refused(p), Select(p),
         NEW q \in Int, Store(p, q), UNCHANGED <<media, wire>>
  PROVE  Tracked'
<1>1. PICK record :
        /\ record.packet = p /\ record.seq = q /\ record.audio = IsAudio(p)
        /\ seen' = seen \cup {record}
        /\ highest' = [highest EXCEPT ![p.ssrc] = Raised(highest[p.ssrc], q)]
        /\ space' = IF stream' = p.ssrc THEN space \cup {q} ELSE space
        /\ newest' = IF Newer(p, q) THEN [seq |-> q, packet |-> p] ELSE newest
  BY StoreAdds
<1>4. p.ssrc # None
  BY StreamAssumption DEF Arriving
<1>5. FromSomewhere'
  BY <1>1 DEF Tracked, FromSomewhere, Known
<1>6. HighestKept'
  BY <1>1, StoreKeepsHighest DEF Tracked
<1>7. SpaceOfStream'
  BY <1>1, <1>4, StoreKeepsSpace DEF Tracked
<1>8. NewestKept'
  BY <1>1, StoreKeepsNewest DEF Tracked
<1>9. FromHost'
  BY <1>1 DEF Tracked, FromHost, Refused
<1> QED
  BY <1>5, <1>6, <1>7, <1>8, <1>9 DEF Tracked

LEMMA ReceiveKeepsTracked ==
  ASSUME RInv, Tracked, NEW p, Arriving(p), Known(p), Receive(p)
  PROVE  Tracked'
<1>1. UNCHANGED wire
  BY DEF Receive
<1>2. CASE UNCHANGED <<media, stream, codec, source, highest, highestTs, seen, space, newest,
                       dtmf, digits>>
  BY <1>1, <1>2 DEF Tracked, FromSomewhere, HighestKept, SpaceOfStream, NewestKept, FromHost
<1>3. CASE Select(p) /\ UNCHANGED <<media, highest, seen, space, newest>>
  <2>1. space # {} => stream' = stream
    BY <1>3 DEF Select, Tracked, SpaceOfStream
  <2> QED
    BY <1>1, <1>3, <2>1 DEF Tracked, FromSomewhere, HighestKept, SpaceOfStream, NewestKept, FromHost
<1>4. ASSUME ~Refused(p), Select(p), UNCHANGED media, NEW q \in Int, Store(p, q)
      PROVE  Tracked'
  BY <1>1, <1>4, StoreKeepsTracked
<1> QED
  BY <1>2, <1>3, <1>4, ReceiveCases

LEMMA NegotiateKeepsTracked ==
  ASSUME RInv, Tracked, NEW m \in Negotiations, Negotiate(m)
  PROVE  Tracked'
<1>1. /\ media' = m /\ \A r \in seen : Fits(r, m)
      /\ UNCHANGED <<stream, highest, seen, space, newest, wire>>
  BY DEF Negotiate, Configure
<1>2. FromHost'
  BY <1>1 DEF FromHost, Fits
<1> QED
  BY <1>1, <1>2 DEF Tracked, FromSomewhere, HighestKept, SpaceOfStream, NewestKept

(* Whatever arrives, the receiver's books agree with what it has kept.     *)
THEOREM BooksAgree == Spec => []Tracked
<1>1. Init => Tracked
  <2> SUFFICES ASSUME Init PROVE Tracked
    OBVIOUS
  <2>1. /\ highest = [s \in Streams |-> None] /\ seen = {} /\ space = {}
        /\ newest = [seq |-> None, packet |-> None]
    BY DEF Init, ReceiverInit
  <2> QED
    BY <2>1, FS_EmptySet
    DEF Tracked, FromSomewhere, HighestKept, SpaceOfStream, NewestKept, FromHost
<1>2. RInv /\ Progress /\ Counts /\ TimelineKept /\ Tracked /\ [Next]_vars => Tracked'
  <2> SUFFICES ASSUME RInv, Progress, Counts, TimelineKept, Tracked, [Next]_vars PROVE Tracked'
    OBVIOUS
  <2>1. CASE UNCHANGED receiver
    <3>1. FromSomewhere'
      BY <2>1, WireStays DEF Tracked, FromSomewhere
    <3> QED
      BY <2>1, <3>1 DEF Tracked, HighestKept, SpaceOfStream, NewestKept, FromHost
  <2>2. CASE Send
    BY <2>1, <2>2 DEF Send
  <2>3. ASSUME NEW i \in DOMAIN wire, Deliver(i) PROVE Tracked'
    BY <2>3, OwnPacketArrives, ReceiveKeepsTracked DEF Deliver, RInv, Known
  <2>4. ASSUME NEW p \in Strays, DeliverStray(p) PROVE Tracked'
    BY <2>4, StrayArrives, ReceiveKeepsTracked DEF DeliverStray, RInv, Known
  <2>5. ASSUME NEW m \in Negotiations, Negotiate(m) PROVE Tracked'
    BY <2>5, NegotiateKeepsTracked
  <2>6. ASSUME NEW m \in Negotiations, NegotiationFails(m) PROVE Tracked'
    BY <2>1, <2>6 DEF NegotiationFails
  <2> QED
    BY <2>1, <2>2, <2>3, <2>4, <2>5, <2>6 DEF Next, vars
<1> QED
  BY <1>1, <1>2, ReceiverInvariance, SenderInvariance, PTL DEF Spec

-----------------------------------------------------------------------------
(* Extended numbers. *)

(* The extended numbers of the sender's packets are the true ones but for  *)
(* a multiple of the modulus that is the same for all of them.             *)
Aligned ==
  OwnStream =>
    \E k \in Int : \A r \in Own : r.seq = (origin[1] + r.packet.n) + (SeqModulus * k)

(* What is known of a record of the sender's packets.                      *)
LEMMA OwnRecord ==
  ASSUME Tracked, Counts, Ordered, TimelineKept, NEW r \in seen
  PROVE  /\ r \in Own <=> r.packet.n # None
         /\ r \in Own <=> \E i \in DOMAIN wire : r.packet = wire[i]
         /\ r \in Own => /\ r.packet.n \in Nat /\ r.packet.n + 1 \in DOMAIN wire
                         /\ r.packet = wire[r.packet.n + 1] /\ r.packet \in Sendable
                         /\ r.packet.ssrc = Stream /\ r.packet.source = Endpoint
                         /\ r.packet.seq = (origin[1] + r.packet.n) % SeqModulus
         /\ r.seq \in Int
<1>1. r \in Own <=> r.packet.n # None
  BY DEF Own
<1>2. Len(wire) \in Nat /\ DOMAIN wire = 1 .. Len(wire)
  BY DEF Counts
<1>3. ASSUME NEW i \in DOMAIN wire, r.packet = wire[i]
      PROVE  /\ r.packet.n = i - 1 /\ r.packet.n \in Nat /\ r.packet.n + 1 = i
             /\ r.packet \in Sendable /\ r.packet.ssrc = Stream /\ r.packet.source = Endpoint
             /\ r.packet.seq = (origin[1] + r.packet.n) % SeqModulus
  <2>1. wire[i] \in Sendable
    BY DEF Counts
  <2>2. wire[i].n = i - 1
    BY DEF Ordered
  <2>3. wire[i].ssrc = Stream /\ wire[i].source = Endpoint
    BY <2>1 DEF Sendable
  <2>4. wire[i].seq = (origin[1] + wire[i].n) % SeqModulus
    BY DEF TimelineKept
  <2> QED
    BY <1>2, <1>3, <2>1, <2>2, <2>3, <2>4
<1>4. r.packet \in Strays => r.packet.n = None
  BY StraysAssumption
<1>5. r.packet \in Strays \/ \E i \in DOMAIN wire : r.packet = wire[i]
  BY DEF Tracked, FromSomewhere
<1>6. r.seq \in Int
  BY DEF Tracked, HighestKept
<1>7. (\E i \in DOMAIN wire : r.packet = wire[i]) => r.packet.n # None
  BY <1>3, NoneIsNoNumber
<1> QED
  BY <1>1, <1>3, <1>4, <1>5, <1>6, <1>7

(* As long as nobody intrudes, what is kept of the SSRC is the sender's.   *)
LEMMA OwnStreamBefore ==
  ASSUME RInv, OwnStream', seen \subseteq seen', UNCHANGED stream \/ stream = None
  PROVE  OwnStream
<1>1. stream \in {Stream, None}
  BY DEF OwnStream
<1>2. \A r \in seen : r.packet.ssrc = Stream => r \in Own
  BY DEF OwnStream, Own
<1> QED
  BY <1>1, <1>2 DEF OwnStream

(* The highest number kept of the stream is that of its newest packet.     *)
LEMMA NewestOwn ==
  ASSUME Progress, Counts, TimelineKept, Ordered, Tracked, Aligned, OwnStream
  PROVE  /\ highest[Stream] = None => Own = {}
         /\ highest[Stream] # None =>
              \E h \in Own : h.seq = highest[Stream] /\ \A r \in Own : r.packet.n <= h.packet.n
<1>1. \A r \in Own : r \in seen /\ r.packet.ssrc = Stream /\ r.seq \in Int /\ r.packet.n \in Nat
  BY OwnRecord DEF Own
<1>2. highest[Stream] = None => Own = {}
  BY <1>1 DEF Tracked, HighestKept
<1>3. ASSUME highest[Stream] # None
      PROVE  \E h \in Own : h.seq = highest[Stream] /\ \A r \in Own : r.packet.n <= h.packet.n
  <2>1. PICK h \in seen : h.packet.ssrc = Stream /\ h.seq = highest[Stream]
    BY <1>3, StreamAssumption DEF Tracked, HighestKept
  <2>2. h \in Own
    BY <2>1 DEF OwnStream
  <2>3. \A r \in Own : r.seq <= h.seq
    BY <1>1, <2>1 DEF Tracked, HighestKept
  <2>4. PICK k \in Int : \A r \in Own : r.seq = (origin[1] + r.packet.n) + (SeqModulus * k)
    BY DEF Aligned
  <2>5. PICK c \in Int : c = SeqModulus * k
    BY ConstantsAreNumbers
  <2>6. origin[1] \in Nat
    BY NumbersAreTyped
  <2>7. \A r \in Own : r.seq = (origin[1] + r.packet.n) + c
    BY <2>4, <2>5
  <2> QED
    BY <1>1, <2>1, <2>2, <2>3, <2>5, <2>6, <2>7
<1> QED
  BY <1>2, <1>3

(* Multiples of the modulus leave no trace in the remainder.               *)
LEMMA ModMultiple ==
  ASSUME NEW m \in Nat \ {0}, NEW a \in Int, NEW k \in Int
  PROVE  (a + (m * k)) % m = a % m
<1> DEFINE b == a + (m * k)
           p == a \div m
           r == a % m
           q == b \div m
           s == b % m
<1>1. b \in Int
  OBVIOUS
<1>2. p \in Int /\ r \in 0 .. m - 1 /\ a = (m * p) + r
  BY Division
<1>3. q \in Int /\ s \in 0 .. m - 1 /\ b = (m * q) + s
  BY <1>1, Division
<1>4. b = a + (m * k)
  OBVIOUS
<1> HIDE DEF b, p, r, q, s
<1>5. m * (p + k) = (m * p) + (m * k)
  BY <1>2
<1>6. PICK c \in Int : c = p + k
  BY <1>2
<1>7. (m * c) + r = (m * q) + s
  BY <1>2, <1>3, <1>4, <1>5, <1>6
<1>8. r = s
  BY <1>2, <1>3, <1>6, <1>7, DivisionUnique, Zenon
<1> QED
  BY <1>8 DEF b, r, s

(* A packet that arrives while outages are short gets its true number.     *)
LEMMA ExactNumber ==
  ASSUME Progress, Counts, TimelineKept, Ordered, Tracked, OwnStream, OutagesAreShort,
         Aligned, Own # {}, NEW i \in DOMAIN wire, i + MaxDelay >= Len(wire),
         NEW k \in Int, \A r \in Own : r.seq = (origin[1] + r.packet.n) + (SeqModulus * k)
  PROVE  Unwrap(wire[i].seq, highest[Stream], SeqModulus)
           = (origin[1] + wire[i].n) + (SeqModulus * k)
<1>1. Len(wire) \in Nat /\ DOMAIN wire = 1 .. Len(wire)
  BY DEF Counts
<1>2. wire[i].n = i - 1 /\ wire[i].n \in Nat /\ wire[i].seq = (origin[1] + wire[i].n) % SeqModulus
  BY <1>1 DEF Ordered, TimelineKept
<1>3. PICK h \in Own : h.seq = highest[Stream] /\ \A r \in Own : r.packet.n <= h.packet.n
  BY NewestOwn
<1>4. \A r \in Own : r.packet.n \in Nat /\ r.packet.n + 1 \in DOMAIN wire
  BY OwnRecord DEF Own
<1>5. PICK last \in Own : 2 * (Len(wire) - 1 - last.packet.n) < SeqModulus
  BY DEF OutagesAreShort
<1>6. SeqModulus \in Nat \ {0} /\ MaxDelay \in Nat /\ 2 * MaxDelay < SeqModulus
  BY ConstantsAreNumbers, StreamAssumption
<1>7. 2 * (wire[i].n - h.packet.n) < SeqModulus
  <2>1. PICK a \in Nat, b \in Nat : a = last.packet.n /\ b = h.packet.n /\ a <= b
    BY <1>3, <1>4
  <2>2. PICK w \in Nat, m \in Nat : w = Len(wire) /\ m = SeqModulus /\ i \in Nat /\ i <= w
    <3>1. Len(wire) \in Nat /\ SeqModulus \in Nat /\ i \in 1 .. Len(wire)
      BY <1>1, <1>6
    <3>2. i \in Nat /\ i <= Len(wire)
      BY <3>1
    <3> QED
      BY <3>1, <3>2, Zenon
  <2>3. PICK x \in Int, y \in Int : x = (w - 1) - a /\ y = (i - 1) - b /\ y <= x /\ 2 * x < m
    <3>1. \A u, v, p, r \in Int : /\ (u - 1) - p \in Int
                                 /\ v <= u /\ p <= r => (v - 1) - r <= (u - 1) - p
      OBVIOUS
    <3>2. w \in Int /\ i \in Int /\ a \in Int /\ b \in Int /\ i <= w /\ a <= b
      BY <2>1, <2>2
    <3>3. (w - 1) - a \in Int /\ (i - 1) - b \in Int /\ (i - 1) - b <= (w - 1) - a
      BY <3>1, <3>2
    <3> QED
      BY <1>5, <2>1, <2>2, <3>3, Zenon
  <2>4. 2 * y < m
    BY <2>2, <2>3
  <2> QED
    BY <1>2, <2>1, <2>2, <2>3, <2>4
<1>8. 2 * (h.packet.n - wire[i].n) < SeqModulus
  <2>1. h.packet.n + 1 <= Len(wire) /\ h.packet.n \in Nat
    BY <1>1, <1>4
  <2> QED
    BY <1>1, <1>2, <1>6, <2>1
<1>9. PICK start \in Nat : start = origin[1]
  BY NumbersAreTyped
<1>10. PICK c \in Int : c = SeqModulus * k
  BY <1>6
<1>11. PICK number \in Int : number = (start + wire[i].n) + c
  BY <1>2
<1>12. h.seq = (start + h.packet.n) + c /\ h.seq \in Int
  BY <1>4, <1>9, <1>10
<1>13. number % SeqModulus = wire[i].seq
  <2>1. PICK a \in Int : a = start + wire[i].n
    BY <1>2
  <2>2. (a + (SeqModulus * k)) % SeqModulus = a % SeqModulus
    BY <1>6, ModMultiple
  <2> QED
    BY <1>2, <1>9, <1>10, <1>11, <2>1, <2>2
<1>14. 2 * (number - h.seq) < SeqModulus /\ 2 * (h.seq - number) < SeqModulus
  <2>1. PICK a \in Int, b \in Int, d \in Int : a = wire[i].n /\ b = h.packet.n /\ d = h.seq
    BY <1>2, <1>4, <1>12
  <2>2. number = (start + a) + c /\ d = (start + b) + c
    BY <1>11, <1>12, <2>1
  <2>3. number - d = a - b /\ d - number = b - a
    BY <2>2
  <2> QED
    BY <1>7, <1>8, <2>1, <2>3
<1>15. Unwrap(number % SeqModulus, h.seq, SeqModulus) = number
  <2>1. h.seq # None
    BY <1>12, NoneIsNoNumber
  <2> QED
    BY <1>6, <1>12, <1>14, <2>1, UnwrapExact
<1> QED
  BY <1>3, <1>9, <1>10, <1>11, <1>13, <1>15

(* A packet that may arrive now.                                           *)
Due(p) == p \in Strays \/ \E i \in DOMAIN wire : p = wire[i] /\ i + MaxDelay >= Len(wire)

LEMMA StoreKeepsAligned ==
  ASSUME RInv, Progress, Counts, TimelineKept, Ordered, Tracked, Aligned, OutagesAreShort,
         NEW p, Arriving(p), Due(p), Select(p), UNCHANGED <<wire, origin>>,
         NEW q \in Int, q = Unwrap(p.seq, highest[p.ssrc], SeqModulus), Store(p, q)
  PROVE  Aligned'
<1> SUFFICES ASSUME OwnStream'
             PROVE  \E k \in Int : \A r \in Own' : r.seq = (origin[1] + r.packet.n) + (SeqModulus * k)
  BY DEF Aligned
<1>1. PICK record : /\ seen' = seen \cup {record} /\ record.packet = p /\ record.seq = q
  BY StoreAdds
<1>2. OwnStream
  BY <1>1, OwnStreamBefore DEF Select
<1>3. PICK k \in Int : \A r \in Own : r.seq = (origin[1] + r.packet.n) + (SeqModulus * k)
  BY <1>2 DEF Aligned
<1>4. CASE p \in Strays
  <2>1. Own' = Own
    BY <1>1, <1>4, StraysAssumption DEF Own
  <2> QED
    BY <1>3, <2>1
<1>5. ASSUME NEW i \in DOMAIN wire, p = wire[i], i + MaxDelay >= Len(wire)
      PROVE  \E j \in Int : \A r \in Own' : r.seq = (origin[1] + r.packet.n) + (SeqModulus * j)
  <2>1. Own' = Own \cup {record}
    <3>1. p.n \in Nat
      BY <1>5 DEF Counts, Sendable
    <3> QED
      BY <1>1, <3>1, NoneIsNoNumber DEF Own
  <2>2. p.ssrc = Stream
    BY <1>5 DEF Counts, Sendable
  <2>3. CASE Own # {}
    BY <1>1, <1>2, <1>3, <1>5, <2>1, <2>2, <2>3, ExactNumber
  <2>4. CASE Own = {}
    <3>1. highest[Stream] = None
      <4>1. highest[Stream] # None => \E h \in Own : h.seq = highest[Stream]
        BY <1>2, NewestOwn
      <4> QED
        BY <2>4, <4>1
    <3>2. q = p.seq
      BY <2>2, <3>1 DEF Unwrap
    <3>3. p.n \in Nat /\ p.seq = (origin[1] + p.n) % SeqModulus
      BY <1>5 DEF TimelineKept, Counts, Sendable
    <3>4. PICK a \in Int : a = origin[1] + p.n
      BY <3>3, NumbersAreTyped
    <3>5. a \div SeqModulus \in Int /\ a = (SeqModulus * (a \div SeqModulus)) + (a % SeqModulus)
          /\ a % SeqModulus \in Int
      <4>1. a \div SeqModulus \in Int /\ a = (SeqModulus * (a \div SeqModulus)) + (a % SeqModulus)
        BY ConstantsAreNumbers, Division
      <4>2. \A m \in Nat \ {0} : a % m \in Int
        OBVIOUS
      <4> QED
        BY <4>1, <4>2, ConstantsAreNumbers
    <3>6. PICK d \in Int : d = a \div SeqModulus
      BY <3>5
    <3>7. SeqModulus * (-d) = -(SeqModulus * d)
      BY ConstantsAreNumbers
    <3>8. PICK e \in Int, f \in Int : e = SeqModulus * d /\ f = a % SeqModulus
      BY <3>5, ConstantsAreNumbers
    <3>9. a = e + f
      BY <3>5, <3>6, <3>8
    <3>10. q = a + (SeqModulus * (-d))
      BY <3>2, <3>3, <3>4, <3>7, <3>8, <3>9
    <3>11. \A r \in Own' : r.seq = (origin[1] + r.packet.n) + (SeqModulus * (-d))
      BY <1>1, <2>1, <2>4, <3>4, <3>10
    <3> QED
      BY <3>11
  <2> QED
    BY <2>3, <2>4
<1> QED
  BY <1>4, <1>5 DEF Due

LEMMA ReceiveKeepsAligned ==
  ASSUME RInv, Progress, Counts, TimelineKept, Ordered, Tracked, Aligned, OutagesAreShort,
         NEW p, Arriving(p), Due(p), Receive(p)
  PROVE  Aligned'
<1>1. UNCHANGED <<wire, origin>>
  BY DEF Receive
<1>2. CASE UNCHANGED seen /\ (UNCHANGED stream \/ Select(p))
  <2>1. OwnStream' => OwnStream
    BY <1>2, OwnStreamBefore DEF Select
  <2> QED
    BY <1>1, <1>2, <2>1 DEF Aligned, Own
<1>3. ASSUME Select(p), NEW q \in Int, q = Unwrap(p.seq, highest[p.ssrc], SeqModulus), Store(p, q)
      PROVE  Aligned'
  BY <1>1, <1>3, StoreKeepsAligned
<1> QED
  BY <1>2, <1>3, ReceiveCases

(* While outages are short, extended numbers count packets, across wraps   *)
(* and reordering (unwrap16).                                              *)
THEOREM NumbersAligned == Spec /\ []OutagesAreShort => []Aligned
<1>1. Init => Aligned
  BY DEF Init, ReceiverInit, Aligned, Own
<1>2. /\ RInv /\ Progress /\ Counts /\ TimelineKept /\ Ordered /\ Tracked
      /\ Aligned /\ OutagesAreShort /\ [Next]_vars
      => Aligned'
  <2> SUFFICES ASSUME RInv, Progress, Counts, TimelineKept, Ordered, Tracked,
                      Aligned, OutagesAreShort, [Next]_vars
               PROVE  Aligned'
    OBVIOUS
  <2>1. CASE UNCHANGED <<seen, stream, origin>>
    BY <2>1 DEF Aligned, Own, OwnStream
  <2>2. CASE Send
    BY <2>1, <2>2 DEF Send, SenderNext, SendAudioFrame, SkipLateFrames, SendEventPacket
  <2>3. ASSUME NEW i \in DOMAIN wire, Deliver(i) PROVE Aligned'
    BY <2>3, OwnPacketArrives, ReceiveKeepsAligned DEF Deliver, RInv, Due
  <2>4. ASSUME NEW p \in Strays, DeliverStray(p) PROVE Aligned'
    BY <2>4, StrayArrives, ReceiveKeepsAligned DEF DeliverStray, RInv, Due
  <2>5. ASSUME NEW m \in Negotiations, Negotiate(m) PROVE Aligned'
    BY <2>1, <2>5 DEF Negotiate, Configure
  <2>6. ASSUME NEW m \in Negotiations, NegotiationFails(m) PROVE Aligned'
    BY <2>1, <2>6 DEF NegotiationFails
  <2> QED
    BY <2>1, <2>2, <2>3, <2>4, <2>5, <2>6 DEF Next, vars
<1> QED
  BY <1>1, <1>2, ReceiverInvariance, SenderInvariance, WireInOrder, BooksAgree, PTL DEF Spec

-----------------------------------------------------------------------------
(* What is counted as missing. *)

LEMMA MaxIs ==
  ASSUME NEW S, NEW m \in S, \A x \in S : x \in Int /\ x <= m
  PROVE  Max(S) = m
<1>1. \A x \in S : (\A y \in S : x >= y) => x = m
  OBVIOUS
<1>2. \A y \in S : m >= y
  OBVIOUS
<1> QED
  BY <1>1, <1>2, Zenon DEF Max

LEMMA MinIs ==
  ASSUME NEW S, NEW m \in S, \A x \in S : x \in Int /\ m <= x
  PROVE  Min(S) = m
<1>1. \A x \in S : (\A y \in S : x <= y) => x = m
  OBVIOUS
<1>2. \A y \in S : m <= y
  OBVIOUS
<1> QED
  BY <1>1, <1>2, Zenon DEF Min

(* As many numbers are missing from a set as from the same set shifted.    *)
Missing(S) == Cardinality((Min(S) .. Max(S)) \ S)

Shifted(S, c) == {x - c : x \in S}

LEMMA MissingShifted ==
  ASSUME NEW S \in SUBSET Int, IsFiniteSet(S), NEW low \in S, NEW high \in S,
         \A x \in S : low <= x /\ x <= high,
         NEW c \in Int, NEW T, T = Shifted(S, c)
  PROVE  /\ Min(S) = low /\ Max(S) = high /\ T # {}
         /\ Missing(T) = ((high - low) + 1) - Cardinality(S)
<1>1. Min(S) = low /\ Max(S) = high
  BY MinIs, MaxIs
<1>2. low \in Int /\ high \in Int /\ low <= high
  OBVIOUS
<1>3. PICK a \in Int, b \in Int : a = low - c /\ b = high - c
  OBVIOUS
<1>4. /\ a \in T /\ b \in T /\ T \subseteq Int
      /\ \A y \in T : a <= y /\ y <= b
  BY <1>3 DEF Shifted
<1>5. Min(T) = a /\ Max(T) = b
  BY <1>4, MinIs, MaxIs
<1>6. IsFiniteSet(T) /\ Cardinality(T) = Cardinality(S)
  <2> DEFINE f == [x \in S |-> x - c]
  <2>1. f \in [S -> T]
    BY DEF Shifted
  <2>2. \A x, y \in S : f[x] = f[y] => x = y
    OBVIOUS
  <2>3. \A y \in T : \E x \in S : f[x] = y
    BY DEF Shifted
  <2> HIDE DEF f
  <2>4. f \in Bijection(S, T)
    BY <2>1, <2>2, <2>3 DEF Bijection, Injection, IsInjective, Surjection
  <2> QED
    BY <2>4, FS_Bijection DEF ExistsBijection
<1>7. Cardinality((a .. b) \ T) = Cardinality(a .. b) - Cardinality(T)
  <2>1. (a .. b) \cap T = T
    BY <1>4
  <2>2. PICK D : D = a .. b
    OBVIOUS
  <2>3. IsFiniteSet(D)
    BY <2>2, FS_Interval
  <2>4. Cardinality(D \ T) = Cardinality(D) - Cardinality(D \cap T)
    BY <2>3, FS_Difference
  <2> QED
    BY <2>1, <2>2, <2>4
<1>8. Cardinality(a .. b) = (b - a) + 1 /\ b - a = high - low
  BY <1>2, <1>3, FS_Interval
<1>9. Missing(T) = Cardinality((a .. b) \ T)
  BY <1>5 DEF Missing
<1>10. Missing(T) = ((high - low) + 1) - Cardinality(S)
  BY <1>6, <1>7, <1>8, <1>9
<1> QED
  BY <1>1, <1>4, <1>10

LEMMA LossCounted ==
  ASSUME RInv, Progress, Counts, TimelineKept, Ordered, Tracked, Aligned
  PROVE  LossIsCountedExactly
<1> SUFFICES ASSUME OwnStream PROVE LossIsCountedExactly
  BY DEF LossIsCountedExactly
<1> DEFINE counted == {r.packet.n : r \in {o \in Own : o.seq \in space}}
           audio == {r.packet.n : r \in {o \in Own : o.audio}}
<1>1. PICK k \in Int : \A r \in Own : r.seq = (origin[1] + r.packet.n) + (SeqModulus * k)
  BY DEF Aligned
<1>2. PICK c \in Int : c = origin[1] + (SeqModulus * k)
  BY NumbersAreTyped, ConstantsAreNumbers
<1>3. \A r \in Own : r \in seen /\ r.packet.n \in Nat /\ r.seq \in Int
  BY OwnRecord DEF Own
<1>4. \A r \in Own : r.seq = r.packet.n + c /\ r.packet.n = r.seq - c
  <2> SUFFICES ASSUME NEW r \in Own PROVE r.seq = r.packet.n + c /\ r.packet.n = r.seq - c
    OBVIOUS
  <2>1. PICK n \in Int, d \in Int, e \in Int : n = r.packet.n /\ d = SeqModulus * k /\ e = origin[1]
    BY <1>3, NumbersAreTyped, ConstantsAreNumbers
  <2>2. r.seq = (e + n) + d /\ c = e + d
    BY <1>1, <1>2, <2>1
  <2> QED
    BY <2>1, <2>2
<1>5. \A x \in space : x \in Int /\ \E r \in Own : r.seq = x
  BY <1>3 DEF Tracked, SpaceOfStream, OwnStream
<1>6. MissingPackets = IF counted = {} THEN 0
                       ELSE Cardinality((Min(counted) .. Max(counted)) \ counted)
  <2>1. counted = Shifted(space, c)
    BY <1>4, <1>5 DEF Shifted
  <2> HIDE DEF counted
  <2>2. CASE space = {}
    BY <2>1, <2>2 DEF MissingPackets, Shifted
  <2>3. CASE space # {}
    <3>1. PICK low \in space, high \in space : \A x \in space : low <= x /\ x <= high
      BY <2>3 DEF Tracked, SpaceOfStream
    <3>2. space \in SUBSET Int /\ IsFiniteSet(space)
      BY <1>5 DEF Tracked, SpaceOfStream
    <3>3. /\ Min(space) = low /\ Max(space) = high /\ counted # {}
          /\ Missing(counted) = ((high - low) + 1) - Cardinality(space)
      BY <1>2, <2>1, <3>1, <3>2, MissingShifted, Zenon
    <3>4. MissingPackets = ((high - low) + 1) - Cardinality(space)
      <4>1. low \in Int /\ high \in Int /\ Cardinality(space) \in Nat
        BY <3>2, FS_CardinalityType
      <4>2. MissingPackets = (high - low) + (1 - Cardinality(space))
        BY <2>3, <3>3 DEF MissingPackets
      <4> QED
        BY <4>1, <4>2
    <3> QED
      BY <3>3, <3>4 DEF Missing
  <2> QED
    BY <2>2, <2>3
<1>7. ASSUME audio # {} PROVE newest.packet.n = Max(audio)
  <2>1. PICK r \in Own : r.audio
    BY <1>7
  <2>2. PICK m \in seen : /\ m.audio /\ newest.seq = m.seq /\ newest.packet = m.packet
                          /\ \A o \in seen : o.audio => o.seq <= m.seq
    BY <1>3, <2>1 DEF Tracked, NewestKept
  <2>3. m \in Own
    BY <2>2 DEF RInv, Chosen, OwnStream
  <2>4. m.packet.n \in audio /\ \A n \in audio : n \in Int /\ n <= m.packet.n
    <3>1. \A o \in Own : o.audio => o.packet.n <= m.packet.n
      <4> SUFFICES ASSUME NEW o \in Own, o.audio PROVE o.packet.n <= m.packet.n
        OBVIOUS
      <4>1. o.seq <= m.seq /\ o.seq \in Int /\ m.seq \in Int
        BY <1>3, <2>2, <2>3
      <4>2. o.packet.n = o.seq - c /\ m.packet.n = m.seq - c
        BY <1>4, <2>3
      <4> QED
        BY <4>1, <4>2
    <3> QED
      BY <1>3, <2>2, <2>3, <3>1
  <2> HIDE DEF audio
  <2> QED
    BY <2>2, <2>4, MaxIs
<1> QED
  BY <1>6, <1>7 DEF LossIsCountedExactly

(* The count of missing packets and the newest number are right, whatever  *)
(* is lost, repeated, reordered or wraps, as long as outages are shorter   *)
(* than half the sequence numbers (missingPackets, unwrap16).              *)
THEOREM LossCorrect == Spec /\ []OutagesAreShort => []LossIsCountedExactly
BY LossCounted, NumbersAligned, ReceiverInvariance, SenderInvariance, WireInOrder, BooksAgree, PTL

-----------------------------------------------------------------------------
(* What comes in time is kept. *)

(* Deliveries are counted for each packet on the wire.                     *)
Delivered == copies \in Seq(Nat) /\ Len(copies) = Len(wire)

LEMMA CopiesStep ==
  ASSUME Counts, Delivered, [Next]_vars
  PROVE  /\ Delivered'
         /\ \A i \in DOMAIN wire : copies'[i] > copies[i] => Deliver(i)
<1>1. /\ Len(wire) \in Nat /\ DOMAIN wire = 1 .. Len(wire) /\ DOMAIN copies = 1 .. Len(wire)
      /\ \A i \in DOMAIN wire : copies[i] \in Nat /\ ~(copies[i] > copies[i])
  BY DEF Counts, Delivered
<1>2. CASE UNCHANGED <<wire, copies>>
  BY <1>1, <1>2 DEF Delivered
<1>3. CASE Send
  <2>1. PICK zeros : /\ zeros = [i \in 1 .. Len(wire') - Len(wire) |-> 0]
                     /\ copies' = copies \o zeros
    BY <1>3 DEF Send
  <2>2. Len(wire') \in Nat /\ Len(wire') - Len(wire) \in Nat
    <3>1. CASE UNCHANGED wire
      BY <1>1, <3>1
    <3>2. ASSUME NEW packet, wire' = Append(wire, packet)
          PROVE  Len(wire') \in Nat /\ Len(wire') - Len(wire) \in Nat
      <4>1. wire \in Seq(Sendable \cup {packet}) /\ packet \in Sendable \cup {packet}
        BY DEF Counts
      <4>2. Len(wire') = Len(wire) + 1
        BY <3>2, <4>1, Appended
      <4> QED
        BY <1>1, <4>2
    <3> QED
      BY <1>3, <3>1, <3>2 DEF Send, SenderNext, SendAudioFrame, SkipLateFrames, SendEventPacket, Write
  <2>3. zeros \in Seq(Nat) /\ Len(zeros) = Len(wire') - Len(wire)
    BY <2>1, <2>2
  <2>4. copies' \in Seq(Nat) /\ Len(copies') = Len(wire')
    <3>1. \A s, t \in Seq(Nat) : s \o t \in Seq(Nat) /\ Len(s \o t) = Len(s) + Len(t)
      OBVIOUS
    <3>2. copies' \in Seq(Nat) /\ Len(copies') = Len(copies) + Len(zeros)
      BY <2>1, <2>3, <3>1 DEF Delivered
    <3> QED
      BY <1>1, <2>2, <2>3, <3>2 DEF Delivered
  <2>5. \A i \in DOMAIN wire : copies'[i] = copies[i]
    BY <1>1, <2>1, <2>3 DEF Delivered
  <2> QED
    BY <1>1, <2>4, <2>5 DEF Delivered
<1>4. ASSUME NEW j \in DOMAIN wire, Deliver(j)
      PROVE  /\ Delivered'
             /\ \A i \in DOMAIN wire : copies'[i] > copies[i] => i = j
  <2>1. UNCHANGED wire /\ copies' = [copies EXCEPT ![j] = copies[j] + 1]
    BY <1>4 DEF Deliver, Receive
  <2>2. \A i \in DOMAIN wire : i # j => copies'[i] = copies[i]
    BY <1>1, <2>1
  <2>3. copies' \in Seq(Nat) /\ Len(copies') = Len(copies)
    BY <1>1, <2>1 DEF Delivered
  <2>4. Delivered'
    BY <2>1, <2>3 DEF Delivered
  <2>5. \A i \in DOMAIN wire : copies'[i] > copies[i] => i = j
    BY <1>1, <2>2
  <2> QED
    BY <2>4, <2>5
<1> QED
  BY <1>2, <1>3, <1>4
  DEF Next, vars, DeliverStray, Receive, Negotiate, NegotiationFails

(* What is kept stays.                                                     *)
LEMMA ReceiveMonotonic ==
  ASSUME NEW p, Receive(p)
  PROVE  seen \subseteq seen'
<1>1. UNCHANGED seen \/ \E q : Store(p, q)
  BY DEF Receive, Accept
<1>2. ASSUME NEW q, Store(p, q) PROVE seen \subseteq seen'
  BY <1>2 DEF Store
<1> QED
  BY <1>1, <1>2

(* A packet of the sender that is neither early nor late and finds room is *)
(* stored, unless its number is that of a packet already kept: itself.     *)
LEMMA InTimeKept ==
  ASSUME RInv, Progress, Counts, TimelineKept, Ordered, Tracked, Aligned, OutagesAreShort,
         OwnStream, NEW i \in DOMAIN wire, Deliver(i), \E r \in Own : r.audio,
         IsAudio(wire[i]) \/ IsEvent(wire[i]),
         IsAudio(wire[i]) => media.audio[wire[i].payload] = codec,
         wire[i].n >= Max({r.packet.n : r \in Own}) - ReorderWindow,
         Cardinality(seen) < MaxRetained
  PROVE  \E r \in seen' : r.packet = wire[i]
<1> DEFINE p == wire[i]
<1>1. p.ssrc = Stream /\ p.source = Endpoint /\ p.n \in Nat /\ p.n = i - 1
  BY DEF Counts, Sendable, Ordered
<1>2. PICK a \in Own : a.audio
  OBVIOUS
<1>3. a \in seen /\ a.packet.source = Endpoint /\ a.packet.ssrc = Stream
  BY OwnRecord DEF Own
<1>4. stream = Stream /\ source = Endpoint
  BY <1>2, <1>3 DEF RInv, Chosen
<1>5. ~Refused(p)
  <2>1. media.host # None => p.source.host = media.host
    BY <1>1, <1>3 DEF Tracked, FromHost
  <2> QED
    BY <1>1, <1>4, <2>1 DEF Refused
<1>6. ~SwitchesCodec(p)
  BY DEF SwitchesCodec
<1> DEFINE q == Unwrap(p.seq, highest[p.ssrc], SeqModulus)
<1>7. PICK k \in Int : \A r \in Own : r.seq = (origin[1] + r.packet.n) + (SeqModulus * k)
  BY DEF Aligned
<1>8. q = (origin[1] + p.n) + (SeqModulus * k)
  BY <1>1, <1>2, <1>7, ExactNumber DEF Deliver
<1> HIDE DEF q
<1>9. PICK c \in Int, n \in Int : c = origin[1] + (SeqModulus * k) /\ n = p.n
  BY <1>1, NumbersAreTyped, ConstantsAreNumbers
<1>10. q = n + c /\ \A r \in Own : r.packet.n \in Nat /\ r.seq \in Int /\ r.seq = r.packet.n + c
  <2>1. PICK d \in Int, e \in Int : d = SeqModulus * k /\ e = origin[1]
    BY NumbersAreTyped, ConstantsAreNumbers
  <2>2. c = e + d /\ q = (e + n) + d
    BY <1>8, <1>9, <2>1
  <2>3. ASSUME NEW r \in Own
        PROVE  r.packet.n \in Nat /\ r.seq \in Int /\ r.seq = r.packet.n + c
    <3>1. r.packet.n \in Nat /\ r.seq \in Int
      BY OwnRecord DEF Own
    <3>2. r.seq = (e + r.packet.n) + d
      BY <1>7, <2>1
    <3> QED
      BY <2>2, <3>1, <3>2
  <2> QED
    BY <2>2, <2>3
<1>11. CASE Repeated(p, q)
  <2>1. PICK r \in seen : r.packet.ssrc = Stream /\ r.seq = q
    BY <1>1, <1>11 DEF Repeated
  <2>2. r \in Own
    BY <2>1 DEF OwnStream
  <2>3. r.packet.n = p.n
    BY <1>9, <1>10, <2>1, <2>2
  <2>4. r.packet = wire[r.packet.n + 1]
    BY <2>2, OwnRecord
  <2>5. p.n + 1 = i
    BY <1>1 DEF Counts
  <2>6. seen \subseteq seen'
    BY ReceiveMonotonic DEF Deliver
  <2> QED
    BY <2>3, <2>4, <2>5, <2>6
<1>12. ~TooLate(p, q)
  <2>1. PICK h \in Own : h.seq = highest[Stream] /\ \A r \in Own : r.packet.n <= h.packet.n
    BY <1>2, NewestOwn
  <2>2. Max({r.packet.n : r \in Own}) = h.packet.n
    <3>1. PICK S : S = {r.packet.n : r \in Own}
      OBVIOUS
    <3>2. h.packet.n \in S /\ \A x \in S : x \in Int /\ x <= h.packet.n
      BY <1>10, <2>1, <3>1
    <3> QED
      BY <3>1, <3>2, MaxIs
  <2>3. ReorderWindow \in Nat
    BY StreamAssumption
  <2> QED
    BY <1>1, <1>9, <1>10, <2>1, <2>2, <2>3 DEF TooLate
<1>13. CASE ~Repeated(p, q)
  <2>1. Accept(p)
    BY <1>5 DEF Deliver, Receive
  <2>2. Store(p, q)
    <3>1. ~(Cardinality(seen) >= MaxRetained)
      <4>1. Cardinality(seen) \in Nat /\ MaxRetained \in Nat
        BY FS_CardinalityType, StreamAssumption DEF RInv, Received
      <4> QED
        BY <4>1
    <3> QED
      BY <1>6, <1>12, <1>13, <2>1, <3>1 DEF Accept, q
  <2>3. PICK record : record.packet = p /\ record \in seen'
    BY <2>2 DEF Store
  <2> QED
    BY <2>3
<1> QED
  BY <1>11, <1>13

(* Nothing in time is dropped, also where numbers wrap or were skipped,    *)
(* while outages are shorter than half the numbers (accept, unwrap16).     *)
THEOREM InTimeCorrect == Spec /\ []OutagesAreShort => InTimeMeansKept
<1>1. Init => Delivered
  BY DEF Init, SenderInit, Delivered
<1>2. Counts /\ Delivered /\ [Next]_vars => Delivered'
  BY CopiesStep
<1>3. /\ RInv /\ Progress /\ Counts /\ TimelineKept /\ Ordered /\ Tracked /\ Aligned
      /\ OutagesAreShort /\ Delivered /\ [Next]_vars
      => [\A i \in DOMAIN wire :
            /\ copies'[i] > copies[i] /\ OwnStream /\ \E r \in Own : r.audio
            /\ IsAudio(wire[i]) \/ IsEvent(wire[i])
            /\ IsAudio(wire[i]) => media.audio[wire[i].payload] = codec
            /\ wire[i].n >= Max({r.packet.n : r \in Own}) - ReorderWindow
            /\ Cardinality(seen) < MaxRetained
            => \E r \in seen' : r.packet = wire[i]]_vars
  BY CopiesStep, InTimeKept
<1> QED
  BY <1>1, <1>2, <1>3, NumbersAligned, ReceiverInvariance, SenderInvariance, WireInOrder,
     BooksAgree, PTL DEF Spec, InTimeMeansKept

-----------------------------------------------------------------------------
(* The places of digits. *)

(* The digits take less time than the timestamps need to come round, which *)
(* is six days in the code.                                                *)
DigitsFit == Len(Digits) * EventSamples <= TsModulus

LEMMA Residues ==
  ASSUME NEW m \in Nat \ {0}, NEW a \in Int, NEW b \in Int, a < b, b < a + m
  PROVE  a % m # b % m
<1> DEFINE p == a \div m
           r == a % m
           q == b \div m
           s == b % m
<1>1. p \in Int /\ r \in 0 .. m - 1 /\ a = (m * p) + r
  BY Division
<1>2. q \in Int /\ s \in 0 .. m - 1 /\ b = (m * q) + s
  BY Division
<1> HIDE DEF p, r, q, s
<1> SUFFICES ASSUME r = s PROVE FALSE
  BY DEF r, s
<1>3. PICK k \in Int : k = q - p
  BY <1>1, <1>2
<1>4. m * k = (m * q) - (m * p)
  BY <1>1, <1>2, <1>3
<1>5. 0 < m * k /\ m * k < m
  BY <1>1, <1>2, <1>4
<1>6. k <= 0 => m * k <= 0
  BY <1>3
<1>7. k >= 1 => m * k >= m
  BY <1>3
<1> QED
  BY <1>3, <1>5, <1>6, <1>7

(* Digits are EventSamples apart or a multiple of them.                    *)
LEMMA EventStarts ==
  ASSUME NEW d \in 1 .. Len(Digits), NEW e \in 1 .. Len(Digits)
  PROVE  /\ EventStart(d) \in Nat
         /\ d < e => EventStart(d) < EventStart(e)
         /\ d < e /\ DigitsFit => EventStart(e) < EventStart(d) + TsModulus
<1>1. /\ Frames * FrameSamples \in Nat /\ EventSamples \in Nat /\ EventSamples > 0 /\ Len(Digits) \in Nat
      /\ TsModulus \in Nat
  BY ConstantsAreNumbers, SenderAssumption, Distribution
<1>2. PICK a \in Nat : a = d - 1
  BY <1>1
<1>3. a * EventSamples \in Nat /\ EventStart(d) = (Frames * FrameSamples) + (a * EventSamples)
  BY <1>1, <1>2, Distribution DEF EventStart
<1>4. ASSUME d < e
      PROVE  /\ EventStart(d) < EventStart(e)
             /\ DigitsFit => EventStart(e) < EventStart(d) + TsModulus
  <2>1. PICK k \in Nat, j \in Nat : k + 1 = e - d /\ Len(Digits) = (k + 1) + (j + 1)
    <3>1. PICK l \in Nat : l = Len(Digits)
      BY <1>1
    <3>2. /\ (e - d) - 1 \in Nat /\ (l - (e - d)) - 1 \in Nat
          /\ ((e - d) - 1) + 1 = e - d
          /\ l = (((e - d) - 1) + 1) + (((l - (e - d)) - 1) + 1)
      BY <1>4, <3>1
    <3> QED
      BY <3>1, <3>2, Zenon
  <2>2. PICK t \in Nat : t = k + 1
    OBVIOUS
  <2>3. e - 1 = a + t
    BY <1>2, <2>1, <2>2
  <2>4. (a + t) * EventSamples = (a * EventSamples) + (t * EventSamples) /\ t * EventSamples \in Nat
    BY <1>1, Distribution
  <2>5. EventStart(e) = (Frames * FrameSamples) + ((a * EventSamples) + (t * EventSamples))
    BY <2>3, <2>4 DEF EventStart
  <2>6. (k + 1) * EventSamples = (k * EventSamples) + (1 * EventSamples) /\ k * EventSamples \in Nat
    BY <1>1, Distribution
  <2>7. t * EventSamples > 0
    BY <1>1, <2>2, <2>6
  <2>8. DigitsFit => t * EventSamples < TsModulus
    <3>1. PICK v \in Nat : v = j + 1
      OBVIOUS
    <3>2. (t + v) * EventSamples = (t * EventSamples) + (v * EventSamples)
      BY <1>1, Distribution
    <3>3. (j + 1) * EventSamples = (j * EventSamples) + (1 * EventSamples) /\ j * EventSamples \in Nat
      BY <1>1, Distribution
    <3>4. v * EventSamples \in Nat /\ v * EventSamples > 0
      BY <1>1, <3>1, <3>3
    <3>5. Len(Digits) = t + v
      BY <2>1, <2>2, <3>1
    <3> QED
      BY <1>1, <2>4, <3>2, <3>4, <3>5 DEF DigitsFit
  <2> QED
    BY <1>1, <1>3, <2>4, <2>5, <2>7, <2>8
<1> QED
  BY <1>1, <1>3, <1>4

(* Different digits have different timestamps.                             *)
LEMMA DigitsApart ==
  ASSUME DigitsFit, Progress, NEW d \in 1 .. Len(Digits), NEW e \in 1 .. Len(Digits),
         (origin[2] + EventStart(d)) % TsModulus = (origin[2] + EventStart(e)) % TsModulus
  PROVE  d = e
<1>1. origin[2] \in Nat /\ TsModulus \in Nat \ {0}
  BY ConstantsAreNumbers DEF Progress
<1>2. d \in Int /\ e \in Int
  BY ConstantsAreNumbers
<1>3. ASSUME NEW a \in 1 .. Len(Digits), NEW b \in 1 .. Len(Digits), a < b
      PROVE  (origin[2] + EventStart(a)) % TsModulus # (origin[2] + EventStart(b)) % TsModulus
  <2>1. /\ EventStart(a) \in Nat /\ EventStart(b) \in Nat
        /\ EventStart(a) < EventStart(b) /\ EventStart(b) < EventStart(a) + TsModulus
    BY <1>3, EventStarts, Zenon
  <2>2. PICK o \in Nat, m \in Nat \ {0} : o = origin[2] /\ m = TsModulus
    BY <1>1
  <2>3. PICK p \in Nat, q \in Nat : /\ p = EventStart(a) /\ q = EventStart(b)
                                    /\ p < q /\ q < p + m
    BY <2>1, <2>2
  <2>4. o + p \in Int /\ o + q \in Int /\ o + p < o + q /\ o + q < (o + p) + m
    BY <2>3
  <2>5. (o + p) % m # (o + q) % m
    BY <2>4, Residues
  <2> QED
    BY <2>2, <2>3, <2>5
<1> QED
  BY <1>2, <1>3

-----------------------------------------------------------------------------
(* Telephone events. *)

(* The duration of an event that has ended.                                *)
Full == EventDurations[Len(EventDurations)]

(* A packet of digit d.                                                    *)
EventOf(p, d) ==
  /\ p.payload = EventPayload /\ p.at = EventStart(d)
  /\ EventId(p) = <<Stream, (origin[2] + EventStart(d)) % TsModulus, Digits[d]>>
  /\ p.body.digit \in 0 .. 15 /\ p.body.end \in BOOLEAN
  /\ p.body.duration \in Nat /\ p.body.duration <= Full
  /\ p.body.end => p.body.duration = Full

LEMMA EventOnWire ==
  ASSUME Counts, TimelineKept, Ordered, NEW i \in DOMAIN wire, wire[i].payload = EventPayload
  PROVE  \E d \in 1 .. Len(Digits) : EventOf(wire[i], d)
<1> DEFINE p == wire[i]
<1>1. OfEvent(p)
  BY SenderAssumption DEF Ordered, OfAudio
<1>2. PICK d \in 1 .. Len(Digits), k \in 1 .. Len(EventDurations) :
        /\ p.at = EventStart(d)
        /\ p.body = [digit |-> Digits[d], end |-> k >= FirstEnd, duration |-> EventDurations[k]]
  BY <1>1 DEF OfEvent
<1>3. p.ssrc = Stream /\ p.ts = (origin[2] + EventStart(d)) % TsModulus
  <2>1. p \in Sendable
    BY DEF Counts
  <2>2. p.ts = (origin[2] + p.at) % TsModulus
    BY DEF TimelineKept
  <2> QED
    BY <1>2, <2>1, <2>2 DEF Sendable
<1>4. Digits[d] \in 0 .. 15 /\ EventDurations[k] \in Nat
  BY ConstantsAreNumbers, ElementTyped
<1>5. EventDurations[k] <= Full /\ (k >= FirstEnd => EventDurations[k] = Full)
  BY ConstantsAreNumbers, SenderAssumption DEF Full
<1>6. p.body.digit = Digits[d] /\ p.body.end = (k >= FirstEnd) /\ p.body.duration = EventDurations[k]
  BY <1>2
<1> HIDE DEF p
<1>7. EventOf(p, d)
  <2>1. p.payload = EventPayload
    BY DEF p
  <2>2. EventId(p) = <<Stream, (origin[2] + EventStart(d)) % TsModulus, Digits[d]>>
    BY <1>3, <1>6 DEF EventId
  <2>3. (k >= FirstEnd) \in BOOLEAN
    <3>1. k \in Int /\ FirstEnd \in Int
      BY ConstantsAreNumbers, SenderAssumption
    <3>2. \A a, b \in Int : (a >= b) \in BOOLEAN
      OBVIOUS
    <3> QED
      BY <3>1, <3>2, Zenon
  <2>4. p.body.end \in BOOLEAN
    BY <1>6, <2>3, Zenon
  <2>5. p.body.end => p.body.duration = Full
    BY <1>5, <1>6, Zenon
  <2> QED
    BY <1>2, <1>4, <1>5, <1>6, <2>1, <2>2, <2>4, <2>5, Zenon DEF EventOf
<1> QED
  BY <1>7 DEF p

(* What holds of the body of an event that arrives.                        *)
Told(p) == IsEvent(p) => /\ p.body.digit \in 0 .. 15 \cup {None}
                         /\ p.body.end \in BOOLEAN /\ p.body.duration \in Nat

(* Of the sender's packets, those sent as events are received as events.   *)
LEMMA OwnPacketTold ==
  ASSUME Configured, Counts, TimelineKept, Ordered, NEW i \in DOMAIN wire
  PROVE  /\ Told(wire[i])
         /\ IsEvent(wire[i]) => wire[i].payload = EventPayload /\ ~IsAudio(wire[i])
<1>1. media \in Negotiations \cup {DefaultMedia}
  BY MediaIsConfiguration DEF Configurations
<1>2. media.event # AudioPayload /\ EventPayload \notin DOMAIN media.audio
  BY <1>1, NegotiationAssumption
<1>3. wire[i].payload \in {AudioPayload, EventPayload}
  BY DEF Counts, Sendable
<1>4. ASSUME IsEvent(wire[i]) PROVE wire[i].payload = EventPayload /\ ~IsAudio(wire[i])
  BY <1>2, <1>3, <1>4 DEF IsEvent, IsAudio
<1>5. ASSUME wire[i].payload = EventPayload PROVE Told(wire[i])
  BY <1>5, EventOnWire DEF EventOf, Told
<1> QED
  BY <1>4, <1>5 DEF Told

LEMMA StrayTold ==
  ASSUME Configured, NEW p \in Strays
  PROVE  Told(p)
<1>1. media \in Negotiations \cup {DefaultMedia}
  BY MediaIsConfiguration DEF Configurations
<1> QED
  BY <1>1, StraysAssumption DEF Told, IsEvent

(* A listed digit, and the event it is of.                                 *)
Listed == [digit : 0 .. 15, ts : 0 .. TsModulus - 1, ssrc : Streams, duration : Nat]

IdOf(e) == <<e.ssrc, e.ts, e.digit>>

(* The digits listed are the events with an index.                         *)
EventsListed ==
  /\ digits \in Seq(Listed)
  /\ \A id \in DOMAIN dtmf :
       /\ dtmf[id].duration \in Nat /\ dtmf[id].index \in 0 .. Len(digits)
       /\ dtmf[id].index # 0 => IdOf(digits[dtmf[id].index]) = id
  /\ \A i \in DOMAIN digits : IdOf(digits[i]) \in DOMAIN dtmf /\ dtmf[IdOf(digits[i])].index = i

(* The greater of two durations.                                           *)
LEMMA LongestIs ==
  ASSUME EventsListed, NEW p, p.body.duration \in Nat
  PROVE  /\ Longest(p) \in Nat /\ Longest(p) >= p.body.duration
         /\ \/ Longest(p) = p.body.duration
            \/ EventId(p) \in DOMAIN dtmf /\ Longest(p) = dtmf[EventId(p)].duration
<1>1. CASE EventId(p) \notin DOMAIN dtmf
  BY <1>1 DEF Longest
<1>2. CASE EventId(p) \in DOMAIN dtmf
  <2>1. PICK a \in Nat, b \in Nat : a = dtmf[EventId(p)].duration /\ b = p.body.duration
    BY <1>2 DEF EventsListed
  <2>2. Longest(p) = Max({a, b})
    BY <1>2, <2>1 DEF Longest
  <2>3. CASE a <= b
    <3>1. Max({a, b}) = b
      BY <2>3, MaxIs
    <3> QED
      BY <2>1, <2>2, <3>1
  <2>4. CASE b <= a
    <3>1. Max({a, b}) = a
      BY <2>4, MaxIs
    <3> QED
      BY <1>2, <2>1, <2>2, <2>4, <3>1
  <2> QED
    BY <2>3, <2>4
<1> QED
  BY <1>1, <1>2

(* What accepting a digit does: its event gets the greatest duration, and  *)
(* with the first end packet an index.                                     *)
EventTaken(p, e, index) ==
  /\ IdOf(e) = EventId(p) /\ e.duration >= p.body.duration
  /\ \/ e.duration = p.body.duration
     \/ EventId(p) \in DOMAIN dtmf /\ e.duration = dtmf[EventId(p)].duration
  /\ DOMAIN dtmf' = DOMAIN dtmf \cup {EventId(p)}
  /\ dtmf'[EventId(p)].duration = e.duration /\ dtmf'[EventId(p)].index = index
  /\ \A id \in DOMAIN dtmf : id # EventId(p) => dtmf'[id] = dtmf[id]
  /\ \/ /\ Emitted(p) /\ index = dtmf[EventId(p)].index
        /\ digits' = IF p.body.end THEN [digits EXCEPT ![index] = e] ELSE digits
     \/ ~Emitted(p) /\ p.body.end /\ index = Len(digits) + 1 /\ digits' = Append(digits, e)
     \/ ~Emitted(p) /\ ~p.body.end /\ index = 0 /\ digits' = digits

LEMMA EventAccepted ==
  ASSUME EventsListed, NEW p, Arriving(p), Told(p), IsEvent(p), AcceptDTMF(p), p.body.digit # None
  PROVE  \E e \in Listed, index \in Nat : EventTaken(p, e, index)
<1>1. /\ p.body.digit \in 0 .. 15 /\ p.body.end \in BOOLEAN /\ p.body.duration \in Nat
      /\ p.ts \in 0 .. TsModulus - 1 /\ p.ssrc \in Streams
  BY DEF Told, Arriving
<1> DEFINE e == Event(p, Longest(p))
<1>2. e \in Listed /\ IdOf(e) = EventId(p) /\ e.duration = Longest(p)
  BY <1>1, LongestIs DEF Event, Listed, IdOf, EventId
<1> HIDE DEF e
<1>3. ASSUME NEW index, dtmf' = Updated(p, index)
      PROVE  /\ DOMAIN dtmf' = DOMAIN dtmf \cup {EventId(p)}
             /\ dtmf'[EventId(p)].duration = e.duration /\ dtmf'[EventId(p)].index = index
             /\ \A id \in DOMAIN dtmf : id # EventId(p) => dtmf'[id] = dtmf[id]
  BY <1>2, <1>3 DEF Updated
<1>4. PICK index \in Nat :
        /\ dtmf' = Updated(p, index)
        /\ \/ /\ Emitted(p) /\ index = dtmf[EventId(p)].index
              /\ digits' = IF p.body.end THEN [digits EXCEPT ![index] = e] ELSE digits
           \/ ~Emitted(p) /\ p.body.end /\ index = Len(digits) + 1 /\ digits' = Append(digits, e)
           \/ ~Emitted(p) /\ ~p.body.end /\ index = 0 /\ digits' = digits
  <2>1. CASE Emitted(p)
    <3>1. dtmf[EventId(p)].index \in Nat
      BY <2>1 DEF Emitted, EventsListed
    <3> QED
      BY <1>1, <2>1, <3>1 DEF AcceptDTMF, e
  <2>2. CASE ~Emitted(p) /\ p.body.end
    <3>1. Len(digits) + 1 \in Nat
      BY DEF EventsListed
    <3> QED
      BY <2>2, <3>1 DEF AcceptDTMF, e
  <2>3. CASE ~Emitted(p) /\ ~p.body.end
    BY <2>3 DEF AcceptDTMF, e
  <2> QED
    BY <2>1, <2>2, <2>3
<1> QED
  <2>1. dtmf' = Updated(p, index)
    BY <1>4
  <2>2. /\ DOMAIN dtmf' = DOMAIN dtmf \cup {EventId(p)}
        /\ dtmf'[EventId(p)].duration = e.duration /\ dtmf'[EventId(p)].index = index
        /\ \A id \in DOMAIN dtmf : id # EventId(p) => dtmf'[id] = dtmf[id]
    BY <1>3, <2>1
  <2>3. /\ e.duration >= p.body.duration
        /\ \/ e.duration = p.body.duration
           \/ EventId(p) \in DOMAIN dtmf /\ e.duration = dtmf[EventId(p)].duration
    BY <1>1, <1>2, LongestIs
  <2>4. EventTaken(p, e, index)
    BY <1>2, <1>4, <2>2, <2>3, Zenon DEF EventTaken
  <2> QED
    BY <1>2, <2>4

LEMMA EventKeepsListed ==
  ASSUME EventsListed, NEW p, Arriving(p), Told(p), IsEvent(p), AcceptDTMF(p)
  PROVE  EventsListed'
<1>1. CASE p.body.digit = None
  BY <1>1 DEF AcceptDTMF, EventsListed
<1>2. CASE p.body.digit # None
  <2> DEFINE me == EventId(p)
  <2>0. PICK e \in Listed, index \in Nat : EventTaken(p, e, index)
    BY <1>2, EventAccepted
  <2>1. /\ IdOf(e) = me /\ DOMAIN dtmf' = DOMAIN dtmf \cup {me}
        /\ dtmf'[me].duration = e.duration /\ dtmf'[me].index = index
        /\ \A id \in DOMAIN dtmf : id # me => dtmf'[id] = dtmf[id]
        /\ \/ /\ Emitted(p) /\ index = dtmf[me].index
              /\ digits' = IF p.body.end THEN [digits EXCEPT ![index] = e] ELSE digits
           \/ ~Emitted(p) /\ p.body.end /\ index = Len(digits) + 1 /\ digits' = Append(digits, e)
           \/ ~Emitted(p) /\ ~p.body.end /\ index = 0 /\ digits' = digits
    BY <2>0 DEF EventTaken
  <2> HIDE DEF me
  <2>2. /\ Len(digits) \in Nat /\ DOMAIN digits = 1 .. Len(digits) /\ digits \in Seq(Listed)
        /\ e.duration \in Nat
    BY DEF EventsListed, Listed
  <2>3. Emitted(p) <=> me \in DOMAIN dtmf /\ dtmf[me].index # 0
    BY DEF Emitted, me
  <2>4. CASE Emitted(p)
    <3>1. index \in DOMAIN digits /\ IdOf(digits[index]) = me
      BY <2>1, <2>2, <2>3, <2>4 DEF EventsListed
    <3>2. /\ digits' \in Seq(Listed) /\ Len(digits') = Len(digits) /\ DOMAIN digits' = DOMAIN digits
          /\ \A i \in DOMAIN digits : IdOf(digits'[i]) = IdOf(digits[i])
      BY <2>1, <2>2, <2>4, <3>1
    <3>3. DOMAIN dtmf' = DOMAIN dtmf
      BY <2>1, <2>3, <2>4
    <3>4. \A id \in DOMAIN dtmf : dtmf'[id].index = dtmf[id].index /\ dtmf'[id].duration \in Nat
      BY <2>1, <2>2, <2>3, <2>4 DEF EventsListed
    <3>5. \A id \in DOMAIN dtmf' :
            /\ dtmf'[id].duration \in Nat /\ dtmf'[id].index \in 0 .. Len(digits')
            /\ dtmf'[id].index # 0 => IdOf(digits'[dtmf'[id].index]) = id
      BY <2>2, <3>2, <3>3, <3>4 DEF EventsListed
    <3>6. \A i \in DOMAIN digits' :
            IdOf(digits'[i]) \in DOMAIN dtmf' /\ dtmf'[IdOf(digits'[i])].index = i
      BY <3>2, <3>3, <3>4 DEF EventsListed
    <3> QED
      BY <3>2, <3>5, <3>6 DEF EventsListed
  <2>5. CASE ~Emitted(p) /\ ~p.body.end
    <3>1. \A id \in DOMAIN dtmf' :
            /\ dtmf'[id].duration \in Nat /\ dtmf'[id].index \in 0 .. Len(digits')
            /\ dtmf'[id].index # 0 => IdOf(digits'[dtmf'[id].index]) = id
      BY <2>1, <2>2, <2>5 DEF EventsListed
    <3>2. \A i \in DOMAIN digits' :
            IdOf(digits'[i]) \in DOMAIN dtmf' /\ dtmf'[IdOf(digits'[i])].index = i
      <4> SUFFICES ASSUME NEW i \in DOMAIN digits
                   PROVE  IdOf(digits[i]) \in DOMAIN dtmf' /\ dtmf'[IdOf(digits[i])].index = i
        BY <2>1, <2>5
      <4>1. IdOf(digits[i]) \in DOMAIN dtmf /\ dtmf[IdOf(digits[i])].index = i /\ i # 0
        BY <2>2 DEF EventsListed
      <4>2. IdOf(digits[i]) # me
        BY <2>3, <2>5, <4>1
      <4> QED
        BY <2>1, <4>1, <4>2
    <3> QED
      BY <2>1, <2>2, <2>5, <3>1, <3>2 DEF EventsListed
  <2>6. CASE ~Emitted(p) /\ p.body.end
    <3>1. /\ digits' \in Seq(Listed) /\ Len(digits') = Len(digits) + 1
          /\ DOMAIN digits' = 1 .. Len(digits) + 1 /\ index = Len(digits) + 1
          /\ \A i \in 1 .. Len(digits) : digits'[i] = digits[i]
          /\ digits'[Len(digits) + 1] = e
      BY <2>1, <2>2, <2>6, Appended
    <3>2. \A id \in DOMAIN dtmf' :
            /\ dtmf'[id].duration \in Nat /\ dtmf'[id].index \in 0 .. Len(digits')
            /\ dtmf'[id].index # 0 => IdOf(digits'[dtmf'[id].index]) = id
      <4> SUFFICES ASSUME NEW id \in DOMAIN dtmf'
                   PROVE  /\ dtmf'[id].duration \in Nat /\ dtmf'[id].index \in 0 .. Len(digits')
                          /\ dtmf'[id].index # 0 => IdOf(digits'[dtmf'[id].index]) = id
        OBVIOUS
      <4>1. CASE id = me
        <5>1. dtmf'[id].duration = e.duration /\ dtmf'[id].index = Len(digits) + 1
          BY <2>1, <3>1, <4>1
        <5>2. digits'[dtmf'[id].index] = e
          BY <3>1, <5>1
        <5>3. Len(digits) + 1 \in 0 .. Len(digits')
          BY <2>2, <3>1
        <5> QED
          BY <2>1, <2>2, <4>1, <5>1, <5>2, <5>3
      <4>2. CASE id # me
        <5>1. id \in DOMAIN dtmf /\ dtmf'[id] = dtmf[id]
          BY <2>1, <4>2
        <5>2. dtmf[id].index \in 0 .. Len(digits)
          BY <5>1 DEF EventsListed
        <5> QED
          BY <2>2, <3>1, <5>1, <5>2 DEF EventsListed
      <4> QED
        BY <4>1, <4>2
    <3>3. \A i \in DOMAIN digits' :
            IdOf(digits'[i]) \in DOMAIN dtmf' /\ dtmf'[IdOf(digits'[i])].index = i
      <4> SUFFICES ASSUME NEW i \in DOMAIN digits'
                   PROVE  IdOf(digits'[i]) \in DOMAIN dtmf' /\ dtmf'[IdOf(digits'[i])].index = i
        OBVIOUS
      <4>1. CASE i = Len(digits) + 1
        BY <2>1, <3>1, <4>1
      <4>2. CASE i \in 1 .. Len(digits)
        <5>1. IdOf(digits[i]) \in DOMAIN dtmf /\ dtmf[IdOf(digits[i])].index = i /\ i # 0
              /\ digits'[i] = digits[i]
          BY <2>2, <3>1, <4>2 DEF EventsListed
        <5>2. IdOf(digits[i]) # me
          BY <2>3, <2>6, <5>1
        <5> QED
          BY <2>1, <5>1, <5>2
      <4> QED
        BY <2>2, <3>1, <4>1, <4>2
    <3> QED
      BY <3>1, <3>2, <3>3 DEF EventsListed
  <2> QED
    BY <2>4, <2>5, <2>6
<1> QED
  BY <1>1, <1>2

(* As long as nobody intrudes, each event of the sender that was accepted  *)
(* is known, listed if an end packet was among its packets, and listed     *)
(* with its full duration only then.                                       *)
OwnEvents ==
  OwnStream =>
    /\ \A r \in Own : ~r.audio =>
         /\ r.packet.payload = EventPayload
         /\ EventId(r.packet) \in DOMAIN dtmf
         /\ r.packet.body.end => dtmf[EventId(r.packet)].index # 0
    /\ \A id \in DOMAIN dtmf : id[1] = Stream =>
         /\ dtmf[id].duration <= Full
         /\ dtmf[id].index # 0 =>
              /\ digits[dtmf[id].index].duration = Full
              /\ \E r \in Own : ~r.audio /\ r.packet.body.end /\ EventId(r.packet) = id

(* A packet of the sender that is accepted.                                *)
LEMMA OwnEventAccepted ==
  ASSUME RInv, EventsListed, OwnEvents, OwnStream, NEW p, p.ssrc = Stream,
         Arriving(p), Told(p), IsEvent(p), AcceptDTMF(p),
         NEW d \in 1 .. Len(Digits), EventOf(p, d), UNCHANGED origin,
         NEW record, record.packet = p, ~record.audio, record \in Own',
         Own' = Own \cup {record}
  PROVE  /\ \A r \in Own' : ~r.audio =>
              /\ r.packet.payload = EventPayload
              /\ EventId(r.packet) \in DOMAIN dtmf'
              /\ r.packet.body.end => dtmf'[EventId(r.packet)].index # 0
         /\ \A id \in DOMAIN dtmf' : id[1] = Stream =>
              /\ dtmf'[id].duration <= Full
              /\ dtmf'[id].index # 0 =>
                   /\ digits'[dtmf'[id].index].duration = Full
                   /\ \E r \in Own' : ~r.audio /\ r.packet.body.end /\ EventId(r.packet) = id
<1> DEFINE me == EventId(p)
<1>1. /\ p.body.digit # None /\ p.body.end \in BOOLEAN /\ p.payload = EventPayload
      /\ p.body.duration \in Nat /\ p.body.duration <= Full
      /\ p.body.end => p.body.duration = Full
  <2>1. /\ p.body.digit \in 0 .. 15 /\ p.body.end \in BOOLEAN /\ p.payload = EventPayload
        /\ p.body.duration \in Nat /\ p.body.duration <= Full
        /\ p.body.end => p.body.duration = Full
    BY Zenon DEF EventOf
  <2>2. \A x \in 0 .. 15 : x # None
    BY NoneIsNoNumber
  <2> QED
    BY <2>1, <2>2, Zenon
<1>0. PICK e \in Listed, index \in Nat : EventTaken(p, e, index)
  BY <1>1, EventAccepted
<1>2. /\ IdOf(e) = me /\ e.duration >= p.body.duration
      /\ \/ e.duration = p.body.duration
         \/ me \in DOMAIN dtmf /\ e.duration = dtmf[me].duration
      /\ DOMAIN dtmf' = DOMAIN dtmf \cup {me}
      /\ dtmf'[me].duration = e.duration /\ dtmf'[me].index = index
      /\ \A id \in DOMAIN dtmf : id # me => dtmf'[id] = dtmf[id]
      /\ \/ /\ Emitted(p) /\ index = dtmf[me].index
            /\ digits' = IF p.body.end THEN [digits EXCEPT ![index] = e] ELSE digits
         \/ ~Emitted(p) /\ p.body.end /\ index = Len(digits) + 1 /\ digits' = Append(digits, e)
         \/ ~Emitted(p) /\ ~p.body.end /\ index = 0 /\ digits' = digits
  BY <1>0 DEF EventTaken
<1>3. me[1] = Stream
  BY DEF EventId
<1> HIDE DEF me
<1>4. /\ Len(digits) \in Nat /\ DOMAIN digits = 1 .. Len(digits) /\ digits \in Seq(Listed)
      /\ e.duration \in Nat /\ Full \in Nat
  BY ConstantsAreNumbers DEF EventsListed, Listed, Full
<1>5. Emitted(p) <=> me \in DOMAIN dtmf /\ dtmf[me].index # 0
  BY DEF Emitted, me
<1>6. e.duration <= Full /\ (p.body.end => e.duration = Full)
  <2>1. e.duration <= Full
    BY <1>1, <1>2, <1>3 DEF OwnEvents
  <2> QED
    BY <1>1, <1>2, <1>4, <2>1
<1>7. p.body.end => index # 0
  BY <1>2, <1>4, <1>5
<1>8. \A id \in DOMAIN dtmf : dtmf[id].index # 0 => dtmf'[id].index = dtmf[id].index
  BY <1>2, <1>5
<1>9. \A r \in Own' : ~r.audio =>
        /\ r.packet.payload = EventPayload
        /\ EventId(r.packet) \in DOMAIN dtmf'
        /\ r.packet.body.end => dtmf'[EventId(r.packet)].index # 0
  <2>1. \A r \in Own : ~r.audio =>
          /\ r.packet.payload = EventPayload
          /\ EventId(r.packet) \in DOMAIN dtmf
          /\ r.packet.body.end => dtmf[EventId(r.packet)].index # 0
    BY DEF OwnEvents
  <2> QED
    BY <1>1, <1>2, <1>7, <1>8, <2>1 DEF me
<1>10. ASSUME NEW id \in DOMAIN dtmf', id[1] = Stream
       PROVE  /\ dtmf'[id].duration <= Full
              /\ dtmf'[id].index # 0 =>
                   /\ digits'[dtmf'[id].index].duration = Full
                   /\ \E r \in Own' : ~r.audio /\ r.packet.body.end /\ EventId(r.packet) = id
  <2>1. CASE id # me
    <3>1. id \in DOMAIN dtmf /\ dtmf'[id] = dtmf[id]
      BY <1>2, <2>1
    <3>2. /\ dtmf[id].duration <= Full
          /\ dtmf[id].index # 0 =>
               /\ digits[dtmf[id].index].duration = Full
               /\ \E r \in Own : ~r.audio /\ r.packet.body.end /\ EventId(r.packet) = id
      BY <1>10, <3>1 DEF OwnEvents
    <3>3. ASSUME dtmf[id].index # 0 PROVE digits'[dtmf[id].index] = digits[dtmf[id].index]
      <4>1. dtmf[id].index \in DOMAIN digits /\ IdOf(digits[dtmf[id].index]) = id
        BY <1>4, <3>1, <3>3 DEF EventsListed
      <4>2. Emitted(p) => dtmf[id].index # index
        BY <1>2, <1>5, <2>1, <4>1 DEF EventsListed
      <4>3. ~Emitted(p) /\ p.body.end => digits'[dtmf[id].index] = digits[dtmf[id].index]
        BY <1>2, <1>4, <4>1, Appended
      <4>4. Emitted(p) => digits'[dtmf[id].index] = digits[dtmf[id].index]
        BY <1>2, <1>4, <4>1, <4>2
      <4> QED
        BY <1>1, <1>2, <4>3, <4>4
    <3> QED
      BY <3>1, <3>2, <3>3
  <2>2. CASE id = me
    <3>1. ASSUME index # 0
          PROVE  /\ digits'[index].duration = Full
                 /\ \E r \in Own' : ~r.audio /\ r.packet.body.end /\ EventId(r.packet) = me
      <4>1. CASE p.body.end
        <5>1. digits'[index] = e
          <6>1. CASE Emitted(p)
            <7>1. index \in DOMAIN digits
              BY <1>2, <1>4, <1>5, <3>1, <6>1 DEF EventsListed
            <7> QED
              BY <1>2, <1>4, <4>1, <6>1, <7>1
          <6>2. CASE ~Emitted(p)
            BY <1>2, <1>4, <4>1, <6>2, Appended
          <6> QED
            BY <6>1, <6>2
        <5> QED
          BY <1>6, <4>1, <5>1 DEF me
      <4>2. CASE ~p.body.end
        <5>1. Emitted(p) /\ digits' = digits /\ index = dtmf[me].index /\ me \in DOMAIN dtmf
          BY <1>2, <1>5, <3>1, <4>2
        <5> QED
          BY <1>3, <3>1, <5>1 DEF OwnEvents
      <4> QED
        BY <4>1, <4>2
    <3> QED
      BY <1>2, <1>6, <2>2, <3>1
  <2> QED
    BY <2>1, <2>2
<1> QED
  BY <1>9, <1>10

LEMMA StoreKeepsEvents ==
  ASSUME RInv, Progress, Counts, TimelineKept, Ordered, Tracked, EventsListed, OwnEvents,
         NEW p, Arriving(p), Told(p), Known(p), ~Refused(p), Select(p), UNCHANGED <<wire, origin>>,
         NEW q \in Int, Store(p, q)
  PROVE  EventsListed' /\ OwnEvents'
<1>1. PICK record : /\ record.packet = p /\ record.audio = IsAudio(p)
                    /\ seen' = seen \cup {record}
                    /\ IF IsEvent(p) THEN AcceptDTMF(p) ELSE UNCHANGED <<dtmf, digits>>
  BY StoreAdds
<1>2. EventsListed'
  BY <1>1, EventKeepsListed DEF EventsListed
<1>3. ASSUME OwnStream'
      PROVE  /\ \A r \in Own' : ~r.audio =>
                  /\ r.packet.payload = EventPayload
                  /\ EventId(r.packet) \in DOMAIN dtmf'
                  /\ r.packet.body.end => dtmf'[EventId(r.packet)].index # 0
             /\ \A id \in DOMAIN dtmf' : id[1] = Stream =>
                  /\ dtmf'[id].duration <= Full
                  /\ dtmf'[id].index # 0 =>
                       /\ digits'[dtmf'[id].index].duration = Full
                       /\ \E r \in Own' : ~r.audio /\ r.packet.body.end /\ EventId(r.packet) = id
  <2>1. OwnStream
    BY <1>1, <1>3, OwnStreamBefore DEF Select
  <2>2. ASSUME p \in Strays
        PROVE  Own' = Own /\ p.ssrc # Stream
    <3>1. Own' = Own
      BY <1>1, <2>2, StraysAssumption DEF Own
    <3>2. record \in seen' /\ record \notin Own'
      BY <1>1, <2>2, StraysAssumption DEF Own
    <3> QED
      BY <1>1, <1>3, <3>1, <3>2 DEF OwnStream
  <2>3. CASE p \in Strays /\ (~IsEvent(p) \/ p.body.digit = None)
    <3>1. UNCHANGED <<dtmf, digits>>
      BY <1>1, <2>3 DEF AcceptDTMF
    <3> QED
      BY <2>1, <2>2, <2>3, <3>1 DEF OwnEvents
  <2>4. CASE p \in Strays /\ IsEvent(p) /\ p.body.digit # None
    <3> DEFINE me == EventId(p)
    <3>0. PICK e \in Listed, index \in Nat : EventTaken(p, e, index)
      <4>1. AcceptDTMF(p)
        BY <1>1, <2>4
      <4> QED
        BY <2>4, <4>1, EventAccepted
    <3>1. /\ DOMAIN dtmf' = DOMAIN dtmf \cup {me}
          /\ \A id \in DOMAIN dtmf : id # me => dtmf'[id] = dtmf[id]
          /\ \/ /\ Emitted(p) /\ index = dtmf[me].index
                /\ digits' = IF p.body.end THEN [digits EXCEPT ![index] = e] ELSE digits
             \/ ~Emitted(p) /\ p.body.end /\ index = Len(digits) + 1 /\ digits' = Append(digits, e)
             \/ ~Emitted(p) /\ ~p.body.end /\ index = 0 /\ digits' = digits
      BY <3>0 DEF EventTaken
    <3>2. me[1] # Stream
      BY <2>2, <2>4 DEF EventId
    <3>3. Emitted(p) => me \in DOMAIN dtmf
      BY DEF Emitted
    <3>4. \A r \in Own : ~r.audio => EventId(r.packet)[1] = Stream
      BY OwnRecord DEF EventId, Own
    <3> HIDE DEF me
    <3>5. ASSUME NEW id \in DOMAIN dtmf', id[1] = Stream
          PROVE  /\ id \in DOMAIN dtmf /\ dtmf'[id] = dtmf[id]
                 /\ dtmf[id].index # 0 => digits'[dtmf[id].index] = digits[dtmf[id].index]
      <4>1. id \in DOMAIN dtmf /\ dtmf'[id] = dtmf[id] /\ id # me
        BY <3>1, <3>2, <3>5
      <4>2. ASSUME dtmf[id].index # 0 PROVE digits'[dtmf[id].index] = digits[dtmf[id].index]
        <5>1. digits \in Seq(Listed) /\ dtmf[id].index \in 1 .. Len(digits)
          BY <4>1, <4>2 DEF EventsListed
        <5>2. Emitted(p) => dtmf[id].index # index
          BY <3>1, <3>3, <4>1, <4>2 DEF EventsListed, Emitted, me
        <5>3. digits' = Append(digits, e) => digits'[dtmf[id].index] = digits[dtmf[id].index]
          BY <5>1, Appended
        <5>4. Emitted(p) => digits'[dtmf[id].index] = digits[dtmf[id].index]
          BY <3>1, <5>1, <5>2
        <5> QED
          BY <3>1, <5>3, <5>4
      <4> QED
        BY <4>1, <4>2
    <3>6. \A r \in Own : ~r.audio =>
            /\ r.packet.payload = EventPayload
            /\ EventId(r.packet) \in DOMAIN dtmf'
            /\ r.packet.body.end => dtmf'[EventId(r.packet)].index # 0
      BY <2>1, <3>1, <3>2, <3>4 DEF OwnEvents
    <3>7. \A id \in DOMAIN dtmf' : id[1] = Stream =>
            /\ dtmf'[id].duration <= Full
            /\ dtmf'[id].index # 0 =>
                 /\ digits'[dtmf'[id].index].duration = Full
                 /\ \E r \in Own : ~r.audio /\ r.packet.body.end /\ EventId(r.packet) = id
      BY <2>1, <3>5 DEF OwnEvents
    <3> QED
      BY <2>2, <2>4, <3>6, <3>7
  <2>5. ASSUME NEW i \in DOMAIN wire, p = wire[i]
        PROVE  Own' = Own \cup {record} /\ p.ssrc = Stream
    <3>1. p.n \in Nat /\ p.ssrc = Stream
      <4>1. p \in Sendable
        BY <2>5 DEF Counts
      <4> QED
        BY <4>1 DEF Sendable
    <3> QED
      BY <1>1, <3>1, NoneIsNoNumber DEF Own
  <2>6. ASSUME NEW i \in DOMAIN wire, p = wire[i], IsEvent(p)
        PROVE  \E d \in 1 .. Len(Digits) : EventOf(p, d) /\ ~IsAudio(p)
    BY <2>6, OwnPacketTold, EventOnWire DEF RInv
  <2>7. ASSUME NEW i \in DOMAIN wire, p = wire[i], ~IsEvent(p)
        PROVE  IsAudio(p) /\ UNCHANGED <<dtmf, digits>>
    BY <1>1, <2>7 DEF Refused
  <2>8. CASE p \notin Strays /\ ~IsEvent(p)
    BY <1>1, <2>1, <2>5, <2>7, <2>8 DEF Known, OwnEvents
  <2>9. CASE p \notin Strays /\ IsEvent(p)
    <3>1. PICK i \in DOMAIN wire : p = wire[i]
      BY <2>9 DEF Known
    <3>2. PICK d \in 1 .. Len(Digits) : EventOf(p, d) /\ ~IsAudio(p)
      BY <2>6, <2>9, <3>1
    <3>3. AcceptDTMF(p) /\ ~record.audio /\ Own' = Own \cup {record} /\ record \in Own'
          /\ p.ssrc = Stream
      BY <1>1, <2>5, <2>9, <3>1, <3>2
    <3> QED
      BY <1>1, <2>1, <2>9, <3>2, <3>3, OwnEventAccepted
  <2> QED
    BY <2>3, <2>4, <2>8, <2>9
<1> QED
  BY <1>2, <1>3 DEF OwnEvents

LEMMA ReceiveKeepsEvents ==
  ASSUME RInv, Progress, Counts, TimelineKept, Ordered, Tracked, EventsListed, OwnEvents,
         NEW p, Arriving(p), Told(p), Known(p), Receive(p)
  PROVE  EventsListed' /\ OwnEvents'
<1>1. UNCHANGED <<wire, origin>>
  BY DEF Receive
<1>2. CASE UNCHANGED <<seen, dtmf, digits>> /\ (UNCHANGED stream \/ Select(p))
  <2>1. OwnStream' => OwnStream
    BY <1>2, OwnStreamBefore DEF Select
  <2> QED
    BY <1>1, <1>2, <2>1 DEF EventsListed, OwnEvents, Own
<1>3. ASSUME ~Refused(p), Select(p), NEW q \in Int, Store(p, q)
      PROVE  EventsListed' /\ OwnEvents'
  BY <1>1, <1>3, StoreKeepsEvents
<1> QED
  BY <1>2, <1>3, ReceiveCases

(* The list of digits and the table of events agree, and what they say of  *)
(* the sender's events is what has been accepted of them (acceptDTMF).     *)
THEOREM EventsAgree == Spec => [](EventsListed /\ OwnEvents)
<1>1. Init => EventsListed /\ OwnEvents
  <2> SUFFICES ASSUME Init PROVE EventsListed /\ OwnEvents
    OBVIOUS
  <2>1. digits = <<>> /\ dtmf = <<>> /\ seen = {}
    BY DEF Init, ReceiverInit
  <2>2. digits \in Seq(Listed) /\ DOMAIN digits = {} /\ DOMAIN dtmf = {} /\ Own = {}
    BY <2>1 DEF Own
  <2> QED
    BY <2>2 DEF EventsListed, OwnEvents
<1>2. /\ RInv /\ Progress /\ Counts /\ TimelineKept /\ Ordered /\ Tracked
      /\ EventsListed /\ OwnEvents /\ [Next]_vars
      => EventsListed' /\ OwnEvents'
  <2> SUFFICES ASSUME RInv, Progress, Counts, TimelineKept, Ordered, Tracked,
                      EventsListed, OwnEvents, [Next]_vars
               PROVE  EventsListed' /\ OwnEvents'
    OBVIOUS
  <2>1. CASE UNCHANGED <<seen, stream, dtmf, digits>>
    BY <2>1 DEF EventsListed, OwnEvents, Own, OwnStream
  <2>2. CASE Send
    BY <2>1, <2>2 DEF Send
  <2>3. ASSUME NEW i \in DOMAIN wire, Deliver(i) PROVE EventsListed' /\ OwnEvents'
    BY <2>3, OwnPacketArrives, OwnPacketTold, ReceiveKeepsEvents DEF Deliver, RInv, Known
  <2>4. ASSUME NEW p \in Strays, DeliverStray(p) PROVE EventsListed' /\ OwnEvents'
    BY <2>4, StrayArrives, StrayTold, ReceiveKeepsEvents DEF DeliverStray, RInv, Known
  <2>5. ASSUME NEW m \in Negotiations, Negotiate(m) PROVE EventsListed' /\ OwnEvents'
    BY <2>1, <2>5 DEF Negotiate, Configure
  <2>6. ASSUME NEW m \in Negotiations, NegotiationFails(m) PROVE EventsListed' /\ OwnEvents'
    BY <2>1, <2>6 DEF NegotiationFails
  <2> QED
    BY <2>1, <2>2, <2>3, <2>4, <2>5, <2>6 DEF Next, vars
<1> QED
  BY <1>1, <1>2, ReceiverInvariance, SenderInvariance, WireInOrder, BooksAgree, PTL DEF Spec

-----------------------------------------------------------------------------
(* Digits in the order of sending. *)

(* The place of a record's event in the list.                              *)
Index(r) == dtmf[EventId(r.packet)].index

(* The end of a digit cannot be overtaken by that of the next.             *)
EndsInOrder == ReorderWindow < FirstEnd \/ MaxDelay < FirstEnd

ListedInOrder ==
  OwnStream /\ EndsInOrder =>
    \A r, s \in Own :
      /\ ~r.audio /\ ~s.audio /\ r.packet.at < s.packet.at
      /\ Index(r) # 0 /\ Index(s) # 0
      => Index(r) < Index(s)

(* Packets of the same event have the same place.                          *)
LEMMA SameEvent ==
  ASSUME DigitsFit, Progress, NEW p, NEW q, EventId(p) = EventId(q),
         NEW d \in 1 .. Len(Digits), EventOf(p, d), NEW e \in 1 .. Len(Digits), EventOf(q, e)
  PROVE  d = e /\ p.at = q.at
<1>1. (origin[2] + EventStart(d)) % TsModulus = (origin[2] + EventStart(e)) % TsModulus
  <2>1. /\ EventId(p) = <<Stream, (origin[2] + EventStart(d)) % TsModulus, Digits[d]>>
        /\ EventId(q) = <<Stream, (origin[2] + EventStart(e)) % TsModulus, Digits[e]>>
    BY Zenon DEF EventOf
  <2>2. \A a, b, c, x, y, z : <<a, b, c>> = <<x, y, z>> => b = y
    OBVIOUS
  <2> QED
    BY <2>1, <2>2, Zenon
<1>2. d = e
  BY <1>1, DigitsApart
<1> QED
  BY <1>2 DEF EventOf

(* The events of the sender that are kept.                                 *)
LEMMA OwnEventRecord ==
  ASSUME Counts, TimelineKept, Ordered, Tracked, OwnEvents, OwnStream, NEW r \in Own, ~r.audio
  PROVE  /\ r.packet.n + 1 \in DOMAIN wire /\ r.packet = wire[r.packet.n + 1]
         /\ r.packet.payload = EventPayload /\ r.packet.at \in Nat /\ r.seq \in Int
         /\ \E d \in 1 .. Len(Digits) : EventOf(r.packet, d)
<1>1. /\ r.packet.n + 1 \in DOMAIN wire /\ r.packet = wire[r.packet.n + 1] /\ r.seq \in Int
      /\ r.packet \in Sendable
  BY OwnRecord DEF Own
<1>2. r.packet.payload = EventPayload
  BY DEF OwnEvents
<1>3. \E d \in 1 .. Len(Digits) : EventOf(wire[r.packet.n + 1], d)
  BY <1>1, <1>2, EventOnWire
<1> QED
  BY <1>1, <1>2, <1>3 DEF Sendable

(* A packet that is stored after the end of a later event: the network or  *)
(* the window would have to let it be overtaken by FirstEnd packets.       *)
LEMMA NotOvertaken ==
  ASSUME Progress, Counts, TimelineKept, Ordered, Tracked, Aligned, OutagesAreShort,
         OwnStream, EndsInOrder,
         NEW i \in DOMAIN wire, i + MaxDelay >= Len(wire), wire[i].payload = EventPayload,
         NEW q \in Int, q = Unwrap(wire[i].seq, highest[Stream], SeqModulus),
         ~TooLate(wire[i], q),
         NEW s \in Own, s.packet.payload = EventPayload, s.packet.body.end
  PROVE  ~(wire[i].at < s.packet.at)
<1> SUFFICES ASSUME wire[i].at < s.packet.at PROVE FALSE
  OBVIOUS
<1>1. /\ s.packet.n \in Nat /\ s.packet.n + 1 \in DOMAIN wire /\ s.packet = wire[s.packet.n + 1]
      /\ s \in seen /\ s.seq \in Int /\ s.packet.ssrc = Stream
  BY OwnRecord DEF Own
<1>2. PICK j \in DOMAIN wire : j = s.packet.n + 1
  BY <1>1
<1>3. i + FirstEnd <= j
  BY <1>1, <1>2 DEF Ordered
<1>4. Len(wire) \in Nat /\ DOMAIN wire = 1 .. Len(wire)
  BY DEF Counts
<1>5. ReorderWindow \in Nat /\ MaxDelay \in Nat /\ FirstEnd \in Nat
  BY StreamAssumption, SenderAssumption
<1>6. CASE MaxDelay < FirstEnd
  BY <1>3, <1>4, <1>5, <1>6
<1>7. CASE ReorderWindow < FirstEnd
  <2>1. PICK k \in Int : \A r \in Own : r.seq = (origin[1] + r.packet.n) + (SeqModulus * k)
    BY DEF Aligned
  <2>2. q = (origin[1] + wire[i].n) + (SeqModulus * k)
    BY <1>1, <2>1, ExactNumber
  <2>3. PICK c \in Int, o \in Int : c = SeqModulus * k /\ o = origin[1]
    BY NumbersAreTyped, ConstantsAreNumbers
  <2>4. q = (o + (i - 1)) + c /\ s.seq = (o + (j - 1)) + c
    <3>1. wire[i].n = i - 1 /\ s.packet.n = j - 1
      BY <1>1, <1>2 DEF Ordered
    <3> QED
      BY <2>1, <2>2, <2>3, <3>1
  <2>5. highest[Stream] # None /\ s.seq <= highest[Stream] /\ highest[Stream] \in Int
    <3>1. highest[Stream] # None /\ s.seq <= highest[Stream]
      BY <1>1 DEF Tracked, HighestKept
    <3>2. PICK h \in Own : h.seq = highest[Stream]
      BY <3>1, NewestOwn
    <3> QED
      BY <3>1, <3>2, OwnRecord DEF Own
  <2>6. q >= highest[Stream] - ReorderWindow
    <3>1. wire[i].ssrc = Stream
      BY DEF Counts, Sendable
    <3> QED
      BY <1>5, <2>5, <3>1 DEF TooLate
  <2>7. i - 1 >= (j - 1) - ReorderWindow
    <3>1. PICK high \in Int, t \in Int, w \in Int :
            high = highest[Stream] /\ t = s.seq /\ w = ReorderWindow
      BY <1>1, <1>5, <2>5
    <3>2. /\ i \in Int /\ j \in Int /\ c \in Int /\ o \in Int
          /\ high \in Int /\ t \in Int /\ w \in Int
      BY <1>4, <2>3, <3>1
    <3>3. q >= high - w /\ t <= high /\ q = (o + (i - 1)) + c /\ t = (o + (j - 1)) + c
      BY <2>4, <2>5, <2>6, <3>1
    <3>4. PICK x \in Int, y \in Int : x = i - 1 /\ y = j - 1
      BY <3>2
    <3>5. (o + x) + c >= high - w /\ (o + y) + c <= high
      BY <3>3, <3>4
    <3>6. x >= y - w
      BY <3>2, <3>5
    <3> QED
      BY <3>1, <3>4, <3>6
  <2> QED
    BY <1>3, <1>4, <1>5, <1>7, <2>7
<1> QED
  BY <1>6, <1>7 DEF EndsInOrder

(* An event is listed after those listed, and it comes after them.         *)
LEMMA StoreKeepsOrder ==
  ASSUME DigitsFit, RInv, Progress, Counts, TimelineKept, Ordered, Tracked, Aligned, OutagesAreShort,
         EventsListed, OwnEvents, ListedInOrder,
         NEW p, Arriving(p), Told(p), Due(p), ~Refused(p), Select(p), UNCHANGED <<wire, origin>>,
         NEW q \in Int, q = Unwrap(p.seq, highest[p.ssrc], SeqModulus), ~TooLate(p, q), Store(p, q)
  PROVE  ListedInOrder'
<1> SUFFICES ASSUME OwnStream', EndsInOrder, NEW r \in Own', NEW s \in Own',
                    ~r.audio, ~s.audio, r.packet.at < s.packet.at, Index(r)' # 0, Index(s)' # 0
             PROVE  Index(r)' < Index(s)'
  BY DEF ListedInOrder, EndsInOrder
<1>1. PICK record : /\ record.packet = p /\ record.audio = IsAudio(p)
                    /\ seen' = seen \cup {record}
                    /\ IF IsEvent(p) THEN AcceptDTMF(p) ELSE UNCHANGED <<dtmf, digits>>
  BY StoreAdds
<1>2. OwnStream
  BY <1>1, OwnStreamBefore DEF Select
<1>3. Own' \subseteq Own \cup {record}
  BY <1>1 DEF Own
<1>4. \A o \in Own : ~o.audio => EventId(o.packet) \in DOMAIN dtmf
  BY <1>2 DEF OwnEvents
<1>5. \A o \in Own : EventId(o.packet)[1] = Stream
  BY OwnRecord DEF EventId, Own
<1>6. \A o \in Own : ~o.audio /\ Index(o) # 0 => Index(o) \in 1 .. Len(digits)
  BY <1>4 DEF EventsListed, Index
<1>7. ASSUME \A o \in {r, s} : o \in Own /\ Index(o)' = Index(o)
      PROVE  Index(r)' < Index(s)'
  BY <1>2, <1>7 DEF ListedInOrder
<1>8. CASE p \in Strays
  <2>1. Own' = Own
    BY <1>1, <1>8, StraysAssumption DEF Own
  <2>2. p.ssrc # Stream
    <3>1. record \in seen' /\ record \notin Own'
      BY <1>1, <1>8, StraysAssumption DEF Own
    <3> QED
      BY <1>1, <3>1 DEF OwnStream
  <2>3. \A id \in DOMAIN dtmf : id[1] = Stream => dtmf'[id] = dtmf[id]
    <3>1. CASE ~IsEvent(p) \/ p.body.digit = None
      BY <1>1, <3>1 DEF AcceptDTMF
    <3>2. CASE IsEvent(p) /\ p.body.digit # None
      <4>1. EventId(p)[1] # Stream
        BY <2>2 DEF EventId
      <4>2. \A id \in DOMAIN dtmf : id # EventId(p) => dtmf'[id] = dtmf[id]
        <5>1. AcceptDTMF(p)
          BY <1>1, <3>2
        <5> QED
          BY <3>2, <5>1, EventAccepted DEF EventTaken
      <4> QED
        BY <4>1, <4>2
    <3> QED
      BY <3>1, <3>2
  <2> QED
    BY <1>4, <1>5, <1>7, <2>1, <2>3 DEF Index
<1>9. CASE p \notin Strays /\ ~IsEvent(p)
  <2>1. record.audio /\ UNCHANGED dtmf
    BY <1>1, <1>9 DEF Refused
  <2>2. r \in Own /\ s \in Own
    BY <1>3, <2>1
  <2> QED
    BY <1>7, <2>1, <2>2 DEF Index
<1>10. CASE p \notin Strays /\ IsEvent(p)
  <2>1. PICK i \in DOMAIN wire : p = wire[i] /\ i + MaxDelay >= Len(wire)
    BY <1>10 DEF Due
  <2>2. p.payload = EventPayload /\ p.ssrc = Stream /\ p.at \in Nat
    <3>1. p \in Sendable
      BY <2>1 DEF Counts
    <3> QED
      BY <1>10, <2>1, <3>1, OwnPacketTold DEF RInv, Sendable
  <2>3. PICK d \in 1 .. Len(Digits) : EventOf(p, d)
    BY <2>1, <2>2, EventOnWire
  <2> DEFINE me == EventId(p)
  <2>4. \A o \in Own : ~o.audio /\ EventId(o.packet) = me => o.packet.at = p.at
    BY <1>2, <2>3, OwnEventRecord, SameEvent
  <2>5. \A o \in Own : ~o.audio /\ Index(o) # 0 => ~(p.at < o.packet.at)
    <3> SUFFICES ASSUME NEW o \in Own, ~o.audio, Index(o) # 0 PROVE ~(p.at < o.packet.at)
      OBVIOUS
    <3>1. PICK t \in Own : ~t.audio /\ t.packet.body.end /\ EventId(t.packet) = EventId(o.packet)
      BY <1>2, <1>4, <1>5 DEF OwnEvents, Index
    <3>2. t.packet.at = o.packet.at
      BY <1>2, <3>1, OwnEventRecord, SameEvent
    <3>3. t.packet.payload = EventPayload
      BY <1>2, <3>1, OwnEventRecord
    <3>4. ~(wire[i].at < t.packet.at)
      BY <1>2, <2>1, <2>2, <3>1, <3>3, NotOvertaken
    <3> QED
      BY <2>1, <3>2, <3>4
  <2>6. PICK index \in Nat :
          /\ dtmf'[me].index = index
          /\ \A id \in DOMAIN dtmf : id # me => dtmf'[id] = dtmf[id]
          /\ \/ Emitted(p) /\ index = dtmf[me].index
             \/ ~Emitted(p) /\ index = Len(digits) + 1
             \/ ~Emitted(p) /\ index = 0
    <3>1. AcceptDTMF(p) /\ p.body.digit # None
      BY <1>1, <1>10, <2>3, NoneIsNoNumber DEF EventOf
    <3> QED
      BY <1>10, <3>1, EventAccepted DEF EventTaken
  <2>7. \A o \in Own' : ~o.audio /\ o \notin Own => EventId(o.packet) = me /\ o.packet.at = p.at
    BY <1>1, <1>3
  <2> HIDE DEF me
  <2>8. \A o \in Own' : ~o.audio /\ EventId(o.packet) = me => o.packet.at = p.at /\ Index(o)' = index
    BY <2>4, <2>6, <2>7 DEF Index
  <2>9. \A o \in Own' : ~o.audio /\ EventId(o.packet) # me => o \in Own /\ Index(o)' = Index(o)
    BY <1>4, <2>6, <2>7 DEF Index
  <2>10. CASE EventId(r.packet) # me /\ EventId(s.packet) # me
    BY <1>7, <2>9, <2>10
  <2>11. CASE Emitted(p)
    <3>1. PICK t \in Own : ~t.audio /\ EventId(t.packet) = me
      <4>1. me \in DOMAIN dtmf /\ dtmf[me].index # 0 /\ me[1] = Stream
        BY <2>2, <2>11 DEF Emitted, me, EventId
      <4> QED
        BY <1>2, <4>1 DEF OwnEvents
    <3>2. t.packet.at = p.at /\ Index(t) = index
      BY <2>4, <2>6, <2>11, <3>1 DEF Index
    <3>3. PICK a \in Own : ~a.audio /\ a.packet.at = r.packet.at /\ Index(a) = Index(r)'
      BY <2>8, <2>9, <3>1, <3>2
    <3>4. PICK b \in Own : ~b.audio /\ b.packet.at = s.packet.at /\ Index(b) = Index(s)'
      BY <2>8, <2>9, <3>1, <3>2
    <3> QED
      BY <1>2, <3>3, <3>4 DEF ListedInOrder
  <2>12. CASE ~Emitted(p) /\ EventId(r.packet) = me
    <3>1. r.packet.at = p.at
      BY <2>8, <2>12
    <3>2. EventId(s.packet) # me
      BY <2>2, <2>8, <3>1
    <3>3. s \in Own /\ Index(s) # 0
      BY <2>9, <3>2
    <3> QED
      BY <2>5, <3>1, <3>3
  <2>13. CASE ~Emitted(p) /\ EventId(s.packet) = me /\ EventId(r.packet) # me
    <3>1. Index(s)' = Len(digits) + 1
      BY <2>6, <2>8, <2>13
    <3>2. Index(r)' \in 1 .. Len(digits)
      BY <1>6, <2>9, <2>13
    <3>3. Len(digits) \in Nat
      BY DEF EventsListed
    <3> QED
      BY <3>1, <3>2, <3>3
  <2> QED
    BY <2>10, <2>11, <2>12, <2>13
<1> QED
  BY <1>8, <1>9, <1>10

LEMMA ReceiveKeepsOrder ==
  ASSUME DigitsFit, RInv, Progress, Counts, TimelineKept, Ordered, Tracked, Aligned, OutagesAreShort,
         EventsListed, OwnEvents, ListedInOrder,
         NEW p, Arriving(p), Told(p), Due(p), Receive(p)
  PROVE  ListedInOrder'
<1>1. UNCHANGED <<wire, origin>>
  BY DEF Receive
<1>2. CASE UNCHANGED <<seen, dtmf>> /\ (UNCHANGED stream \/ Select(p))
  <2>1. OwnStream' => OwnStream
    BY <1>2, OwnStreamBefore DEF Select
  <2> QED
    BY <1>1, <1>2, <2>1 DEF ListedInOrder, EndsInOrder, Own, Index
<1>3. ASSUME ~Refused(p), Select(p), NEW q \in Int, ~TooLate(p, q),
             q = Unwrap(p.seq, highest[p.ssrc], SeqModulus), Store(p, q)
      PROVE  ListedInOrder'
  BY <1>1, <1>3, StoreKeepsOrder
<1> QED
  BY <1>2, <1>3, ReceiveCases

(* The sender's digits are listed in the order of sending, if neither the  *)
(* network nor the reorder window lets a packet be overtaken by the        *)
(* FirstEnd packets that precede an end (acceptDTMF).                      *)
THEOREM DigitsInOrder ==
  ASSUME DigitsFit
  PROVE  Spec /\ []OutagesAreShort => []ListedInOrder
<1>1. Init => ListedInOrder
  BY DEF Init, ReceiverInit, ListedInOrder, Own
<1>2. /\ RInv /\ Progress /\ Counts /\ TimelineKept /\ Ordered /\ Tracked /\ Aligned
      /\ OutagesAreShort /\ EventsListed /\ OwnEvents /\ ListedInOrder /\ [Next]_vars
      => ListedInOrder'
  <2> SUFFICES ASSUME RInv, Progress, Counts, TimelineKept, Ordered, Tracked, Aligned,
                      OutagesAreShort, EventsListed, OwnEvents, ListedInOrder, [Next]_vars
               PROVE  ListedInOrder'
    OBVIOUS
  <2>1. CASE UNCHANGED <<seen, stream, dtmf>>
    BY <2>1 DEF ListedInOrder, EndsInOrder, Own, OwnStream, Index
  <2>2. CASE Send
    BY <2>1, <2>2 DEF Send
  <2>3. ASSUME NEW i \in DOMAIN wire, Deliver(i) PROVE ListedInOrder'
    BY <2>3, OwnPacketArrives, OwnPacketTold, ReceiveKeepsOrder DEF Deliver, RInv, Due
  <2>4. ASSUME NEW p \in Strays, DeliverStray(p) PROVE ListedInOrder'
    BY <2>4, StrayArrives, StrayTold, ReceiveKeepsOrder DEF DeliverStray, RInv, Due
  <2>5. ASSUME NEW m \in Negotiations, Negotiate(m) PROVE ListedInOrder'
    BY <2>1, <2>5 DEF Negotiate, Configure
  <2>6. ASSUME NEW m \in Negotiations, NegotiationFails(m) PROVE ListedInOrder'
    BY <2>1, <2>6 DEF NegotiationFails
  <2> QED
    BY <2>1, <2>2, <2>3, <2>4, <2>5, <2>6 DEF Next, vars
<1> QED
  BY <1>1, <1>2, ReceiverInvariance, SenderInvariance, WireInOrder, BooksAgree, NumbersAligned,
     EventsAgree, PTL DEF Spec

(* A reported digit is the end of an event of the sender.                  *)
LEMMA ReportIsEnded ==
  ASSUME DigitsFit, Progress, Counts, TimelineKept, Ordered, Tracked, EventsListed, OwnEvents,
         OwnStream, NEW d \in 1 .. Len(Digits), NEW i \in ReportsOf(d)
  PROVE  /\ i \in 1 .. Len(digits) /\ digits[i].digit = Digits[d] /\ digits[i].duration = Full
         /\ \E r \in Own : /\ ~r.audio /\ r.packet.body.end /\ r.packet.at = EventStart(d)
                           /\ EventId(r.packet) = IdOf(digits[i]) /\ Index(r) = i
<1>1. i \in DOMAIN digits /\ digits[i].ssrc = Stream
      /\ digits[i].ts = (origin[2] + EventStart(d)) % TsModulus
  BY DEF ReportsOf, Reported
<1>2. Len(digits) \in Nat /\ DOMAIN digits = 1 .. Len(digits)
  BY DEF EventsListed
<1> DEFINE id == IdOf(digits[i])
<1>3. id \in DOMAIN dtmf /\ dtmf[id].index = i /\ i # 0 /\ id[1] = Stream
  BY <1>1, <1>2 DEF EventsListed, IdOf
<1>4. id = <<Stream, (origin[2] + EventStart(d)) % TsModulus, digits[i].digit>>
  BY <1>1 DEF IdOf
<1> HIDE DEF id
<1>5. PICK r \in Own : ~r.audio /\ r.packet.body.end /\ EventId(r.packet) = id
  BY <1>3 DEF OwnEvents
<1>6. digits[i].duration = Full
  BY <1>3 DEF OwnEvents
<1>7. PICK e \in 1 .. Len(Digits) : EventOf(r.packet, e)
  BY <1>5, OwnEventRecord
<1>8. id = <<Stream, (origin[2] + EventStart(e)) % TsModulus, Digits[e]>>
  BY <1>5, <1>7, Zenon DEF EventOf
<1>9. /\ (origin[2] + EventStart(d)) % TsModulus = (origin[2] + EventStart(e)) % TsModulus
      /\ digits[i].digit = Digits[e]
  <2>1. \A a, b, c, x, y, z : <<a, b, c>> = <<x, y, z>> => b = y /\ c = z
    OBVIOUS
  <2>2. <<Stream, (origin[2] + EventStart(d)) % TsModulus, digits[i].digit>>
          = <<Stream, (origin[2] + EventStart(e)) % TsModulus, Digits[e]>>
    BY <1>4, <1>8, Zenon
  <2> QED
    BY <2>1, <2>2, Zenon
<1>10. d = e
  BY <1>9, DigitsApart
<1>11. r.packet.at = EventStart(d)
  BY <1>7, <1>10 DEF EventOf
<1>12. Index(r) = i
  BY <1>3, <1>5 DEF Index
<1> QED
  BY <1>1, <1>2, <1>5, <1>6, <1>9, <1>10, <1>11, <1>12 DEF id

LEMMA DigitsReported ==
  ASSUME DigitsFit, Progress, Counts, TimelineKept, Ordered, Tracked, EventsListed, OwnEvents,
         ListedInOrder
  PROVE  DigitsReportedOnce
<1> SUFFICES ASSUME OwnStream PROVE DigitsReportedOnce
  BY DEF DigitsReportedOnce
<1>1. ASSUME NEW d \in 1 .. Len(Digits)
      PROVE  LET ended == \E r \in Own : r.packet.at = EventStart(d) /\ ~r.audio /\ r.packet.body.end
             IN Cardinality(ReportsOf(d)) = IF ended THEN 1 ELSE 0
  <2> DEFINE ended == \E r \in Own : r.packet.at = EventStart(d) /\ ~r.audio /\ r.packet.body.end
  <2>1. CASE ~ended
    <3>1. ReportsOf(d) = {}
      BY <2>1, ReportIsEnded
    <3> QED
      BY <2>1, <3>1, FS_EmptySet
  <2>2. CASE ended
    <3>1. PICK r \in Own : r.packet.at = EventStart(d) /\ ~r.audio /\ r.packet.body.end
      BY <2>2
    <3>2. EventId(r.packet) \in DOMAIN dtmf /\ Index(r) # 0
      BY <3>1 DEF OwnEvents, Index
    <3>3. Index(r) \in DOMAIN digits /\ IdOf(digits[Index(r)]) = EventId(r.packet)
      BY <3>2 DEF EventsListed, Index
    <3>4. PICK e \in 1 .. Len(Digits) : EventOf(r.packet, e)
      BY <3>1, OwnEventRecord
    <3>5. /\ digits[Index(r)].ssrc = Stream
          /\ digits[Index(r)].ts = (origin[2] + EventStart(d)) % TsModulus
      <4>1. EventStart(e) = EventStart(d)
        BY <3>1, <3>4 DEF EventOf
      <4>2. IdOf(digits[Index(r)]) = <<Stream, (origin[2] + EventStart(d)) % TsModulus, Digits[e]>>
        BY <3>3, <3>4, <4>1, Zenon DEF EventOf
      <4>3. \A a, b, c, x, y, z : <<a, b, c>> = <<x, y, z>> => a = x /\ b = y
        OBVIOUS
      <4> QED
        BY <4>2, <4>3, Zenon DEF IdOf
    <3>6. Index(r) \in ReportsOf(d)
      BY <3>3, <3>5 DEF ReportsOf, Reported, OwnStream
    <3>7. \A i \in ReportsOf(d) : i = Index(r)
      <4> SUFFICES ASSUME NEW i \in ReportsOf(d) PROVE i = Index(r)
        OBVIOUS
      <4>1. digits[i].digit = Digits[d] /\ digits[Index(r)].digit = Digits[d]
            /\ i \in DOMAIN digits
        BY <3>6, ReportIsEnded DEF EventsListed
      <4>2. /\ digits[i].ssrc = Stream
            /\ digits[i].ts = (origin[2] + EventStart(d)) % TsModulus
        BY DEF ReportsOf
      <4>3. IdOf(digits[i]) = IdOf(digits[Index(r)])
        BY <3>5, <4>1, <4>2 DEF IdOf
      <4> QED
        BY <3>3, <4>1, <4>3, Zenon DEF EventsListed
    <3>8. ReportsOf(d) = {Index(r)}
      BY <3>6, <3>7
    <3> QED
      BY <2>2, <3>8, FS_Singleton
  <2> QED
    BY <2>1, <2>2
<1>2. ASSUME NEW d \in 1 .. Len(Digits), NEW i \in ReportsOf(d)
      PROVE  digits[i].digit = Digits[d] /\ digits[i].duration = EventDurations[Len(EventDurations)]
  BY ReportIsEnded DEF Full
<1>3. ASSUME EndsInOrder, NEW d \in 1 .. Len(Digits), NEW e \in 1 .. Len(Digits), d < e,
             NEW i \in ReportsOf(d), NEW k \in ReportsOf(e)
      PROVE  i < k
  <2>1. PICK r \in Own : ~r.audio /\ r.packet.at = EventStart(d) /\ Index(r) = i /\ i \in 1 .. Len(digits)
    BY ReportIsEnded
  <2>2. PICK s \in Own : ~s.audio /\ s.packet.at = EventStart(e) /\ Index(s) = k /\ k \in 1 .. Len(digits)
    BY ReportIsEnded
  <2>3. EventStart(d) < EventStart(e)
    BY <1>3, EventStarts
  <2>4. i # 0 /\ k # 0
    BY <2>1, <2>2
  <2> QED
    BY <1>3, <2>1, <2>2, <2>3, <2>4 DEF ListedInOrder
<1> QED
  BY <1>1, <1>2, <1>3 DEF DigitsReportedOnce, EndsInOrder

(* Each digit is reported once if an end packet of it was accepted, with   *)
(* its full duration, and in the order of sending where ends cannot be     *)
(* overtaken; however packets are lost, repeated and reordered, and        *)
(* wherever timestamps wrap (acceptDTMF, resultLocked).                    *)
THEOREM DigitsCorrect ==
  ASSUME DigitsFit
  PROVE  Spec /\ []OutagesAreShort => []DigitsReportedOnce
BY DigitsReported, DigitsInOrder, ReceiverInvariance, SenderInvariance, WireInOrder, BooksAgree,
   EventsAgree, PTL

-----------------------------------------------------------------------------
(* Extended timestamps. *)

(* The whole timeline takes less than half the timestamps: 3 days.         *)
TimelineFits == 2 * ((Frames * FrameSamples) + (Len(Digits) * EventSamples)) < TsModulus

(* highestTimestamp is the greatest timestamp kept of each SSRC.           *)
TimesKept ==
  /\ \A r \in seen :
       r.packet.ssrc \in Streams /\ r.ts \in Int
       /\ highestTs[r.packet.ssrc] # None /\ r.ts <= highestTs[r.packet.ssrc]
  /\ \A s \in Streams : highestTs[s] # None => \E r \in seen : r.packet.ssrc = s /\ r.ts = highestTs[s]

(* The extended timestamps of the sender's packets are their places on its *)
(* timeline but for a number that is the same for all of them.             *)
Placed ==
  OwnStream =>
    \E k \in Int : \A r \in Own : r.ts = (origin[2] + r.packet.at) + (TsModulus * k)

(* Places are on the timeline.                                             *)
LEMMA PlacesFit ==
  ASSUME Ordered, NEW i \in DOMAIN wire
  PROVE  /\ wire[i].at \in Nat
         /\ wire[i].at <= (Frames * FrameSamples) + (Len(Digits) * EventSamples)
<1>1. /\ FrameSamples \in Nat /\ EventSamples \in Nat /\ Frames \in Nat /\ Len(Digits) \in Nat
      /\ Frames * FrameSamples \in Nat /\ Len(Digits) * EventSamples \in Nat
  BY ConstantsAreNumbers, Distribution
<1>2. ASSUME NEW a \in Nat, NEW b \in Nat, NEW c \in Nat, a <= b
      PROVE  a * c \in Nat /\ a * c <= b * c
  <2>1. PICK k \in Nat : b = a + k
    <3>1. b - a \in Nat /\ b = a + (b - a)
      BY <1>2
    <3> QED
      BY <3>1
  <2>2. (a + k) * c = (a * c) + (k * c) /\ a * c \in Nat /\ k * c \in Nat
    BY Distribution
  <2> QED
    BY <2>1, <2>2
<1>3. CASE OfAudio(wire[i])
  <2>1. PICK f \in 0 .. Frames - 1 : wire[i].at = f * FrameSamples
    BY <1>3 DEF OfAudio
  <2>2. f \in Nat /\ f <= Frames
    BY <1>1
  <2>3. f * FrameSamples \in Nat /\ f * FrameSamples <= Frames * FrameSamples
    BY <1>1, <1>2, <2>2
  <2> QED
    BY <1>1, <2>1, <2>3
<1>4. CASE OfEvent(wire[i])
  <2>1. PICK d \in 1 .. Len(Digits) : wire[i].at = EventStart(d)
    BY <1>4 DEF OfEvent
  <2>2. PICK a \in Nat : a = d - 1 /\ a <= Len(Digits)
    BY <1>1
  <2>3. a * EventSamples \in Nat /\ a * EventSamples <= Len(Digits) * EventSamples
    BY <1>1, <1>2, <2>2
  <2>4. wire[i].at = (Frames * FrameSamples) + (a * EventSamples)
    BY <2>1, <2>2 DEF EventStart
  <2> QED
    BY <1>1, <2>3, <2>4
<1> QED
  BY <1>3, <1>4 DEF Ordered

LEMMA StoreKeepsTimes ==
  ASSUME RInv, TimesKept, NEW p, Arriving(p), NEW t \in Int, NEW record,
         record.packet = p, record.ts = t, seen' = seen \cup {record},
         highestTs' = [highestTs EXCEPT ![p.ssrc] = Raised(highestTs[p.ssrc], t)]
  PROVE  TimesKept'
<1>1. p.ssrc \in Streams /\ highestTs \in [Streams -> Numbers]
  BY DEF Arriving, RInv, Received
<1>2. /\ highestTs'[p.ssrc] = Raised(highestTs[p.ssrc], t)
      /\ \A s \in Streams : s # p.ssrc => highestTs'[s] = highestTs[s]
  BY <1>1
<1>3. /\ highestTs'[p.ssrc] \in {t, highestTs[p.ssrc]} /\ highestTs'[p.ssrc] # None
      /\ t <= highestTs'[p.ssrc]
      /\ highestTs[p.ssrc] # None =>
           highestTs[p.ssrc] \in Int /\ highestTs[p.ssrc] <= highestTs'[p.ssrc]
  <2>1. highestTs[p.ssrc] = None \/ highestTs[p.ssrc] \in Int
    BY <1>1 DEF Numbers
  <2> QED
    BY <1>2, <2>1, NoneIsNoNumber DEF Raised
<1>4. ASSUME NEW r \in seen'
      PROVE  /\ r.packet.ssrc \in Streams /\ r.ts \in Int
             /\ highestTs'[r.packet.ssrc] # None /\ r.ts <= highestTs'[r.packet.ssrc]
  <2>1. CASE r = record
    BY <1>1, <1>3, <2>1
  <2>2. CASE r \in seen /\ r.packet.ssrc # p.ssrc
    BY <1>2, <2>2 DEF TimesKept
  <2>3. CASE r \in seen /\ r.packet.ssrc = p.ssrc
    <3>1. r.ts \in Int /\ highestTs[p.ssrc] # None /\ r.ts <= highestTs[p.ssrc]
      BY <2>3 DEF TimesKept
    <3>2. highestTs'[p.ssrc] \in Int
      BY <1>3, <3>1
    <3> QED
      BY <1>1, <1>3, <2>3, <3>1, <3>2
  <2> QED
    BY <2>1, <2>2, <2>3
<1>5. ASSUME NEW s \in Streams, highestTs'[s] # None
      PROVE  \E r \in seen' : r.packet.ssrc = s /\ r.ts = highestTs'[s]
  <2>1. CASE s # p.ssrc
    BY <1>2, <1>5, <2>1 DEF TimesKept
  <2>2. CASE s = p.ssrc /\ highestTs'[s] = t
    BY <2>2
  <2>3. CASE s = p.ssrc /\ highestTs'[s] = highestTs[s]
    BY <1>5, <2>3 DEF TimesKept
  <2> QED
    BY <1>3, <2>1, <2>2, <2>3
<1> QED
  BY <1>4, <1>5 DEF TimesKept

(* A packet of the sender gets its true timestamp.                         *)
LEMMA ExactTime ==
  ASSUME TimelineFits, Progress, Counts, TimelineKept, Ordered, Tracked, TimesKept, OwnStream,
         Own # {}, NEW i \in DOMAIN wire,
         NEW k \in Int, \A r \in Own : r.ts = (origin[2] + r.packet.at) + (TsModulus * k)
  PROVE  Unwrap(wire[i].ts, highestTs[Stream], TsModulus)
           = (origin[2] + wire[i].at) + (TsModulus * k)
<1>1. PICK any \in Own : TRUE
  OBVIOUS
<1>2. any \in seen /\ any.packet.ssrc = Stream
  BY OwnRecord DEF Own
<1>3. PICK h \in seen : h.packet.ssrc = Stream /\ h.ts = highestTs[Stream]
  BY <1>2, StreamAssumption DEF TimesKept
<1>4. h \in Own
  BY <1>3 DEF OwnStream
<1>5. h.packet.n + 1 \in DOMAIN wire /\ h.packet = wire[h.packet.n + 1] /\ h.ts \in Int
  BY <1>4, OwnRecord DEF TimesKept, Own
<1>6. PICK total \in Nat : total = (Frames * FrameSamples) + (Len(Digits) * EventSamples)
  <2>1. Frames * FrameSamples \in Nat /\ Len(Digits) * EventSamples \in Nat
    BY ConstantsAreNumbers, Distribution
  <2> QED
    BY <2>1
<1>7. PICK a \in Nat, b \in Nat : /\ a = wire[i].at /\ b = h.packet.at
                                  /\ a <= total /\ b <= total
  BY <1>5, <1>6, PlacesFit
<1>8. PICK c \in Int, start \in Nat : c = TsModulus * k /\ start = origin[2]
  BY ConstantsAreNumbers, NumbersAreTyped
<1>9. PICK number \in Int, high \in Int :
        /\ number = (start + a) + c /\ high = (start + b) + c /\ high = h.ts
  BY <1>4, <1>5, <1>7, <1>8
<1>10. TsModulus \in Nat \ {0} /\ 2 * total < TsModulus
  BY <1>6, ConstantsAreNumbers DEF TimelineFits
<1>11. 2 * (number - high) < TsModulus /\ 2 * (high - number) < TsModulus
  <2>1. PICK m \in Nat : m = TsModulus /\ 2 * total < m
    BY <1>10
  <2>2. number - high = a - b /\ high - number = b - a
    BY <1>7, <1>8, <1>9
  <2>3. 2 * (a - b) < m /\ 2 * (b - a) < m
    BY <1>7, <2>1
  <2> QED
    BY <2>1, <2>2, <2>3
<1>12. number % TsModulus = wire[i].ts
  <2>1. PICK e \in Int : e = start + a
    OBVIOUS
  <2>2. (e + (TsModulus * k)) % TsModulus = e % TsModulus
    BY <1>10, ModMultiple
  <2>3. wire[i].ts = (origin[2] + wire[i].at) % TsModulus
    BY DEF TimelineKept
  <2> QED
    BY <1>7, <1>8, <1>9, <2>1, <2>2, <2>3
<1>13. Unwrap(number % TsModulus, high, TsModulus) = number
  <2>1. high # None
    BY <1>9, NoneIsNoNumber
  <2> QED
    BY <1>9, <1>10, <1>11, <2>1, UnwrapExact
<1> QED
  BY <1>3, <1>7, <1>8, <1>9, <1>12, <1>13

LEMMA StoreKeepsPlaced ==
  ASSUME TimelineFits, RInv, Progress, Counts, TimelineKept, Ordered, Tracked, TimesKept, Placed,
         NEW p, Arriving(p), Known(p), Select(p), UNCHANGED <<wire, origin>>,
         NEW q \in Int, Store(p, q)
  PROVE  TimesKept' /\ Placed'
<1> DEFINE t == Unwrap(p.ts, highestTs[p.ssrc], TsModulus)
           record == [packet |-> p, seq |-> q, ts |-> t, audio |-> IsAudio(p)]
<1>1. t \in Int
  <2>1. p.ts \in Int /\ p.ssrc \in Streams
    BY ConstantsAreNumbers DEF Arriving
  <2>2. highestTs[p.ssrc] \in Numbers
    BY <2>1 DEF RInv, Received
  <2> QED
    BY <2>1, <2>2, UnwrapIsTyped, ConstantsAreNumbers
<1>2. /\ seen' = seen \cup {record}
      /\ highestTs' = [highestTs EXCEPT ![p.ssrc] = Raised(highestTs[p.ssrc], t)]
  BY DEF Store
<1> HIDE DEF t
<1>3. record.packet = p /\ record.ts = t
  OBVIOUS
<1> HIDE DEF record
<1>4. TimesKept'
  BY <1>1, <1>2, <1>3, StoreKeepsTimes
<1>5. ASSUME OwnStream'
      PROVE  \E k \in Int : \A r \in Own' : r.ts = (origin[2] + r.packet.at) + (TsModulus * k)
  <2>1. OwnStream
    BY <1>2, <1>5, OwnStreamBefore DEF Select
  <2>2. PICK k \in Int : \A r \in Own : r.ts = (origin[2] + r.packet.at) + (TsModulus * k)
    BY <2>1 DEF Placed
  <2>3. CASE p \in Strays
    <3>1. Own' = Own
      BY <1>2, <1>3, <2>3, StraysAssumption DEF Own
    <3> QED
      BY <2>2, <3>1
  <2>4. ASSUME NEW i \in DOMAIN wire, p = wire[i]
        PROVE  \E j \in Int : \A r \in Own' : r.ts = (origin[2] + r.packet.at) + (TsModulus * j)
    <3>1. Own' = Own \cup {record} /\ p.ssrc = Stream
      <4>1. p.n \in Nat /\ p.ssrc = Stream
        <5>1. p \in Sendable
          BY <2>4 DEF Counts
        <5> QED
          BY <5>1 DEF Sendable
      <4> QED
        BY <1>2, <1>3, <4>1, NoneIsNoNumber DEF Own
    <3>2. CASE Own # {}
      <4>1. t = (origin[2] + p.at) + (TsModulus * k)
        BY <2>1, <2>2, <2>4, <3>1, <3>2, ExactTime DEF t
      <4> QED
        BY <1>3, <2>2, <3>1, <4>1
    <3>3. CASE Own = {}
      <4>1. highestTs[Stream] = None
        <5>1. highestTs[Stream] # None => \E r \in seen : r.packet.ssrc = Stream
          BY StreamAssumption DEF TimesKept
        <5> QED
          BY <2>1, <3>3, <5>1 DEF OwnStream
      <4>2. t = p.ts
        BY <3>1, <4>1 DEF t, Unwrap
      <4>3. p.at \in Nat /\ p.ts = (origin[2] + p.at) % TsModulus
        BY <2>4, PlacesFit DEF TimelineKept
      <4>4. PICK a \in Int : a = origin[2] + p.at
        BY <4>3, NumbersAreTyped
      <4>5. a \div TsModulus \in Int /\ a = (TsModulus * (a \div TsModulus)) + (a % TsModulus)
            /\ a % TsModulus \in 0 .. TsModulus - 1
        BY ConstantsAreNumbers, Division
      <4>6. PICK d \in Int : d = a \div TsModulus
        BY <4>5
      <4>7. TsModulus * (-d) = -(TsModulus * d)
        BY ConstantsAreNumbers
      <4>8. PICK e \in Int, f \in Int : e = TsModulus * d /\ f = a % TsModulus
        BY <4>5, ConstantsAreNumbers
      <4>9. a = e + f
        BY <4>5, <4>6, <4>8
      <4>10. t = a + (TsModulus * (-d))
        BY <4>2, <4>3, <4>4, <4>7, <4>8, <4>9
      <4>11. \A r \in Own' : r.ts = (origin[2] + r.packet.at) + (TsModulus * (-d))
        BY <1>3, <3>1, <3>3, <4>4, <4>10
      <4> QED
        BY <4>11
    <3> QED
      BY <3>2, <3>3
  <2> QED
    BY <2>3, <2>4 DEF Known
<1> QED
  BY <1>4, <1>5 DEF Placed

LEMMA ReceiveKeepsPlaced ==
  ASSUME TimelineFits, RInv, Progress, Counts, TimelineKept, Ordered, Tracked, TimesKept, Placed,
         NEW p, Arriving(p), Known(p), Receive(p)
  PROVE  TimesKept' /\ Placed'
<1>1. UNCHANGED <<wire, origin>>
  BY DEF Receive
<1>2. CASE UNCHANGED <<seen, highestTs>> /\ (UNCHANGED stream \/ Select(p))
  <2>1. OwnStream' => OwnStream
    BY <1>2, OwnStreamBefore DEF Select
  <2> QED
    BY <1>1, <1>2, <2>1 DEF TimesKept, Placed, Own
<1>3. ASSUME Select(p), NEW q \in Int, Store(p, q)
      PROVE  TimesKept' /\ Placed'
  BY <1>1, <1>3, StoreKeepsPlaced
<1> QED
  BY <1>2, <1>3, ReceiveCases

(* What is kept of the sender has the timestamps of its timeline, also     *)
(* where they wrap and however packets were reordered or lost (unwrap32).  *)
THEOREM TimesAreTrue ==
  ASSUME TimelineFits
  PROVE  Spec => [](TimesKept /\ Placed)
<1>1. Init => TimesKept /\ Placed
  <2> SUFFICES ASSUME Init PROVE TimesKept /\ Placed
    OBVIOUS
  <2>1. seen = {} /\ highestTs = [s \in Streams |-> None]
    BY DEF Init, ReceiverInit
  <2> QED
    BY <2>1 DEF TimesKept, Placed, Own
<1>2. /\ RInv /\ Progress /\ Counts /\ TimelineKept /\ Ordered /\ Tracked
      /\ TimesKept /\ Placed /\ [Next]_vars
      => TimesKept' /\ Placed'
  <2> SUFFICES ASSUME RInv, Progress, Counts, TimelineKept, Ordered, Tracked, TimesKept, Placed,
                      [Next]_vars
               PROVE  TimesKept' /\ Placed'
    OBVIOUS
  <2>1. CASE UNCHANGED <<seen, stream, highestTs, origin>>
    BY <2>1 DEF TimesKept, Placed, Own, OwnStream
  <2>2. CASE Send
    BY <2>1, <2>2 DEF Send, SenderNext, SendAudioFrame, SkipLateFrames, SendEventPacket
  <2>3. ASSUME NEW i \in DOMAIN wire, Deliver(i) PROVE TimesKept' /\ Placed'
    BY <2>3, OwnPacketArrives, ReceiveKeepsPlaced DEF Deliver, RInv, Known
  <2>4. ASSUME NEW p \in Strays, DeliverStray(p) PROVE TimesKept' /\ Placed'
    BY <2>4, StrayArrives, ReceiveKeepsPlaced DEF DeliverStray, RInv, Known
  <2>5. ASSUME NEW m \in Negotiations, Negotiate(m) PROVE TimesKept' /\ Placed'
    BY <2>1, <2>5 DEF Negotiate, Configure
  <2>6. ASSUME NEW m \in Negotiations, NegotiationFails(m) PROVE TimesKept' /\ Placed'
    BY <2>1, <2>6 DEF NegotiationFails
  <2> QED
    BY <2>1, <2>2, <2>3, <2>4, <2>5, <2>6 DEF Next, vars
<1> QED
  BY <1>1, <1>2, ReceiverInvariance, SenderInvariance, WireInOrder, BooksAgree, PTL DEF Spec

-----------------------------------------------------------------------------
(* Induction and folds. *)

(* A set of numbers has a least one.                                       *)
LEMMA Least ==
  ASSUME NEW T \in SUBSET Nat, T # {}
  PROVE  \E m \in T : \A x \in T : m <= x
<1> DEFINE R == OpToRel(<, Nat)
<1>1. IsWellFoundedOn(R, Nat)
  BY NatLessThanWellFounded
<1>2. \A x, y \in Nat : x < y => <<x, y>> \in R
  BY DEF OpToRel
<1> HIDE DEF R
<1>3. PICK m \in T : \A x \in T : ~(<<x, m>> \in R)
  BY <1>1, WFMin
<1>4. \A x \in T : x \in Nat /\ m \in Nat /\ ~(x < m)
  BY <1>2, <1>3
<1>5. \A x, y \in Nat : ~(x < y) => y <= x
  OBVIOUS
<1> QED
  BY <1>4, <1>5

(* What holds of 0 and with each number of the next holds of all.          *)
LEMMA Induction ==
  ASSUME NEW S, 0 \in S, \A n \in Nat : n \in S => n + 1 \in S
  PROVE  Nat \subseteq S
<1> SUFFICES ASSUME Nat \ S # {} PROVE FALSE
  OBVIOUS
<1>1. PICK m \in Nat \ S : \A x \in Nat \ S : m <= x
  BY Least
<1>2. m # 0 /\ m - 1 \in Nat /\ m = (m - 1) + 1
  BY <1>1
<1>3. m - 1 \in S
  BY <1>1, <1>2
<1> QED
  BY <1>1, <1>2, <1>3

(* The function by which a fold is defined: on all sets of places up to n. *)
Folds(f, n, base, s) ==
  /\ DOMAIN f = SUBSET (1 .. n)
  /\ \A t \in SUBSET (1 .. n) :
       f[t] = IF t = {} THEN base ELSE Place(f[t \ {Max(t)}], s[Max(t)])

LEMMA FoldExists ==
  ASSUME NEW base, NEW s, NEW n \in Nat
  PROVE  \E f : Folds(f, n, base, s)
<1> DEFINE S == {k \in Nat : \E f : Folds(f, k, base, s)}
<1>1. 0 \in S
  <2> DEFINE f == [t \in SUBSET (1 .. 0) |-> base]
  <2>1. \A t \in SUBSET (1 .. 0) : t = {}
    OBVIOUS
  <2>2. Folds(f, 0, base, s)
    BY <2>1 DEF Folds
  <2> HIDE DEF f
  <2> QED
    BY <2>2
<1>2. ASSUME NEW k \in Nat, k \in S
      PROVE  k + 1 \in S
  <2>1. PICK f : Folds(f, k, base, s)
    BY <1>2
  <2> DEFINE g == [t \in SUBSET (1 .. k + 1) |->
                     IF k + 1 \in t THEN Place(f[t \ {k + 1}], s[k + 1]) ELSE f[t]]
  <2>2. ASSUME NEW t \in SUBSET (1 .. k + 1)
        PROVE  g[t] = IF t = {} THEN base ELSE Place(g[t \ {Max(t)}], s[Max(t)])
    <3>1. CASE k + 1 \in t
      <4>1. Max(t) = k + 1
        <5>1. \A x \in t : x \in Int /\ x <= k + 1
          OBVIOUS
        <5> QED
          BY <3>1, <5>1, MaxIs
      <4>2. t \ {k + 1} \in SUBSET (1 .. k + 1) /\ k + 1 \notin t \ {k + 1}
        OBVIOUS
      <4>3. g[t \ {k + 1}] = f[t \ {k + 1}]
        BY <4>2
      <4>4. g[t] = Place(f[t \ {k + 1}], s[k + 1])
        BY <3>1
      <4> HIDE DEF g
      <4> QED
        BY <3>1, <4>1, <4>3, <4>4
    <3>2. CASE k + 1 \notin t
      <4>1. t \in SUBSET (1 .. k)
        BY <3>2
      <4>2. f[t] = IF t = {} THEN base ELSE Place(f[t \ {Max(t)}], s[Max(t)])
        BY <2>1, <4>1 DEF Folds
      <4>3. t \ {Max(t)} \in SUBSET (1 .. k + 1) /\ k + 1 \notin t \ {Max(t)}
        BY <3>2
      <4>4. g[t] = f[t] /\ g[t \ {Max(t)}] = f[t \ {Max(t)}]
        BY <3>2, <4>3
      <4> HIDE DEF g
      <4> QED
        BY <4>2, <4>4
    <3> QED
      BY <3>1, <3>2
  <2>3. DOMAIN g = SUBSET (1 .. k + 1)
    OBVIOUS
  <2> HIDE DEF g
  <2>4. Folds(g, k + 1, base, s)
    BY <2>2, <2>3 DEF Folds
  <2> QED
    BY <2>4
<1>3. Nat \subseteq S
  <2> HIDE DEF S
  <2> QED
    BY <1>1, <1>2, Induction
<1> QED
  BY <1>3

(* A fold of n steps: place after place.                                   *)
PlaceAll(base, s) == FoldLeft(Place, base, s)

Steps(L, base, s, n) ==
  /\ L[0] = base
  /\ \A k \in 0 .. n - 1 : L[k + 1] = Place(L[k], s[k + 1])
  /\ PlaceAll(base, s) = L[n]

LEMMA FoldSteps ==
  ASSUME NEW base, NEW s, NEW n \in Nat, DOMAIN s = 1 .. n
  PROVE  \E L : Steps(L, base, s, n)
<1> DEFINE iter == CHOOSE f : f = [t \in SUBSET DOMAIN s |->
                                     IF t = {} THEN base ELSE Place(f[t \ {Max(t)}], s[Max(t)])]
<1>1. PlaceAll(base, s) = iter[1 .. n]
  BY Zenon DEF PlaceAll, FoldLeft, MapThenFoldSet
<1>2. PICK f : Folds(f, n, base, s)
  BY FoldExists
<1>3. iter = [t \in SUBSET DOMAIN s |->
                IF t = {} THEN base ELSE Place(iter[t \ {Max(t)}], s[Max(t)])]
  <2> DEFINE h == [t \in SUBSET DOMAIN s |-> f[t]]
  <2>1. \A t \in SUBSET (1 .. n) : t \ {Max(t)} \in SUBSET (1 .. n)
    OBVIOUS
  <2>2. h = [t \in SUBSET DOMAIN s |->
               IF t = {} THEN base ELSE Place(h[t \ {Max(t)}], s[Max(t)])]
    BY <1>2, <2>1, Zenon DEF Folds
  <2> HIDE DEF h
  <2> QED
    BY <2>2, Zenon
<1> HIDE DEF iter
<1> DEFINE L == [k \in 0 .. n |-> iter[1 .. k]]
<1>4. L[0] = base
  <2>1. 1 .. 0 = {} /\ 1 .. 0 \in SUBSET DOMAIN s
    OBVIOUS
  <2>2. iter[1 .. 0] = base
    BY <1>3, <2>1, Zenon
  <2> QED
    BY <2>2
<1>5. ASSUME NEW k \in 0 .. n - 1
      PROVE  L[k + 1] = Place(L[k], s[k + 1])
  <2>1. 1 .. k + 1 \in SUBSET DOMAIN s /\ 1 .. k + 1 # {} /\ (1 .. k + 1) \ {k + 1} = 1 .. k
    OBVIOUS
  <2>2. Max(1 .. k + 1) = k + 1
    <3>1. k + 1 \in 1 .. k + 1 /\ \A x \in 1 .. k + 1 : x \in Int /\ x <= k + 1
      OBVIOUS
    <3> QED
      BY <3>1, MaxIs, Zenon
  <2>3. iter[1 .. k + 1] = Place(iter[(1 .. k + 1) \ {Max(1 .. k + 1)}], s[Max(1 .. k + 1)])
    BY <1>3, <2>1, Zenon
  <2>4. L[k + 1] = iter[1 .. k + 1] /\ L[k] = iter[1 .. k]
    OBVIOUS
  <2> QED
    BY <2>1, <2>2, <2>3, <2>4, Zenon
<1>6. L[n] = iter[1 .. n]
  OBVIOUS
<1> HIDE DEF L
<1>7. Steps(L, base, s, n)
  BY <1>1, <1>4, <1>5, <1>6, Zenon DEF Steps
<1> QED
  BY <1>7

-----------------------------------------------------------------------------
(* The recording. *)

(* Frames of one timeline, kept once each and not overlapping.             *)
Laid(frames, c) ==
  /\ IsFiniteSet(frames)
  /\ \A r \in frames : /\ r.packet.at \in Nat /\ r.ts = r.packet.at + c /\ r.seq \in Int
                         /\ r.packet.body.frame \in Nat
  /\ \A r, s \in frames : \/ r = s
                          \/ r.packet.at + FrameSamples <= s.packet.at
                          \/ s.packet.at + FrameSamples <= r.packet.at

(* How many frames are before one of them.                                 *)
Before(frames, r) == {l \in frames : Earlier(l, r)}

LEMMA Ranks ==
  ASSUME NEW F, NEW c \in Int, Laid(F, c)
  PROVE  /\ \A r, l \in F : Earlier(l, r) <=> l.packet.at < r.packet.at
         /\ \A r \in F : Cardinality(Before(F, r)) \in 0 .. Cardinality(F) - 1
         /\ \A r, s \in F : r.packet.at < s.packet.at =>
              Cardinality(Before(F, r)) < Cardinality(Before(F, s))
         /\ \A i \in 1 .. Cardinality(F) : \E r \in F : Cardinality(Before(F, r)) = i - 1
<1>1. FrameSamples \in Nat /\ FrameSamples > 0 /\ Cardinality(F) \in Nat /\ IsFiniteSet(F)
  BY ConstantsAreNumbers, FS_CardinalityType DEF Laid
<1>2. \A r \in F : r.packet.at \in Nat /\ r.ts = r.packet.at + c
  BY DEF Laid
<1>3. \A r, s \in F : r.packet.at = s.packet.at => r = s
  BY <1>1, <1>2 DEF Laid
<1>4. ASSUME NEW r \in F, NEW l \in F
      PROVE  Earlier(l, r) <=> l.packet.at < r.packet.at
  <2>1. PICK a \in Nat, b \in Nat : a = l.packet.at /\ b = r.packet.at
    BY <1>2
  <2>2. l.ts = a + c /\ r.ts = b + c /\ l.seq \in Int /\ (a = b => l = r)
    BY <1>3, <2>1 DEF Laid
  <2>3. CASE a = b
    <3>1. ~(l.ts < r.ts) /\ l = r /\ ~(a < b)
      BY <2>2, <2>3
    <3>2. CASE Earlier(l, r)
      <4>1. l.seq < l.seq
        BY <3>1, <3>2 DEF Earlier
      <4> QED
        BY <2>2, <4>1
    <3> QED
      BY <2>1, <3>1, <3>2
  <2>4. CASE a # b
    BY <2>1, <2>2, <2>4 DEF Earlier
  <2> QED
    BY <2>3, <2>4
<1>5. ASSUME NEW r \in F
      PROVE  IsFiniteSet(Before(F, r)) /\ Cardinality(Before(F, r)) \in 0 .. Cardinality(F) - 1
  <2>1. Before(F, r) \in SUBSET F /\ r \notin Before(F, r)
    BY <1>2, <1>4 DEF Before
  <2>2. /\ IsFiniteSet(Before(F, r)) /\ Cardinality(Before(F, r)) <= Cardinality(F)
        /\ Cardinality(F) = Cardinality(Before(F, r)) => F = Before(F, r)
    BY <1>1, <2>1, FS_Subset
  <2>3. Cardinality(Before(F, r)) \in Nat /\ F # Before(F, r)
    BY <2>1, <2>2, FS_CardinalityType
  <2> QED
    BY <1>1, <2>2, <2>3
<1>6. ASSUME NEW r \in F, NEW s \in F, r.packet.at < s.packet.at
      PROVE  Cardinality(Before(F, r)) < Cardinality(Before(F, s))
  <2>1. Before(F, r) \in SUBSET Before(F, s) /\ r \in Before(F, s) /\ r \notin Before(F, r)
    BY <1>2, <1>4, <1>6 DEF Before
  <2>2. IsFiniteSet(Before(F, s)) /\ Cardinality(Before(F, s)) \in Nat /\ Cardinality(Before(F, r)) \in Nat
    BY <1>1, <1>5
  <2>3. /\ Cardinality(Before(F, r)) <= Cardinality(Before(F, s))
        /\ Cardinality(Before(F, s)) = Cardinality(Before(F, r)) => Before(F, s) = Before(F, r)
    BY <2>1, <2>2, FS_Subset
  <2> QED
    BY <2>1, <2>2, <2>3
<1>7. \A i \in 1 .. Cardinality(F) : \E r \in F : Cardinality(Before(F, r)) = i - 1
  <2> DEFINE T == 0 .. Cardinality(F) - 1
             f == [r \in F |-> Cardinality(Before(F, r))]
  <2>1. f \in [F -> T]
    BY <1>5
  <2>2. ASSUME NEW r \in F, NEW s \in F, f[r] = f[s] PROVE r = s
    <3>1. Cardinality(Before(F, r)) = Cardinality(Before(F, s))
          /\ Cardinality(Before(F, r)) \in Nat /\ Cardinality(Before(F, s)) \in Nat
      BY <1>1, <1>5, <2>2
    <3>2. ~(r.packet.at < s.packet.at) /\ ~(s.packet.at < r.packet.at)
      BY <1>6, <3>1
    <3> QED
      BY <1>2, <1>3, <3>2
  <2>3. IsFiniteSet(T) /\ Cardinality(T) = Cardinality(F)
    <3>1. PICK n \in Nat : n = Cardinality(F)
      BY <1>1
    <3>2. IsFiniteSet(0 .. n - 1) /\ Cardinality(0 .. n - 1) = IF 0 > n - 1 THEN 0 ELSE ((n - 1) - 0) + 1
      BY FS_Interval
    <3> QED
      BY <3>1, <3>2
  <2> HIDE DEF f, T
  <2>4. f \in Injection(F, T)
    BY <2>1, <2>2 DEF Injection, IsInjective
  <2>5. f \in Surjection(F, T)
    BY <2>3, <2>4, FS_Injection
  <2>6. \A i \in T : \E r \in F : f[r] = i
    BY <2>5 DEF Surjection
  <2>7. \A i \in 1 .. Cardinality(F) : i - 1 \in T
    BY <1>1 DEF T
  <2> QED
    BY <2>6, <2>7 DEF f
<1> QED
  BY <1>4, <1>5, <1>6, <1>7

(* The audio that was kept is sorted by its place on the timeline.         *)
LEMMA AudioSorted ==
  ASSUME NEW F, F = {r \in seen : r.audio}, NEW c \in Int, Laid(F, c)
  PROVE  /\ Cardinality(F) \in Nat /\ Audio \in Seq(F) /\ Len(Audio) = Cardinality(F)
         /\ DOMAIN Audio = 1 .. Cardinality(F)
         /\ \A i \in 1 .. Cardinality(F) : Audio[i] \in F
         /\ \A r \in F : \E i \in 1 .. Cardinality(F) : Audio[i] = r
         /\ \A i, j \in 1 .. Cardinality(F) : i < j => Audio[i].packet.at < Audio[j].packet.at
<1> DEFINE rank(r) == Cardinality(Before(F, r))
<1>1. Audio = [i \in 1 .. Cardinality(F) |-> CHOOSE r \in F : rank(r) = i - 1]
  BY DEF Audio, Before
<1>2. /\ \A r \in F : rank(r) \in 0 .. Cardinality(F) - 1
      /\ \A r, s \in F : r.packet.at < s.packet.at => rank(r) < rank(s)
      /\ \A i \in 1 .. Cardinality(F) : \E r \in F : rank(r) = i - 1
  BY Ranks
<1> HIDE DEF rank
<1>3. Cardinality(F) \in Nat
  BY FS_CardinalityType DEF Laid
<1>4. \A i \in 1 .. Cardinality(F) : Audio[i] \in F /\ rank(Audio[i]) = i - 1
  BY <1>1, <1>2
<1>5. Audio \in Seq(F) /\ Len(Audio) = Cardinality(F) /\ DOMAIN Audio = 1 .. Cardinality(F)
  <2>1. PICK n \in Nat : n = Cardinality(F)
    BY <1>3
  <2>2. Audio \in [1 .. n -> F]
    BY <1>1, <1>4, <2>1
  <2>3. \A s \in [1 .. n -> F] : s \in Seq(F) /\ Len(s) = n /\ DOMAIN s = 1 .. n
    OBVIOUS
  <2> QED
    BY <2>1, <2>2, <2>3, Zenon
<1>6. \A r \in F : r.packet.at \in Nat
  BY DEF Laid
<1>7. \A r, s \in F : r.packet.at = s.packet.at => r = s
  <2>1. FrameSamples \in Nat /\ FrameSamples > 0
    BY ConstantsAreNumbers
  <2> QED
    BY <1>6, <2>1 DEF Laid
<1>8. \A r, s \in F : rank(r) = rank(s) => r = s
  BY <1>2, <1>3, <1>6, <1>7
<1>9. ASSUME NEW r \in F PROVE \E i \in 1 .. Cardinality(F) : Audio[i] = r
  <2>1. rank(r) + 1 \in 1 .. Cardinality(F) /\ (rank(r) + 1) - 1 = rank(r)
    BY <1>2, <1>3
  <2>2. Audio[rank(r) + 1] \in F /\ rank(Audio[rank(r) + 1]) = rank(r)
    BY <1>4, <2>1
  <2> QED
    BY <1>8, <2>1, <2>2
<1>10. ASSUME NEW i \in 1 .. Cardinality(F), NEW j \in 1 .. Cardinality(F), i < j
       PROVE  Audio[i].packet.at < Audio[j].packet.at
  <2>1. /\ Audio[i] \in F /\ Audio[j] \in F
        /\ rank(Audio[i]) = i - 1 /\ rank(Audio[j]) = j - 1
    BY <1>4
  <2>2. ~(Audio[j].packet.at < Audio[i].packet.at)
    BY <1>2, <1>3, <1>10, <2>1
  <2>3. Audio[i].packet.at # Audio[j].packet.at
    BY <1>3, <1>7, <1>10, <2>1
  <2> QED
    BY <1>6, <2>1, <2>2, <2>3
<1> QED
  BY <1>3, <1>4, <1>5, <1>9, <1>10

(* A sample is silence or one of a frame.                                  *)
Samples == {None} \cup (Nat \X Nat)

(* Three sequences put together.                                           *)
Joins(q, s, t, u) ==
  /\ Len(q) = (Len(s) + Len(t)) + Len(u)
  /\ \A i \in 1 .. Len(s) : q[i] = s[i]
  /\ \A i \in 1 .. Len(t) : q[Len(s) + i] = t[i]
  /\ \A i \in 1 .. Len(u) : q[(Len(s) + Len(t)) + i] = u[i]

LEMMA Joined ==
  ASSUME NEW S, NEW s \in Seq(S), NEW t \in Seq(S), NEW u \in Seq(S)
  PROVE  s \o t \o u \in Seq(S) /\ Joins(s \o t \o u, s, t, u)
<1>1. \A v, w \in Seq(S) : /\ v \o w \in Seq(S) /\ Len(v \o w) = Len(v) + Len(w)
                           /\ Len(v) \in Nat
                           /\ \A i \in 1 .. Len(v) : (v \o w)[i] = v[i]
                           /\ \A i \in 1 .. Len(w) : (v \o w)[Len(v) + i] = w[i]
  OBVIOUS
<1>2. PICK v \in Seq(S), w \in Seq(S) : v = s \o t /\ w = v \o u
  BY <1>1
<1>3. /\ Len(v) = Len(s) + Len(t) /\ Len(s) \in Nat /\ Len(t) \in Nat
      /\ \A i \in 1 .. Len(s) : v[i] = s[i]
      /\ \A i \in 1 .. Len(t) : v[Len(s) + i] = t[i]
  BY <1>1, <1>2
<1>4. /\ Len(w) = Len(v) + Len(u) /\ Len(u) \in Nat
      /\ \A i \in 1 .. Len(v) : w[i] = v[i]
      /\ \A i \in 1 .. Len(u) : w[Len(v) + i] = u[i]
  BY <1>1, <1>2
<1>5. /\ \A i \in 1 .. Len(s) : i \in 1 .. Len(v)
      /\ \A i \in 1 .. Len(t) : Len(s) + i \in 1 .. Len(v)
  BY <1>3
<1>6. /\ \A i \in 1 .. Len(s) : w[i] = s[i]
      /\ \A i \in 1 .. Len(t) : w[Len(s) + i] = t[i]
  BY <1>3, <1>4, <1>5
<1>7. w = s \o t \o u
  BY <1>2
<1>8. /\ Len(w) = (Len(s) + Len(t)) + Len(u)
      /\ \A i \in 1 .. Len(u) : w[(Len(s) + Len(t)) + i] = u[i]
  BY <1>3, <1>4
<1> QED
  BY <1>2, <1>6, <1>7, <1>8, Zenon DEF Joins

(* What one packet that does not overlap the recording adds to it: g       *)
(* samples of silence and the frame.                                       *)
Adds(next, line, r, g) ==
  /\ next.pcm \in Seq(Samples)
  /\ Len(next.pcm) = (Len(line.pcm) + g) + FrameSamples
  /\ next.base = (r.ts + FrameSamples) - Len(next.pcm)
  /\ \A i \in 1 .. Len(line.pcm) : next.pcm[i] = line.pcm[i]
  /\ \A i \in 1 .. g : next.pcm[Len(line.pcm) + i] = None
  /\ \A i \in 1 .. FrameSamples :
       next.pcm[(Len(line.pcm) + g) + i] = <<r.packet.body.frame, i>>

(* The gap before the packet is silence if it is short.                    *)
LEMMA PlaceStep ==
  ASSUME NEW line, line.pcm \in Seq(Samples), line.base \in Int,
         NEW r, r.ts \in Int, r.packet.body.frame \in Nat,
         NEW gap \in Nat, r.ts = (line.base + Len(line.pcm)) + gap,
         NEW g \in Nat, g = IF gap <= MaxGap THEN gap ELSE 0
  PROVE  Adds(Place(line, r), line, r, g)
<1>1. /\ FrameSamples \in Nat \ {0} /\ MaxGap \in Nat /\ Len(line.pcm) \in Nat
  BY ConstantsAreNumbers, StreamAssumption
<1>2. r.ts - line.base - Len(line.pcm) = gap
  BY <1>1
<1> DEFINE silence == Silence(g)
           frame_ == SubSeq(Decoded(r.packet), 1, FrameSamples)
<1>3. /\ Place(line, r).base = IF gap > MaxGap THEN r.ts - Len(line.pcm) ELSE line.base
      /\ Place(line, r).pcm = line.pcm \o silence \o frame_
  <2>1. (IF gap \in 1 .. MaxGap THEN gap ELSE 0) = g
    BY <1>1
  <2>2. (IF gap < 0 THEN Min({FrameSamples, -gap}) ELSE 0) + 1 = 1
    BY <1>1
  <2> QED
    BY <1>2, <2>1, <2>2 DEF Place
<1>4. silence \in Seq(Samples) /\ Len(silence) = g /\ \A i \in 1 .. g : silence[i] = None
  BY DEF Silence, Samples
<1>5. /\ frame_ \in Seq(Samples) /\ Len(frame_) = FrameSamples
      /\ \A i \in 1 .. FrameSamples : frame_[i] = <<r.packet.body.frame, i>>
  <2> DEFINE d == Decoded(r.packet)
  <2>1. d = [i \in 1 .. FrameSamples |-> <<r.packet.body.frame, i>>]
    BY DEF Decoded
  <2>2. d \in [1 .. FrameSamples -> Samples]
    BY <1>1, <2>1 DEF Samples
  <2> HIDE DEF d
  <2>3. \A n \in Nat : \A s \in [1 .. n -> Samples] :
          /\ s \in Seq(Samples) /\ Len(s) = n
          /\ SubSeq(s, 1, n) \in Seq(Samples) /\ Len(SubSeq(s, 1, n)) = n
          /\ \A i \in 1 .. n : SubSeq(s, 1, n)[i] = s[i]
    OBVIOUS
  <2>4. /\ SubSeq(d, 1, FrameSamples) \in Seq(Samples) /\ Len(SubSeq(d, 1, FrameSamples)) = FrameSamples
        /\ \A i \in 1 .. FrameSamples : SubSeq(d, 1, FrameSamples)[i] = d[i]
    BY <1>1, <2>2, <2>3
  <2> QED
    BY <2>1, <2>4 DEF d
<1> HIDE DEF silence, frame_
<1>6. ASSUME NEW p, p = line.pcm
      PROVE  /\ Place(line, r).pcm \in Seq(Samples)
             /\ Len(Place(line, r).pcm) = (Len(p) + g) + FrameSamples
             /\ \A i \in 1 .. Len(p) : Place(line, r).pcm[i] = p[i]
             /\ \A i \in 1 .. g : Place(line, r).pcm[Len(p) + i] = None
             /\ \A i \in 1 .. FrameSamples :
                  Place(line, r).pcm[(Len(p) + g) + i] = <<r.packet.body.frame, i>>
  <2>1. PICK q : q = Place(line, r).pcm /\ q = p \o silence \o frame_
    BY <1>3, <1>6
  <2>2. p \in Seq(Samples)
    BY <1>6
  <2>3. /\ q \in Seq(Samples) /\ Len(q) = (Len(p) + Len(silence)) + Len(frame_)
        /\ \A i \in 1 .. Len(p) : q[i] = p[i]
        /\ \A i \in 1 .. Len(silence) : q[Len(p) + i] = silence[i]
        /\ \A i \in 1 .. Len(frame_) : q[(Len(p) + Len(silence)) + i] = frame_[i]
    <3>1. PICK v, w : v = silence /\ w = frame_ /\ v \in Seq(Samples) /\ w \in Seq(Samples)
      BY <1>4, <1>5
    <3>2. p \o v \o w \in Seq(Samples) /\ Joins(p \o v \o w, p, v, w)
      BY <2>2, <3>1, Joined, Zenon
    <3>3. q = p \o v \o w
      BY <2>1, <3>1
    <3> QED
      BY <3>1, <3>2, <3>3, Zenon DEF Joins
  <2>4. Len(silence) = g /\ Len(frame_) = FrameSamples
    BY <1>4, <1>5
  <2>5. /\ \A i \in 1 .. g : q[Len(p) + i] = None
        /\ \A i \in 1 .. FrameSamples : q[(Len(p) + g) + i] = <<r.packet.body.frame, i>>
    BY <1>4, <1>5, <2>3, <2>4
  <2> QED
    BY <2>1, <2>3, <2>4, <2>5, Zenon
<1>7. Place(line, r).base = (r.ts + FrameSamples) - Len(Place(line, r).pcm)
  <2>1. Len(Place(line, r).pcm) = (Len(line.pcm) + g) + FrameSamples
    BY <1>6
  <2>2. PICK n \in Nat, l \in Nat, m \in Nat, b \in Int, t \in Int :
          n = FrameSamples /\ l = Len(line.pcm) /\ m = MaxGap /\ b = line.base /\ t = r.ts
    BY <1>1
  <2>3. PICK all : all = Len(Place(line, r).pcm) /\ all = (l + g) + n
    BY <2>1, <2>2
  <2>4. Place(line, r).base = IF gap > m THEN t - l ELSE b
    BY <1>3, <2>2
  <2>5. t = (b + l) + gap /\ g = IF gap <= m THEN gap ELSE 0
    BY <2>2
  <2>6. (IF gap > m THEN t - l ELSE b) = (t + n) - all
    BY <2>3, <2>5
  <2> QED
    BY <2>2, <2>3, <2>4, <2>6
<1> QED
  BY <1>6, <1>7, Zenon DEF Adds

(* No sample of a frame is cut out, and of the samples between two frames  *)
(* that follow each other all are or none.                                 *)
LEMMA FramesStay ==
  ASSUME NEW F, NEW c \in Int, Laid(F, c), NEW r \in F, NEW x \in Int,
         r.packet.at <= x, x < r.packet.at + FrameSamples
  PROVE  ~CutOut(x, F)
<1>1. FrameSamples \in Nat /\ \A o \in F : o.packet.at \in Nat
  BY ConstantsAreNumbers DEF Laid
<1>2. ASSUME NEW l \in F, NEW h \in F, l.packet.at + FrameSamples <= x, x < h.packet.at
      PROVE  l.packet.at < r.packet.at /\ r.packet.at < h.packet.at
  BY <1>1, <1>2
<1> QED
  BY <1>2 DEF CutOut

LEMMA GapsCut ==
  ASSUME NEW F, NEW c \in Int, Laid(F, c), NEW a \in F, NEW b \in F,
         \A o \in F : ~(a.packet.at < o.packet.at /\ o.packet.at < b.packet.at),
         NEW x \in Int, a.packet.at + FrameSamples <= x, x < b.packet.at
  PROVE  CutOut(x, F) <=> b.packet.at - (a.packet.at + FrameSamples) > MaxGap
<1>1. FrameSamples \in Nat /\ \A o \in F : o.packet.at \in Nat
  BY ConstantsAreNumbers DEF Laid
<1>2. ASSUME NEW l \in F, NEW r \in F, l.packet.at + FrameSamples <= x, x < r.packet.at,
             \A o \in F : ~(l.packet.at < o.packet.at /\ o.packet.at < r.packet.at)
      PROVE  l.packet.at = a.packet.at /\ r.packet.at = b.packet.at
  <2>1. ~(l.packet.at < a.packet.at /\ a.packet.at < r.packet.at)
        /\ ~(l.packet.at < b.packet.at /\ b.packet.at < r.packet.at)
        /\ ~(a.packet.at < l.packet.at /\ l.packet.at < b.packet.at)
        /\ ~(a.packet.at < r.packet.at /\ r.packet.at < b.packet.at)
    BY <1>2
  <2>2. PICK p \in Nat, q \in Nat, s \in Nat, t \in Nat, n \in Nat :
          /\ p = a.packet.at /\ q = b.packet.at /\ s = l.packet.at /\ t = r.packet.at
          /\ n = FrameSamples
    BY <1>1
  <2> QED
    BY <1>2, <2>1, <2>2
<1>3. CutOut(x, F) => b.packet.at - (a.packet.at + FrameSamples) > MaxGap
  <2> SUFFICES ASSUME CutOut(x, F) PROVE b.packet.at - (a.packet.at + FrameSamples) > MaxGap
    OBVIOUS
  <2>1. PICK l \in F, r \in F :
          /\ l.packet.at + FrameSamples <= x /\ x < r.packet.at
          /\ r.packet.at - (l.packet.at + FrameSamples) > MaxGap
          /\ \A o \in F : ~(l.packet.at < o.packet.at /\ o.packet.at < r.packet.at)
    BY DEF CutOut
  <2>2. l.packet.at = a.packet.at /\ r.packet.at = b.packet.at
    BY <1>2, <2>1
  <2> QED
    BY <2>1, <2>2
<1>4. b.packet.at - (a.packet.at + FrameSamples) > MaxGap => CutOut(x, F)
  BY DEF CutOut
<1> QED
  BY <1>3, <1>4

(* The timeline from its start up to x, without what is cut out.           *)
Upto(frames, start, x) == {y \in start .. x : ~CutOut(y, frames)}

LEMMA UptoIs ==
  ASSUME NEW F, NEW start \in Int, NEW x \in Int
  PROVE  IsFiniteSet(Upto(F, start, x)) /\ Cardinality(Upto(F, start, x)) \in Nat
<1>1. PICK D : D = start .. x
  OBVIOUS
<1>2. IsFiniteSet(D) /\ Upto(F, start, x) \in SUBSET D
  BY <1>1, FS_Interval DEF Upto
<1> QED
  BY <1>2, FS_Subset, FS_CardinalityType

(* It grows by what is not cut out.                                        *)
LEMMA UptoGrows ==
  ASSUME NEW F, NEW start \in Int, NEW x \in Int, NEW y \in Int, start <= x + 1, x <= y
  PROVE  /\ (\A z \in x + 1 .. y : ~CutOut(z, F)) =>
              Cardinality(Upto(F, start, y)) = Cardinality(Upto(F, start, x)) + (y - x)
         /\ (\A z \in x + 1 .. y : CutOut(z, F)) => Upto(F, start, y) = Upto(F, start, x)
<1>1. ASSUME \A z \in x + 1 .. y : ~CutOut(z, F)
      PROVE  Cardinality(Upto(F, start, y)) = Cardinality(Upto(F, start, x)) + (y - x)
  <2>1. PICK S, T, U : /\ S = Upto(F, start, x) /\ T = x + 1 .. y /\ U = Upto(F, start, y)
    OBVIOUS
  <2>2. U = S \cup T /\ S \cap T = {}
    BY <1>1, <2>1 DEF Upto
  <2>3. IsFiniteSet(S) /\ Cardinality(S) \in Nat
    BY <2>1, UptoIs
  <2>4. IsFiniteSet(T) /\ Cardinality(T) = y - x
    <3>1. PICK k \in Int : k = x + 1
      OBVIOUS
    <3>2. IsFiniteSet(k .. y) /\ Cardinality(k .. y) = IF k > y THEN 0 ELSE (y - k) + 1
      BY FS_Interval
    <3> QED
      BY <2>1, <3>1, <3>2
  <2>5. Cardinality(S \cup T) = Cardinality(S) + Cardinality(T) - Cardinality(S \cap T)
    BY <2>3, <2>4, FS_Union
  <2>6. Cardinality(S \cap T) = 0
    BY <2>2, FS_EmptySet
  <2>7. Cardinality(U) = Cardinality(S) + (y - x)
    BY <2>2, <2>3, <2>4, <2>5, <2>6
  <2> QED
    BY <2>1, <2>7
<1>2. ASSUME \A z \in x + 1 .. y : CutOut(z, F)
      PROVE  Upto(F, start, y) = Upto(F, start, x)
  BY <1>2 DEF Upto
<1> QED
  BY <1>1, <1>2
(* It grows.                                                               *)
LEMMA UptoPlaces ==
  ASSUME NEW F, NEW start \in Int, NEW e \in Int, NEW x \in Upto(F, start, e)
  PROVE  x \in Int /\ Cardinality(Upto(F, start, x)) \in 1 .. Cardinality(Upto(F, start, e))
<1>1. x \in start .. e /\ ~CutOut(x, F)
  BY DEF Upto
<1>2. PICK S, T : S = Upto(F, start, x) /\ T = Upto(F, start, e)
  OBVIOUS
<1>3. x \in Int /\ x <= e
  BY <1>1
<1>4. S \in SUBSET T /\ {x} \in SUBSET S
  BY <1>1, <1>2, <1>3 DEF Upto
<1>5. IsFiniteSet(S) /\ IsFiniteSet(T) /\ Cardinality(S) \in Nat /\ Cardinality(T) \in Nat
  BY <1>2, <1>3, UptoIs
<1>6. Cardinality(S) <= Cardinality(T) /\ Cardinality({x}) <= Cardinality(S) /\ Cardinality({x}) = 1
  BY <1>4, <1>5, FS_Subset, FS_Singleton
<1>7. Cardinality(S) \in 1 .. Cardinality(T)
  BY <1>5, <1>6
<1> QED
  BY <1>2, <1>3, <1>7

(* What is recorded of sample x of the timeline.                           *)
Right(v, x, frames) ==
  LET heard == {r \in frames : x - r.packet.at \in 0 .. FrameSamples - 1}
  IN IF heard = {} THEN v = None
     ELSE \A r \in heard : v = <<r.packet.body.frame, (x - r.packet.at) + 1>>

(* The recording holds the timeline up to e.                               *)
Recorded(line, frames, c, start, e) ==
  /\ line.pcm \in Seq(Samples) /\ line.base \in Int
  /\ Len(line.pcm) = Cardinality(Upto(frames, start, e))
  /\ line.base + Len(line.pcm) = (e + 1) + c
  /\ \A x \in Upto(frames, start, e) :
       Right(line.pcm[Cardinality(Upto(frames, start, x))], x, frames)

LEMMA NextPlaced ==
  ASSUME NEW F, NEW c \in Int, Laid(F, c), NEW start \in Int, NEW e \in Int, start <= e + 1,
         NEW r \in F, e < r.packet.at,
         \A o \in F : o.packet.at + FrameSamples <= e + 1 \/ r.packet.at <= o.packet.at,
         \A x \in e + 1 .. r.packet.at - 1 : CutOut(x, F) <=> r.packet.at - (e + 1) > MaxGap,
         NEW line, Recorded(line, F, c, start, e)
  PROVE  Recorded(Place(line, r), F, c, start, (r.packet.at + FrameSamples) - 1)
<1>1. /\ FrameSamples \in Nat \ {0} /\ MaxGap \in Nat
      /\ \A o \in F : /\ o.packet.at \in Nat /\ o.ts = o.packet.at + c
                      /\ o.packet.body.frame \in Nat
  BY ConstantsAreNumbers, StreamAssumption DEF Laid
<1>2. PICK at \in Nat, n \in Nat, gap \in Nat, end \in Int, before \in Int :
        /\ at = r.packet.at /\ n = FrameSamples /\ n > 0 /\ gap = at - (e + 1)
        /\ end = (at + n) - 1 /\ before = at - 1 /\ before = e + gap /\ end = before + n
        /\ start <= before + 1 /\ e <= before /\ before <= end
  <2>1. PICK at \in Nat, n \in Nat : at = r.packet.at /\ n = FrameSamples /\ n > 0
    BY <1>1
  <2>2. at - (e + 1) \in Nat /\ (at + n) - 1 \in Int /\ at - 1 \in Int
    BY <2>1
  <2>3. /\ at - 1 = e + (at - (e + 1)) /\ (at + n) - 1 = (at - 1) + n
        /\ start <= (at - 1) + 1 /\ e <= at - 1 /\ at - 1 <= (at + n) - 1
    BY <2>1, <2>2
  <2> QED
    BY <2>1, <2>2, <2>3
<1>3. PICK g \in Nat : g = IF gap <= MaxGap THEN gap ELSE 0
  OBVIOUS
<1>4. PICK m \in Nat : m = Len(line.pcm) /\ m = Cardinality(Upto(F, start, e))
  BY UptoIs DEF Recorded
<1>5. r.ts \in Int /\ r.packet.body.frame \in Nat /\ r.ts = (line.base + Len(line.pcm)) + gap
      /\ line.pcm \in Seq(Samples) /\ line.base \in Int /\ r.ts = at + c
  <2>1. /\ r.ts = at + c /\ r.packet.body.frame \in Nat
    BY <1>1, <1>2
  <2>2. line.pcm \in Seq(Samples) /\ line.base \in Int /\ line.base + Len(line.pcm) = (e + 1) + c
    BY DEF Recorded
  <2>3. at + c = ((e + 1) + c) + gap
    BY <1>2
  <2>4. r.ts = (line.base + Len(line.pcm)) + gap
    BY <2>1, <2>2, <2>3, Zenon
  <2>5. at + c \in Int
    OBVIOUS
  <2> QED
    BY <2>1, <2>2, <2>4, <2>5, Zenon
<1>6. PICK all : all = Place(line, r)
  OBVIOUS
<1>7. /\ all.pcm \in Seq(Samples)
      /\ Len(all.pcm) = (m + g) + n
      /\ all.base = (r.ts + n) - Len(all.pcm)
      /\ \A i \in 1 .. m : all.pcm[i] = line.pcm[i]
      /\ \A i \in 1 .. g : all.pcm[m + i] = None
      /\ \A i \in 1 .. n : all.pcm[(m + g) + i] = <<r.packet.body.frame, i>>
  <2>1. Adds(Place(line, r), line, r, g)
    BY <1>3, <1>5, PlaceStep, Zenon
  <2> QED
    BY <1>2, <1>4, <1>6, <2>1, Zenon DEF Adds
<1>8. /\ \A x \in e + 1 .. before : CutOut(x, F) <=> gap > MaxGap
      /\ \A x \in before + 1 .. end : ~CutOut(x, F)
  <2>1. \A x \in e + 1 .. before : CutOut(x, F) <=> gap > MaxGap
    BY <1>2
  <2>2. ASSUME NEW x \in before + 1 .. end PROVE ~CutOut(x, F)
    <3>1. x \in Int /\ r.packet.at <= x /\ x < r.packet.at + FrameSamples
      BY <1>2
    <3> QED
      BY <3>1, FramesStay
  <2> QED
    BY <2>1, <2>2
<1>9. Cardinality(Upto(F, start, before)) = m + g
  <2>1. CASE gap > MaxGap
    <3>1. Upto(F, start, before) = Upto(F, start, e) /\ g = 0
      <4>1. \A x \in e + 1 .. before : CutOut(x, F)
        BY <1>8, <2>1
      <4>2. Upto(F, start, before) = Upto(F, start, e)
        BY <1>2, <4>1, UptoGrows
      <4> QED
        BY <1>1, <1>3, <2>1, <4>2
    <3> QED
      BY <1>4, <3>1
  <2>2. CASE ~(gap > MaxGap)
    <3>1. Cardinality(Upto(F, start, before)) = Cardinality(Upto(F, start, e)) + (before - e) /\ g = gap
      BY <1>1, <1>2, <1>3, <1>8, <2>2, UptoGrows
    <3> QED
      BY <1>2, <1>4, <3>1
  <2> QED
    BY <2>1, <2>2
<1>10. ASSUME NEW x \in Int, before <= x, x <= end
       PROVE  Cardinality(Upto(F, start, x)) = (m + g) + (x - before)
  <2>1. \A z \in before + 1 .. x : ~CutOut(z, F)
    BY <1>8, <1>10
  <2> QED
    BY <1>2, <1>9, <1>10, <2>1, UptoGrows
<1>11. Len(all.pcm) = Cardinality(Upto(F, start, end))
  <2>1. Cardinality(Upto(F, start, end)) = (m + g) + (end - before) /\ end - before = n
    <3>1. end \in Int /\ before <= end /\ end <= end /\ end - before = n
      BY <1>2
    <3> QED
      BY <1>10, <3>1, Zenon
  <2> QED
    BY <1>7, <2>1
<1>12. all.base \in Int /\ all.base + Len(all.pcm) = (end + 1) + c
  <2>1. PICK len \in Nat : len = Len(all.pcm)
    BY <1>7
  <2>2. all.base = ((at + c) + n) - len
    BY <1>5, <1>7, <2>1
  <2>3. end = (at + n) - 1
    BY <1>2
  <2>4. ((at + c) + n) - len \in Int /\ (((at + c) + n) - len) + len = (end + 1) + c
    BY <2>3
  <2> QED
    BY <2>1, <2>2, <2>4, Zenon
<1>13. ASSUME NEW x \in Upto(F, start, end)
       PROVE  Right(all.pcm[Cardinality(Upto(F, start, x))], x, F)
  <2>1. x \in Int /\ start <= x /\ x <= end /\ ~CutOut(x, F)
    BY <1>13 DEF Upto
  <2>2. CASE x <= e
    <3>1. x \in Upto(F, start, e)
      BY <2>1, <2>2 DEF Upto
    <3>2. Cardinality(Upto(F, start, x)) \in 1 .. m
      BY <1>4, <3>1, UptoPlaces
    <3>3. all.pcm[Cardinality(Upto(F, start, x))] = line.pcm[Cardinality(Upto(F, start, x))]
      BY <1>7, <3>2
    <3> QED
      BY <3>1, <3>3 DEF Recorded
  <2>3. CASE e < x /\ x <= before
    <3>1. x \in e + 1 .. before /\ ~(gap > MaxGap) /\ g = gap
      BY <1>1, <1>3, <1>8, <2>1, <2>3
    <3>2. \A z \in e + 1 .. x : ~CutOut(z, F)
      BY <1>8, <3>1
    <3>3. Cardinality(Upto(F, start, x)) = m + (x - e)
      BY <1>4, <2>1, <2>3, <3>2, UptoGrows
    <3>4. x - e \in 1 .. g
      BY <1>2, <2>1, <2>3, <3>1
    <3>5. all.pcm[Cardinality(Upto(F, start, x))] = None
      BY <1>7, <3>3, <3>4
    <3>6. ASSUME NEW o \in F PROVE ~(x - o.packet.at \in 0 .. FrameSamples - 1)
      <4>1. PICK b \in Nat : b = o.packet.at /\ (b + n <= e + 1 \/ at <= b)
        BY <1>1, <1>2
      <4> QED
        BY <1>2, <2>1, <2>3, <4>1
    <3> QED
      BY <3>5, <3>6 DEF Right
  <2>4. CASE before < x
    <3>1. Cardinality(Upto(F, start, x)) = (m + g) + (x - before)
      BY <1>10, <2>1, <2>4, <1>2
    <3>2. x - before \in 1 .. n /\ x - before = (x - at) + 1
      BY <1>2, <2>1, <2>4
    <3>3. all.pcm[Cardinality(Upto(F, start, x))] = <<r.packet.body.frame, (x - r.packet.at) + 1>>
      BY <1>2, <1>7, <3>1, <3>2
    <3>4. ASSUME NEW o \in F, x - o.packet.at \in 0 .. FrameSamples - 1 PROVE o = r
      <4>1. PICK b \in Nat : b = o.packet.at /\ (o = r \/ b + n <= at \/ at + n <= b)
        BY <1>1, <1>2 DEF Laid
      <4>2. b <= x /\ x < b + n
        BY <1>2, <2>1, <3>4, <4>1
      <4>3. at <= x /\ x < at + n
        BY <1>2, <2>1, <2>4
      <4> QED
        BY <2>1, <4>1, <4>2, <4>3
    <3>5. x - r.packet.at \in 0 .. FrameSamples - 1
      BY <1>2, <2>1, <2>4
    <3> QED
      BY <3>3, <3>4, <3>5 DEF Right
  <2> QED
    BY <1>2, <2>1, <2>2, <2>3, <2>4
<1>14. Recorded(all, F, c, start, end)
  BY <1>7, <1>11, <1>12, <1>13 DEF Recorded
<1> QED
  BY <1>2, <1>6, <1>14

(* The whole recording: all frames in place, from the first to the last.   *)
LEMMA AllPlaced ==
  ASSUME NEW F, F = {r \in seen : r.audio}, F # {}, NEW c \in Int, Laid(F, c)
  PROVE  \E first, last, line :
           /\ first \in F /\ last \in F
           /\ \A r \in F : first.packet.at <= r.packet.at /\ r.packet.at <= last.packet.at
           /\ PCM = line.pcm
           /\ Recorded(line, F, c, first.packet.at, (last.packet.at + FrameSamples) - 1)
<1>1. PICK N, A : A = Audio /\ N = Cardinality(F) /\ N \in Nat /\ N > 0
  <2>1. Cardinality(F) \in Nat /\ Cardinality(F) # 0
    BY FS_CardinalityType, FS_EmptySet DEF Laid
  <2> QED
    BY <2>1
<1>2. /\ A \in Seq(F) /\ Len(A) = N /\ DOMAIN A = 1 .. N
      /\ \A i \in 1 .. N : A[i] \in F
      /\ \A r \in F : \E i \in 1 .. N : A[i] = r
      /\ \A i, j \in 1 .. N : i < j => A[i].packet.at < A[j].packet.at
  BY <1>1, AudioSorted, Zenon
<1>3. PICK n \in Nat : n = FrameSamples /\ n > 0
  BY ConstantsAreNumbers
<1>4. \A r \in F : r.packet.at \in Nat /\ r.ts \in Int /\ r.ts = r.packet.at + c
  BY DEF Laid
<1>5. \A r, s \in F : \/ r = s
                      \/ r.packet.at + n <= s.packet.at
                      \/ s.packet.at + n <= r.packet.at
  BY <1>3 DEF Laid
<1>6. 1 \in 1 .. N /\ N \in 1 .. N /\ A[1] \in F /\ A[N] \in F
  BY <1>1, <1>2
<1>7. PICK start \in Nat : start = A[1].packet.at
  BY <1>4, <1>6
<1>8. \A r \in F : start <= r.packet.at /\ r.packet.at <= A[N].packet.at
  <2> SUFFICES ASSUME NEW r \in F PROVE start <= r.packet.at /\ r.packet.at <= A[N].packet.at
    OBVIOUS
  <2>1. PICK i \in 1 .. N : A[i] = r
    BY <1>2
  <2>2. (i = 1 \/ 1 < i) /\ (i = N \/ i < N)
    BY <1>1
  <2>3. PICK p \in Nat, q \in Nat : p = r.packet.at /\ q = A[N].packet.at
    BY <1>4, <1>6
  <2>4. start <= p
    <3>1. CASE i = 1
      BY <1>7, <2>1, <2>3, <3>1
    <3>2. CASE 1 < i
      BY <1>2, <1>6, <1>7, <2>1, <2>3, <3>2
    <3> QED
      BY <2>2, <3>1, <3>2
  <2>5. p <= q
    <3>1. CASE i = N
      BY <2>1, <2>3, <3>1
    <3>2. CASE i < N
      BY <1>2, <1>6, <2>1, <2>3, <3>2
    <3> QED
      BY <2>2, <3>1, <3>2
  <2> QED
    BY <2>3, <2>4, <2>5
<1> DEFINE base == [base |-> Head(A).ts, pcm |-> <<>>]
<1>9. PICK L : Steps(L, base, A, N)
  <2> HIDE DEF base
  <2> QED
    BY <1>1, <1>2, FoldSteps, Zenon
<1>10. PCM = L[N].pcm
  <2>1. A # <<>>
    BY <1>1, <1>2
  <2> QED
    BY <1>1, <1>9, <2>1 DEF Steps, PCM, PlaceAll
<1> DEFINE Done(k) == Recorded(L[k], F, c, start, IF k = 0 THEN start - 1 ELSE (A[k].packet.at + n) - 1)
<1>11. Done(0)
  <2>1. L[0].base = start + c /\ L[0].pcm = <<>>
    <3>1. Head(A) = A[1]
      BY <1>1, <1>2
    <3> QED
      BY <1>4, <1>6, <1>7, <1>9, <3>1 DEF Steps
  <2>2. Upto(F, start, start - 1) = {}
    BY DEF Upto
  <2>3. Cardinality(Upto(F, start, start - 1)) = 0
    BY <2>2, FS_EmptySet
  <2>4. <<>> \in Seq(Samples) /\ Len(<<>>) = 0 /\ start + c \in Int
        /\ (start + c) + 0 = ((start - 1) + 1) + c
    OBVIOUS
  <2>5. Recorded(L[0], F, c, start, start - 1)
    BY <2>1, <2>2, <2>3, <2>4, Zenon DEF Recorded
  <2> QED
    BY <2>5
<1>12. ASSUME NEW k \in Nat, k + 1 <= N, Done(k)
       PROVE  Done(k + 1)
  <2>1. PICK r : r = A[k + 1] /\ r \in F /\ k + 1 \in 1 .. N /\ k \in 0 .. N - 1
    BY <1>2, <1>12
  <2>2. PICK at \in Nat : at = r.packet.at
    BY <1>4, <2>1
  <2>3. PICK e \in Int : e = IF k = 0 THEN start - 1 ELSE (A[k].packet.at + n) - 1
    <3>1. CASE k = 0
      BY <3>1
    <3>2. CASE k # 0
      <4>1. k \in 1 .. N
        BY <1>1, <1>12, <3>2
      <4>2. (A[k].packet.at + n) - 1 \in Int
        BY <1>2, <1>4, <4>1
      <4> QED
        BY <3>2, <4>2
    <3> QED
      BY <3>1, <3>2
  <2>4. /\ start <= e + 1 /\ e < at
        /\ \A o \in F : o.packet.at + n <= e + 1 \/ at <= o.packet.at
        /\ \A x \in e + 1 .. at - 1 : CutOut(x, F) <=> at - (e + 1) > MaxGap
    <3>1. CASE k = 0
      <4>1. e + 1 = start /\ at = start
        BY <1>7, <2>1, <2>2, <2>3, <3>1
      <4> QED
        BY <1>8, <4>1
    <3>2. CASE k # 0
      <4>1. k \in 1 .. N /\ k < k + 1
        BY <1>1, <1>12, <3>2
      <4>2. PICK a \in F, b \in Nat : a = A[k] /\ b = a.packet.at /\ b < at /\ e + 1 = b + n
        <5>1. PICK a \in F, b \in Nat : a = A[k] /\ b = a.packet.at
          BY <1>2, <1>4, <4>1
        <5>2. b < at
          BY <1>2, <2>1, <2>2, <4>1, <5>1
        <5>3. e + 1 = b + n
          BY <2>3, <3>2, <5>1
        <5> QED
          BY <5>1, <5>2, <5>3
      <4>3. start <= b /\ b + n <= at
        BY <1>3, <1>5, <1>8, <2>1, <2>2, <4>2
      <4>4. \A o \in F : o.packet.at <= b \/ at <= o.packet.at
        <5> SUFFICES ASSUME NEW o \in F PROVE o.packet.at <= b \/ at <= o.packet.at
          OBVIOUS
        <5>1. PICK i \in 1 .. N : A[i] = o
          BY <1>2
        <5>2. i = k \/ i < k \/ i = k + 1 \/ k + 1 < i
          BY <4>1
        <5>3. PICK m \in Nat : m = o.packet.at
          BY <1>4
        <5>4. CASE i = k
          BY <4>2, <5>1, <5>3, <5>4
        <5>5. CASE i < k
          <6>1. A[i].packet.at < A[k].packet.at
            BY <1>2, <4>1, <5>5
          <6> QED
            BY <4>2, <5>1, <5>3, <6>1
        <5>6. CASE i = k + 1
          BY <2>1, <2>2, <5>1, <5>3, <5>6
        <5>7. CASE k + 1 < i
          <6>1. A[k + 1].packet.at < A[i].packet.at
            BY <1>2, <2>1, <5>7
          <6> QED
            BY <2>1, <2>2, <5>1, <5>3, <6>1
        <5> QED
          BY <5>2, <5>4, <5>5, <5>6, <5>7
      <4>5. \A o \in F : o.packet.at + n <= b + n \/ at <= o.packet.at
        BY <1>4, <4>4
      <4>6. \A o \in F : ~(a.packet.at < o.packet.at /\ o.packet.at < r.packet.at)
        BY <1>4, <2>2, <4>2, <4>4
      <4>7. ASSUME NEW x \in e + 1 .. at - 1
            PROVE  CutOut(x, F) <=> at - (e + 1) > MaxGap
        <5>1. x \in Int /\ a.packet.at + FrameSamples <= x /\ x < r.packet.at
          BY <1>3, <2>2, <4>2
        <5>2. CutOut(x, F) <=> r.packet.at - (a.packet.at + FrameSamples) > MaxGap
          BY <2>1, <4>6, <5>1, GapsCut
        <5> QED
          BY <1>3, <2>2, <4>2, <5>2
      <4> QED
        BY <1>3, <2>3, <4>2, <4>3, <4>5, <4>7
    <3> QED
      BY <3>1, <3>2
  <2>5. Recorded(L[k], F, c, start, e)
    BY <1>12, <2>3
  <2>6. /\ \A o \in F : o.packet.at + FrameSamples <= e + 1 \/ r.packet.at <= o.packet.at
        /\ \A x \in e + 1 .. r.packet.at - 1 : CutOut(x, F) <=> r.packet.at - (e + 1) > MaxGap
        /\ e < r.packet.at /\ start \in Int /\ start <= e + 1
    BY <1>3, <2>2, <2>4
  <2>7. Recorded(Place(L[k], r), F, c, start, (r.packet.at + FrameSamples) - 1)
    BY <2>1, <2>5, <2>6, NextPlaced
  <2>8. L[k + 1] = Place(L[k], r) /\ k + 1 # 0
    BY <1>9, <2>1 DEF Steps
  <2> QED
    BY <1>3, <2>1, <2>7, <2>8
<1>13. Done(N)
  <2> DEFINE S == {k \in Nat : k <= N => Done(k)}
  <2> HIDE DEF Done
  <2>1. 0 \in S
    BY <1>11
  <2>2. \A k \in Nat : k \in S => k + 1 \in S
    BY <1>1, <1>12
  <2> HIDE DEF S
  <2>3. Nat \subseteq S
    BY <2>1, <2>2, Induction
  <2> QED
    BY <1>1, <2>3 DEF S
<1>14. Recorded(L[N], F, c, A[1].packet.at, (A[N].packet.at + FrameSamples) - 1)
  BY <1>1, <1>3, <1>7, <1>13
<1> QED
  BY <1>6, <1>7, <1>8, <1>10, <1>14

(* As long as nobody intrudes, the audio kept is frames of the sender,     *)
(* each once and apart from the others.                                    *)
LEMMA FramesLaid ==
  ASSUME RInv, Progress, Counts, TimelineKept, Ordered, FramesApart, Tracked, Aligned, Placed,
         OwnStream, NEW F, F = {r \in Own : r.audio}
  PROVE  F = {r \in seen : r.audio} /\ \E c \in Int : Laid(F, c)
<1>1. \A r \in seen : r.audio => r \in Own
  BY DEF RInv, Chosen, OwnStream
<1>2. F = {r \in seen : r.audio} /\ F \in SUBSET seen
  BY <1>1 DEF Own
<1>3. IsFiniteSet(F)
  BY <1>2, FS_Subset DEF RInv, Received
<1>4. PICK k \in Int : \A r \in Own : r.ts = (origin[2] + r.packet.at) + (TsModulus * k)
  BY DEF Placed
<1>5. PICK j \in Int : \A r \in Own : r.seq = (origin[1] + r.packet.n) + (SeqModulus * j)
  BY DEF Aligned
<1>6. PICK o \in Int, t \in Int, c \in Int : o = origin[2] /\ t = TsModulus * k /\ c = o + t
  BY NumbersAreTyped, ConstantsAreNumbers
<1>7. ASSUME NEW r \in F
      PROVE  /\ r \in seen /\ r \in Own /\ r.seq \in Int
             /\ r.packet.n \in Nat /\ r.packet.n + 1 \in DOMAIN wire
             /\ r.packet = wire[r.packet.n + 1] /\ r.packet \in Sendable
             /\ r.packet.ssrc = Stream /\ r.packet.payload = AudioPayload
             /\ r.packet.body.frame \in Nat /\ r.packet.at \in Nat /\ r.ts = r.packet.at + c
  <2>1. r \in seen /\ r \in Own /\ r.audio
    BY <1>2
  <2>2. /\ r.packet.n \in Nat /\ r.packet.n + 1 \in DOMAIN wire /\ r.seq \in Int
        /\ r.packet = wire[r.packet.n + 1] /\ r.packet \in Sendable /\ r.packet.ssrc = Stream
    BY <2>1, OwnRecord
  <2>3. r.packet.payload \in DOMAIN media.audio
    BY <2>1 DEF RInv, Chosen
  <2>4. EventPayload \notin DOMAIN media.audio
    BY MediaIsConfiguration, NegotiationAssumption DEF RInv, Configurations
  <2>5. r.packet.payload \in {AudioPayload, EventPayload} /\ r.packet.at \in Nat
    BY <2>2 DEF Sendable
  <2>6. r.packet.payload = AudioPayload
    BY <2>3, <2>4, <2>5
  <2>7. r.packet.body.frame \in Nat
    <3>1. OfAudio(r.packet)
      BY <2>2, <2>6, SenderAssumption DEF Ordered, OfEvent
    <3>2. PICK f \in 0 .. Frames - 1 : r.packet.body = [frame |-> f]
      BY <3>1 DEF OfAudio
    <3> QED
      BY <3>2
  <2>8. r.ts = r.packet.at + c
    <3>1. PICK a \in Nat : a = r.packet.at
      BY <2>5
    <3>2. r.ts = (o + a) + t
      BY <1>4, <1>6, <2>1, <3>1
    <3> QED
      BY <1>6, <3>1, <3>2
  <2> QED
    BY <2>1, <2>2, <2>5, <2>6, <2>7, <2>8
<1>8. ASSUME NEW r \in F, NEW s \in F, r # s
      PROVE  \/ r.packet.at + FrameSamples <= s.packet.at
             \/ s.packet.at + FrameSamples <= r.packet.at
  <2>1. r.packet.n # s.packet.n
    <3>1. SUFFICES ASSUME r.packet.n = s.packet.n PROVE FALSE
      OBVIOUS
    <3>2. r.seq = s.seq
      BY <1>5, <1>7, <3>1
    <3>3. r.packet.ssrc = s.packet.ssrc
      BY <1>7
    <3> QED
      BY <1>7, <1>8, <3>2, <3>3 DEF RInv, Received
  <2>2. PICK x \in DOMAIN wire, y \in DOMAIN wire :
          /\ x = r.packet.n + 1 /\ y = s.packet.n + 1 /\ r.packet = wire[x] /\ s.packet = wire[y]
          /\ x \in Nat /\ y \in Nat /\ x # y
    <3>1. r.packet.n + 1 \in Nat /\ s.packet.n + 1 \in Nat /\ r.packet.n + 1 # s.packet.n + 1
      BY <1>7, <2>1
    <3> QED
      BY <1>7, <3>1, Zenon
  <2>3. wire[x].payload = AudioPayload /\ wire[y].payload = AudioPayload
    BY <1>7, <2>2
  <2>4. x < y \/ y < x
    BY <2>2
  <2>5. CASE x < y
    BY <2>2, <2>3, <2>5 DEF FramesApart
  <2>6. CASE y < x
    BY <2>2, <2>3, <2>6 DEF FramesApart
  <2> QED
    BY <2>4, <2>5, <2>6
<1>9. Laid(F, c)
  BY <1>3, <1>7, <1>8 DEF Laid
<1> QED
  BY <1>2, <1>9

LEMMA SamplesPlaced ==
  ASSUME RInv, Progress, Counts, TimelineKept, Ordered, FramesApart, Tracked, Aligned, Placed
  PROVE  SamplesInPlace
<1> DEFINE frames == {r \in Own : r.audio}
           places == {r.packet.at : r \in frames}
           line == {x \in Min(places) .. Max(places) + FrameSamples - 1 : ~CutOut(x, frames)}
<1> SUFFICES ASSUME OwnStream, frames # {}
             PROVE  /\ Len(PCM) = Cardinality(line)
                    /\ \A x \in line :
                         Right(PCM[Cardinality({y \in line : y <= x})], x, frames)
  BY DEF SamplesInPlace, Right
<1>1. PICK F : F = frames
  OBVIOUS
<1>2. PICK c \in Int : Laid(F, c) /\ F = {r \in seen : r.audio} /\ F # {}
  BY <1>1, FramesLaid
<1>3. PICK first, last, rec :
        /\ first \in F /\ last \in F
        /\ \A r \in F : first.packet.at <= r.packet.at /\ r.packet.at <= last.packet.at
        /\ PCM = rec.pcm
        /\ Recorded(rec, F, c, first.packet.at, (last.packet.at + FrameSamples) - 1)
  BY <1>2, AllPlaced
<1>4. PICK start \in Nat, final \in Nat, n \in Nat :
        start = first.packet.at /\ final = last.packet.at /\ n = FrameSamples
  BY <1>2, <1>3, ConstantsAreNumbers DEF Laid
<1>5. Min(places) = start /\ Max(places) = final
  <2>1. start \in places /\ final \in places
    BY <1>1, <1>3, <1>4
  <2>2. \A x \in places : x \in Int /\ start <= x /\ x <= final
    BY <1>1, <1>2, <1>3, <1>4 DEF Laid
  <2> HIDE DEF places
  <2> QED
    BY <2>1, <2>2, MinIs, MaxIs
<1>6. PICK e \in Int : e = (last.packet.at + FrameSamples) - 1 /\ e = final + FrameSamples - 1
  BY <1>4
<1>7. line = Upto(F, start, e)
  BY <1>1, <1>5, <1>6 DEF Upto
<1>8. \A x \in line : {y \in line : y <= x} = Upto(F, start, x)
  <2> SUFFICES ASSUME NEW x \in Upto(F, start, e)
               PROVE  {y \in Upto(F, start, e) : y <= x} = Upto(F, start, x)
    BY <1>7
  <2>1. x \in Int /\ x <= e
    BY DEF Upto
  <2> QED
    BY <2>1 DEF Upto
<1> HIDE DEF line, frames
<1>9. /\ Len(rec.pcm) = Cardinality(line)
      /\ \A x \in line : Right(rec.pcm[Cardinality(Upto(F, start, x))], x, F)
  BY <1>3, <1>4, <1>6, <1>7 DEF Recorded
<1> QED
  BY <1>1, <1>3, <1>8, <1>9

(* The recording is the timeline of the sender: every sample that was kept *)
(* is there once and at its place, what is missing is silence, and only    *)
(* gaps longer than MaxGap are cut out, for streams shorter than half the  *)
(* timestamps (resultLocked, unwrap32).                                    *)
THEOREM SamplesCorrect ==
  ASSUME TimelineFits
  PROVE  Spec /\ []OutagesAreShort => []SamplesInPlace
BY SamplesPlaced, NumbersAligned, TimesAreTrue, ReceiverInvariance, SenderInvariance, WireInOrder,
   WireApart, BooksAgree, PTL
=============================================================================
