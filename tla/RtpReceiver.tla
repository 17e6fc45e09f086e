----------------------------- MODULE RtpReceiver -----------------------------
(***************************************************************************)
(* What a session keeps of the RTP it receives, and the audio and digits   *)
(* it makes of it: src/rtpverifier/receiver.go.                            *)
(*                                                                         *)
(* Sequence numbers and timestamps arrive mod SeqModulus and TsModulus     *)
(* and are extended to integers.  Counters that only report (duplicates,   *)
(* ignored, foreign, ...) and the channel of live audio are left out.      *)
(***************************************************************************)
EXTENDS RtpPackets, Sequences, FiniteSets, FiniteSetsExt, SequencesExt

CONSTANTS
  ReorderWindow,    \* how far behind the newest packet one may arrive, 10
  MaxRetained,      \* maxRetainedRTPPackets, 10000
  MaxGap,           \* longest silence filled in, in samples
  Streams,          \* SSRCs
  DefaultMedia      \* Config before negotiation

VARIABLES
  media,       \* Config: payload types of audio (with codecs) and events, address
  stream,      \* selectedSSRC
  codec,       \* its codec
  source,      \* the locked address
  highest,     \* highestSequence
  highestTs,   \* highestTimestamp
  seen,        \* accepted packets with their extended numbers
  space,       \* sequenceSpace
  newest,      \* LastSequence: the accepted audio packet with the highest number
  dtmf,        \* greatest duration of each telephone event
  digits,      \* dtmfEvents
  switched     \* err is ErrCodecSwitch

receiver == <<media, stream, codec, source, highest, highestTs, seen, space,
              newest, dtmf, digits, switched>>

ReceiverInit ==
  /\ media = DefaultMedia
  /\ stream = None /\ codec = None /\ source = None
  /\ highest = [s \in Streams |-> None] /\ highestTs = [s \in Streams |-> None]
  /\ seen = {} /\ space = {} /\ newest = [seq |-> None, packet |-> None]
  /\ dtmf = <<>> /\ digits = <<>>
  /\ switched = FALSE

-----------------------------------------------------------------------------
IsAudio(p) == p.payload \in DOMAIN media.audio
IsEvent(p) == p.payload = media.event

(* The early returns of accept that leave no trace but a counter.          *)
Refused(p) ==
  \/ ~IsAudio(p) /\ ~IsEvent(p)
  \/ media.host # None /\ p.source.host # media.host
  \/ source # None /\ p.source # source
  \/ stream # None /\ p.ssrc # stream

SwitchesCodec(p) == IsAudio(p) /\ stream # None /\ media.audio[p.payload] # codec

(* Faulty variant: a repeated number is stored again.                      *)
StoredBefore(p, q) == \E r \in seen : r.packet = p /\ r.seq = q

(* A number is taken once; the first packet that has it wins.              *)
Repeated(p, q) == \E r \in seen : r.packet.ssrc = p.ssrc /\ r.seq = q

TooLate(p, q) == highest[p.ssrc] # None /\ q < highest[p.ssrc] - ReorderWindow

Raised(high, q) == IF high = None \/ q > high THEN q ELSE high

(* The first audio packet selects SSRC, codec and source.                  *)
Select(p) ==
  IF IsAudio(p) /\ stream = None
  THEN stream' = p.ssrc /\ codec' = media.audio[p.payload] /\ source' = p.source
  ELSE UNCHANGED <<stream, codec, source>>

Event(p, duration) == [digit |-> p.body.digit, ts |-> p.ts, ssrc |-> p.ssrc, duration |-> duration]

EventId(p) == <<p.ssrc, p.ts, p.body.digit>>

Longest(p) == IF EventId(p) \in DOMAIN dtmf
              THEN Max({dtmf[EventId(p)].duration, p.body.duration})
              ELSE p.body.duration

Updated(p, index) ==
  [id \in DOMAIN dtmf \cup {EventId(p)} |->
     IF id = EventId(p) THEN [duration |-> Longest(p), index |-> index] ELSE dtmf[id]]

Emitted(p) == EventId(p) \in DOMAIN dtmf /\ dtmf[EventId(p)].index # 0

(* Faulty variant: every end packet is a digit of its own.                 *)
AcceptEveryEnd(p) ==
  IF p.body.digit = None THEN UNCHANGED <<dtmf, digits>>
  ELSE
  /\ dtmf' = Updated(p, Len(digits) + 1)
  /\ digits' = IF p.body.end THEN Append(digits, Event(p, Longest(p))) ELSE digits

(* acceptDTMF: an event is emitted at its first end packet; later end      *)
(* packets may lengthen it.  None is an event that is no digit.            *)
AcceptDTMF(p) ==
  LET index == CASE Emitted(p) -> dtmf[EventId(p)].index
                 [] ~Emitted(p) /\ p.body.end -> Len(digits) + 1
                 [] OTHER -> 0
  IN IF p.body.digit = None THEN UNCHANGED <<dtmf, digits>>
     ELSE
     /\ dtmf' = Updated(p, index)
     /\ digits' = CASE Emitted(p) /\ p.body.end ->
                         [digits EXCEPT ![index] = Event(p, Longest(p))]
                    [] ~Emitted(p) /\ p.body.end -> Append(digits, Event(p, Longest(p)))
                    [] OTHER -> digits

(* Faulty variant: the packet that came last is taken for the newest.      *)
ComesLast(p, q) == IsAudio(p)

Newer(p, q) == IsAudio(p) /\ (newest.seq = None \/ q > newest.seq)

Store(p, q) ==
  LET t == Unwrap(p.ts, highestTs[p.ssrc], TsModulus)
  IN /\ highest' = [highest EXCEPT ![p.ssrc] = Raised(@, q)]
     /\ highestTs' = [highestTs EXCEPT ![p.ssrc] = Raised(@, t)]
     /\ seen' = seen \cup {[packet |-> p, seq |-> q, ts |-> t, audio |-> IsAudio(p)]}
     /\ space' = IF stream' = p.ssrc THEN space \cup {q} ELSE space
     /\ newest' = IF Newer(p, q) THEN [seq |-> q, packet |-> p] ELSE newest
     /\ IF IsEvent(p) THEN AcceptDTMF(p) ELSE UNCHANGED <<dtmf, digits>>

Accept(p) ==
  /\ ~Refused(p)
  /\ IF SwitchesCodec(p)
     THEN switched' = TRUE /\ UNCHANGED <<media, stream, codec, source, highest, highestTs,
                                          seen, space, newest, dtmf, digits>>
     ELSE LET q == Unwrap(p.seq, highest[p.ssrc], SeqModulus)
          IN /\ Select(p)
             /\ IF Repeated(p, q) \/ TooLate(p, q) \/ Cardinality(seen) >= MaxRetained
                THEN UNCHANGED <<highest, highestTs, seen, space, newest, dtmf, digits>>
                ELSE Store(p, q)
             /\ UNCHANGED <<media, switched>>

(* Packets that came before the negotiation stay if they fit it.           *)
Fits(r, negotiated) ==
  /\ r.packet.payload \in DOMAIN negotiated.audio \cup {negotiated.event}
  /\ r.packet.payload \in DOMAIN negotiated.audio /\ r.packet.ssrc = stream
       => negotiated.audio[r.packet.payload] = codec
  /\ r.packet.source.host = negotiated.host

(* Faulty variant: early packets are not looked at again.                  *)
ConfigureBlindly(negotiated) ==
  /\ media' = negotiated
  /\ UNCHANGED <<stream, codec, source, highest, highestTs, seen, space, newest, dtmf,
                 digits, switched>>

(* Configure; the call fails when it does.                                 *)
Configure(negotiated) ==
  /\ \A r \in seen : Fits(r, negotiated)
  /\ media' = negotiated
  /\ UNCHANGED <<stream, codec, source, highest, highestTs, seen, space, newest, dtmf,
                 digits, switched>>

-----------------------------------------------------------------------------
(* Result. *)

MissingPackets ==
  IF space = {} THEN 0 ELSE Max(space) - Min(space) + 1 - Cardinality(space)

Silence(samples) == [i \in 1 .. samples |-> None]

Decoded(p) == [i \in 1 .. FrameSamples |-> <<p.body.frame, i>>]

(* Faulty variant: the order is that of the timestamps on the wire.        *)
EarlierOnWire(l, r) == l.packet.ts < r.packet.ts

Earlier(l, r) == l.ts < r.ts \/ (l.ts = r.ts /\ l.seq < r.seq)

(* The audio that was kept, sorted.                                        *)
Audio ==
  LET frames == {r \in seen : r.audio}
  IN [i \in 1 .. Cardinality(frames) |->
        CHOOSE r \in frames : Cardinality({l \in frames : Earlier(l, r)}) = i - 1]

(* One packet of resultLocked: pcm so far and the timestamp of its start.  *)
Place(line, r) ==
  LET gap == r.ts - line.base - Len(line.pcm)
      overlap == IF gap < 0 THEN Min({FrameSamples, -gap}) ELSE 0
  IN [base |-> IF gap > MaxGap THEN r.ts - Len(line.pcm) ELSE line.base,
      pcm  |-> line.pcm \o Silence(IF gap \in 1 .. MaxGap THEN gap ELSE 0)
                        \o SubSeq(Decoded(r.packet), overlap + 1, FrameSamples)]

PCM == IF Audio = <<>> THEN <<>>
       ELSE FoldLeft(Place, [base |-> Head(Audio).ts, pcm |-> <<>>], Audio).pcm

(* The places of digits that are reported: of the selected SSRC, if any.   *)
Reported == {i \in DOMAIN digits : stream = None \/ digits[i].ssrc = stream}
=============================================================================
