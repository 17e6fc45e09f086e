------------------------------ MODULE RtpStream ------------------------------
(***************************************************************************)
(* The stream of one session received by another: RtpSender and            *)
(* RtpReceiver joined by UDP, which loses, repeats and reorders, and a few *)
(* packets of strangers.  The receiver is configured once by negotiation,  *)
(* perhaps after the first packets have come (Session.configureMedia).     *)
(***************************************************************************)
EXTENDS RtpSender, RtpReceiver

CONSTANTS
  Negotiations,   \* what negotiation may configure
  Strays,         \* packets of strangers
  MaxExtra,       \* bound: packets delivered twice and packets of strangers
  MaxDelay        \* bound: packets by which one may be overtaken

(* Negotiation maps each codec to one payload type, names an address,      *)
(* never makes 0 or 8 a telephone event (ParseSDP refuses to remap them),  *)
(* and never the type of events one of audio (GenerateSDP refuses to).     *)
ASSUME NegotiationAssumption ==
  /\ \A m \in Negotiations \cup {DefaultMedia} :
       /\ \A a, b \in DOMAIN m.audio : m.audio[a] = m.audio[b] => a = b
       /\ m.event # AudioPayload /\ EventPayload \notin DOMAIN m.audio
  /\ \A m \in Negotiations : m.host # None /\ m.event \notin DOMAIN DefaultMedia.audio

ASSUME StreamAssumption ==
  /\ MaxRetained \in Nat /\ ReorderWindow \in Nat /\ MaxGap \in Nat
  /\ MaxDelay \in Nat /\ 2 * MaxDelay < SeqModulus
  /\ Stream \in Streams /\ None \notin Streams /\ Endpoint # None

(* What the datagram of a stranger may contain.                            *)
ASSUME StraysAssumption ==
  \A p \in Strays :
    /\ p.ssrc \in Streams /\ p.source # None /\ p.n = None
    /\ p.seq \in 0 .. SeqModulus - 1 /\ p.ts \in 0 .. TsModulus - 1
    /\ \A m \in Negotiations \cup {DefaultMedia} :
         p.payload = m.event => /\ p.body.digit \in 0 .. 15 \cup {None}
                                /\ p.body.end \in BOOLEAN /\ p.body.duration \in Nat

VARIABLES
  negotiated,   \* none, done, or refused
  copies,       \* deliveries of each packet on the wire
  strays        \* packets of strangers that have arrived

vars == <<sender, receiver, negotiated, copies, strays>>

Init == SenderInit /\ ReceiverInit /\ negotiated = "none" /\ copies = <<>> /\ strays = {}

Send ==
  /\ SenderNext
  /\ copies' = copies \o [i \in 1 .. Len(wire') - Len(wire) |-> 0]
  /\ UNCHANGED <<receiver, negotiated, strays>>

Receive(p) ==
  /\ IF Refused(p) THEN UNCHANGED receiver ELSE Accept(p)
  /\ UNCHANGED <<sender, negotiated>>

Extra == Cardinality(strays) + Quantify(DOMAIN copies, LAMBDA i : copies[i] = 2)

Deliver(i) ==
  /\ i + MaxDelay >= Len(wire)
  /\ copies[i] = 0 \/ (copies[i] = 1 /\ Extra < MaxExtra)
  /\ copies' = [copies EXCEPT ![i] = @ + 1]
  /\ Receive(wire[i]) /\ UNCHANGED strays

DeliverStray(p) ==
  /\ p \notin strays /\ Extra < MaxExtra
  /\ strays' = strays \cup {p}
  /\ Receive(p) /\ UNCHANGED copies

Negotiate(m) ==
  /\ negotiated = "none" /\ negotiated' = "done"
  /\ Configure(m)
  /\ UNCHANGED <<sender, copies, strays>>

(* Configure returns an error: the call is refused or ended.               *)
NegotiationFails(m) ==
  /\ negotiated = "none" /\ ~(\A r \in seen : Fits(r, m)) /\ negotiated' = "refused"
  /\ UNCHANGED <<sender, receiver, copies, strays>>

Next ==
  /\ negotiated # "refused"
  /\ \/ Send
     \/ \E i \in DOMAIN wire : Deliver(i)
     \/ \E p \in Strays : DeliverStray(p)
     \/ \E m \in Negotiations : Negotiate(m) \/ NegotiationFails(m)

Spec == Init /\ [][Next]_vars

-----------------------------------------------------------------------------
(* Properties. *)

TypeOK ==
  /\ sequence \in 0 .. SeqModulus - 1 /\ timestamp \in 0 .. TsModulus - 1
  /\ frame \in 0 .. Frames /\ digit \in 0 .. Len(Digits) /\ failed \in BOOLEAN
  /\ stream \in Streams \cup {None}
  /\ highest \in [Streams -> Int \cup {None}] /\ highestTs \in [Streams -> Int \cup {None}]
  /\ Cardinality(seen) <= MaxRetained
  /\ \A r, s \in seen : r.packet.ssrc = s.packet.ssrc /\ r.seq = s.seq => r = s
  /\ space \subseteq {r.seq : r \in seen}
  /\ DOMAIN dtmf \subseteq Streams \X (0 .. TsModulus - 1) \X (0 .. 15)
  /\ switched \in BOOLEAN

(* Accepted packets of the sender's stream.                                *)
Own == {r \in seen : r.packet.n # None}

OwnStream == stream \in {Stream, None} /\ \A r \in seen : r.packet.ssrc = Stream => r \in Own

(* No outage is so long that the sender gets half the sequence numbers     *)
(* ahead of the last packet that was kept: 11 minutes of audio.            *)
OutagesAreShort == Own # {} => \E r \in Own : 2 * (Len(wire) - 1 - r.packet.n) < SeqModulus

(* Whatever is skipped, fails or wraps, the packets on the wire keep the   *)
(* timeline: each has the timestamp of its place in the audio or after it, *)
(* and sequence numbers count the attempts (Sender.Play, SendDTMF).        *)
TimelineKept ==
  \A i \in DOMAIN wire :
    /\ wire[i].ts = (origin[2] + wire[i].at) % TsModulus
    /\ wire[i].seq = (origin[1] + wire[i].n) % SeqModulus

(* The missing-packet count is the number of packets of the stream between *)
(* the first and the last one counted that did not make it, and            *)
(* LastSequence is that of the latest audio packet, across wraps and       *)
(* reordering (unwrap16, missingPackets).                                  *)
LossIsCountedExactly ==
  OwnStream =>
    LET counted == {r.packet.n : r \in {o \in Own : o.seq \in space}}
        audio == {r.packet.n : r \in {o \in Own : o.audio}}
    IN /\ MissingPackets = IF counted = {} THEN 0
                           ELSE Cardinality((Min(counted) .. Max(counted)) \ counted)
       /\ audio # {} => newest.packet.n = Max(audio)

(* Once audio of the sender has been accepted, each of its packets that    *)
(* comes at most ReorderWindow behind the newest accepted one is kept,     *)
(* also where numbers wrap or were skipped (accept, unwrap16).             *)
InTimeMeansKept ==
  [][\A i \in DOMAIN wire :
       /\ copies'[i] > copies[i] /\ OwnStream /\ \E r \in Own : r.audio
       /\ IsAudio(wire[i]) \/ IsEvent(wire[i])
       /\ IsAudio(wire[i]) => media.audio[wire[i].payload] = codec
       /\ wire[i].n >= Max({r.packet.n : r \in Own}) - ReorderWindow
       /\ Cardinality(seen) < MaxRetained
       => \E r \in seen' : r.packet = wire[i]]_vars

(* Sample x of the timeline is in a gap between frames that is too long.   *)
CutOut(x, frames) ==
  \E l, r \in frames :
    /\ l.packet.at + FrameSamples <= x /\ x < r.packet.at
    /\ r.packet.at - (l.packet.at + FrameSamples) > MaxGap
    /\ \A o \in frames : ~(l.packet.at < o.packet.at /\ o.packet.at < r.packet.at)

(* The recording is the sender's timeline from the first accepted frame to *)
(* the last: each accepted sample is there once and at its place, lost and *)
(* skipped frames are silence, and only gaps longer than MaxGap are cut    *)
(* out (resultLocked).                                                     *)
SamplesInPlace ==
  LET pcm == PCM
      frames == {r \in Own : r.audio}
      places == {r.packet.at : r \in frames}
      line == {x \in Min(places) .. Max(places) + FrameSamples - 1 : ~CutOut(x, frames)}
  IN OwnStream /\ frames # {} =>
       /\ Len(pcm) = Cardinality(line)
       /\ \A x \in line :
            LET heard == {r \in frames : x - r.packet.at \in 0 .. FrameSamples - 1}
                sample == pcm[Cardinality({y \in line : y <= x})]
            IN IF heard = {} THEN sample = None
               ELSE \A r \in heard : sample = <<r.packet.body.frame, x - r.packet.at + 1>>

(* The place of a digit on the timeline, and where it is reported.         *)
EventStart(d) == Frames * FrameSamples + (d - 1) * EventSamples

ReportsOf(d) == {i \in Reported : /\ digits[i].ssrc = Stream
                                   /\ digits[i].ts = (origin[2] + EventStart(d)) % TsModulus}

(* A sent digit is reported once if one of its end packets was accepted,   *)
(* with its full duration, however often and in whatever order its packets *)
(* came.  The order is that of sending where the end of a digit cannot be  *)
(* overtaken by that of the next, FirstEnd packets later (acceptDTMF,      *)
(* resultLocked).                                                          *)
DigitsReportedOnce ==
  OwnStream =>
    /\ \A d \in 1 .. Len(Digits) :
         LET ended == \E r \in Own : r.packet.at = EventStart(d) /\ ~r.audio /\ r.packet.body.end
         IN /\ Cardinality(ReportsOf(d)) = IF ended THEN 1 ELSE 0
            /\ \A i \in ReportsOf(d) : /\ digits[i].digit = Digits[d]
                                       /\ digits[i].duration = EventDurations[Len(EventDurations)]
    /\ ReorderWindow < FirstEnd \/ MaxDelay < FirstEnd =>
         \A d, e \in 1 .. Len(Digits) :
           d < e => \A i \in ReportsOf(d), k \in ReportsOf(e) : i < k

(* All audio of a recording comes from one SSRC and one address and in one *)
(* codec, no digit of another SSRC is reported beside it, and once         *)
(* negotiation has configured the receiver everything kept fits it, also   *)
(* what came before (accept, Configure).                                   *)
OneNegotiatedStream ==
  /\ \A r, s \in {o \in seen : o.audio} :
       r.packet.ssrc = s.packet.ssrc /\ r.packet.source = s.packet.source
       /\ r.packet.payload = s.packet.payload
  /\ stream # None => \A i \in Reported : digits[i].ssrc = stream
  /\ negotiated = "done" =>
       \A r \in seen :
         /\ r.packet.payload \in DOMAIN media.audio \cup {media.event}
         /\ r.packet.source.host = media.host
=============================================================================
