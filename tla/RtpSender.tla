------------------------------ MODULE RtpSender ------------------------------
(***************************************************************************)
(* The RTP stream of one session: src/rtpverifier/sender.go, as the media  *)
(* goroutine uses it: Play sends one audio file in frames, then SendDTMF   *)
(* sends digits as RFC 4733 telephone events.                              *)
(*                                                                         *)
(* Numbers are those of the wire: sequence numbers mod SeqModulus and      *)
(* timestamps mod TsModulus (2^16 and 2^32 in the code).  Each packet also *)
(* carries, for the properties, its place in the stream: n, the number of  *)
(* packets before it, and at, the first of its samples.                    *)
(***************************************************************************)
EXTENDS RtpPackets, Sequences

CONSTANTS
  CatchUp,          \* frames a send may be late before it is skipped, 5
  Frames,           \* length of the audio, in frames
  Digits,           \* the digits to send, in order
  EventDurations,   \* duration in each packet of an event: 160 ... 640, 640, 640
  FirstEnd,         \* the first of them that carries the end bit, 4
  EventSamples,     \* samples an event takes of the timeline, 800
  Origins,          \* initial <<sequence, timestamp>>, chosen at random
  Stream, AudioPayload, EventPayload, Endpoint   \* SSRC, payload types, address

ASSUME SenderAssumption ==
  /\ EventSamples \in Nat \ {0} /\ CatchUp \in Nat /\ FirstEnd \in Nat
  /\ Frames \in Nat /\ Digits \in Seq(0 .. 15)
  /\ EventDurations \in Seq(Nat) /\ EventDurations # <<>>
  /\ AudioPayload # EventPayload
  /\ \A i \in DOMAIN EventDurations :
       /\ EventDurations[i] <= EventDurations[Len(EventDurations)]
       /\ i >= FirstEnd => EventDurations[i] = EventDurations[Len(EventDurations)]
  /\ Origins \subseteq (0 .. SeqModulus - 1) \X (0 .. TsModulus - 1)

VARIABLES
  origin,      \* the initial sequence and timestamp
  sequence,    \* Sender.sequence
  timestamp,   \* Sender.timestamp
  frame,       \* frames played or skipped by Play
  digit,       \* digits sent by SendDTMF
  burst,       \* packets sent of the current event
  failed,      \* a write failed: the media goroutine has returned
  attempts,    \* stats.PacketsAttempted
  wire         \* history: the packets written to the socket

sender == <<origin, sequence, timestamp, frame, digit, burst, failed, attempts, wire>>

SenderInit ==
  /\ origin \in Origins
  /\ sequence = origin[1] /\ timestamp = origin[2]
  /\ frame = 0 /\ digit = 0 /\ burst = 0
  /\ failed = FALSE /\ attempts = 0 /\ wire = <<>>

Packet(payload, at, body) ==
  [seq |-> sequence, ts |-> timestamp, ssrc |-> Stream, payload |-> payload,
   source |-> Endpoint, body |-> body, n |-> attempts, at |-> at]

(* writePacket: sequence numbers are consumed by failed writes too.        *)
Write(packet, ok) ==
  /\ sequence' = (sequence + 1) % SeqModulus
  /\ attempts' = attempts + 1
  /\ failed' = ~ok
  /\ wire' = IF ok THEN Append(wire, packet) ELSE wire

(* Play: a frame whose deadline passed at most CatchUp frames ago.         *)
SendAudioFrame(ok) ==
  /\ ~failed /\ frame < Frames
  /\ Write(Packet(AudioPayload, frame * FrameSamples, [frame |-> frame]), ok)
  /\ timestamp' = (timestamp + FrameSamples) % TsModulus
  /\ frame' = frame + 1
  /\ UNCHANGED <<origin, digit, burst>>

(* Faulty variant: skipped frames do not take their time on the line.      *)
SkipWithoutTime(frames) ==
  /\ ~failed /\ frame < Frames
  /\ frames \in 1 .. Frames - frame
  /\ frames >= CatchUp \/ frames = Frames - frame
  /\ frame' = frame + frames
  /\ UNCHANGED <<origin, sequence, timestamp, digit, burst, failed, attempts, wire>>

(* Play runs more than CatchUp frames late: it leaves out as many as       *)
(* have passed, never more than are left.                                  *)
SkipLateFrames(frames) ==
  /\ ~failed /\ frame < Frames
  /\ frames \in 1 .. Frames - frame
  /\ frames >= CatchUp \/ frames = Frames - frame
  /\ timestamp' = (timestamp + frames * FrameSamples) % TsModulus
  /\ frame' = frame + frames
  /\ UNCHANGED <<origin, sequence, digit, burst, failed, attempts, wire>>

EventAt == Frames * FrameSamples + digit * EventSamples

(* SendDTMF: every packet of an event has the timestamp of its start; the  *)
(* event takes its time on the line after its last packet.                 *)
SendEventPacket(ok) ==
  /\ ~failed /\ frame = Frames /\ digit < Len(Digits)
  /\ Write(Packet(EventPayload, EventAt,
                  [digit |-> Digits[digit + 1], end |-> burst + 1 >= FirstEnd,
                   duration |-> EventDurations[burst + 1]]), ok)
  /\ IF ok /\ burst + 1 = Len(EventDurations)
     THEN /\ burst' = 0 /\ digit' = digit + 1
          /\ timestamp' = (timestamp + EventSamples) % TsModulus
     ELSE burst' = burst + 1 /\ UNCHANGED <<digit, timestamp>>
  /\ UNCHANGED <<origin, frame>>

SenderNext ==
  \/ \E ok \in BOOLEAN : SendAudioFrame(ok) \/ SendEventPacket(ok)
  \/ \E frames \in 1 .. Frames : SkipLateFrames(frames)
=============================================================================
