--------------------------- MODULE MediaNegotiation ---------------------------
(***************************************************************************)
(* Offer and answer of one call: the policy of ParseSDP and GenerateSDP    *)
(* (src/internal/sip/sdp.go) and what the answering session (runOutbound)  *)
(* and the calling one (runInbound) make of a description.                 *)
(*                                                                         *)
(* A description is what the text says once split into fields: formats in  *)
(* order, rtpmap lines in order, direction, payload types whose fmtp is no *)
(* list of events, whether it is one RTP/AVP audio section with a port and *)
(* an IPv4 address, and whether that address is allowed.                   *)
(***************************************************************************)
EXTENDS Integers, Sequences, FiniteSets, FiniteSetsExt, SequencesExt

CONSTANTS
  Descriptions,   \* what a peer may send
  Callees,        \* [codecs: in order of preference, sends, expects: BOOLEAN]
  Callers,        \* [codec, sends, expects]
  None            \* no description, codec or payload type

Encodings == {"PCMA", "PCMU", "telephone-event", "other"}

Directions == {"sendrecv", "sendonly", "recvonly", "inactive"}

Description ==
  [formats : Seq(0 .. 127),
   maps : Seq([payload : 0 .. 127, encoding : Encodings, clock : Nat]),
   direction : Directions, badEvents : SUBSET (0 .. 127), wellFormed : BOOLEAN, allowed : BOOLEAN]

ASSUME NegotiationAssumption ==
  /\ Descriptions \subseteq Description
  /\ None \notin Description /\ None \notin 0 .. 127
  /\ \A c \in Callees : c.codecs \in Seq({"PCMA", "PCMU"}) /\ c.codecs # <<>>
  /\ \A c \in Callers : c.codec \in {"PCMA", "PCMU"}

VARIABLES
  offer, answer,     \* descriptions on their way
  callee, caller,    \* scenarios of the two ends, None for an end that is not Sutel
  refused,           \* the callee answers 488, the caller ends the call
  calleeMedia, callerMedia   \* codec, payload and telephoneEvent of the dialog

vars == <<offer, answer, callee, caller, refused, calleeMedia, callerMedia>>

Map(payload, encoding, clock) == [payload |-> payload, encoding |-> encoding, clock |-> clock]

PayloadType(codec) == IF codec = "PCMU" THEN 0 ELSE 8

-----------------------------------------------------------------------------
(* ParseSDP. *)

HasFormat(d, payload) == \E i \in DOMAIN d.formats : d.formats[i] = payload

Lines(d, payload) == {i \in DOMAIN d.maps : d.maps[i].payload = payload}

(* The last line counts; 8 and 0 are mapped when they are formats.         *)
Mapping(d, payload) ==
  IF Lines(d, payload) # {} THEN d.maps[Max(Lines(d, payload))]
  ELSE IF payload \in {0, 8} /\ HasFormat(d, payload)
       THEN Map(payload, IF payload = 0 THEN "PCMU" ELSE "PCMA", 8000)
       ELSE None

Remaps(d) ==
  \E payload \in {0, 8} :
    /\ HasFormat(d, payload)
    /\ Mapping(d, payload) # Map(payload, IF payload = 0 THEN "PCMU" ELSE "PCMA", 8000)

(* The payload of the last line for telephone-event, if it is a format.    *)
EventLine(d) ==
  LET lines == {i \in DOMAIN d.maps : d.maps[i].encoding = "telephone-event"}
  IN IF lines = {} THEN None ELSE d.maps[Max(lines)].payload

Event(d) == IF HasFormat(d, EventLine(d)) THEN EventLine(d) ELSE None

Malformed(d) ==
  \/ ~d.wellFormed \/ d.formats = <<>>
  \/ Remaps(d) \/ Event(d) \in d.badEvents

CanSend(d) == d.direction \in {"sendrecv", "recvonly"}
CanReceive(d) == d.direction \in {"sendrecv", "sendonly"}

AnswerDirection(d) ==
  CASE d.direction = "sendonly" -> "recvonly"
    [] d.direction = "recvonly" -> "sendonly"
    [] OTHER -> d.direction

(* GenerateSDP for one codec.  It fails when both share a payload type.    *)
Generates(payload, event) == payload # event

Generated(codec, payload, event, direction) ==
  [formats |-> IF event = None THEN <<payload>> ELSE <<payload, event>>,
   maps |-> IF event = None THEN <<Map(payload, codec, 8000)>>
            ELSE <<Map(payload, codec, 8000), Map(event, "telephone-event", 8000)>>,
   direction |-> direction, badEvents |-> {}, wellFormed |-> TRUE, allowed |-> TRUE]

-----------------------------------------------------------------------------
Offers(d, payload, codec) ==
  HasFormat(d, payload) /\ Mapping(d, payload) = Map(payload, codec, 8000)

Common(d, codecs) == \E i \in DOMAIN codecs, j \in DOMAIN d.formats : Offers(d, d.formats[j], codecs[i])

(* Faulty variant: the order of the offer comes before that of the codecs. *)
ChooseByFormat(d, codecs) ==
  LET j == Min({k \in DOMAIN d.formats : \E i \in DOMAIN codecs : Offers(d, d.formats[k], codecs[i])})
  IN [codec |-> Mapping(d, d.formats[j]).encoding, payload |-> d.formats[j]]

(* chooseCodec: the first codec of ours with the first format that has it. *)
ChooseCodec(d, codecs) ==
  LET i == Min({k \in DOMAIN codecs : Common(d, <<codecs[k]>>)})
      j == Min({k \in DOMAIN d.formats : Offers(d, d.formats[k], codecs[i])})
  IN [codec |-> codecs[i], payload |-> d.formats[j]]

(* Telephone events count only at 8000.                                    *)
NegotiatedEvent(d) ==
  IF Event(d) # None /\ Mapping(d, Event(d)) = Map(Event(d), "telephone-event", 8000)
  THEN Event(d) ELSE None

Media(d, codecs) ==
  [codec |-> ChooseCodec(d, codecs).codec, payload |-> ChooseCodec(d, codecs).payload,
   event |-> NegotiatedEvent(d)]

(* One of the conditions for which runOutbound answers 488 and runInbound  *)
(* ends the call; an address is checked last, by configureMedia.           *)
Refuses(d, codecs, end) ==
  \/ Malformed(d) \/ ~Common(d, codecs)
  \/ end.sends /\ ~CanSend(d)
  \/ end.expects /\ ~CanReceive(d)
  \/ ~d.allowed

Offer(c) == Generated(c.codec, PayloadType(c.codec), 101, "sendrecv")

Init ==
  /\ refused = FALSE /\ calleeMedia = None /\ callerMedia = None
  /\ \/ /\ callee \in Callees /\ caller = None
        /\ offer \in Descriptions /\ answer = None
     \/ /\ callee \in Callees /\ caller \in Callers
        /\ offer = Offer(caller) /\ answer = None
     \/ /\ callee = None /\ caller \in Callers
        /\ offer = Offer(caller) /\ answer \in Descriptions

(* runOutbound and localAnswerSDP.                                         *)
AnswerOffer ==
  /\ callee # None /\ answer = None /\ ~refused
  /\ IF Refuses(offer, callee.codecs, callee)
     THEN refused' = TRUE /\ UNCHANGED <<answer, calleeMedia>>
     ELSE LET m == Media(offer, callee.codecs)
          IN /\ calleeMedia' = m
             /\ IF Generates(m.payload, m.event)
                THEN /\ answer' = Generated(m.codec, m.payload, m.event, AnswerDirection(offer))
                     /\ UNCHANGED refused
                ELSE refused' = TRUE /\ UNCHANGED answer
  /\ UNCHANGED <<offer, callee, caller, callerMedia>>

(* runInbound after a 200.                                                 *)
ReadAnswer ==
  /\ caller # None /\ answer # None /\ callerMedia = None /\ ~refused
  /\ IF Refuses(answer, <<caller.codec>>, caller)
     THEN refused' = TRUE /\ UNCHANGED callerMedia
     ELSE callerMedia' = Media(answer, <<caller.codec>>) /\ UNCHANGED refused
  /\ UNCHANGED <<offer, answer, callee, caller, calleeMedia>>

Next == AnswerOffer \/ ReadAnswer

Spec == Init /\ [][Next]_vars

-----------------------------------------------------------------------------
(* Properties. *)

Has(d, payload, encoding) == Offers(d, payload, encoding) /\ ~Malformed(d)

(* An answer takes the codec that is first in the scenario's order among   *)
(* those offered, under an offered payload type, and telephone events only *)
(* under another one offered for them; media is never sent against the     *)
(* direction of the peer; a parser that keeps the same rules reads in the  *)
(* answer what the callee configured, so that two Sutel ends configure the *)
(* same codec and payload types (chooseCodec, localAnswerSDP, runInbound). *)
AnswerFitsOffer ==
  /\ calleeMedia # None =>
       /\ answer # None
       /\ Has(offer, calleeMedia.payload, calleeMedia.codec)
       /\ \E i \in DOMAIN callee.codecs :
            /\ callee.codecs[i] = calleeMedia.codec
            /\ \A j \in 1 .. i - 1 : \A p \in 0 .. 127 : ~Offers(offer, p, callee.codecs[j])
       /\ calleeMedia.event # None => Has(offer, calleeMedia.event, "telephone-event")
       /\ calleeMedia.event # calleeMedia.payload
       /\ callee.sends => offer.direction \in {"sendrecv", "recvonly"} /\ CanReceive(answer)
       /\ callee.expects => CanSend(answer)
       /\ ~Malformed(answer) /\ Media(answer, <<"PCMA", "PCMU">>) = calleeMedia
  /\ callerMedia # None =>
       /\ Has(answer, callerMedia.payload, caller.codec)
       /\ calleeMedia # None => callerMedia = calleeMedia
       /\ caller.sends => answer.direction \in {"sendrecv", "recvonly"}
=============================================================================
