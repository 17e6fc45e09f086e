------------------------ MODULE MediaNegotiationProofs ------------------------
(***************************************************************************)
(* Proofs about MediaNegotiation, for every set of descriptions of any     *)
(* length and every set of scenarios.                                      *)
(***************************************************************************)
EXTENDS MediaNegotiation, WellFoundedInduction, TLAPS

Codecs == {"PCMA", "PCMU"}

Types == 0 .. 127

-----------------------------------------------------------------------------
(* The smallest of some places of a sequence is one of them.               *)
LEMMA SmallestPlace ==
  ASSUME NEW n \in Nat, NEW S \in SUBSET (1 .. n), S # {}
  PROVE  Min(S) \in S /\ \A k \in S : Min(S) <= k
<1> DEFINE R == OpToRel(<, Nat)
<1>1. IsWellFoundedOn(R, Nat)
  BY NatLessThanWellFounded
<1>2. S \subseteq Nat
  OBVIOUS
<1>3. PICK x \in S : \A y \in S : <<y, x>> \notin R
  <2> HIDE DEF R
  <2> QED
    BY <1>1, <1>2, WFMin
<1>4. \A y \in S : x <= y
  <2> SUFFICES ASSUME NEW y \in S PROVE x <= y
    OBVIOUS
  <2>1. x \in Nat /\ y \in Nat
    BY <1>2, <1>3
  <2>2. <<y, x>> \notin R
    BY <1>3
  <2>3. ~(y < x)
    BY <2>1, <2>2 DEF OpToRel
  <2> HIDE DEF R
  <2> QED
    BY <2>1, <2>3
<1> QED
  BY <1>3, <1>4 DEF Min

-----------------------------------------------------------------------------
(* What both ends configure. *)

(* A codec and payload types that an answer can express: static types keep *)
(* their codec and are not for events, and the two types differ.           *)
Sound(m) ==
  /\ m.codec \in Codecs /\ m.payload \in Types /\ m.event \in Types \cup {None}
  /\ m.event # m.payload
  /\ m.payload = 0 => m.codec = "PCMU"
  /\ m.payload = 8 => m.codec = "PCMA"
  /\ m.event \notin {0, 8}

(* chooseCodec: the first of our codecs that was offered, as it was.       *)
LEMMA ChosenIsOffered ==
  ASSUME NEW d, d.formats \in Seq(Types), NEW codecs \in Seq(Codecs), Common(d, codecs)
  PROVE  /\ Offers(d, ChooseCodec(d, codecs).payload, ChooseCodec(d, codecs).codec)
         /\ ChooseCodec(d, codecs).payload \in Types /\ ChooseCodec(d, codecs).codec \in Codecs
         /\ \E i \in DOMAIN codecs :
              /\ codecs[i] = ChooseCodec(d, codecs).codec
              /\ \A j \in 1 .. i - 1 : \A p : ~Offers(d, p, codecs[j])
<1> DEFINE K == {k \in DOMAIN codecs : Common(d, <<codecs[k]>>)}
           i == Min(K)
           J == {k \in DOMAIN d.formats : Offers(d, d.formats[k], codecs[i])}
           j == Min(J)
<1>1. \A codec : Common(d, <<codec>>) <=> \E k \in DOMAIN d.formats : Offers(d, d.formats[k], codec)
  BY DEF Common
<1>2. K \in SUBSET (1 .. Len(codecs)) /\ K # {}
  <2>1. PICK k \in DOMAIN codecs, l \in DOMAIN d.formats : Offers(d, d.formats[l], codecs[k])
    BY DEF Common
  <2>2. k \in K
    BY <1>1, <2>1
  <2> QED
    BY <2>2
<1>3. i \in K /\ \A k \in K : i <= k
  <2>1. Len(codecs) \in Nat
    OBVIOUS
  <2> HIDE DEF K
  <2> QED
    BY <1>2, <2>1, SmallestPlace
<1>4. i \in DOMAIN codecs /\ i \in 1 .. Len(codecs) /\ Common(d, <<codecs[i]>>)
  BY <1>3
<1>5. \A k \in 1 .. i - 1 : \A p : ~Offers(d, p, codecs[k])
  <2> SUFFICES ASSUME NEW k \in 1 .. i - 1, NEW p, Offers(d, p, codecs[k]) PROVE FALSE
    OBVIOUS
  <2>1. k \in DOMAIN codecs /\ k < i
    BY <1>4
  <2>2. \E l \in DOMAIN d.formats : d.formats[l] = p
    BY DEF Offers, HasFormat
  <2>3. Common(d, <<codecs[k]>>)
    BY <1>1, <2>2
  <2>4. k \in K
    BY <2>1, <2>3
  <2>5. i <= k
    <3> HIDE DEF i, K
    <3> QED
      BY <1>3, <2>4
  <2>6. i \in 1 .. Len(codecs)
    BY <1>4
  <2> HIDE DEF i
  <2> QED
    BY <2>1, <2>5, <2>6
<1> HIDE DEF i
<1>6. J \in SUBSET (1 .. Len(d.formats)) /\ J # {}
  BY <1>1, <1>4
<1>7. j \in J
  <2>1. Len(d.formats) \in Nat
    OBVIOUS
  <2> HIDE DEF J
  <2> QED
    BY <1>6, <2>1, SmallestPlace
<1>8. Offers(d, d.formats[j], codecs[i]) /\ d.formats[j] \in Types /\ codecs[i] \in Codecs
  <2>1. Offers(d, d.formats[j], codecs[i]) /\ j \in DOMAIN d.formats
    BY <1>7
  <2> HIDE DEF j
  <2> QED
    BY <1>4, <2>1
<1>9. ChooseCodec(d, codecs) = [codec |-> codecs[i], payload |-> d.formats[j]]
  BY DEF ChooseCodec, i
<1> HIDE DEF j
<1> DEFINE c == ChooseCodec(d, codecs)
<1>10. c.codec = codecs[i] /\ c.payload = d.formats[j]
  BY <1>9
<1> HIDE DEF c
<1>11. \E k \in DOMAIN codecs :
         codecs[k] = c.codec /\ \A l \in 1 .. k - 1 : \A p : ~Offers(d, p, codecs[l])
  BY <1>4, <1>5, <1>10
<1>12. Offers(d, c.payload, c.codec) /\ c.payload \in Types /\ c.codec \in Codecs
  BY <1>8, <1>10
<1> QED
  BY <1>11, <1>12 DEF c

(* Telephone events have an offered payload type of their own.             *)
LEMMA EventIsOffered ==
  ASSUME NEW d, d.formats \in Seq(Types), NegotiatedEvent(d) # None
  PROVE  NegotiatedEvent(d) \in Types /\ Offers(d, NegotiatedEvent(d), "telephone-event")
<1> DEFINE e == NegotiatedEvent(d)
<1>1. e = Event(d) /\ Event(d) # None /\ Mapping(d, e) = Map(e, "telephone-event", 8000)
  BY DEF NegotiatedEvent
<1>2. HasFormat(d, e)
  BY <1>1 DEF Event
<1> HIDE DEF e
<1>3. e \in Types
  BY <1>2 DEF HasFormat
<1> QED
  BY <1>1, <1>2, <1>3 DEF Offers, e

(* What is offered with a static type has its codec, and one type has one  *)
(* encoding.                                                               *)
LEMMA OffersAgree ==
  ASSUME NEW d, ~Malformed(d), NEW p, NEW x, NEW y, Offers(d, p, x)
  PROVE  /\ p = 0 => x = "PCMU"
         /\ p = 8 => x = "PCMA"
         /\ Offers(d, p, y) => x = y
<1>1. HasFormat(d, p) /\ Mapping(d, p) = Map(p, x, 8000) /\ Map(p, x, 8000).encoding = x
  BY DEF Offers, Map
<1>2. Offers(d, p, y) => Mapping(d, p).encoding = y
  BY DEF Offers, Map
<1>3. p \in {0, 8} => Mapping(d, p) = Map(p, IF p = 0 THEN "PCMU" ELSE "PCMA", 8000)
  BY <1>1 DEF Malformed, Remaps
<1>4. p \in {0, 8} => Mapping(d, p).encoding = IF p = 0 THEN "PCMU" ELSE "PCMA"
  BY <1>3 DEF Map
<1> QED
  BY <1>1, <1>2, <1>4

(* What an end makes of a description that it accepts can be answered.     *)
LEMMA MediaIsSound ==
  ASSUME NEW d, d.formats \in Seq(Types), ~Malformed(d),
         NEW codecs \in Seq(Codecs), Common(d, codecs)
  PROVE  /\ Sound(Media(d, codecs))
         /\ Offers(d, Media(d, codecs).payload, Media(d, codecs).codec)
         /\ Media(d, codecs).event # None =>
              Offers(d, Media(d, codecs).event, "telephone-event")
         /\ \E i \in DOMAIN codecs :
              /\ codecs[i] = Media(d, codecs).codec
              /\ \A j \in 1 .. i - 1 : \A p : ~Offers(d, p, codecs[j])
<1> DEFINE m == Media(d, codecs)
<1>1. m.codec = ChooseCodec(d, codecs).codec /\ m.payload = ChooseCodec(d, codecs).payload
      /\ m.event = NegotiatedEvent(d)
  BY DEF Media
<1> HIDE DEF m
<1>2. /\ Offers(d, m.payload, m.codec) /\ m.payload \in Types /\ m.codec \in Codecs
      /\ \E i \in DOMAIN codecs :
           codecs[i] = m.codec /\ \A j \in 1 .. i - 1 : \A p : ~Offers(d, p, codecs[j])
  <2> DEFINE c == ChooseCodec(d, codecs)
  <2>1. Offers(d, c.payload, c.codec) /\ c.payload \in Types /\ c.codec \in Codecs
    BY ChosenIsOffered
  <2>2. \E i \in DOMAIN codecs :
          codecs[i] = c.codec /\ \A j \in 1 .. i - 1 : \A p : ~Offers(d, p, codecs[j])
    BY ChosenIsOffered, Zenon
  <2>3. m.codec = c.codec /\ m.payload = c.payload
    BY <1>1
  <2> HIDE DEF c
  <2> QED
    BY <2>1, <2>2, <2>3
<1>3. m.event # None => m.event \in Types /\ Offers(d, m.event, "telephone-event")
  BY <1>1, EventIsOffered
<1>4. "telephone-event" \notin Codecs /\ None \notin Types
  BY NegotiationAssumption DEF Codecs, Types
<1>5. m.event # m.payload
  BY <1>2, <1>3, <1>4, OffersAgree
<1>6. m.event \notin {0, 8}
  <2>1. 0 \in Types /\ 8 \in Types
    BY DEF Types
  <2>2. m.event # None => ~(m.event = 0) /\ ~(m.event = 8)
    BY <1>3, OffersAgree
  <2> QED
    BY <1>4, <2>1, <2>2
<1>7. (m.payload = 0 => m.codec = "PCMU") /\ (m.payload = 8 => m.codec = "PCMA")
  BY <1>2, OffersAgree
<1>8. Sound(m)
  BY <1>2, <1>3, <1>5, <1>6, <1>7 DEF Sound
<1> QED
  BY <1>2, <1>3, <1>8 DEF m

-----------------------------------------------------------------------------
(* What a description of ours says to the other end. *)

Says(d, m) == \E direction : d = Generated(m.codec, m.payload, m.event, direction)

LEMMA OnlyPlace == ASSUME NEW n \in Nat PROVE Max({n}) = n
<1>1. \A x \in {n} : x = n
  OBVIOUS
<1>2. Max({n}) \in {n}
  <2>1. \E x \in {n} : \A y \in {n} : x >= y
    OBVIOUS
  <2> QED
    BY <2>1 DEF Max
<1> QED
  BY <1>2

(* A description without telephone events.                                 *)
LEMMA PlainIsRead ==
  ASSUME NEW m, Sound(m), m.event = None, NEW d, Says(d, m)
  PROVE  /\ d.formats \in Seq(Types) /\ ~Malformed(d)
         /\ \A x, y : Offers(d, x, y) <=> x = m.payload /\ y = m.codec
         /\ NegotiatedEvent(d) = m.event
<1>1. m.codec \in Codecs /\ m.payload \in Types /\ None \notin Types
  BY NegotiationAssumption DEF Sound, Types
<1>2. d.formats = <<m.payload>> /\ d.maps = <<Map(m.payload, m.codec, 8000)>>
      /\ d.wellFormed = TRUE /\ d.badEvents = {}
  BY DEF Says, Generated
<1>3. DOMAIN d.formats = {1} /\ d.formats[1] = m.payload /\ d.formats # <<>>
      /\ d.formats \in Seq(Types)
  BY <1>1, <1>2
<1>4. DOMAIN d.maps = {1} /\ d.maps[1] = Map(m.payload, m.codec, 8000)
  BY <1>2
<1>5. d.maps[1].payload = m.payload /\ d.maps[1].encoding = m.codec /\ m.codec # "telephone-event"
  BY <1>1, <1>4 DEF Map, Codecs
<1>6. \A x : HasFormat(d, x) <=> x = m.payload
  BY <1>3 DEF HasFormat
<1>7. Mapping(d, m.payload) = Map(m.payload, m.codec, 8000)
  <2>1. Lines(d, m.payload) = {1}
    BY <1>4, <1>5 DEF Lines
  <2>2. Max({1}) = 1
    BY OnlyPlace
  <2> QED
    BY <1>4, <2>1, <2>2 DEF Mapping
<1>8. Event(d) = None
  <2>1. {i \in DOMAIN d.maps : d.maps[i].encoding = "telephone-event"} = {}
    BY <1>4, <1>5
  <2>2. EventLine(d) = None
    BY <2>1 DEF EventLine
  <2> QED
    BY <2>2 DEF Event
<1>9. ~Remaps(d)
  BY <1>6, <1>7 DEF Remaps, Sound
<1>10. ~Malformed(d)
  BY <1>2, <1>3, <1>9 DEF Malformed
<1>11. \A x, y : Offers(d, x, y) <=> x = m.payload /\ y = m.codec
  <2>1. \A y : Map(m.payload, m.codec, 8000) = Map(m.payload, y, 8000) <=> y = m.codec
    BY DEF Map
  <2> QED
    BY <1>6, <1>7, <2>1 DEF Offers
<1> QED
  BY <1>3, <1>8, <1>10, <1>11 DEF NegotiatedEvent

(* A description with telephone events.                                    *)
LEMMA EventsAreRead ==
  ASSUME NEW m, Sound(m), m.event # None, NEW d, Says(d, m)
  PROVE  /\ d.formats \in Seq(Types) /\ ~Malformed(d)
         /\ \A x, y : Offers(d, x, y) <=>
           (x = m.payload /\ y = m.codec) \/ (x = m.event /\ y = "telephone-event")
         /\ NegotiatedEvent(d) = m.event
<1>1. m.codec \in Codecs /\ m.payload \in Types /\ m.event \in Types /\ m.event # m.payload
  BY DEF Sound
<1>2. d.wellFormed = TRUE /\ d.badEvents = {}
  BY DEF Says, Generated
<1>3. d.formats = <<m.payload, m.event>>
      /\ d.maps = <<Map(m.payload, m.codec, 8000), Map(m.event, "telephone-event", 8000)>>
  BY DEF Says, Generated
<1>4. /\ DOMAIN d.formats = {1, 2} /\ d.formats[1] = m.payload /\ d.formats[2] = m.event
      /\ d.formats # <<>> /\ d.formats \in Seq(Types)
  BY <1>1, <1>3
<1>5. /\ DOMAIN d.maps = {1, 2} /\ d.maps[1] = Map(m.payload, m.codec, 8000)
      /\ d.maps[2] = Map(m.event, "telephone-event", 8000)
  BY <1>3
<1>6. /\ d.maps[1].payload = m.payload /\ d.maps[1].encoding = m.codec
      /\ d.maps[2].payload = m.event /\ d.maps[2].encoding = "telephone-event"
      /\ m.codec # "telephone-event"
  BY <1>1, <1>5 DEF Map, Codecs
<1>7. \A x : HasFormat(d, x) <=> x = m.payload \/ x = m.event
  BY <1>4 DEF HasFormat
<1>8. Mapping(d, m.payload) = Map(m.payload, m.codec, 8000)
  <2>1. Lines(d, m.payload) = {1}
    BY <1>1, <1>5, <1>6 DEF Lines
  <2>2. Max({1}) = 1
    BY OnlyPlace
  <2> QED
    BY <1>5, <2>1, <2>2 DEF Mapping
<1>9. Mapping(d, m.event) = Map(m.event, "telephone-event", 8000)
  <2>1. Lines(d, m.event) = {2}
    BY <1>1, <1>5, <1>6 DEF Lines
  <2>2. Max({2}) = 2
    BY OnlyPlace
  <2> QED
    BY <1>5, <2>1, <2>2 DEF Mapping
<1>10. Event(d) = m.event
  <2>1. {i \in DOMAIN d.maps : d.maps[i].encoding = "telephone-event"} = {2}
    BY <1>5, <1>6
  <2>2. Max({2}) = 2
    BY OnlyPlace
  <2>3. EventLine(d) = m.event
    BY <1>6, <2>1, <2>2 DEF EventLine
  <2> QED
    BY <1>7, <2>3 DEF Event
<1>11. ~Remaps(d)
  BY <1>7, <1>8 DEF Remaps, Sound
<1>12. ~Malformed(d)
  BY <1>2, <1>4, <1>11 DEF Malformed
<1>13. \A x, y : Offers(d, x, y) <=>
           (x = m.payload /\ y = m.codec) \/ (x = m.event /\ y = "telephone-event")
  <2>1. \A y : Map(m.payload, m.codec, 8000) = Map(m.payload, y, 8000) <=> y = m.codec
    BY DEF Map
  <2>2. \A y : Map(m.event, "telephone-event", 8000) = Map(m.event, y, 8000) <=> y = "telephone-event"
    BY DEF Map
  <2> QED
    BY <1>7, <1>8, <1>9, <2>1, <2>2 DEF Offers
<1>14. NegotiatedEvent(d) = m.event
  BY <1>9, <1>10 DEF NegotiatedEvent
<1> QED
  BY <1>4, <1>12, <1>13, <1>14

(* Both kinds.                                                             *)
LEMMA AnswerIsRead ==
  ASSUME NEW m, Sound(m), NEW d, Says(d, m)
  PROVE  /\ d.formats \in Seq(Types) /\ ~Malformed(d)
         /\ Offers(d, m.payload, m.codec)
         /\ \A x, y : Offers(d, x, y) /\ y \in Codecs => x = m.payload /\ y = m.codec
         /\ NegotiatedEvent(d) = m.event
<1>1. "telephone-event" \notin Codecs
  BY DEF Codecs
<1>2. CASE m.event = None
  BY <1>1, <1>2, PlainIsRead
<1>3. CASE m.event # None
  <2>1. d.formats \in Seq(Types) /\ ~Malformed(d) /\ NegotiatedEvent(d) = m.event
    BY <1>3, EventsAreRead
  <2>2. \A x, y : Offers(d, x, y) <=>
          (x = m.payload /\ y = m.codec) \/ (x = m.event /\ y = "telephone-event")
    BY <1>3, EventsAreRead
  <2> QED
    BY <1>1, <2>1, <2>2
<1> QED
  BY <1>2, <1>3

(* An end that has the codec of such a description configures what the     *)
(* other end did.                                                          *)
LEMMA EndsAgree ==
  ASSUME NEW m, Sound(m), m = [codec |-> m.codec, payload |-> m.payload, event |-> m.event],
         NEW d, Says(d, m),
         NEW codecs \in Seq(Codecs), Common(d, codecs)
  PROVE  Media(d, codecs) = m
<1>1. /\ d.formats \in Seq(Types)
      /\ \A x, y : Offers(d, x, y) /\ y \in Codecs => x = m.payload /\ y = m.codec
      /\ NegotiatedEvent(d) = m.event
  BY AnswerIsRead
<1> DEFINE c == ChooseCodec(d, codecs)
<1>2. Offers(d, c.payload, c.codec) /\ c.codec \in Codecs
  BY <1>1, ChosenIsOffered
<1>3. Media(d, codecs) = [codec |-> c.codec, payload |-> c.payload, event |-> NegotiatedEvent(d)]
  BY DEF Media
<1> HIDE DEF c
<1>4. c.payload = m.payload /\ c.codec = m.codec
  BY <1>1, <1>2
<1> QED
  BY <1>1, <1>3, <1>4

-----------------------------------------------------------------------------
(* The inductive invariant: what was configured is what the rules make of  *)
(* an accepted description.                                                *)

CalleeSettled ==
  calleeMedia # None =>
    /\ callee \in Callees /\ ~Refuses(offer, callee.codecs, callee)
    /\ calleeMedia = Media(offer, callee.codecs)
    /\ answer = Generated(calleeMedia.codec, calleeMedia.payload, calleeMedia.event,
                          AnswerDirection(offer))
    /\ answer # None

CallerSettled ==
  callerMedia # None =>
    /\ caller \in Callers /\ answer # None
    /\ ~Refuses(answer, <<caller.codec>>, caller)
    /\ callerMedia = Media(answer, <<caller.codec>>)

NInv ==
  /\ callee # None => callee \in Callees
  /\ caller # None => caller \in Callers
  /\ offer \in Description
  /\ answer # None => answer \in Description
  /\ CalleeSettled /\ CallerSettled

(* A description of ours is a description.                                 *)
LEMMA GeneratedIsTyped ==
  ASSUME NEW codec \in Codecs, NEW payload \in Types, NEW event \in Types \cup {None},
         NEW direction \in Directions
  PROVE  Generated(codec, payload, event, direction) \in Description
<1> DEFINE Lines1 == [payload : Types, encoding : Encodings, clock : Nat]
<1>1. Map(payload, codec, 8000) \in Lines1 /\ Map(event, "telephone-event", 8000) \in
        [payload : Types \cup {None}, encoding : Encodings, clock : Nat]
  BY DEF Map, Codecs, Encodings
<1>2. event # None => Map(event, "telephone-event", 8000) \in Lines1
  BY DEF Map, Encodings
<1>3. Generated(codec, payload, event, direction).maps \in Seq(Lines1)
  <2> DEFINE first == Map(payload, codec, 8000)
             second == Map(event, "telephone-event", 8000)
  <2>1. Generated(codec, payload, event, direction).maps
          = IF event = None THEN <<first>> ELSE <<first, second>>
    BY DEF Generated
  <2> HIDE DEF Lines1, first, second
  <2> QED
    BY <1>1, <1>2, <2>1 DEF first, second
<1>4. Generated(codec, payload, event, direction).formats \in Seq(Types)
  BY DEF Generated
<1> HIDE DEF Lines1
<1>5. Generated(codec, payload, event, direction) \in
        [formats : Seq(Types), maps : Seq(Lines1), direction : Directions,
         badEvents : SUBSET Types, wellFormed : BOOLEAN, allowed : BOOLEAN]
  BY <1>3, <1>4 DEF Generated
<1> QED
  BY <1>5 DEF Description, Types, Lines1

(* A description offers payload types.                                     *)
LEMMA FormatsAreTyped == \A d \in Description : d.formats \in Seq(Types)
BY DEF Description, Types

LEMMA AnswerOfferKeeps ==
  ASSUME NInv, AnswerOffer
  PROVE  NInv'
<1>1. /\ callee # None /\ answer = None /\ callee \in Callees
      /\ UNCHANGED <<offer, callee, caller, callerMedia>>
  BY DEF AnswerOffer, NInv
<1>2. callerMedia = None
  BY <1>1 DEF NInv, CallerSettled
<1>3. CASE Refuses(offer, callee.codecs, callee)
  <2>1. UNCHANGED <<answer, calleeMedia>>
    BY <1>3 DEF AnswerOffer
  <2> QED
    BY <1>1, <2>1 DEF NInv, CalleeSettled, CallerSettled
<1>4. CASE ~Refuses(offer, callee.codecs, callee)
  <2> DEFINE m == Media(offer, callee.codecs)
  <2>1. offer.formats \in Seq(Types) /\ callee.codecs \in Seq(Codecs)
        /\ ~Malformed(offer) /\ Common(offer, callee.codecs)
    BY <1>1, <1>4, FormatsAreTyped, NegotiationAssumption DEF NInv, Refuses, Codecs
  <2>2. Sound(m)
    BY <2>1, MediaIsSound
  <2>3. calleeMedia' = m
        /\ (Generates(m.payload, m.event) =>
             answer' = Generated(m.codec, m.payload, m.event, AnswerDirection(offer)))
    BY <1>4 DEF AnswerOffer
  <2> HIDE DEF m
  <2>4. answer' = Generated(m.codec, m.payload, m.event, AnswerDirection(offer))
    BY <2>2, <2>3 DEF Sound, Generates
  <2>5. AnswerDirection(offer) \in Directions
    <3>1. offer.direction \in Directions
      BY DEF NInv, Description
    <3> QED
      BY <3>1 DEF AnswerDirection, Directions
  <2>6. answer' \in Description
    BY <2>2, <2>4, <2>5, GeneratedIsTyped DEF Sound
  <2>7. answer' # None
    BY <2>6, NegotiationAssumption
  <2>8. CalleeSettled'
    BY <1>1, <1>4, <2>3, <2>4, <2>7 DEF CalleeSettled, m
  <2> QED
    BY <1>1, <1>2, <2>6, <2>8 DEF NInv, CallerSettled
<1> QED
  BY <1>3, <1>4

LEMMA ReadAnswerKeeps ==
  ASSUME NInv, ReadAnswer
  PROVE  NInv'
<1>1. /\ caller # None /\ answer # None /\ caller \in Callers
      /\ UNCHANGED <<offer, answer, callee, caller, calleeMedia>>
  BY DEF ReadAnswer, NInv
<1>2. CallerSettled'
  BY <1>1 DEF ReadAnswer, CallerSettled
<1> QED
  BY <1>1, <1>2 DEF NInv, CalleeSettled

(* The first offer: ours, or that of another program.                      *)
LEMMA FirstOffer ==
  ASSUME Init
  PROVE  NInv
<1>1. \A c \in Callers : Offer(c) \in Description
  <2> SUFFICES ASSUME NEW c \in Callers PROVE Offer(c) \in Description
    OBVIOUS
  <2>1. c.codec \in Codecs /\ PayloadType(c.codec) \in Types /\ 101 \in Types
    BY NegotiationAssumption DEF PayloadType, Types, Codecs
  <2>2. "sendrecv" \in Directions
    BY DEF Directions
  <2> QED
    BY <2>1, <2>2, GeneratedIsTyped DEF Offer
<1> QED
  BY <1>1, NegotiationAssumption DEF Init, NInv, CalleeSettled, CallerSettled

(* What an end configures follows from an accepted description.            *)
THEOREM NegotiationInvariance == Spec => []NInv
<1>1. Init => NInv
  BY FirstOffer
<1>2. NInv /\ [Next]_vars => NInv'
  <2>1. NInv /\ UNCHANGED vars => NInv'
    BY DEF vars, NInv, CalleeSettled, CallerSettled
  <2> QED
    BY <2>1, AnswerOfferKeeps, ReadAnswerKeeps DEF Next
<1> QED
  BY <1>1, <1>2, PTL DEF Spec

(* The callee's part of AnswerFitsOffer.                                   *)
LEMMA CalleeFits ==
  ASSUME NInv, calleeMedia # None
  PROVE  /\ answer # None
         /\ Has(offer, calleeMedia.payload, calleeMedia.codec)
         /\ \E i \in DOMAIN callee.codecs :
              /\ callee.codecs[i] = calleeMedia.codec
              /\ \A j \in 1 .. i - 1 : \A p \in 0 .. 127 : ~Offers(offer, p, callee.codecs[j])
         /\ calleeMedia.event # None => Has(offer, calleeMedia.event, "telephone-event")
         /\ calleeMedia.event # calleeMedia.payload
         /\ callee.sends => offer.direction \in {"sendrecv", "recvonly"} /\ CanReceive(answer)
         /\ callee.expects => CanSend(answer)
         /\ ~Malformed(answer) /\ Media(answer, <<"PCMA", "PCMU">>) = calleeMedia
<1> DEFINE m == calleeMedia
           codecs == callee.codecs
<1>1. /\ callee \in Callees /\ ~Refuses(offer, codecs, callee) /\ m = Media(offer, codecs)
      /\ answer = Generated(m.codec, m.payload, m.event, AnswerDirection(offer))
      /\ answer # None
  BY DEF NInv, CalleeSettled
<1>2. offer.formats \in Seq(Types) /\ codecs \in Seq(Codecs)
      /\ ~Malformed(offer) /\ Common(offer, codecs)
  BY <1>1, FormatsAreTyped, NegotiationAssumption DEF NInv, Refuses, Codecs
<1>3. Sound(m) /\ Has(offer, m.payload, m.codec)
      /\ (m.event # None => Has(offer, m.event, "telephone-event"))
  BY <1>1, <1>2, MediaIsSound DEF Has
<1>4. \E i \in DOMAIN codecs :
        codecs[i] = m.codec /\ \A j \in 1 .. i - 1 : \A p \in 0 .. 127 : ~Offers(offer, p, codecs[j])
  <2>1. \E i \in DOMAIN codecs :
          /\ codecs[i] = Media(offer, codecs).codec
          /\ \A j \in 1 .. i - 1 : \A p : ~Offers(offer, p, codecs[j])
    <3> HIDE DEF codecs
    <3> QED
      BY <1>2, MediaIsSound
  <2> QED
    BY <1>1, <2>1
<1>5. answer.direction = AnswerDirection(offer)
  BY <1>1 DEF Generated
<1>6. callee.sends => offer.direction \in {"sendrecv", "recvonly"} /\ CanReceive(answer)
  BY <1>1, <1>5 DEF Refuses, CanSend, CanReceive, AnswerDirection
<1>7. callee.expects => CanSend(answer)
  BY <1>1, <1>5 DEF Refuses, CanSend, CanReceive, AnswerDirection
<1>8. Says(answer, m)
  BY <1>1 DEF Says
<1>9. ~Malformed(answer) /\ Offers(answer, m.payload, m.codec)
  BY <1>3, <1>8, AnswerIsRead
<1>10. Media(answer, <<"PCMA", "PCMU">>) = m
  <2>1. <<"PCMA", "PCMU">> \in Seq(Codecs)
    BY DEF Codecs
  <2>2. Common(answer, <<"PCMA", "PCMU">>)
    BY <1>3, <1>9 DEF Common, Offers, HasFormat, Sound, Codecs
  <2>3. m = [codec |-> m.codec, payload |-> m.payload, event |-> m.event]
    BY <1>1 DEF Media
  <2> HIDE DEF m
  <2> QED
    BY <1>3, <1>8, <2>1, <2>2, <2>3, EndsAgree
<1> QED
  BY <1>1, <1>3, <1>4, <1>6, <1>7, <1>9, <1>10 DEF Sound

(* The caller's part.                                                      *)
LEMMA CallerFits ==
  ASSUME NInv, callerMedia # None
  PROVE  /\ Has(answer, callerMedia.payload, caller.codec)
         /\ calleeMedia # None => callerMedia = calleeMedia
         /\ caller.sends => answer.direction \in {"sendrecv", "recvonly"}
<1> DEFINE m == callerMedia
           codecs == <<caller.codec>>
<1>1. /\ caller \in Callers /\ answer # None /\ ~Refuses(answer, codecs, caller)
      /\ m = Media(answer, codecs)
  BY DEF NInv, CallerSettled
<1>2. answer.formats \in Seq(Types) /\ codecs \in Seq(Codecs)
      /\ ~Malformed(answer) /\ Common(answer, codecs)
  BY <1>1, FormatsAreTyped, NegotiationAssumption DEF NInv, Refuses, Codecs
<1>3. Offers(answer, m.payload, m.codec) /\ \E i \in DOMAIN codecs : codecs[i] = m.codec
  <2>1. /\ Offers(answer, Media(answer, codecs).payload, Media(answer, codecs).codec)
        /\ \E i \in DOMAIN codecs : codecs[i] = Media(answer, codecs).codec
    <3> HIDE DEF codecs
    <3> QED
      BY <1>2, MediaIsSound
  <2> QED
    BY <1>1, <2>1
<1>4. m.codec = caller.codec
  BY <1>3
<1>5. calleeMedia # None => m = calleeMedia
  <2> SUFFICES ASSUME calleeMedia # None PROVE m = calleeMedia
    OBVIOUS
  <2>1. /\ callee \in Callees /\ ~Refuses(offer, callee.codecs, callee)
        /\ calleeMedia = Media(offer, callee.codecs)
        /\ answer = Generated(calleeMedia.codec, calleeMedia.payload, calleeMedia.event,
                              AnswerDirection(offer))
    BY DEF NInv, CalleeSettled
  <2>2. Sound(calleeMedia)
    <3>1. offer.formats \in Seq(Types) /\ callee.codecs \in Seq(Codecs)
          /\ ~Malformed(offer) /\ Common(offer, callee.codecs)
      BY <2>1, FormatsAreTyped, NegotiationAssumption DEF NInv, Refuses, Codecs
    <3> QED
      BY <2>1, <3>1, MediaIsSound
  <2>3. Says(answer, calleeMedia)
    BY <2>1 DEF Says
  <2>4. calleeMedia = [codec |-> calleeMedia.codec, payload |-> calleeMedia.payload,
                       event |-> calleeMedia.event]
    BY <2>1 DEF Media
  <2> HIDE DEF codecs
  <2> QED
    BY <1>1, <1>2, <2>2, <2>3, <2>4, EndsAgree
<1>6. caller.sends => answer.direction \in {"sendrecv", "recvonly"}
  BY <1>1 DEF Refuses, CanSend
<1> QED
  BY <1>2, <1>3, <1>4, <1>5, <1>6 DEF Has

(* Whatever was offered and whoever answers, the answer fits the offer and *)
(* two Sutel ends agree (chooseCodec, localAnswerSDP, runInbound).         *)
THEOREM AgreementCorrect == Spec => []AnswerFitsOffer
<1>1. NInv => AnswerFitsOffer
  BY CalleeFits, CallerFits DEF AnswerFitsOffer
<1> QED
  BY <1>1, NegotiationInvariance, PTL
=============================================================================
