----------------------------- MODULE MCRtpStream -----------------------------
(* TLC instance of RtpStream: numbers of the stream begin just below their *)
(* moduli, one audio file of four frames, then two equal digits.          *)
EXTENDS RtpStream

Host(h, port) == [host |-> h, port |-> port]

MCEndpoint == Host("peer", 1)
MCDefaultMedia == [audio |-> (8 :> "PCMA" @@ 0 :> "PCMU"), event |-> 101, host |-> None]
MCNegotiations ==
  {[audio |-> 8 :> "PCMA", event |-> 101, host |-> "peer"],
   [audio |-> 0 :> "PCMU", event |-> None, host |-> "peer"]}
MCDigits == <<5, 5>>
MCEventDurations == <<1, 2, 2>>
MCOrigins == {<<31, 62>>}

Stray(from, address, type, number, content) ==
  [seq |-> number, ts |-> 7, ssrc |-> from, payload |-> type, source |-> address,
   body |-> content, n |-> None, at |-> None]

MCStrays ==
  {Stray("other", Host("peer", 2), 8, 3, [frame |-> None]),
   Stray("own", Host("else", 1), 8, 1, [frame |-> None]),
   Stray("own", Host("peer", 1), 0, 0, [frame |-> None]),
   Stray("other", Host("peer", 2), 101, 9, [digit |-> 5, end |-> TRUE, duration |-> 3]),
   Stray("own", Host("peer", 1), 101, 7, [digit |-> None, end |-> TRUE, duration |-> 3])}
=============================================================================
