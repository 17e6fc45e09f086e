------------------------- MODULE MCMediaNegotiation -------------------------
(* TLC instance of MediaNegotiation: up to two formats and two rtpmap      *)
(* lines, among them remapped, repeated and 16000 Hz ones.                 *)
EXTENDS MediaNegotiation

Payloads == {0, 8, 96, 101}

MCMaps ==
  {Map(8, "PCMA", 8000), Map(8, "PCMU", 8000), Map(96, "PCMA", 8000), Map(96, "PCMU", 8000),
   Map(96, "PCMA", 16000), Map(96, "telephone-event", 8000),
   Map(101, "telephone-event", 8000), Map(101, "telephone-event", 16000)}

UpTo(S, n) == UNION {[1 .. k -> S] : k \in 0 .. n}

MCDescriptions ==
  [formats : UpTo(Payloads, 2), maps : UpTo(MCMaps, 2),
   direction : {"sendrecv", "sendonly", "recvonly", "inactive"},
   badEvents : {{}, {101}}, wellFormed : {TRUE}, allowed : {TRUE}]
  \cup
  [formats : {<<8, 101>>}, maps : {<<Map(101, "telephone-event", 8000)>>},
   direction : {"sendrecv"}, badEvents : {{}}, wellFormed : BOOLEAN, allowed : BOOLEAN]

MCCallees ==
  [codecs : {<<"PCMA">>, <<"PCMU">>, <<"PCMA", "PCMU">>, <<"PCMU", "PCMA">>},
   sends : {FALSE}, expects : BOOLEAN] \cup {[codecs |-> <<"PCMU", "PCMA">>, sends |-> TRUE, expects |-> FALSE]}

MCCallers == [codec : {"PCMA", "PCMU"}, sends : BOOLEAN, expects : {TRUE}]
=============================================================================
