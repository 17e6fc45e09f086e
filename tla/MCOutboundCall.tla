--------------------------- MODULE MCOutboundCall ---------------------------
(* TLC instance of OutboundCall: every behaviour with the options that     *)
(* change its control flow, and one datagram for each way the handlers     *)
(* tell messages apart.                                                    *)
EXTENDS OutboundCall

MCInviteCSeq == 1

Of(behavior) == [behavior |-> behavior, status |-> 486, omitTrying |-> FALSE,
                 sendRinging |-> FALSE, hangup |-> FALSE, media |-> "none",
                 expectAudio |-> FALSE]

MCScenarios ==
  {Of("timeout"), Of("noAnswer"), Of("networkLoss"), Of("negative")}
  \cup {[Of("answer") EXCEPT !.omitTrying = t, !.hangup = h, !.media = k] :
          t \in BOOLEAN, h \in BOOLEAN, k \in {"none", "playback", "echo"}}
  \cup {[Of("earlyMedia") EXCEPT !.sendRinging = r, !.hangup = h] :
          r \in BOOLEAN, h \in BOOLEAN}
  \cup {[Of("earlyFailure") EXCEPT !.omitTrying = t, !.status = st] :
          t \in BOOLEAN, st \in {486, 503}}
  \cup {[Of("answer") EXCEPT !.expectAudio = TRUE]}

Request(method, ids, cseq) ==
  [method |-> method, status |-> 0, call |-> TRUE, cseq |-> cseq, ids |-> ids,
   branch |-> TRUE, body |-> 200]

BYEResponse(status, cseq) == [Request("BYE", "dialog", cseq) EXCEPT !.status = status]

MCDatagrams ==
  {Request("INVITE", "invite", 1), Request("INVITE", "dialog", 2)}
  \cup {Request("CANCEL", "invite", 1), Request("CANCEL", "stranger", 1)}
  \cup {[Request("ACK", ids, 1) EXCEPT !.branch = b] :
          ids \in {"dialog", "stranger"}, b \in BOOLEAN}
  \cup {Request(method, "dialog", c) : method \in {"BYE", "INFO"}, c \in {NoCSeq, 2, 3}}
  \cup {[Request("INFO", "dialog", 3) EXCEPT !.body = 400],
        [Request("BYE", "dialog", 3) EXCEPT !.call = FALSE],
        Request("BYE", "stranger", 3), Request("OTHER", "dialog", 3)}
  \cup {BYEResponse(100, 2), BYEResponse(200, 2), BYEResponse(481, 2), BYEResponse(200, 1)}
=============================================================================
