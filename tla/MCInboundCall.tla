---------------------------- MODULE MCInboundCall ----------------------------
(* TLC instance of InboundCall: one scenario for each combination of       *)
(* options that changes its control flow, and one datagram for each way    *)
(* the handlers tell messages apart, with every CSeq number the call uses. *)
EXTENDS InboundCall

MCInviteCSeq == 1

Plain == [credentials |-> FALSE, cancelAfter |-> FALSE, expect |-> 200,
          info |-> <<>>, duration |-> FALSE, media |-> FALSE]

MCScenarios ==
  {Plain,
   [Plain EXCEPT !.credentials = TRUE, !.cancelAfter = TRUE, !.expect = 487],
   [Plain EXCEPT !.credentials = TRUE, !.duration = TRUE, !.media = TRUE],
   [Plain EXCEPT !.expect = 401],
   [Plain EXCEPT !.info = <<TRUE, FALSE>>, !.media = TRUE],
   [Plain EXCEPT !.info = <<FALSE, FALSE>>, !.duration = TRUE]}

Request(method, ids, cseq_) ==
  [method |-> method, status |-> 0, call |-> TRUE, cseq |-> cseq_, ids |-> ids,
   branch |-> FALSE, body |-> 200]

Response(method, status, cseq_) ==
  [Request(method, "dialog", cseq_) EXCEPT !.status = status]

MCDatagrams ==
  {Response("INVITE", status, c) : status \in {180, 200, 401, 487}, c \in {1, 2}}
  \cup {[Response("INVITE", 200, 1) EXCEPT !.ids = "stranger"],
        [Response("INVITE", 200, 1) EXCEPT !.call = FALSE],
        Response("CANCEL", 200, 1)}
  \cup {Response("INFO", status, c) : status \in {200, 481}, c \in {2, 3}}
  \cup {Response("BYE", status, c) : status \in {200, 481}, c \in {2, 3, 4}}
  \cup {Request("BYE", "dialog", 2), Request("INFO", "dialog", 1), Request("INFO", "dialog", 2),
        [Request("INFO", "dialog", 2) EXCEPT !.body = 400],
        Request("BYE", "dialog", NoCSeq), Request("BYE", "stranger", 2),
        Request("OTHER", "dialog", 1), Request("ACK", "dialog", 1)}
=============================================================================
