------------------------------ MODULE InboundCall ------------------------------
(***************************************************************************)
(* The caller (UAC) side of one session: src/inbound.go with the dialog    *)
(* loops and client transactions of src/dialog.go and the dialog handler   *)
(* of src/signaling.go.                                                    *)
(*                                                                         *)
(* As in OutboundCall, the session goroutine (pc), the media goroutine     *)
(* (media) and the session context (ctx) interleave, any datagram of       *)
(* Datagrams may be read at any time, and an armed timer may fire at any   *)
(* moment.  The session's INVITE carries CSeq InviteCSeq, its retry after  *)
(* a digest challenge the next number.                                     *)
(***************************************************************************)
EXTENDS SipDialog, Sequences

CONSTANTS
  Scenarios,   \* the scenarios to run, a set of Scenario records
  Datagrams    \* the datagrams the network may deliver, a set of Datagram

(* InboundScenario as validate accepts it.  info has one entry for every   *)
(* SIP INFO digit: whether waitDialogDuration follows it, which it does    *)
(* between two digits of one action with an interval.  duration says       *)
(* CallDuration > 0, media that audio or RFC 4733 digits are to be sent.   *)
Scenario == [credentials : BOOLEAN, cancelAfter : BOOLEAN, expect : 200 .. 699,
             info : Seq(BOOLEAN), duration : BOOLEAN, media : BOOLEAN]

ASSUME ScenariosAssumption ==
  /\ Scenarios \subseteq Scenario
  /\ \A s \in Scenarios : /\ s.credentials => s.expect # 401
                          /\ s.info # <<>> => ~s.info[Len(s.info)]

(* runInbound numbers its INVITE 1. *)
ASSUME FirstCSeqAssumption == InviteCSeq > 0

ASSUME DatagramsAssumption == Datagrams \subseteq Datagram

(* How runInbound finds the 2xx it acknowledged: usable, without a To tag, *)
(* without a Contact, or with a session description it must refuse.        *)
Answers == {"usable", "untagged", "noContact", "refused"}

VARIABLES
  scenario,    \* s.inbound
  pc,          \* where the session goroutine stands
  resume,      \* what it does once the media goroutine is joined
  ctx,         \* s.ctx: live, or the error it ended with
  cseq,        \* CSeq number of the current INVITE
  provisional, \* a provisional response was read in this transaction
  hangup,      \* the CancelAfter timer of this transaction is armed
  localCSeq,   \* dialog.localCSeq
  remoteCSeq,  \* dialog.remoteCSeq
  digit,       \* INFO digits sent so far
  media,       \* media goroutine: none, running, canceled, finished
  mediaErr,    \* the error it finished with, a set of at most one class
  finalStatus, established, canceled, terminatedBy,   \* s.outcome
  digits,      \* CSeq numbers of the INFOs in s.infoDTMF
  runErr,      \* classes of the error runInbound returns
  bye,         \* history: own BYE: none, lost (could not be sent), sent, answered
  unacked,     \* history: CSeqs of INVITEs whose final response has no ACK yet
  confirmed,   \* history: INFO digits that got a 2xx
  untagged,    \* history: the 2xx had no To tag
  highest,     \* history: highest CSeq number of a new request of the call
  in,          \* history: what the last step read: none, duplicateOK, other
  out          \* history: messages sent by the last step

control == <<pc, resume>>
invite  == <<cseq, provisional, hangup, unacked, untagged>>
sending == <<localCSeq, digit, confirmed, bye, highest>>
taken   == <<remoteCSeq, digits>>
player  == <<media, mediaErr>>
outcome == <<finalStatus, established, canceled, terminatedBy>>
vars    == <<scenario, control, ctx, invite, sending, taken, player, outcome, runErr, in, out>>

-----------------------------------------------------------------------------
(* Locations of the session goroutine. *)

(* handleDialogRequest reads here; the last two are client transactions.   *)
InDialogLoop == {"dialog", "gap", "waitINFO", "waitBYE"}

(* Faulty variant: cancelTimedOutInvite does not select on the context.    *)
ReadingUntilCANCEL == InDialogLoop \cup {"calling", "absorb"}

(* Everything that blocks in readSIPWithTimers.                            *)
Reading == InDialogLoop \cup {"calling", "absorb", "cancelling"}

Sending == {"sendInvite", "cancelRinging", "ackChallenge", "ackSuccess", "ackFailure",
            "cancelTimedOut", "ackLateSuccess", "ackLateFailure", "byeLate", "byeFailed",
            "sendINFO", "sendBYE", "sendBYEOnce"}

Locations == Reading \cup Sending \cup {"beginWait", "joinMedia", "returned", "done"}

(* Where the media goroutine runs beside the session goroutine.            *)
WithMedia == {"sendINFO", "waitINFO", "gap", "beginWait", "dialog"}

ErrorClasses == {"deadline", "canceled", "transport", "negotiation",
                 "verification", "protocol", "media"}

Out == [method : RequestMethods, status : {0} \cup Statuses, cseq : Nat \cup {NoCSeq},
        again : BOOLEAN, to : {"call", "fork"}]

Say(method, number, again) ==
  [method |-> method, status |-> 0, cseq |-> number, again |-> again, to |-> "call"]

SayFork(method, number) ==
  [method |-> method, status |-> 0, cseq |-> number, again |-> FALSE, to |-> "fork"]

AnswerOf(m, status, again) ==
  [method |-> m.method, status |-> status, cseq |-> m.cseq, again |-> again, to |-> "call"]

Parties == {"NoParty", "Sutel", "SUT"}

TypeOK ==
  /\ scenario \in Scenarios
  /\ pc \in Locations
  /\ resume \in {"none", "bye", "byeOnce", "end"}
  /\ ctx \in {"live", "deadline", "canceled"}
  /\ cseq \in {InviteCSeq, InviteCSeq + 1}
  /\ provisional \in BOOLEAN /\ hangup \in BOOLEAN /\ untagged \in BOOLEAN
  /\ localCSeq \in Nat /\ remoteCSeq \in Nat
  /\ digit \in 0 .. Len(scenario.info) /\ confirmed \in 0 .. digit
  /\ media \in {"none", "running", "canceled", "finished"}
  /\ mediaErr \subseteq {"media", "canceled", "deadline"}
  /\ finalStatus \in {0} \cup 200 .. 699 /\ terminatedBy \in Parties
  /\ established \in BOOLEAN /\ canceled \in BOOLEAN
  /\ digits \in Seq(Nat)
  /\ runErr \subseteq ErrorClasses
  /\ bye \in {"none", "lost", "sent", "answered"}
  /\ unacked \subseteq {InviteCSeq, InviteCSeq + 1}
  /\ highest \in Nat
  /\ in \in {"none", "duplicateOK", "other"}
  /\ out \in Seq(Out)

Init ==
  /\ scenario \in Scenarios
  /\ pc = "sendInvite" /\ resume = "none" /\ ctx = "live"
  /\ cseq = InviteCSeq /\ provisional = FALSE /\ hangup = FALSE
  /\ localCSeq = InviteCSeq /\ remoteCSeq = 0 /\ digit = 0
  /\ media = "none" /\ mediaErr = {}
  /\ finalStatus = 0 /\ established = FALSE /\ canceled = FALSE /\ terminatedBy = "NoParty"
  /\ digits = <<>> /\ runErr = {}
  /\ bye = "none" /\ unacked = {} /\ confirmed = 0 /\ untagged = FALSE
  /\ highest = 0 /\ in = "none" /\ out = <<>>

-----------------------------------------------------------------------------
(* Pieces shared by the actions. *)

Quiet == in' = "none" /\ out' = <<>>

Emit(message) == in' = "none" /\ out' = <<message>>

Return(errors) ==
  runErr' = runErr \cup errors /\ pc' = "returned" /\ UNCHANGED <<resume, media>>

(* Faulty variant: the media goroutine is cancelled but not joined.        *)
StopDialogAtOnce(next, errors) ==
  /\ runErr' = runErr \cup errors
  /\ media' = IF media = "running" /\ ctx = "live" THEN "canceled" ELSE media
  /\ pc' = (IF next = "bye" THEN "sendBYE" ELSE IF next = "end" THEN "returned" ELSE "sendBYEOnce")
  /\ UNCHANGED resume

(* cancelMedia, then the join; a context that already ended keeps its own  *)
(* error.                                                                  *)
StopDialog(next, errors) ==
  /\ runErr' = runErr \cup errors
  /\ media' = IF media = "running" /\ ctx = "live" THEN "canceled" ELSE media
  /\ pc' = "joinMedia" /\ resume' = next

(* Faulty variant: an INFO that fails ends the call without a BYE.         *)
AbortSilently(error) ==
  IF pc \in WithMedia THEN StopDialog("end", {error}) ELSE Return({error})

(* An error out of a read or a write: an established dialog gets one BYE.  *)
(* The two short waits after the call was given up end at the session      *)
(* deadline without an error of their own.                                 *)
Abort(error) ==
  IF pc \in WithMedia THEN StopDialog("byeOnce", {error})
  ELSE IF pc \in {"absorb", "cancelling"} /\ error = "deadline" THEN Return({})
  ELSE Return({error})

(* A final response to the current INVITE, by Call-ID and CSeq alone.      *)
FinalResponse(m) ==
  ~IsRequest(m) /\ IsMatching(m, "INVITE", cseq) /\ m.status >= 200

DuplicateOK(m) == FinalResponse(m) /\ Success(m.status) /\ m.ids = "dialog"

(* A 2xx of another branch of a forked INVITE carries another To tag.      *)
ForkedOK(m) == FinalResponse(m) /\ Success(m.status) /\ m.ids # "dialog"

(* The challenge again, while its retry is in progress.                    *)
StaleChallenge(m) ==
  /\ ~IsRequest(m) /\ m.status = 401
  /\ cseq # InviteCSeq /\ IsMatching(m, "INVITE", InviteCSeq)

Again(m) ==
  /\ m.method \in {"BYE", "INFO"}
  /\ InDialog(m, FALSE) /\ Duplicate(m, remoteCSeq)

(* What is sent back at once for m, at each place that reads.  Only        *)
(* handleDialogRequest acknowledges a repeated 2xx, and the client         *)
(* transactions hand it requests alone.                                    *)
Reaction(m) ==
  IF pc = "calling" /\ StaleChallenge(m) THEN <<Say("ACK", InviteCSeq, TRUE)>>
  ELSE IF pc = "absorb" /\ FinalResponse(m) /\ m.status >= 300 THEN <<Say("ACK", cseq, TRUE)>>
  ELSE IF pc = "absorb" /\ IsRequest(m) /\ m.method \in {"BYE", "INFO", "CANCEL"}
    THEN <<AnswerOf(m, 481, FALSE)>>
  ELSE IF pc \in {"dialog", "gap"} /\ DuplicateOK(m) THEN <<Say("ACK", cseq, TRUE)>>
  ELSE IF pc \in InDialogLoop /\ IsRequest(m) /\ DialogStatus(m, FALSE) # 0
    THEN <<AnswerOf(m, DialogStatus(m, FALSE), Again(m))>>
  ELSE <<>>

Exchange(m) ==
  /\ in' = IF pc \in InDialogLoop /\ DuplicateOK(m) THEN "duplicateOK" ELSE "other"
  /\ out' = Reaction(m)

-----------------------------------------------------------------------------
(* runInviteClientTransaction. *)

SendInvite ==
  /\ pc = "sendInvite" /\ pc' = "calling"
  /\ Emit(Say("INVITE", cseq, FALSE))
  /\ provisional' = FALSE /\ hangup' = scenario.cancelAfter
  /\ highest' = cseq
  /\ UNCHANGED <<scenario, resume, ctx, cseq, unacked, untagged, localCSeq, digit, confirmed,
                 bye, taken, player, outcome, runErr>>

RetransmitInvite ==
  /\ pc = "calling" /\ ~provisional
  /\ Emit(Say("INVITE", cseq, TRUE))
  /\ UNCHANGED <<scenario, control, ctx, invite, sending, taken, player, outcome, runErr>>

(* CancelAfter, once per transaction, then wait on for the final response. *)
HangUpRinging ==
  /\ pc = "calling" /\ hangup
  /\ pc' = "cancelRinging" /\ hangup' = FALSE /\ canceled' = TRUE
  /\ Quiet
  /\ UNCHANGED <<scenario, resume, ctx, cseq, provisional, unacked, untagged, sending, taken,
                 player, finalStatus, established, terminatedBy, runErr>>

(* RingTimeout of this transaction.                                        *)
RingTimeout ==
  /\ pc = "calling"
  /\ pc' = IF provisional THEN "cancelTimedOut" ELSE "returned"
  /\ runErr' = runErr \cup {"deadline"}
  /\ Quiet
  /\ UNCHANGED <<scenario, resume, ctx, invite, sending, taken, player, outcome>>

SendCANCEL ==
  /\ pc \in {"cancelRinging", "cancelTimedOut"}
  /\ Emit(Say("CANCEL", cseq, FALSE))
  /\ pc' = IF pc = "cancelRinging" THEN "calling" ELSE "cancelling"
  /\ UNCHANGED <<scenario, resume, ctx, invite, sending, taken, player, outcome, runErr>>

(* Faulty variant: every challenge is taken for the first one.             *)
AnyChallenge(m) == m.status = 401 /\ scenario.credentials

(* A 401 is consumed by one retry; every other final is the call's.        *)
Challenge(m) == m.status = 401 /\ scenario.credentials /\ cseq = InviteCSeq

ReadWhileCalling(m) ==
  /\ pc = "calling"
  /\ Exchange(m)
  /\ IF FinalResponse(m)
     THEN /\ pc' = (IF Challenge(m) THEN "ackChallenge"
                    ELSE IF Success(m.status) THEN "ackSuccess" ELSE "ackFailure")
          /\ finalStatus' = (IF Challenge(m) THEN finalStatus ELSE m.status)
          /\ unacked' = unacked \cup {cseq}
          /\ UNCHANGED provisional
     ELSE /\ provisional' = (provisional \/ (~IsRequest(m) /\ IsMatching(m, "INVITE", cseq)))
          /\ UNCHANGED <<pc, finalStatus, unacked>>
  /\ UNCHANGED <<scenario, resume, ctx, cseq, hangup, untagged, sending, taken, player,
                 established, canceled, terminatedBy, runErr>>

(* Faulty variant: the retry leaves the challenge without an ACK.          *)
AckChallengeLater ==
  /\ pc = "ackChallenge"
  /\ Quiet
  /\ pc' = "sendInvite" /\ cseq' = cseq + 1
  /\ UNCHANGED <<scenario, resume, ctx, provisional, hangup, unacked, untagged, sending, taken,
                 player, outcome, runErr>>

(* staleACK, then the retry, unless no challenge can be answered.          *)
AckChallenge ==
  /\ pc = "ackChallenge"
  /\ Emit(Say("ACK", cseq, FALSE))
  /\ unacked' = unacked \ {cseq}
  /\ \/ pc' = "sendInvite" /\ cseq' = cseq + 1 /\ UNCHANGED runErr
     \/ pc' = "returned" /\ runErr' = runErr \cup {"protocol"} /\ UNCHANGED cseq
  /\ UNCHANGED <<scenario, resume, ctx, provisional, hangup, untagged, sending, taken, player,
                 outcome>>

Mismatch == IF finalStatus = scenario.expect THEN {} ELSE {"verification"}

AckFailure ==
  /\ pc = "ackFailure" /\ pc' = "absorb"
  /\ Emit(Say("ACK", cseq, FALSE))
  /\ unacked' = unacked \ {cseq}
  /\ runErr' = runErr \cup Mismatch
  /\ UNCHANGED <<scenario, resume, ctx, cseq, provisional, hangup, untagged, sending, taken,
                 player, outcome>>

(* absorbNon2xxFinal.                                                      *)
ReadWhileAbsorbing(m) ==
  /\ pc = "absorb"
  /\ Exchange(m)
  /\ UNCHANGED <<scenario, control, ctx, invite, sending, taken, player, outcome, runErr>>

(* The bounded timer of absorbNon2xxFinal and of cancelTimedOutInvite.     *)
GiveUp ==
  /\ pc \in {"absorb", "cancelling"}
  /\ pc' = "returned"
  /\ Quiet
  /\ UNCHANGED <<scenario, resume, ctx, invite, sending, taken, player, outcome, runErr>>

-----------------------------------------------------------------------------
(* cancelTimedOutInvite and cleanupLateSuccessfulInvite. *)

(* Faulty variant: only the 487 is expected; a late 2xx is ignored.        *)
ReadRefusalWhileCancelling(m) ==
  /\ pc = "cancelling"
  /\ Exchange(m)
  /\ pc' = IF FinalResponse(m) /\ ~Success(m.status) THEN "ackLateFailure" ELSE pc
  /\ unacked' = IF FinalResponse(m) THEN unacked \cup {cseq} ELSE unacked
  /\ UNCHANGED <<scenario, resume, ctx, cseq, provisional, hangup, untagged, sending, taken,
                 player, outcome, runErr>>

(* A late 2xx still has to be acknowledged and released; a late failure    *)
(* response is acknowledged and leaves the outcome alone.                  *)
ReadWhileCancelling(m) ==
  /\ pc = "cancelling"
  /\ Exchange(m)
  /\ IF FinalResponse(m)
     THEN /\ pc' = (IF Success(m.status) THEN "ackLateSuccess" ELSE "ackLateFailure")
          /\ finalStatus' = (IF Success(m.status) THEN m.status ELSE finalStatus)
          /\ unacked' = unacked \cup {cseq}
     ELSE UNCHANGED <<pc, finalStatus, unacked>>
  /\ UNCHANGED <<scenario, resume, ctx, cseq, provisional, hangup, untagged, sending, taken,
                 player, established, canceled, terminatedBy, runErr>>

AckLateFailure ==
  /\ pc = "ackLateFailure" /\ pc' = "returned"
  /\ Emit(Say("ACK", cseq, FALSE))
  /\ unacked' = unacked \ {cseq}
  /\ UNCHANGED <<scenario, resume, ctx, cseq, provisional, hangup, untagged, sending, taken,
                 player, outcome, runErr>>

AckLateSuccess(tagged) ==
  /\ pc = "ackLateSuccess"
  /\ Emit(Say("ACK", cseq, FALSE))
  /\ unacked' = unacked \ {cseq}
  /\ established' = TRUE /\ untagged' = ~tagged
  /\ localCSeq' = cseq
  /\ pc' = IF tagged THEN "byeLate" ELSE "returned"
  /\ UNCHANGED <<scenario, resume, ctx, cseq, provisional, hangup, digit, confirmed, bye, highest,
                 taken, player, finalStatus, canceled, terminatedBy, runErr>>

(* routeDialogRequest cannot use the Record-Route of the 2xx: no ACK.      *)
AckUnroutable ==
  /\ pc \in {"ackSuccess", "ackLateSuccess"}
  /\ Return({"protocol"})
  /\ Quiet
  /\ UNCHANGED <<scenario, ctx, invite, sending, taken, mediaErr, outcome>>

-----------------------------------------------------------------------------
(* The 2xx, the dialog and its media. *)

Refusal(answer) ==
  IF answer \in {"untagged", "noContact"} THEN {"protocol"}
  ELSE IF Mismatch # {} THEN Mismatch
  ELSE IF answer = "refused" THEN {"negotiation"} ELSE {}

NextStep(sent) == IF sent < Len(scenario.info) THEN "sendINFO" ELSE "beginWait"

(* Faulty variant: the dialog counts on from the first INVITE.             *)
DialogCSeqOfFirst == InviteCSeq

DialogCSeq == cseq

(* The ACK establishes the call, whatever is then found in the 2xx.        *)
AckSuccess(answer) ==
  /\ pc = "ackSuccess"
  /\ Emit(Say("ACK", cseq, FALSE))
  /\ unacked' = unacked \ {cseq}
  /\ established' = TRUE /\ untagged' = (answer = "untagged")
  /\ localCSeq' = DialogCSeq
  /\ runErr' = runErr \cup Refusal(answer)
  /\ IF Refusal(answer) = {}
     THEN pc' = NextStep(0) /\ media' = "running"
     ELSE pc' = "byeFailed" /\ UNCHANGED media
  /\ UNCHANGED <<scenario, resume, ctx, cseq, provisional, hangup, digit, confirmed, bye, highest,
                 taken, mediaErr, finalStatus, canceled, terminatedBy>>

(* failEstablishedInbound and the end of cleanupLateSuccessfulInvite: one  *)
(* BYE, which counts as ours without an answer.                            *)
ByeWithoutAnswer ==
  /\ pc \in {"byeFailed", "byeLate"} /\ pc' = "returned"
  /\ Emit(Say("BYE", localCSeq + 1, FALSE))
  /\ localCSeq' = localCSeq + 1 /\ highest' = localCSeq + 1
  /\ bye' = "sent" /\ terminatedBy' = "Sutel"
  /\ UNCHANGED <<scenario, resume, ctx, invite, digit, confirmed, taken, player, finalStatus,
                 established, canceled, runErr>>

SendINFO ==
  /\ pc = "sendINFO" /\ pc' = "waitINFO"
  /\ Emit(Say("INFO", localCSeq + 1, FALSE))
  /\ localCSeq' = localCSeq + 1 /\ highest' = localCSeq + 1 /\ digit' = digit + 1
  /\ UNCHANGED <<scenario, resume, ctx, invite, confirmed, bye, taken, player, outcome, runErr>>

SendBYE ==
  /\ pc \in {"sendBYE", "sendBYEOnce"}
  /\ Emit(Say("BYE", localCSeq + 1, FALSE))
  /\ localCSeq' = localCSeq + 1 /\ highest' = localCSeq + 1 /\ bye' = "sent"
  /\ pc' = IF pc = "sendBYE" THEN "waitBYE" ELSE "returned"
  /\ UNCHANGED <<scenario, resume, ctx, invite, digit, confirmed, taken, player, outcome, runErr>>

(* The retransmission timer of sendNonInviteTransaction.                   *)
Retransmit ==
  /\ pc \in {"waitINFO", "waitBYE"}
  /\ Emit(Say(IF pc = "waitBYE" THEN "BYE" ELSE "INFO", localCSeq, TRUE))
  /\ UNCHANGED <<scenario, control, ctx, invite, sending, taken, player, outcome, runErr>>

(* handleDialogRequest, for a request.                                     *)
TakeRequest(m) ==
  /\ remoteCSeq' = NextRemoteCSeq(m, FALSE, remoteCSeq)
  /\ digits' = IF RecordsDigit(m, FALSE, remoteCSeq) THEN Append(digits, m.cseq) ELSE digits
  /\ terminatedBy' = IF EndsDialog(m, FALSE, remoteCSeq) THEN "SUT" ELSE terminatedBy

(* Faulty variant: hang up as if the call had ended locally.               *)
PeerEndedHangsUp == "bye"

PeerEnded == "end"

(* A request that is read in the dialog, in whichever loop.                *)
ReadRequest(m) ==
  /\ pc \in InDialogLoop /\ IsRequest(m)
  /\ Exchange(m)
  /\ TakeRequest(m)
  /\ IF ~EndsDialog(m, FALSE, remoteCSeq) THEN UNCHANGED <<control, media, runErr>>
     ELSE IF pc = "waitBYE" THEN Return({}) ELSE StopDialog(PeerEnded, {})
  /\ UNCHANGED <<scenario, ctx, invite, sending, mediaErr, finalStatus, established, canceled>>

(* A response read outside a client transaction changes nothing, ...       *)
ReadResponse(m) ==
  /\ pc \in {"dialog", "gap"} /\ ~IsRequest(m) /\ ~ForkedOK(m)
  /\ Exchange(m)
  /\ UNCHANGED <<scenario, control, ctx, invite, sending, taken, player, outcome, runErr>>

(* ... but a 2xx with another To tag makes a second dialog, which is       *)
(* acknowledged and released as far as its own Record-Route, its To tag    *)
(* and the socket allow, and fails the call.                               *)
ReadForkedOK(m) ==
  /\ pc \in {"dialog", "gap"} /\ ForkedOK(m)
  /\ in' = "other"
  /\ out' \in {<<>>, <<SayFork("ACK", cseq)>>, <<SayFork("ACK", cseq), SayFork("BYE", cseq + 1)>>}
  /\ StopDialog("byeOnce", {"protocol"})
  /\ UNCHANGED <<scenario, ctx, invite, sending, taken, mediaErr, outcome>>

(* Whether m answers the INFO or BYE in progress.                          *)
AnswersOwn(m) ==
  IsMatching(m, IF pc = "waitBYE" THEN "BYE" ELSE "INFO", localCSeq)

AfterINFO == IF scenario.info[digit] THEN "gap" ELSE NextStep(digit)

(* Faulty variant: a digit that gets no 2xx is skipped.                    *)
ReadINFOResponseLeniently(m) ==
  /\ pc = "waitINFO" /\ ~IsRequest(m)
  /\ Exchange(m)
  /\ IF AnswersOwn(m) /\ m.status >= 200
     THEN /\ pc' = AfterINFO
          /\ confirmed' = (IF Success(m.status) THEN confirmed + 1 ELSE confirmed)
          /\ UNCHANGED <<resume, media, runErr>>
     ELSE UNCHANGED <<control, media, confirmed, runErr>>
  /\ UNCHANGED <<scenario, ctx, invite, localCSeq, digit, bye, highest, taken, mediaErr, outcome>>

ReadINFOResponse(m) ==
  /\ pc = "waitINFO" /\ ~IsRequest(m)
  /\ Exchange(m)
  /\ IF AnswersOwn(m) /\ m.status >= 300
     THEN StopDialog("byeOnce", {"protocol"}) /\ UNCHANGED confirmed
     ELSE IF AnswersOwn(m) /\ m.status >= 200
     THEN /\ pc' = AfterINFO /\ confirmed' = confirmed + 1
          /\ UNCHANGED <<resume, media, runErr>>
     ELSE UNCHANGED <<control, media, confirmed, runErr>>
  /\ UNCHANGED <<scenario, ctx, invite, localCSeq, digit, bye, highest, taken, mediaErr, outcome>>

(* Faulty variant: any final response to the BYE counts as success.        *)
ReadBYEResponseLeniently(m) ==
  /\ pc = "waitBYE" /\ ~IsRequest(m)
  /\ Exchange(m)
  /\ IF AnswersOwn(m) /\ m.status >= 200
     THEN pc' = "returned" /\ bye' = "answered" /\ UNCHANGED <<terminatedBy, runErr>>
     ELSE UNCHANGED <<pc, bye, terminatedBy, runErr>>
  /\ UNCHANGED <<scenario, resume, ctx, invite, localCSeq, digit, confirmed, highest, taken,
                 player, finalStatus, established, canceled>>

ReadBYEResponse(m) ==
  /\ pc = "waitBYE" /\ ~IsRequest(m)
  /\ Exchange(m)
  /\ IF AnswersOwn(m) /\ m.status >= 200
     THEN /\ pc' = "returned" /\ bye' = "answered"
          /\ terminatedBy' = (IF Success(m.status) THEN "Sutel" ELSE terminatedBy)
          /\ runErr' = (IF Success(m.status) THEN runErr ELSE runErr \cup {"protocol"})
     ELSE UNCHANGED <<pc, bye, terminatedBy, runErr>>
  /\ UNCHANGED <<scenario, resume, ctx, invite, localCSeq, digit, confirmed, highest, taken,
                 player, finalStatus, established, canceled>>

(* waitDialogDuration ends; another digit of the same action follows.      *)
GapDue ==
  /\ pc = "gap" /\ pc' = "sendINFO"
  /\ Quiet
  /\ UNCHANGED <<scenario, resume, ctx, invite, sending, taken, player, outcome, runErr>>

(* What is left of CallDuration after the INFO digits, if anything.        *)
BeginWait ==
  /\ pc = "beginWait"
  /\ \/ pc' = "dialog" /\ UNCHANGED <<resume, media, runErr>>
     \/ scenario.duration /\ StopDialog("bye", {})
  /\ Quiet
  /\ UNCHANGED <<scenario, ctx, invite, sending, taken, mediaErr, outcome>>

HangupDue ==
  /\ pc = "dialog" /\ scenario.duration
  /\ StopDialog("bye", {})
  /\ Quiet
  /\ UNCHANGED <<scenario, ctx, invite, sending, taken, mediaErr, outcome>>

-----------------------------------------------------------------------------
(* Failures, the context, the media goroutine and the end of the session. *)

Interrupted ==
  /\ pc \in Reading /\ ctx # "live"
  /\ Abort(ctx)
  /\ Quiet
  /\ UNCHANGED <<scenario, ctx, invite, sending, taken, mediaErr, outcome>>

(* The read pump reports a read error, or a retransmission cannot be sent. *)
TransportFails ==
  /\ pc \in Reading
  /\ Abort("transport")
  /\ Quiet
  /\ UNCHANGED <<scenario, ctx, invite, sending, taken, mediaErr, outcome>>

(* m was read but its answer cannot be sent: a dialog request has advanced *)
(* the CSeq by then, but has no other effect.                              *)
ReplyFails(m) ==
  /\ Reaction(m) # <<>>
  /\ Abort("transport")
  /\ remoteCSeq' = IF pc \in InDialogLoop /\ IsRequest(m)
                   THEN NextRemoteCSeq(m, FALSE, remoteCSeq) ELSE remoteCSeq
  /\ Quiet
  /\ UNCHANGED <<scenario, ctx, invite, sending, digits, mediaErr, outcome>>

(* A message of our own cannot be sent.  Requests in the dialog took their *)
(* CSeq number before.                                                     *)
WriteFails ==
  LET byes == {"sendBYE", "sendBYEOnce", "byeFailed", "byeLate"}
  IN  /\ pc \in Sending
      /\ Abort("transport")
      /\ localCSeq' = IF pc \in byes \cup {"sendINFO"} THEN localCSeq + 1 ELSE localCSeq
      /\ bye' = IF pc \in byes THEN "lost" ELSE bye
      /\ Quiet
      /\ UNCHANGED <<scenario, ctx, invite, digit, confirmed, highest, taken, mediaErr, outcome>>

(* playInboundMedia returns; without anything to send it does so at once.  *)
MediaResults ==
  {e \in {{}, {"media"}, {"canceled"}, {"deadline"}} :
     /\ e # {} => scenario.media
     /\ e = {"canceled"} => media = "canceled" \/ ctx = "canceled"
     /\ e = {"deadline"} => media = "running" /\ ctx = "deadline"}

MediaEnds ==
  /\ media \in {"running", "canceled"}
  /\ media' = "finished" /\ mediaErr' \in MediaResults
  /\ Quiet
  /\ UNCHANGED <<scenario, control, ctx, invite, sending, taken, outcome, runErr>>

(* The join: any media error but a cancellation counts, and does not keep  *)
(* the BYE from being sent.                                                *)
JoinMedia ==
  /\ pc = "joinMedia" /\ media = "finished"
  /\ media' = "none" /\ mediaErr' = {} /\ resume' = "none"
  /\ pc' = IF resume = "bye" THEN "sendBYE" ELSE IF resume = "byeOnce" THEN "sendBYEOnce"
                                                                 ELSE "returned"
  /\ runErr' = runErr \cup (mediaErr \ {"canceled"})
  /\ Quiet
  /\ UNCHANGED <<scenario, ctx, invite, sending, taken, outcome>>

(* Timeout of the session, and Close or the end of the caller's context.   *)
ContextEnds(error) ==
  /\ ctx = "live" /\ pc # "done" /\ ctx' = error
  /\ Quiet
  /\ UNCHANGED <<scenario, control, invite, sending, taken, player, outcome, runErr>>

ContextExpires == ContextEnds("deadline")

ContextCanceled == ContextEnds("canceled")

Finish ==
  /\ pc = "returned" /\ pc' = "done"
  /\ ctx' = IF ctx = "live" THEN "canceled" ELSE ctx
  /\ Quiet
  /\ UNCHANGED <<scenario, resume, invite, sending, taken, player, outcome, runErr>>

Done == pc = "done" /\ UNCHANGED vars

-----------------------------------------------------------------------------
Receive(m) ==
  \/ ReadWhileCalling(m) \/ ReadWhileAbsorbing(m) \/ ReadWhileCancelling(m)
  \/ ReadRequest(m) \/ ReadResponse(m) \/ ReadForkedOK(m)
  \/ ReadINFOResponse(m) \/ ReadBYEResponse(m)
  \/ ReplyFails(m)

Send ==
  \/ SendInvite \/ SendCANCEL \/ AckChallenge \/ AckFailure \/ AckLateFailure
  \/ \E tagged \in BOOLEAN : AckLateSuccess(tagged)
  \/ \E answer \in Answers : AckSuccess(answer)
  \/ ByeWithoutAnswer \/ SendINFO \/ SendBYE

Timer ==
  \/ RetransmitInvite \/ HangUpRinging \/ RingTimeout \/ GiveUp
  \/ Retransmit \/ GapDue \/ HangupDue

Next ==
  \/ \E m \in Datagrams : Receive(m)
  \/ Send \/ Timer \/ BeginWait
  \/ AckUnroutable \/ Interrupted \/ TransportFails \/ WriteFails
  \/ MediaEnds \/ JoinMedia
  \/ ContextExpires \/ ContextCanceled \/ Finish
  \/ Done

(* As in OutboundCall: the session timeout comes, the runtime schedules    *)
(* both goroutines, UDP writes return and media stops with its context.    *)
Fairness ==
  /\ WF_vars(ContextExpires)
  /\ WF_vars(Interrupted)
  /\ WF_vars(Send \/ WriteFails)
  /\ WF_vars(BeginWait)
  /\ WF_vars(MediaEnds /\ (media = "canceled" \/ ctx # "live"))
  /\ WF_vars(JoinMedia)
  /\ WF_vars(Finish)

Spec == Init /\ [][Next]_vars
FairSpec == Spec /\ Fairness

-----------------------------------------------------------------------------
(* Safety. *)

(* No final response of either INVITE is left without its ACK: not the     *)
(* challenge, not one that crosses a CANCEL, not one that comes after      *)
(* RingTimeout (runInbound, cancelTimedOutInvite).  The one exception but  *)
(* for a dead socket is a 2xx that cannot be routed to, which the test is  *)
(* told.                                                                   *)
EveryFinalIsACKed ==
  pc = "done" /\ unacked # {} =>
    \/ "transport" \in runErr
    \/ "protocol" \in runErr /\ Success(finalStatus) /\ ~established

(* Every acknowledged 2xx makes a call that is released before the session *)
(* is done, on whichever of the seven exits: the SUT hung up or a BYE was  *)
(* tried, and the test is told when it could not be sent.  Only a late 2xx *)
(* without a To tag cannot be released: that call has the ring timeout.    *)
EstablishedCallIsReleased ==
  /\ pc = "done" /\ established =>
       \/ bye # "none" \/ terminatedBy = "SUT"
       \/ untagged /\ "deadline" \in runErr
  /\ pc = "done" /\ bye = "lost" => "transport" \in runErr

(* Media is joined before the call is given up, whatever exit was taken.   *)
NoMediaOutlivesCall == bye # "none" \/ pc \in {"returned", "done"} => media = "none"

(* One digit at a time: the next INFO goes out only after the 2xx of the   *)
(* one before, and our own hang-up without error comes after all of them   *)
(* (sendInboundINFO; a digit may only be lost to the SUT's BYE).           *)
DigitsAreConfirmed ==
  /\ digit <= confirmed + 1
  /\ pc \in {"sendINFO", "gap", "beginWait", "dialog"} => digit = confirmed
  /\ pc = "done" /\ runErr = {} /\ terminatedBy = "Sutel" => confirmed = Len(scenario.info)

(* Wait returning no error means the INVITE ended with the status the      *)
(* scenario expects, and a call that was meant to be answered was really   *)
(* established and then ended by the party the outcome names.              *)
SuccessMeansExpectedStatus ==
  pc = "done" /\ runErr = {} =>
    /\ finalStatus = scenario.expect
    /\ established <=> Success(finalStatus)
    /\ established => \/ terminatedBy = "Sutel" /\ bye = "answered"
                      \/ terminatedBy = "SUT" /\ bye # "answered"

(* Every new request of the call has a CSeq number above all earlier ones, *)
(* across the digest retry, the INFO digits and either kind of BYE; an ACK *)
(* or CANCEL has that of its INVITE (dialog.localCSeq).                    *)
OwnCSeqIncreases ==
  [][\A i \in DOMAIN out' :
       out'[i].status = 0 /\ out'[i].to = "call" /\ ~out'[i].again =>
         IF out'[i].method \in {"ACK", "CANCEL"} THEN out'[i].cseq = cseq
         ELSE out'[i].cseq > highest]_vars

(* What the outcome says is never taken back or rewritten by crossing      *)
(* BYEs, CANCELs, duplicates or late responses.                            *)
OutcomeIsWrittenOnce ==
  [][/\ finalStatus # 0 => finalStatus' = finalStatus
     /\ terminatedBy # "NoParty" => terminatedBy' = terminatedBy
     /\ established => established'
     /\ canceled => canceled']_vars

(* The caller keeps the promise of InviteClient.                           *)
Attempt == IF highest < cseq THEN cseq - InviteCSeq ELSE cseq - InviteCSeq + 1

Phase ==
  IF pc \in {"returned", "done"} THEN "ended"
  ELSE IF unacked # {} THEN "answered"
  ELSE IF pc = "sendInvite" THEN IF cseq = InviteCSeq THEN "idle" ELSE "challenged"
  ELSE IF pc \notin {"calling", "cancelRinging", "cancelTimedOut", "cancelling"} THEN "confirmed"
  ELSE IF provisional THEN "proceeding" ELSE "calling"

Client == INSTANCE InviteClient WITH attempt <- Attempt, phase <- Phase

ImplementsInviteClient == Client!Spec

-----------------------------------------------------------------------------
(* What documents say and the code does not do. *)

(* scenario.go, CancelAfter: "sends CANCEL [...] simulating a caller       *)
(* abandoning while ringing [...].  The session then waits for the 487     *)
(* final": a caller who hung up does not call again.                       *)
NoInviteAfterCANCEL ==
  [][canceled => \A i \in DOMAIN out' : out'[i].method = "INVITE" => out'[i].again]_vars

(* spec.md, transactions: "duplicate final responses cause ACK             *)
(* retransmission".                                                        *)
DuplicateOKIsReACKed == in = "duplicateOK" => out = <<Say("ACK", cseq, TRUE)>>

-----------------------------------------------------------------------------
(* Liveness. *)

(* Every session ends, whatever the SUT does or fails to do.               *)
SessionEnds == <>(pc = "done")
=============================================================================
