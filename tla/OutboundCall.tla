----------------------------- MODULE OutboundCall -----------------------------
(***************************************************************************)
(* The callee (UAS) side of one session: src/outbound.go with the dialog   *)
(* loop of src/dialog.go and the request handler of src/signaling.go.      *)
(*                                                                         *)
(* Three processes share the state: the goroutine that runs runOutbound    *)
(* (variable pc says where it stands), the media goroutine it starts and   *)
(* joins (variable media), and the session context, which expires or is    *)
(* cancelled by anyone at any time (variable ctx).  The system under test  *)
(* and the UDP network are one arbitrary environment: whenever the code    *)
(* reads, any datagram of Datagrams may be there, so loss, duplication and *)
(* reordering are all included.  Time is abstract: a timer that is armed   *)
(* may fire at any moment.                                                 *)
(***************************************************************************)
EXTENDS SipDialog, Sequences

CONSTANTS
  Scenarios,   \* the scenarios to run, a set of Scenario records
  Datagrams    \* the datagrams the network may deliver, a set of Datagram

Negative == {486, 603, 404, 503}   \* Busy, Reject, NotFound, ServiceUnavailable

Behaviors == {"timeout", "negative", "noAnswer", "answer", "earlyMedia",
              "earlyFailure", "networkLoss"}

(* OutboundScenario as validate accepts it.  status is the final status of *)
(* a negative or early-failure scenario; hangup says HangupAfter > 0.      *)
Scenario == [behavior : Behaviors, status : 400 .. 699, omitTrying : BOOLEAN,
             sendRinging : BOOLEAN, hangup : BOOLEAN,
             media : {"none", "playback", "echo"}, expectAudio : BOOLEAN]

ASSUME ScenariosAssumption ==
  /\ Scenarios \subseteq Scenario
  /\ \A s \in Scenarios : s.behavior = "negative" => s.status \in Negative

ASSUME DatagramsAssumption == Datagrams \subseteq Datagram

(* What the SUT's SDP offer allows: a media direction, no codec in common, *)
(* or a media address outside the local test boundary.                     *)
Offers == {"sendrecv", "sendonly", "recvonly", "inactive", "noCodec", "foreign"}

(* INVITEs that fail validateInvite, with and without a valid server       *)
(* transaction to wait in.                                                 *)
Invalid == {"rejected", "stateless"}

CanSend(o) == o \in {"sendrecv", "recvonly", "foreign"}
CanReceive(o) == o \in {"sendrecv", "sendonly", "foreign"}

VARIABLES
  scenario,    \* s.outbound
  pc,          \* where the session goroutine stands
  resume,      \* what it does once the media goroutine is joined
  ctx,         \* s.ctx: live, or the error it ended with
  endpoint,    \* the SIP socket: open or closed
  offer,       \* the INVITE it accepted, "none" before
  latest,      \* status retransmitted while a behaviour waits, 0 for nil
  final,       \* final response decided for the INVITE, 0 before
  cancelled,   \* inside finishCanceledInvite
  storedOK,    \* dialog.lastInviteOK is set
  remoteCSeq,  \* dialog.remoteCSeq
  media,       \* media goroutine: none, running, canceled, finished
  mediaErr,    \* the error it finished with, a set of at most one class
  finalStatus, established, canceled, terminatedBy,   \* s.outcome
  digits,      \* CSeq numbers of the INFOs in s.infoDTMF
  runErr,      \* classes of the error runOutbound returns
  replied,     \* history: last status sent on the INVITE transaction
  acked,       \* history: the matching ACK was read
  bye,         \* history: own BYE: none, lost (could not be sent), sent, answered
  in,          \* history: method of the last request read ("none" otherwise)
  out          \* history: messages sent by the last step

control == <<pc, resume>>
invite  == <<offer, latest, final, cancelled, storedOK, acked>>
leg     == <<remoteCSeq, digits, bye>>
player  == <<media, mediaErr>>
outcome == <<finalStatus, established, canceled, terminatedBy>>
result  == <<outcome, runErr>>
wire    == <<replied, in, out>>
vars    == <<scenario, control, ctx, endpoint, invite, leg, player, result, wire>>

-----------------------------------------------------------------------------
(* Locations of the session goroutine. *)

(* waitForBehaviorDeadline, one location per call site.                    *)
BehaviorWaits == {"tryingWait", "ringingWait", "progressWait", "answerWait", "failureWait"}

(* Where a CANCEL still finds an INVITE without a final response.          *)
(* Faulty variant: also while the final response waits for its ACK.        *)
CancelWindowLate == BehaviorWaits \cup {"noAnswer", "waitACK"}

CancelWindow == BehaviorWaits \cup {"noAnswer"}

(* Faulty variant: the BYE transaction does not select on the context.     *)
ReadingWithoutBYE == BehaviorWaits \cup
  {"waitInvite", "silent", "noAnswer", "waitACK", "dialog", "lossDialog"}

(* Everything that blocks in readSIPWithTimers.                            *)
Reading == BehaviorWaits \cup
  {"waitInvite", "silent", "noAnswer", "waitACK", "dialog", "lossDialog", "waitBYE"}

Sending == {"sendTrying", "sendRinging", "sendProgress", "sendOK", "sendFinal",
            "sendBYE", "sendBYEOnce"}

Locations == Reading \cup Sending \cup {"joinMedia", "returned", "done"}

Resumptions == {"none", "return", "answer", "final", "bye", "byeOnce", "end"}

ErrorClasses == {"deadline", "canceled", "transport", "negotiation",
                 "verification", "protocol", "media"}

Reply(method, status, again) == [method |-> method, status |-> status, again |-> again]

OwnBYE(again) == Reply("BYE", 0, again)

Out == [method : RequestMethods, status : {0} \cup Statuses, again : BOOLEAN]

Parties == {"NoParty", "Sutel", "SUT"}

TypeOK ==
  /\ scenario \in Scenarios
  /\ pc \in Locations
  /\ resume \in Resumptions
  /\ ctx \in {"live", "deadline", "canceled"}
  /\ endpoint \in {"open", "closed"}
  /\ offer \in Offers \cup Invalid \cup {"none"}
  /\ latest \in {0, 100, 180, 183}
  /\ final \in {0} \cup 200 .. 699
  /\ cancelled \in BOOLEAN /\ storedOK \in BOOLEAN /\ acked \in BOOLEAN
  /\ remoteCSeq \in Nat
  /\ media \in {"none", "running", "canceled", "finished"}
  /\ mediaErr \subseteq {"media", "canceled", "deadline"}
  /\ finalStatus \in {0} \cup 200 .. 699 /\ terminatedBy \in Parties
  /\ established \in BOOLEAN /\ canceled \in BOOLEAN
  /\ digits \in Seq(Nat)
  /\ runErr \subseteq ErrorClasses
  /\ replied \in {0} \cup Statuses
  /\ bye \in {"none", "lost", "sent", "answered"}
  /\ in \in RequestMethods \cup {"none"}
  /\ out \in Seq(Out)

Init ==
  /\ scenario \in Scenarios
  /\ pc = "waitInvite" /\ resume = "none"
  /\ ctx = "live" /\ endpoint = "open"
  /\ offer = "none" /\ latest = 0 /\ final = 0 /\ cancelled = FALSE
  /\ storedOK = FALSE /\ acked = FALSE
  /\ remoteCSeq = InviteCSeq
  /\ media = "none" /\ mediaErr = {}
  /\ finalStatus = 0 /\ established = FALSE /\ canceled = FALSE /\ terminatedBy = "NoParty"
  /\ digits = <<>> /\ runErr = {}
  /\ replied = 0 /\ bye = "none" /\ in = "none" /\ out = <<>>

-----------------------------------------------------------------------------
(* Pieces shared by the actions. *)

(* cancelMedia; a context that already ended keeps its own error.          *)
Cancel == IF media = "running" /\ ctx = "live" THEN "canceled" ELSE media

(* Faulty variant: an early exit that forgets the media goroutine.         *)
LeaveAtOnce(errors) ==
  runErr' = runErr \cup errors /\ pc' = "returned" /\ UNCHANGED <<resume, media>>

(* Return from the behaviour, joining early media on the way out.          *)
Leave(errors) ==
  /\ runErr' = runErr \cup errors
  /\ media' = Cancel
  /\ IF media = "none" THEN pc' = "returned" /\ UNCHANGED resume
                       ELSE pc' = "joinMedia" /\ resume' = "return"

(* Leave the dialog of answerAndRunDialog: cancel media, join, go on.      *)
StopDialog(next, errors) ==
  /\ runErr' = runErr \cup errors
  /\ media' = Cancel
  /\ pc' = "joinMedia" /\ resume' = next

(* Faulty variants: a dialog that fails is abandoned without a BYE; every  *)
(* behaviour takes the session deadline for success.                       *)
AbortSilently(error) ==
  IF pc = "dialog" THEN StopDialog("end", {error}) ELSE Leave({error})

AbortForgiving(error) ==
  IF pc = "dialog" THEN StopDialog("byeOnce", {error})
  ELSE Leave({error} \ {"deadline"})

(* Errors that are meant to be dropped: that of the ACK wait after an      *)
(* unusable media address, and the deadline a Timeout scenario runs into.  *)
Forgiven(error) ==
  \/ pc = "waitACK" /\ offer = "foreign"
  \/ pc = "silent" /\ error = "deadline"

(* An error out of a read or a write at the current location.  A dialog    *)
(* that fails gets one BYE.                                                *)
Abort(error) ==
  \/ pc = "dialog" /\ StopDialog("byeOnce", {error})
  \/ pc # "dialog" /\ Leave(IF Forgiven(error) THEN {} ELSE {error})

Quiet == in' = "none" /\ out' = <<>> /\ UNCHANGED replied

SayOnInvite(status, again) ==
  /\ in' = "none" /\ out' = <<Reply("INVITE", status, again)>>
  /\ replied' = status

InDialogLoop == pc \in {"dialog", "lossDialog", "waitBYE"}

(* Faulty variant: every retransmission of the INVITE gets 100 again.      *)
AnswerAlwaysTrying(m) ==
  IF InviteRetransmission(m)  THEN 100
  ELSE IF m.method = "CANCEL" THEN IF ValidInviteCANCEL(m) THEN 200 ELSE 481
  ELSE IF m.method \in {"BYE", "INFO"} /\ pc # "noAnswer" THEN 481
  ELSE 0

(* Status of the answer to request m, 0 for none: while a behaviour waits  *)
(* (NoAnswer alone leaves BYE and INFO unanswered) ...                     *)
AnswerWhileRinging(m) ==
  IF InviteRetransmission(m)  THEN latest
  ELSE IF m.method = "CANCEL" THEN IF ValidInviteCANCEL(m) THEN 200 ELSE 481
  ELSE IF m.method \in {"BYE", "INFO"} /\ pc # "noAnswer" THEN 481
  ELSE 0

(* Faulty variant: the stored provisional response survives the final one. *)
AnswerWithLatest(m) ==
  IF InviteRetransmission(m)                    THEN latest
  ELSE IF m.method \in {"CANCEL", "BYE", "INFO"} THEN 481
  ELSE 0

(* ... and after the final response, until its ACK.                        *)
AnswerWhileCompleted(m) ==
  IF InviteRetransmission(m)                    THEN final
  ELSE IF m.method \in {"CANCEL", "BYE", "INFO"} THEN 481
  ELSE 0

AnswerTo(m) ==
  IF ~IsRequest(m)       THEN 0
  ELSE IF InDialogLoop   THEN DialogStatus(m, storedOK)
  ELSE IF pc = "waitACK" THEN AnswerWhileCompleted(m)
  ELSE AnswerWhileRinging(m)

(* Sent as a retransmission: the INVITE again, or a stale dialog request.  *)
Again(m) ==
  \/ InviteRetransmission(m)
  \/ /\ InDialogLoop /\ m.method \in {"BYE", "INFO"}
     /\ InDialog(m, storedOK) /\ Duplicate(m, remoteCSeq)

(* Read m and put its answer on the wire.                                  *)
Exchange(m) ==
  /\ in' = IF IsRequest(m) THEN m.method ELSE "none"
  /\ out' = IF AnswerTo(m) = 0 THEN <<>>
            ELSE <<Reply(m.method, AnswerTo(m), Again(m))>>
  /\ replied' = IF AnswerTo(m) # 0 /\ InviteRetransmission(m) THEN AnswerTo(m)
                                                              ELSE replied

-----------------------------------------------------------------------------
(* waitForInvite and the dispatch of runOutbound. *)

(* Before the INVITE: an out-of-dialog BYE or INFO gets 481, and a failure *)
(* to send it is ignored; everything else is ignored.                      *)
ReadBeforeInvite(m) ==
  /\ pc = "waitInvite"
  /\ m.method # "INVITE" \/ ~IsRequest(m)
  /\ in' = IF IsRequest(m) THEN m.method ELSE "none"
  /\ out' \in IF IsRequest(m) /\ m.method \in {"BYE", "INFO"}
              THEN {<<>>, <<Reply(m.method, 481, FALSE)>>} ELSE {<<>>}
  /\ UNCHANGED <<scenario, control, ctx, endpoint, invite, leg, player, result, replied>>

VerdictError(status) ==
  IF status = 400 THEN "protocol" ELSE IF status = 404 THEN "verification" ELSE "negotiation"

(* validateInvite refuses the INVITE.  Only headers checked after the      *)
(* transaction headers (415, 488) guarantee a valid server transaction.    *)
RejectInvite(status, kind) ==
  /\ pc = "waitInvite"
  /\ status \in {415, 488} => kind = "rejected"
  /\ pc' = "sendFinal" /\ offer' = kind /\ final' = status
  /\ runErr' = {VerdictError(status)}
  /\ in' = "INVITE" /\ out' = <<>>
  /\ UNCHANGED <<scenario, resume, ctx, endpoint, latest, cancelled, storedOK, acked,
                 leg, player, outcome, replied>>

NeedsSend == \/ scenario.behavior = "answer" /\ scenario.media # "none"
             \/ scenario.behavior \in {"earlyMedia", "earlyFailure"}

NeedsReceive == \/ scenario.expectAudio
                \/ scenario.behavior = "answer" /\ scenario.media = "echo"

Unusable(o) == \/ o \in {"noCodec", "foreign"}
               \/ NeedsSend /\ ~CanSend(o)
               \/ NeedsReceive /\ ~CanReceive(o)

Negotiates == scenario.behavior \notin {"timeout", "negative", "noAnswer"}

(* Where runOutbound goes with a valid INVITE: to a final response it has  *)
(* already decided on ...                                                  *)
FinalAtOnce(o) ==
  \/ scenario.behavior = "negative" /\ final' = scenario.status
  \/ Negotiates /\ Unusable(o) /\ final' = 488

(* ... or into the first step of the behaviour.                            *)
FirstStep ==
  IF scenario.behavior = "timeout" THEN "silent"
  ELSE IF scenario.behavior \in {"noAnswer", "earlyMedia", "networkLoss"} THEN "sendTrying"
  ELSE IF ~scenario.omitTrying THEN "tryingWait"
  ELSE IF scenario.behavior = "answer" THEN "ringingWait" ELSE "progressWait"

(* Behaviours that negotiate no media do not look at the offer.            *)
ReceiveInvite(o) ==
  /\ pc = "waitInvite"
  /\ offer' = IF Negotiates THEN o ELSE "sendrecv"
  /\ \/ FinalAtOnce(o) /\ pc' = "sendFinal"
     \/ /\ scenario.behavior # "negative" /\ ~(Negotiates /\ Unusable(o))
        /\ pc' = FirstStep /\ UNCHANGED final
  /\ in' = "INVITE" /\ out' = <<>>
  /\ UNCHANGED <<scenario, resume, ctx, endpoint, latest, cancelled, storedOK, acked,
                 leg, player, result, replied>>

(* runSilentTimeout reads and answers nothing.                             *)
ReadSilently(m) ==
  /\ pc = "silent"
  /\ in' = (IF IsRequest(m) THEN m.method ELSE "none") /\ out' = <<>>
  /\ UNCHANGED <<scenario, control, ctx, endpoint, invite, leg, player, result, replied>>

-----------------------------------------------------------------------------
(* Provisional responses and the deadlines between them. *)

(* Faulty variant: progress with SDP goes out as a 200.                    *)
ProgressAsOK ==
  IF pc = "sendTrying" THEN 100 ELSE IF pc = "sendRinging" THEN 180 ELSE 200

Provisional ==
  IF pc = "sendTrying" THEN 100 ELSE IF pc = "sendRinging" THEN 180 ELSE 183

AfterTrying ==
  IF scenario.behavior = "answer" THEN "ringingWait"
  ELSE IF scenario.behavior \in {"noAnswer", "networkLoss"} THEN "sendRinging"
  ELSE "progressWait"

AfterRinging ==
  IF scenario.behavior = "noAnswer" THEN "noAnswer"
  ELSE IF scenario.behavior = "networkLoss" THEN "sendOK" ELSE "answerWait"

AfterProgress ==
  IF scenario.behavior = "earlyFailure" THEN "failureWait"
  ELSE IF scenario.sendRinging THEN "ringingWait" ELSE "answerWait"

AfterProvisional ==
  IF pc = "sendTrying" THEN AfterTrying
  ELSE IF pc = "sendRinging" THEN AfterRinging ELSE AfterProgress

(* The 183 is followed by startEarlyPlayback.                              *)
SendProvisional ==
  /\ pc \in {"sendTrying", "sendRinging", "sendProgress"}
  /\ SayOnInvite(Provisional, FALSE)
  /\ latest' = Provisional
  /\ pc' = AfterProvisional
  /\ media' = IF pc = "sendProgress" THEN "running" ELSE media
  /\ mediaErr' = IF pc = "sendProgress" THEN {} ELSE mediaErr
  /\ UNCHANGED <<scenario, resume, ctx, endpoint, offer, final, cancelled, storedOK,
                 acked, leg, result>>

(* waitForBehaviorDeadline returns.  Early media is cancelled and joined   *)
(* before the final response.                                              *)
BehaviorDue ==
  /\ \/ pc = "tryingWait" /\ pc' = "sendTrying" /\ UNCHANGED <<resume, media>>
     \/ pc = "ringingWait" /\ pc' = "sendRinging" /\ UNCHANGED <<resume, media>>
     \/ pc = "progressWait" /\ pc' = "sendProgress" /\ UNCHANGED <<resume, media>>
     \/ /\ pc = "answerWait" /\ scenario.behavior = "answer"
        /\ pc' = "sendOK" /\ UNCHANGED <<resume, media>>
     \/ /\ pc = "answerWait" /\ scenario.behavior = "earlyMedia"
        /\ pc' = "joinMedia" /\ resume' = "answer" /\ media' = Cancel
     \/ /\ pc = "failureWait"
        /\ pc' = "joinMedia" /\ resume' = "final" /\ media' = Cancel
  /\ Quiet
  /\ UNCHANGED <<scenario, ctx, endpoint, invite, leg, mediaErr, result>>

(* A datagram read by waitForBehaviorDeadline or runNoAnswer.              *)
ReadWhileRinging(m) ==
  /\ pc \in BehaviorWaits \cup {"noAnswer"}
  /\ ~ValidInviteCANCEL(m)
  /\ Exchange(m)
  /\ UNCHANGED <<scenario, control, ctx, endpoint, invite, leg, player, result>>

(* finishCanceledInvite: 200 to the CANCEL, then 487 to the INVITE.        *)
AcceptCANCEL(m) ==
  /\ pc \in CancelWindow
  /\ ValidInviteCANCEL(m)
  /\ Exchange(m)
  /\ cancelled' = TRUE /\ final' = 487 /\ pc' = "sendFinal"
  /\ UNCHANGED <<scenario, resume, ctx, endpoint, offer, latest, storedOK, acked,
                 leg, player, result>>

-----------------------------------------------------------------------------
(* Final responses and waitForInviteACK. *)

(* A rejected INVITE leaves the outcome alone, and without a valid server  *)
(* transaction there is no ACK to wait for.                                *)
FinalDecided ==
  /\ finalStatus' = IF offer \in Invalid THEN finalStatus ELSE final
  /\ canceled' = cancelled
  /\ UNCHANGED <<established, terminatedBy>>
  /\ pc' = IF offer = "stateless" THEN "returned" ELSE "waitACK"
  /\ runErr' = IF offer \in Offers /\ Unusable(offer)
               THEN runErr \cup {"negotiation"} ELSE runErr

SendFinal ==
  /\ pc = "sendFinal"
  /\ SayOnInvite(final, FALSE)
  /\ FinalDecided
  /\ UNCHANGED <<scenario, resume, ctx, endpoint, invite, leg, player>>

(* When media cannot be configured a failure to send the 488 is ignored.   *)
LoseFinal ==
  /\ pc = "sendFinal" /\ offer = "foreign"
  /\ Quiet
  /\ FinalDecided
  /\ UNCHANGED <<scenario, resume, ctx, endpoint, invite, leg, player>>

(* establishOutboundDialog, up to the ACK wait.                            *)
SendOK ==
  /\ pc = "sendOK"
  /\ SayOnInvite(200, FALSE)
  /\ final' = 200 /\ storedOK' = TRUE
  /\ finalStatus' = 200
  /\ pc' = "waitACK"
  /\ UNCHANGED <<scenario, resume, ctx, endpoint, offer, latest, cancelled, acked,
                 leg, player, established, canceled, terminatedBy, runErr>>

RetransmitFinal ==
  /\ pc = "waitACK"
  /\ SayOnInvite(final, TRUE)
  /\ UNCHANGED <<scenario, control, ctx, endpoint, invite, leg, player, result>>

ReadWhileCompleted(m) ==
  /\ pc = "waitACK"
  /\ ~MatchingACK(m, final)
  /\ Exchange(m)
  /\ UNCHANGED <<scenario, control, ctx, endpoint, invite, leg, player, result>>

(* The ACK of the 200 establishes the dialog and starts its media.         *)
ReadACK(m) ==
  /\ pc = "waitACK"
  /\ MatchingACK(m, final)
  /\ in' = "ACK" /\ out' = <<>>
  /\ acked' = TRUE
  /\ IF storedOK
     THEN /\ established' = TRUE
          /\ pc' = IF scenario.behavior = "networkLoss" THEN "lossDialog" ELSE "dialog"
          /\ media' = IF scenario.behavior = "networkLoss" THEN "none" ELSE "running"
          /\ mediaErr' = {}
          /\ UNCHANGED <<resume, runErr>>
     ELSE Leave({}) /\ UNCHANGED <<established, mediaErr>>
  /\ UNCHANGED <<scenario, ctx, endpoint, offer, latest, final, cancelled, storedOK,
                 finalStatus, canceled, terminatedBy, leg, replied>>

-----------------------------------------------------------------------------
(* The established dialog. *)

(* handleDialogRequest: what an answered request changes in the dialog.    *)
TakeRequest(m) ==
  /\ remoteCSeq' = NextRemoteCSeq(m, storedOK, remoteCSeq)
  /\ digits' = IF RecordsDigit(m, storedOK, remoteCSeq) THEN Append(digits, m.cseq) ELSE digits
  /\ terminatedBy' = IF EndsDialog(m, storedOK, remoteCSeq) THEN "SUT" ELSE terminatedBy

(* dialogTerminatedByPeer: nothing is left to do but to join the media.    *)
(* Faulty variant: hang up as if the call had ended locally.               *)
TerminatedByPeerHangsUp == "bye"

TerminatedByPeer == "end"

(* runEstablishedDialog and runEstablishedDialogUntilNetworkLoss.          *)
ReadInDialog(m) ==
  /\ pc \in {"dialog", "lossDialog"}
  /\ Exchange(m)
  /\ IF IsRequest(m) THEN TakeRequest(m) ELSE UNCHANGED <<remoteCSeq, digits, terminatedBy>>
  /\ IF IsRequest(m) /\ EndsDialog(m, storedOK, remoteCSeq)
     THEN IF pc = "dialog" THEN StopDialog(TerminatedByPeer, {}) /\ UNCHANGED endpoint
          ELSE pc' = "returned" /\ endpoint' = "closed" /\ UNCHANGED <<resume, media, runErr>>
     ELSE UNCHANGED <<control, endpoint, media, runErr>>
  /\ UNCHANGED <<scenario, ctx, invite, bye, mediaErr, finalStatus, established, canceled>>

(* The hangup timer, or the end of the playback or echo.                   *)
HangupDue ==
  /\ pc = "dialog"
  /\ scenario.hangup \/ (scenario.media # "none" /\ media = "finished")
  /\ StopDialog("bye", {})
  /\ Quiet
  /\ UNCHANGED <<scenario, ctx, endpoint, invite, leg, mediaErr, outcome>>

(* The loss boundary: the endpoint goes away and sends nothing.            *)
LossDue ==
  /\ pc = "lossDialog"
  /\ pc' = "returned" /\ endpoint' = "closed"
  /\ Quiet
  /\ UNCHANGED <<scenario, resume, ctx, invite, leg, player, result>>

(* Faulty variant: the outcome claims the hang-up before it is answered.   *)
SendBYEAndClaim ==
  /\ pc \in {"sendBYE", "sendBYEOnce"}
  /\ in' = "none" /\ out' = <<OwnBYE(FALSE)>>
  /\ bye' = "sent"
  /\ terminatedBy' = "Sutel"
  /\ pc' = IF pc = "sendBYE" THEN "waitBYE" ELSE "returned"
  /\ UNCHANGED <<scenario, resume, ctx, endpoint, invite, remoteCSeq, digits, player,
                 finalStatus, established, canceled, runErr, replied>>

(* finishLocalDialog starts a BYE transaction; sendDialogBYEOnce sends one *)
(* and does not wait.                                                      *)
SendBYE ==
  /\ pc \in {"sendBYE", "sendBYEOnce"}
  /\ in' = "none" /\ out' = <<OwnBYE(FALSE)>>
  /\ bye' = "sent"
  /\ pc' = IF pc = "sendBYE" THEN "waitBYE" ELSE "returned"
  /\ UNCHANGED <<scenario, resume, ctx, endpoint, invite, remoteCSeq, digits, player,
                 result, replied>>

RetransmitBYE ==
  /\ pc = "waitBYE"
  /\ in' = "none" /\ out' = <<OwnBYE(TRUE)>>
  /\ UNCHANGED <<scenario, control, ctx, endpoint, invite, leg, player, result, replied>>

(* Faulty variant: the BYE wait goes on after a crossing BYE.              *)
StayInBYE(m) == pc

AfterCrossingBYE(m) == IF EndsDialog(m, storedOK, remoteCSeq) THEN "returned" ELSE pc

AnswersBYE(m) == ~IsRequest(m) /\ IsMatching(m, "BYE", InviteCSeq + 1)

(* sendNonInviteTransaction.  A BYE of the SUT that crosses ours ends the  *)
(* wait and keeps the SUT as the party that terminated the call.           *)
ReadWhileHangingUp(m) ==
  /\ pc = "waitBYE"
  /\ Exchange(m)
  /\ IF IsRequest(m)
     THEN /\ TakeRequest(m)
          /\ pc' = AfterCrossingBYE(m)
          /\ UNCHANGED <<bye, runErr>>
     ELSE /\ IF AnswersBYE(m) /\ m.status >= 200
             THEN /\ pc' = "returned" /\ bye' = "answered"
                  /\ terminatedBy' = IF Success(m.status) THEN "Sutel" ELSE terminatedBy
                  /\ runErr' = IF Success(m.status) THEN runErr ELSE runErr \cup {"protocol"}
             ELSE UNCHANGED <<pc, bye, terminatedBy, runErr>>
          /\ UNCHANGED <<remoteCSeq, digits>>
  /\ UNCHANGED <<scenario, resume, ctx, endpoint, invite, player, finalStatus, established,
                 canceled>>

-----------------------------------------------------------------------------
(* Failures, the context, the media goroutine and the end of the session. *)

(* select sees ctx.Done; other ready channels may still be chosen first.   *)
Interrupted ==
  /\ pc \in Reading /\ ctx # "live"
  /\ Abort(ctx)
  /\ Quiet
  /\ UNCHANGED <<scenario, ctx, endpoint, invite, leg, mediaErr, outcome>>

(* The read pump reports a read error, or a retransmission cannot be sent. *)
TransportFails ==
  /\ pc \in Reading
  /\ Abort("transport")
  /\ Quiet
  /\ UNCHANGED <<scenario, ctx, endpoint, invite, leg, mediaErr, outcome>>

(* m was read but its answer cannot be sent: a dialog request has advanced *)
(* the CSeq by then, but has no other effect.                              *)
ReplyFails(m) ==
  /\ pc \in Reading \ {"waitInvite", "silent"}
  /\ AnswerTo(m) # 0
  /\ Abort("transport")
  /\ remoteCSeq' = IF InDialogLoop THEN NextRemoteCSeq(m, storedOK, remoteCSeq) ELSE remoteCSeq
  /\ Quiet
  /\ UNCHANGED <<scenario, ctx, endpoint, invite, digits, bye, mediaErr, outcome>>

(* A response or BYE of our own cannot be sent.                            *)
WriteFails ==
  /\ pc \in Sending
  /\ ~(pc = "sendFinal" /\ offer = "foreign")
  /\ Abort("transport")
  /\ bye' = IF pc \in {"sendBYE", "sendBYEOnce"} THEN "lost" ELSE bye
  /\ Quiet
  /\ UNCHANGED <<scenario, ctx, endpoint, invite, remoteCSeq, digits, mediaErr, outcome>>

(* routeDialogRequest cannot use the Record-Route of the INVITE, which     *)
(* validateInvite took as it came: the BYE is never sent.                  *)
BYEUnroutable ==
  /\ pc \in {"sendBYE", "sendBYEOnce"}
  /\ Abort("protocol")
  /\ bye' = "lost"
  /\ Quiet
  /\ UNCHANGED <<scenario, ctx, endpoint, invite, remoteCSeq, digits, mediaErr, outcome>>

(* The goroutine of startEarlyPlayback or startAnsweredMedia returns.  One *)
(* without audio has nothing to do; echo runs until its context ends.      *)
PlaysAudio == ~acked \/ (scenario.behavior = "answer" /\ scenario.media # "none")

EchoesAudio == acked /\ scenario.behavior = "answer" /\ scenario.media = "echo"

MediaResults ==
  {e \in {{}, {"media"}, {"canceled"}, {"deadline"}} :
     /\ e = {} => ~EchoesAudio
     /\ e # {} => PlaysAudio
     /\ e = {"canceled"} => media = "canceled" \/ ctx = "canceled"
     /\ e = {"deadline"} => media = "running" /\ ctx = "deadline"}

MediaEnds ==
  /\ media \in {"running", "canceled"}
  /\ media' = "finished" /\ mediaErr' \in MediaResults
  /\ Quiet
  /\ UNCHANGED <<scenario, control, ctx, endpoint, invite, leg, result>>

(* Faulty variant: what early media ended with is not looked at.           *)
AfterJoinRegardless(goesOn) ==
  IF resume = "bye"          THEN "sendBYE"
  ELSE IF resume = "byeOnce" THEN "sendBYEOnce"
  ELSE IF resume = "answer"  THEN "sendOK"
  ELSE IF resume = "final"   THEN "sendFinal"
  ELSE "returned"

(* The join on the media goroutine.  On the early exits its error is       *)
(* dropped; otherwise any error but a cancellation counts, and stops early *)
(* media from turning into an answer or a failure response.                *)
AfterJoin(goesOn) ==
  IF resume = "bye"          THEN "sendBYE"
  ELSE IF resume = "byeOnce" THEN "sendBYEOnce"
  ELSE IF resume = "answer" /\ goesOn THEN "sendOK"
  ELSE IF resume = "final" /\ goesOn  THEN "sendFinal"
  ELSE "returned"

JoinMedia ==
  LET failed == mediaErr \ {"canceled"}
  IN  /\ pc = "joinMedia" /\ media = "finished"
      /\ media' = "none" /\ mediaErr' = {} /\ resume' = "none"
      /\ pc' = AfterJoin(failed = {})
      /\ final' = IF resume = "final" /\ failed = {} THEN scenario.status ELSE final
      /\ runErr' = IF resume = "return" THEN runErr ELSE runErr \cup failed
      /\ Quiet
      /\ UNCHANGED <<scenario, ctx, endpoint, offer, latest, cancelled, storedOK, acked,
                     leg, outcome>>

(* Timeout of the session, and Close or the end of the caller's context.   *)
ContextExpires ==
  /\ ctx = "live" /\ pc # "done" /\ ctx' = "deadline"
  /\ Quiet
  /\ UNCHANGED <<scenario, control, endpoint, invite, leg, player, result>>

ContextCanceled ==
  /\ ctx = "live" /\ pc # "done" /\ ctx' = "canceled"
  /\ Quiet
  /\ UNCHANGED <<scenario, control, endpoint, invite, leg, player, result>>

(* execute cleans up: cancel, shutdown, close(done).                       *)
Finish ==
  /\ pc = "returned" /\ pc' = "done"
  /\ ctx' = IF ctx = "live" THEN "canceled" ELSE ctx
  /\ endpoint' = "closed"
  /\ Quiet
  /\ UNCHANGED <<scenario, resume, invite, leg, player, result>>

Done == pc = "done" /\ UNCHANGED vars

-----------------------------------------------------------------------------
Receive(m) ==
  \/ ReadBeforeInvite(m) \/ ReadSilently(m)
  \/ ReadWhileRinging(m) \/ AcceptCANCEL(m)
  \/ ReadWhileCompleted(m) \/ ReadACK(m)
  \/ ReadInDialog(m) \/ ReadWhileHangingUp(m)
  \/ ReplyFails(m)

Send == SendProvisional \/ SendFinal \/ LoseFinal \/ SendOK \/ SendBYE

Timer == BehaviorDue \/ HangupDue \/ LossDue \/ RetransmitFinal \/ RetransmitBYE

Next ==
  \/ \E o \in Offers : ReceiveInvite(o)
  \/ \E status \in {400, 404, 415, 488}, kind \in Invalid : RejectInvite(status, kind)
  \/ \E m \in Datagrams : Receive(m)
  \/ Send \/ Timer
  \/ Interrupted \/ TransportFails \/ WriteFails \/ BYEUnroutable
  \/ MediaEnds \/ JoinMedia
  \/ ContextExpires \/ ContextCanceled \/ Finish
  \/ Done

(* beginSession bounds every session with a timeout; the runtime schedules *)
(* both goroutines; UDP writes return; Play and runAudioEcho return once   *)
(* their context has ended.  Nothing is assumed of the SUT, the network or *)
(* the behaviour timers.                                                   *)
Fairness ==
  /\ WF_vars(ContextExpires)
  /\ WF_vars(Interrupted)
  /\ WF_vars(Send \/ WriteFails)
  /\ WF_vars(MediaEnds /\ (media = "canceled" \/ ctx # "live"))
  /\ WF_vars(JoinMedia)
  /\ WF_vars(Finish)

Spec == Init /\ [][Next]_vars
FairSpec == Spec /\ Fairness

-----------------------------------------------------------------------------
(* Safety. *)

(* A call is established exactly when the ACK of a 200 was read, and then  *)
(* it is never reported as canceled (establishOutboundDialog against       *)
(* finishCanceledInvite and the non-2xx ACK waits).                        *)
EstablishedMeansConfirmed ==
  /\ established <=> (acked /\ final = 200)
  /\ established => ~canceled /\ finalStatus = 200

(* Every established call is released before the session is done: the SUT  *)
(* hung up, or a BYE was tried on whichever exit of answerAndRunDialog was *)
(* taken, and the test is told when it could not be sent.  Only            *)
(* NetworkLoss leaves without a BYE, and it never sends one.               *)
EstablishedCallIsReleased ==
  /\ pc = "done" /\ established /\ scenario.behavior # "networkLoss"
       => bye # "none" \/ terminatedBy = "SUT"
  /\ bye = "lost" => runErr \cap {"transport", "protocol"} # {}
  /\ scenario.behavior = "networkLoss" => bye = "none"

(* TerminatedBy tells who really ended the call when the two hang-ups      *)
(* cross: Sutel only after a 2xx to its BYE with no error, the SUT only    *)
(* for a call whose BYE of ours was not answered.                          *)
TerminatedByTellsWho ==
  /\ terminatedBy # "NoParty" => established
  /\ terminatedBy = "Sutel" => bye = "answered" /\ "protocol" \notin runErr
  /\ terminatedBy = "SUT" => bye # "answered"

(* Media is joined before the call is given up: no goroutine still plays   *)
(* when a BYE is sent, when runOutbound returns, or after the session is   *)
(* done, whatever exit was taken.                                          *)
NoMediaOutlivesCall ==
  bye # "none" \/ pc \in {"sendOK", "returned", "done"} => media = "none"

(* Each INFO digit is recorded at most once, in CSeq order, however the    *)
(* network repeats and reorders the requests (handleDialogRequest).        *)
DigitsRecordedOnce ==
  /\ \A i, j \in DOMAIN digits : i < j => digits[i] < digits[j]
  /\ \A i \in DOMAIN digits : InviteCSeq < digits[i] /\ digits[i] <= remoteCSeq
  /\ digits # <<>> => established

(* The status a test reads in the outcome is the last thing the SUT was    *)
(* told about its INVITE (after a 488 whose send error is ignored, nothing *)
(* at all may have been told).                                             *)
OutcomeStatusAgreesWithWire ==
  finalStatus # 0 => \/ replied = finalStatus
                     \/ offer = "foreign" /\ finalStatus = 488 /\ replied = 0

(* Wait returning no error means the scripted scenario was really played.  *)
ScenarioPlayed ==
  \/ canceled /\ finalStatus = 487 /\ acked /\ scenario.behavior # "negative"
  \/ scenario.behavior = "timeout" /\ replied = 0 /\ ctx = "deadline"
  \/ /\ scenario.behavior \in {"negative", "earlyFailure"}
     /\ acked /\ finalStatus = scenario.status
  \/ /\ scenario.behavior \in {"answer", "earlyMedia", "networkLoss"}
     /\ established
     /\ scenario.behavior # "networkLoss" => terminatedBy # "NoParty"

SuccessMeansScenarioPlayed == pc = "done" /\ runErr = {} => ScenarioPlayed

(* A retransmitted INVITE is answered with the response last given to it,  *)
(* at each of the four places that keep a copy of that response.           *)
RetransmissionsRepeatLastResponse ==
  [][\A i \in DOMAIN out' :
       out'[i].method = "INVITE" /\ out'[i].again
         => out'[i].status = IF final # 0 THEN final ELSE replied]_vars

(* What the outcome says is never taken back or rewritten: crossing BYEs,  *)
(* late CANCELs and duplicates change nothing that was already decided.    *)
OutcomeIsWrittenOnce ==
  [][/\ finalStatus # 0 => finalStatus' = finalStatus
     /\ terminatedBy # "NoParty" => terminatedBy' = terminatedBy
     /\ established => established'
     /\ canceled => canceled']_vars

(* The session or its media has failed, though perhaps only the media      *)
(* goroutine knows of it yet; its cancellation is no failure.              *)
Failed == runErr # {} \/ mediaErr \ {"canceled"} # {}

(* A session that has failed goes no further with its script: early media  *)
(* that fails while a behaviour still waits is noticed at the join, before *)
(* the call is answered or turned down as scripted.  Only a CANCEL and a   *)
(* refused INVITE still get their final response                           *)
(* (runOutboundEarlyMedia, runOutboundEarlyFailure).                       *)
FailureStopsScript ==
  [][Failed /\ ~acked =>
       /\ ~established'
       /\ \A i \in DOMAIN out' :
            out'[i].method = "INVITE" /\ ~out'[i].again /\ out'[i].status >= 200
              => cancelled \/ offer \in Invalid]_vars

(* Once the SUT's BYE ended the call, Sutel sends no BYE for it any more.  *)
NoBYEAfterPeerBYE ==
  [][terminatedBy = "SUT" => \A i \in DOMAIN out' : out'[i] # OwnBYE(FALSE)
                                                     /\ out'[i] # OwnBYE(TRUE)]_vars

(* The INVITE transaction keeps the promise of InviteServer.               *)
Phase ==
  IF pc \in {"returned", "done"} THEN "ended"
  ELSE IF acked THEN "confirmed"
  ELSE IF replied >= 200 \/ finalStatus # 0 THEN "completed"
  ELSE IF offer = "none" THEN "idle" ELSE "proceeding"

Response == IF replied = 0 THEN finalStatus ELSE replied

Server == INSTANCE InviteServer WITH phase <- Phase, response <- Response

ImplementsInviteServer == Server!Spec

-----------------------------------------------------------------------------
(* What documents say and the code does not do. *)

(* spec.md, EarlyFailure: "stops early RTP before the final response".     *)
EarlyRTPStopsBeforeFinal ==
  scenario.behavior = "earlyFailure" /\ finalStatus # 0 => media # "running"

(* spec.md, dialog state: "An out-of-dialog BYE or INFO gets 481".         *)
OutOfDialogRequestGets481 ==
  pc \in BehaviorWaits \cup {"noAnswer"} /\ in \in {"BYE", "INFO"}
    => out = <<Reply(in, 481, FALSE)>>

(* spec.md, results: "InviteFinalStatus is zero when no final response was *)
(* observed".                                                              *)
NoStatusWithoutFinal == finalStatus # 0 => replied >= 200

-----------------------------------------------------------------------------
(* Liveness. *)

(* Every session ends, whatever the SUT does or fails to do.               *)
SessionEnds == <>(pc = "done")
=============================================================================
