------------------------- MODULE OutboundOutcomeProofs -------------------------
(***************************************************************************)
(* More about OutboundCall: what the SUT is told about its INVITE, what    *)
(* the outcome and the error tell the test, and that the callee keeps the  *)
(* promise of InviteServer, for every set of scenarios and datagrams.      *)
(***************************************************************************)
EXTENDS OutboundCallProofs

-----------------------------------------------------------------------------
(* The second inductive invariant. *)

Answering == {"answer", "earlyMedia", "networkLoss"}

GivenUp == Ended \/ (pc = "joinMedia" /\ resume = "return")

(* Which behaviours come to a location.                                    *)
Course ==
  /\ pc = "silent" => scenario.behavior = "timeout"
  /\ pc \in CancelWindow \cup {"sendTrying", "sendRinging", "sendProgress"} =>
       scenario.behavior \notin {"timeout", "negative"}
  /\ pc \in {"ringingWait", "answerWait"} => scenario.behavior \in {"answer", "earlyMedia"}
  /\ pc \in {"progressWait", "sendProgress"} => scenario.behavior \in Early
  /\ pc = "failureWait" => scenario.behavior = "earlyFailure"
  /\ pc = "sendRinging" => scenario.behavior \in Answering \cup {"noAnswer"}
  /\ pc = "sendOK" \/ storedOK \/ (pc = "joinMedia" /\ resume = "answer") =>
       scenario.behavior \in Answering
  /\ pc = "joinMedia" /\ resume = "final" => scenario.behavior = "earlyFailure"

(* An INVITE that gets its final response at once, without media.          *)
Hopeless == Invalid \cup {"foreign"}

(* What the SUT was told about its INVITE, and what the outcome says of it. *)
Told ==
  /\ BeforeFinal => final = 0 /\ finalStatus = 0 /\ replied = latest
  /\ pc = "silent" => latest = 0
  /\ pc = "sendFinal" => final >= 200 /\ finalStatus = 0 /\ replied = latest
  /\ pc = "waitACK" => /\ final >= 200 /\ (replied = final \/ (offer = "foreign" /\ replied = 0))
                       /\ offer \notin Invalid => finalStatus = final
  /\ InCall => replied = 200
  /\ GivenUp => OutcomeStatusAgreesWithWire
  /\ pc = "waitInvite" => offer = "none"
  /\ offer = "none" => latest = 0 /\ replied = 0 /\ pc \in {"waitInvite", "returned", "done"}
  /\ offer \in Hopeless => /\ pc \in {"sendFinal", "waitACK", "returned", "done"}
                           /\ media = "none" /\ latest = 0 /\ final \in {400, 404, 415, 488}
  /\ offer \in Invalid => finalStatus = 0
  /\ offer = "foreign" => final = 488

(* The final response is what the scenario asked for.                      *)
Scripted(status, byCANCEL) ==
  \/ byCANCEL /\ status = 487 /\ scenario.behavior # "negative"
  \/ scenario.behavior \in {"negative", "earlyFailure"} /\ status = scenario.status

(* What is known of a call that may still end without an error.            *)
Concluded ==
  /\ pc = "sendFinal" /\ runErr = {} =>
       offer \in Offers /\ (Unusable(offer) \/ Scripted(final, cancelled))
  /\ pc = "waitACK" /\ runErr = {} =>
       offer # "foreign" /\ (storedOK \/ Scripted(finalStatus, canceled))
  /\ pc = "sendBYEOnce" \/ (pc = "joinMedia" /\ resume = "byeOnce") => runErr # {}
  /\ GivenUp /\ runErr = {} => ScenarioPlayed

Inv == IInv /\ Course /\ Told /\ Concluded

-----------------------------------------------------------------------------
(* The groups of variables are opened everywhere.                          *)
USE DEF control, invite, leg, player, outcome, result, wire

(* What the error exits do.                                                *)
GivesUp(error) ==
  /\ pc \in Reading \cup Sending
  /\ \/ /\ pc = "dialog" /\ pc' = "joinMedia" /\ resume' = "byeOnce"
        /\ runErr' = runErr \cup {error}
     \/ /\ pc # "dialog"
        /\ \/ media = "none" /\ media' = "none" /\ pc' = "returned" /\ resume' = resume
           \/ media # "none" /\ media' # "none" /\ pc' = "joinMedia" /\ resume' = "return"
        /\ \/ runErr' = runErr \cup {error}
           \/ /\ runErr' = runErr
              /\ (pc = "waitACK" /\ offer = "foreign") \/ (pc = "silent" /\ ctx = "deadline")
  /\ out' = <<>>
  /\ UNCHANGED <<scenario, ctx, invite, digits, mediaErr, outcome, replied>>

(* Abort does that.                                                        *)
LEMMA Aborting ==
  ASSUME NEW error, Abort(error), pc \in Reading \cup Sending, Quiet,
         error = "deadline" => ctx = "deadline",
         UNCHANGED <<scenario, ctx, invite, digits, mediaErr, outcome>>
  PROVE  GivesUp(error)
<1>1. CASE pc = "dialog"
  BY <1>1 DEF Abort, StopDialog, Quiet, GivesUp
<1>2. CASE pc # "dialog"
  <2>1. Leave(IF Forgiven(error) THEN {} ELSE {error})
    BY <1>2 DEF Abort
  <2>2. \/ media = "none" /\ media' = "none" /\ pc' = "returned" /\ resume' = resume
        \/ media # "none" /\ media' # "none" /\ pc' = "joinMedia" /\ resume' = "return"
    BY <2>1 DEF Leave, Cancel
  <2>3. \/ runErr' = runErr \cup {error}
        \/ runErr' = runErr /\ Forgiven(error)
    BY <2>1 DEF Leave
  <2> QED
    BY <1>2, <2>2, <2>3 DEF Forgiven, Quiet, GivesUp
<1> QED
  BY <1>1, <1>2

(* These five give up.                                                     *)
LEMMA Failing ==
  ASSUME TypeOK, \/ Interrupted \/ TransportFails \/ WriteFails \/ BYEUnroutable
                 \/ \E m \in Datagrams : ReplyFails(m)
  PROVE  \E error \in ErrorClasses : GivesUp(error)
<1>1. {"transport", "protocol"} \subseteq ErrorClasses /\ (ctx # "live" => ctx \in ErrorClasses)
  BY DEF TypeOK, ErrorClasses
<1>2. CASE Interrupted
  <2>1. GivesUp(ctx)
    BY <1>2, Aborting DEF Interrupted
  <2> QED
    BY <1>1, <1>2, <2>1 DEF Interrupted
<1>3. CASE TransportFails
  <2>1. GivesUp("transport")
    BY <1>3, Aborting DEF TransportFails
  <2> QED
    BY <1>1, <2>1
<1>4. CASE WriteFails
  <2>1. GivesUp("transport")
    BY <1>4, Aborting DEF WriteFails
  <2> QED
    BY <1>1, <2>1
<1>5. CASE BYEUnroutable
  <2>1. GivesUp("protocol")
    BY <1>5, Aborting DEF BYEUnroutable, Sending
  <2> QED
    BY <1>1, <2>1
<1>6. CASE \E m \in Datagrams : ReplyFails(m)
  <2>1. GivesUp("transport")
    BY <1>6, Aborting DEF ReplyFails
  <2> QED
    BY <1>1, <2>1
<1> QED
  BY <1>2, <1>3, <1>4, <1>5, <1>6

(* A handler repeats to the SUT what it was told last, or, while the final *)
(* response waits for its ACK, the final response.                         *)
LEMMA Repeating ==
  ASSUME TypeOK, Stages, Told, NEW m \in Datagrams, Exchange(m),
         pc \in BehaviorWaits \cup {"noAnswer", "waitACK", "dialog", "lossDialog", "waitBYE"}
  PROVE  /\ replied' = replied \/ (pc = "waitACK" /\ replied' = final)
         /\ \A i \in DOMAIN out' :
              /\ out'[i].method = "INVITE" /\ out'[i].again =>
                   out'[i].status = IF final # 0 THEN final ELSE replied
              /\ out'[i].status # 0
<1>1. CASE IsRequest(m) /\ InviteRetransmission(m)
  <2>1. m.call
    BY <1>1 DEF InviteRetransmission, IsMatching
  <2>2. CASE pc \in BehaviorWaits \cup {"noAnswer"}
    <3>1. AnswerTo(m) = latest /\ replied = latest /\ final = 0
      BY <1>1, <2>2 DEF AnswerTo, AnswerWhileRinging, InDialogLoop, BehaviorWaits, Told,
           BeforeFinal, CancelWindow
    <3> QED
      BY <3>1 DEF Exchange, Reply
  <2>3. CASE pc = "waitACK"
    <3>1. AnswerTo(m) = final /\ final # 0
      BY <1>1, <2>3 DEF AnswerTo, AnswerWhileCompleted, InDialogLoop, Told
    <3> QED
      BY <2>3, <3>1 DEF Exchange, Reply
  <2>4. CASE pc \in {"dialog", "lossDialog", "waitBYE"}
    <3>1. storedOK /\ final = 200 /\ replied = 200
      BY <2>4 DEF Stages, InCall, Confirmed, Told
    <3>2. m.method # "ACK"
      BY <1>1 DEF InviteRetransmission, IsMatching
    <3>3. AnswerTo(m) = 200
      BY <1>1, <2>1, <2>4, <3>1, <3>2 DEF AnswerTo, InDialogLoop, DialogStatus, ResendsOK
    <3> QED
      BY <3>1, <3>3 DEF Exchange, Reply
  <2> QED
    BY <2>2, <2>3, <2>4
<1>2. CASE ~(IsRequest(m) /\ InviteRetransmission(m))
  <2>1. ~InviteRetransmission(m)
    BY <1>2 DEF InviteRetransmission
  <2>2. replied' = replied
    BY <2>1 DEF Exchange
  <2>3. m.method = "INVITE" => ~Again(m)
    BY <2>1 DEF Again
  <2> QED
    BY <2>2, <2>3 DEF Exchange, Reply
<1> QED
  BY <1>1, <1>2

-----------------------------------------------------------------------------
(* What the environment and the goroutines may do, by what it does to the  *)
(* call.                                                                   *)
Idle ==
  \/ \E m \in Datagrams : ReadBeforeInvite(m) \/ ReadSilently(m)
  \/ RetransmitBYE \/ MediaEnds \/ ContextExpires \/ ContextCanceled \/ Finish
  \/ Done \/ UNCHANGED vars

Failure ==
  \/ Interrupted \/ TransportFails \/ WriteFails \/ BYEUnroutable
  \/ \E m \in Datagrams : ReplyFails(m)

Progress ==
  \/ \E o \in Offers : ReceiveInvite(o)
  \/ \E status \in {400, 404, 415, 488}, kind \in Invalid : RejectInvite(status, kind)
  \/ \E m \in Datagrams : \/ ReadWhileRinging(m) \/ AcceptCANCEL(m)
                          \/ ReadWhileCompleted(m) \/ ReadACK(m)
                          \/ ReadInDialog(m) \/ ReadWhileHangingUp(m)
  \/ SendProvisional \/ SendFinal \/ LoseFinal \/ SendOK \/ SendBYE
  \/ BehaviorDue \/ HangupDue \/ LossDue \/ RetransmitFinal
  \/ JoinMedia

LEMMA Steps == [Next]_vars => Idle \/ Failure \/ Progress
BY DEF Next, Receive, Send, Timer, Idle, Failure, Progress

(* Idle steps change nothing the invariant speaks of.                      *)
LEMMA Idling ==
  ASSUME Idle
  PROVE  /\ UNCHANGED <<scenario, resume, invite, leg, outcome, runErr, replied>>
         /\ pc' = pc \/ (pc = "returned" /\ pc' = "done")
         /\ ctx' = ctx \/ ctx = "live"
<1>1. CASE \E m \in Datagrams : ReadBeforeInvite(m)
  BY <1>1 DEF ReadBeforeInvite
<1>2. CASE \E m \in Datagrams : ReadSilently(m)
  BY <1>2 DEF ReadSilently
<1>3. CASE RetransmitBYE
  BY <1>3 DEF RetransmitBYE
<1>4. CASE MediaEnds
  BY <1>4 DEF MediaEnds, Quiet
<1>5. CASE ContextExpires \/ ContextCanceled
  BY <1>5 DEF ContextExpires, ContextCanceled, Quiet
<1>6. CASE Finish
  BY <1>6 DEF Finish, Quiet
<1>7. CASE Done \/ UNCHANGED vars
  BY <1>7 DEF Done, vars
<1> QED
  BY <1>1, <1>2, <1>3, <1>4, <1>5, <1>6, <1>7 DEF Idle

(* A behaviour keeps to the locations of its own.                          *)
LEMMA StepKeepsCourse ==
  ASSUME TypeOK, Stages, MediaAccountedFor, Course, [Next]_vars
  PROVE  Course'
<1> USE DEF Course, CancelWindow, BehaviorWaits, Answering, Early
<1>1. CASE Idle
  <2>1. /\ UNCHANGED <<scenario, resume, invite>>
        /\ pc' = pc \/ (pc = "returned" /\ pc' = "done")
    BY <1>1, Idling
  <2> QED
    BY <2>1
<1>2. CASE Failure
  <2>1. PICK error \in ErrorClasses : GivesUp(error)
    BY <1>2, Failing DEF Failure
  <2>2. /\ UNCHANGED <<scenario, invite>>
        /\ \/ pc' = "returned"
           \/ pc' = "joinMedia" /\ resume' \in {"byeOnce", "return"}
    BY <2>1 DEF GivesUp
  <2> QED
    BY <2>2
<1>3. CASE \E o \in Offers : ReceiveInvite(o)
  <2>1. /\ pc = "waitInvite" /\ UNCHANGED <<scenario, storedOK>>
        /\ pc' = "sendFinal" \/ (scenario.behavior # "negative" /\ pc' = FirstStep)
    BY <1>3 DEF ReceiveInvite
  <2>2. ~storedOK
    BY <2>1 DEF Stages, BeforeFinal
  <2> QED
    BY <2>1, <2>2, BehaviorIsTyped DEF FirstStep, Behaviors
<1>4. CASE \E status \in {400, 404, 415, 488}, kind \in Invalid : RejectInvite(status, kind)
  BY <1>4 DEF RejectInvite
<1>5. ASSUME NEW m \in Datagrams,
             \/ ReadWhileRinging(m) \/ AcceptCANCEL(m) \/ ReadWhileCompleted(m)
             \/ ReadACK(m) \/ ReadInDialog(m) \/ ReadWhileHangingUp(m)
      PROVE  Course'
  <2>1. /\ UNCHANGED <<scenario, storedOK>>
        /\ \/ UNCHANGED control
           \/ pc' \in {"sendFinal", "dialog", "lossDialog", "returned"}
           \/ pc' = "joinMedia" /\ resume' \in {"return", "end"}
    BY <1>5 DEF ReadWhileRinging, AcceptCANCEL, ReadWhileCompleted, ReadACK, ReadInDialog,
                ReadWhileHangingUp, Leave, StopDialog, TerminatedByPeer, AfterCrossingBYE
  <2> QED
    BY <2>1
<1>6. CASE SendProvisional
  <2>1. /\ pc \in {"sendTrying", "sendRinging", "sendProgress"}
        /\ pc' = AfterProvisional /\ UNCHANGED <<scenario, storedOK>>
    BY <1>6 DEF SendProvisional
  <2> QED
    BY <2>1, BehaviorIsTyped
       DEF AfterProvisional, AfterTrying, AfterRinging, AfterProgress, Behaviors
<1>7. CASE SendFinal \/ LoseFinal
  <2>1. pc' \in {"returned", "waitACK"} /\ pc = "sendFinal" /\ UNCHANGED <<scenario, storedOK>>
    BY <1>7 DEF SendFinal, LoseFinal, FinalDecided
  <2> QED
    BY <2>1
<1>8. CASE SendOK
  BY <1>8 DEF SendOK
<1>9. CASE SendBYE \/ HangupDue \/ LossDue \/ RetransmitFinal
  <2>1. /\ \/ UNCHANGED control
           \/ pc' \in {"waitBYE", "returned"}
           \/ pc' = "joinMedia" /\ resume' = "bye"
        /\ UNCHANGED <<scenario, storedOK>>
    BY <1>9 DEF SendBYE, HangupDue, LossDue, RetransmitFinal, StopDialog
  <2> QED
    BY <2>1
<1>10. CASE BehaviorDue
  BY <1>10, BehaviorIsTyped DEF BehaviorDue, Behaviors
<1>11. CASE JoinMedia
  BY <1>11 DEF JoinMedia, AfterJoin
<1> QED
  BY Steps, <1>1, <1>2, <1>3, <1>4, <1>5, <1>6, <1>7, <1>8, <1>9, <1>10, <1>11 DEF Progress

(* What the SUT was told, and what the outcome says of it, agree through   *)
(* every step.                                                             *)
LEMMA StepKeepsTold ==
  ASSUME TypeOK, Stages, MediaAccountedFor, Course, Told, [Next]_vars
  PROVE  Told'
<1> USE DEF Told, Hopeless, Invalid, BeforeFinal, InCall, GivenUp, Ended, CancelWindow,
            BehaviorWaits, OutcomeStatusAgreesWithWire
<1>1. CASE Idle
  <2>1. /\ UNCHANGED <<scenario, resume, invite, outcome, replied>>
        /\ pc' = pc \/ (pc = "returned" /\ pc' = "done")
    BY <1>1, Idling
  <2>2. UNCHANGED media \/ pc # "waitInvite"
    BY <1>1 DEF Idle, ReadBeforeInvite, ReadSilently, RetransmitBYE, MediaEnds, ContextExpires,
         ContextCanceled, Finish, Done, vars, MediaAccountedFor, Unaccompanied
  <2>3. offer \in Hopeless => media = "none" /\ media' = "none"
    BY <1>1 DEF Idle, ReadBeforeInvite, ReadSilently, RetransmitBYE, MediaEnds, ContextExpires,
         ContextCanceled, Finish, Done, vars
  <2> QED
    BY <2>1, <2>3
<1>2. CASE Failure
  <2>1. PICK error \in ErrorClasses : GivesUp(error)
    BY <1>2, Failing DEF Failure
  <2>2. UNCHANGED <<scenario, invite, outcome, replied>>
    BY <2>1 DEF GivesUp
  <2>3. CASE pc = "dialog"
    <3>1. pc' = "joinMedia" /\ resume' = "byeOnce" /\ replied = 200 /\ offer \notin {"none", "foreign", "rejected", "stateless"}
      BY <2>1, <2>3 DEF GivesUp
    <3> QED
      BY <2>2, <3>1
  <2>4. CASE pc # "dialog"
    <3>1. \/ pc' = "returned" /\ media' = "none"
          \/ pc' = "joinMedia" /\ resume' = "return" /\ media # "none"
      BY <2>1, <2>4 DEF GivesUp
    <3>2. pc \in Reading \cup Sending
      BY <2>1 DEF GivesUp
    <3>3. CASE BeforeFinal \/ pc = "sendFinal"
      <4>1. finalStatus = 0 /\ (pc = "waitInvite" => media = "none")
        BY <3>3 DEF MediaAccountedFor, Unaccompanied
      <4>2. offer \in Hopeless \cup {"none"} => media = "none"
        BY <4>1, <3>2, <3>3 DEF Reading, Sending
      <4> QED
        BY <2>2, <3>1, <4>1, <4>2
    <3>4. CASE pc = "waitACK"
      <4>1. OutcomeStatusAgreesWithWire /\ offer # "none"
        BY <3>4
      <4>2. CASE offer \in Hopeless
        <5>1. pc' = "returned" /\ media' = "none"
          BY <3>1, <3>4, <4>2
        <5> QED
          BY <2>2, <3>4, <4>1, <5>1
      <4>3. CASE offer \notin Hopeless
        BY <2>2, <3>1, <4>1, <4>3
      <4> QED
        BY <4>2, <4>3
    <3>5. CASE InCall
      <4>1. finalStatus = 200 /\ replied = 200 /\ offer \notin {"none", "foreign", "rejected", "stateless"}
        BY <3>2, <3>5 DEF Stages, Confirmed, Reading, Sending
      <4> QED
        BY <2>2, <3>1, <4>1
    <3> QED
      BY <2>4, <3>2, <3>3, <3>4, <3>5 DEF Reading, Sending
  <2> QED
    BY <2>3, <2>4
<1>3. ASSUME NEW o \in Offers, ReceiveInvite(o) PROVE Told'
  <2>1. /\ pc = "waitInvite" /\ UNCHANGED <<latest, replied, media, finalStatus, scenario>>
        /\ latest = 0 /\ replied = 0 /\ finalStatus = 0 /\ final = 0
        /\ offer' = (IF Negotiates THEN o ELSE "sendrecv")
        /\ o # "none" /\ o \notin Invalid
    BY <1>3 DEF ReceiveInvite, Offers
  <2>2. CASE pc' = "sendFinal" /\ FinalAtOnce(o)
    <3>1. final' >= 200 /\ (Negotiates => final' = 488)
      BY <2>2, ScenarioIsTyped DEF FinalAtOnce, Negotiates
    <3>2. media = "none"
      BY <2>1 DEF MediaAccountedFor, Unaccompanied
    <3>3. offer' # "none" /\ offer' \notin Invalid
      BY <2>1
    <3>4. offer' = "foreign" => Negotiates
      BY <2>1
    <3> QED
      BY <2>1, <2>2, <3>1, <3>2, <3>3, <3>4
  <2>3. CASE pc' = FirstStep /\ final' = final /\ ~(Negotiates /\ Unusable(o))
    <3>1. pc' \in {"silent", "sendTrying", "tryingWait", "ringingWait", "progressWait"}
      BY <2>3 DEF FirstStep
    <3>2. offer' \notin {"none", "foreign", "rejected", "stateless"}
      BY <2>1, <2>3 DEF Unusable
    <3> QED
      BY <2>1, <2>3, <3>1, <3>2
  <2> QED
    BY <1>3, <2>2, <2>3 DEF ReceiveInvite
<1>4. ASSUME NEW status \in {400, 404, 415, 488}, NEW kind \in Invalid, RejectInvite(status, kind)
      PROVE Told'
  <2>1. media = "none"
    BY <1>4 DEF RejectInvite, MediaAccountedFor, Unaccompanied
  <2> QED
    BY <1>4, <2>1 DEF RejectInvite
<1>5. ASSUME NEW m \in Datagrams, ReadWhileRinging(m) PROVE Told'
  <2>1. UNCHANGED <<scenario, control, invite, player, outcome>>
    BY <1>5 DEF ReadWhileRinging
  <2>2. replied' = replied
    BY <1>5, Repeating DEF ReadWhileRinging
  <2> QED
    BY <2>1, <2>2
<1>6. ASSUME NEW m \in Datagrams, ReadWhileCompleted(m) PROVE Told'
  <2>1. pc = "waitACK" /\ UNCHANGED <<scenario, control, invite, player, outcome>>
    BY <1>6 DEF ReadWhileCompleted
  <2>2. replied' = replied \/ replied' = final
    BY <1>6, Repeating DEF ReadWhileCompleted
  <2> QED
    BY <2>1, <2>2
<1>7. ASSUME NEW m \in Datagrams, AcceptCANCEL(m) PROVE Told'
  <2>1. pc \in CancelWindow /\ final' = 487 /\ pc' = "sendFinal"
        /\ UNCHANGED <<scenario, offer, latest, finalStatus, media>>
    BY <1>7 DEF AcceptCANCEL
  <2>2. ~InviteRetransmission(m)
    BY <1>7 DEF AcceptCANCEL, ValidInviteCANCEL, InviteRetransmission, IsMatching
  <2>3. replied' = replied
    BY <1>7, <2>2 DEF AcceptCANCEL, Exchange
  <2> QED
    BY <2>1, <2>3
<1>8. ASSUME NEW m \in Datagrams, ReadACK(m) PROVE Told'
  <2>1. pc = "waitACK" /\ UNCHANGED <<scenario, offer, latest, final, finalStatus, replied, storedOK>>
    BY <1>8 DEF ReadACK
  <2>2. CASE storedOK
    <3>1. final = 200 /\ replied = 200 /\ offer \notin {"none", "foreign", "rejected", "stateless"}
      BY <2>1, <2>2 DEF Stages, MediaAccountedFor
    <3>2. pc' \in {"dialog", "lossDialog"}
      BY <1>8, <2>2 DEF ReadACK
    <3> QED
      BY <2>1, <3>1, <3>2
  <2>3. CASE ~storedOK
    <3>1. \/ media = "none" /\ media' = "none" /\ pc' = "returned"
          \/ media # "none" /\ pc' = "joinMedia" /\ resume' = "return"
      BY <1>8, <2>3 DEF ReadACK, Leave, Cancel
    <3>2. OutcomeStatusAgreesWithWire
      BY <2>1
    <3> QED
      BY <2>1, <3>1, <3>2
  <2> QED
    BY <2>2, <2>3
<1>9. ASSUME NEW m \in Datagrams, ReadInDialog(m) \/ ReadWhileHangingUp(m) PROVE Told'
  <2>1. /\ pc \in {"dialog", "lossDialog", "waitBYE"} /\ Exchange(m)
        /\ UNCHANGED <<scenario, invite, finalStatus>>
    BY <1>9 DEF ReadInDialog, ReadWhileHangingUp
  <2>2. replied' = replied /\ replied = 200
    BY <2>1, Repeating
  <2>3. finalStatus = 200 /\ offer \notin {"none", "foreign", "rejected", "stateless"}
    BY <2>1 DEF Stages, Confirmed
  <2>4. \/ UNCHANGED control
        \/ pc' = "joinMedia" /\ resume' = "end"
        \/ pc' = "returned"
    BY <1>9 DEF ReadInDialog, ReadWhileHangingUp, StopDialog, TerminatedByPeer, AfterCrossingBYE
  <2> QED
    BY <2>1, <2>2, <2>3, <2>4
<1>10. CASE SendProvisional
  <2>1. /\ pc \in {"sendTrying", "sendRinging", "sendProgress"} /\ pc' = AfterProvisional
        /\ replied' = Provisional /\ latest' = Provisional
        /\ UNCHANGED <<scenario, offer, final, finalStatus>>
    BY <1>10 DEF SendProvisional, SayOnInvite
  <2>2. AfterProvisional \in CancelWindow \cup {"sendRinging", "sendProgress", "sendOK"}
    BY <2>1 DEF AfterProvisional, AfterTrying, AfterRinging, AfterProgress
  <2>3. offer \notin {"none", "foreign", "rejected", "stateless"}
    BY <2>1
  <2> QED
    BY <2>1, <2>2, <2>3
<1>11. CASE SendFinal \/ LoseFinal
  <2>1. /\ pc = "sendFinal" /\ FinalDecided /\ UNCHANGED <<scenario, offer, latest, final, media>>
        /\ pc' = (IF offer = "stateless" THEN "returned" ELSE "waitACK")
        /\ finalStatus' = (IF offer \in Invalid THEN finalStatus ELSE final)
        /\ replied' = final \/ (replied' = replied /\ offer = "foreign")
    BY <1>11, ZenonT(60) DEF SendFinal, LoseFinal, FinalDecided, SayOnInvite, Quiet
  <2> QED
    BY <2>1
<1>12. CASE SendOK
  <2>1. offer \notin {"none", "foreign", "rejected", "stateless"}
    BY <1>12 DEF SendOK
  <2> QED
    BY <1>12, <2>1 DEF SendOK, SayOnInvite
<1>13. CASE SendBYE \/ HangupDue \/ LossDue
  <2>1. /\ InCall /\ UNCHANGED <<scenario, invite, finalStatus, replied>>
        /\ \/ pc' \in {"waitBYE", "returned"}
           \/ pc' = "joinMedia" /\ resume' = "bye"
    BY <1>13, ZenonT(60) DEF SendBYE, HangupDue, LossDue, StopDialog, Quiet
  <2>2. finalStatus = 200 /\ replied = 200 /\ offer \notin {"none", "foreign", "rejected", "stateless"}
    BY <2>1 DEF Stages, Confirmed, MediaAccountedFor
  <2> QED
    BY <2>1, <2>2
<1>14. CASE RetransmitFinal
  BY <1>14 DEF RetransmitFinal, SayOnInvite
<1>15. CASE BehaviorDue
  <2>1. /\ pc \in BehaviorWaits /\ UNCHANGED <<scenario, invite, finalStatus, replied>>
        /\ \/ pc' \in {"sendTrying", "sendRinging", "sendProgress", "sendOK"}
           \/ pc' = "joinMedia" /\ resume' \in {"answer", "final"}
    BY <1>15 DEF BehaviorDue, Quiet
  <2>2. offer \notin {"none", "foreign", "rejected", "stateless"}
    BY <2>1
  <2> QED
    BY <2>1, <2>2
<1>16. CASE JoinMedia
  <2>1. /\ pc = "joinMedia" /\ media' = "none" /\ resume' = "none"
        /\ UNCHANGED <<scenario, offer, latest, finalStatus, replied>>
    BY <1>16 DEF JoinMedia, Quiet
  <2>2. offer \notin {"none", "foreign", "rejected", "stateless"}
    BY <2>1
  <2>3. CASE resume \in {"answer", "final"}
    <3>1. \/ pc' = "returned"
          \/ pc' = "sendOK" /\ final' = final
          \/ pc' = "sendFinal" /\ final' = scenario.status
      BY <1>16, <2>3 DEF JoinMedia, AfterJoin
    <3>2. finalStatus = 0 /\ replied = latest /\ final = 0
      BY <2>1, <2>3
    <3> QED
      BY <2>1, <2>2, <3>1, <3>2, ScenarioIsTyped
  <2>4. CASE resume \notin {"answer", "final"}
    <3>1. OutcomeStatusAgreesWithWire /\ (resume # "return" => replied = 200)
      BY <2>1, <2>4 DEF Stages, Confirmed, TypeOK, Resumptions
    <3>2. \/ pc' = "returned" 
          \/ pc' \in {"sendBYE", "sendBYEOnce"} /\ resume # "return"
      BY <1>16, <2>4 DEF JoinMedia, AfterJoin
    <3>3. final' = final
      BY <1>16, <2>4 DEF JoinMedia
    <3> QED
      BY <2>1, <2>2, <3>1, <3>2, <3>3
  <2> QED
    BY <2>3, <2>4
<1> QED
  BY Steps, <1>1, <1>2, <1>3, <1>4, <1>5, <1>6, <1>7, <1>8, <1>9, <1>10, <1>11, <1>12, <1>13,
     <1>14, <1>15, <1>16 DEF Progress

(* A call that can still end without an error is on the way the scenario   *)
(* scripts, and stays on it.                                               *)
LEMMA StepKeepsConcluded ==
  ASSUME TypeOK, Stages, MediaAccountedFor, Course, Told, Concluded, [Next]_vars
  PROVE  Concluded'
<1> USE DEF Concluded, GivenUp, Ended
<1>1. CASE Idle
  <2>1. /\ UNCHANGED <<scenario, resume, invite, outcome, runErr, replied>>
        /\ pc' = pc \/ (pc = "returned" /\ pc' = "done")
        /\ ctx' = ctx \/ ctx = "live"
    BY <1>1, Idling
  <2>2. Unusable(offer)' = Unusable(offer)
    BY <2>1 DEF Unusable, NeedsSend, NeedsReceive
  <2> QED
    BY <2>1, <2>2 DEF Scripted, ScenarioPlayed
<1>2. CASE Failure
  <2>1. PICK error \in ErrorClasses : GivesUp(error)
    BY <1>2, Failing DEF Failure
  <2>2. \/ runErr' # {}
        \/ /\ pc = "silent" /\ ctx = "deadline" /\ runErr' = runErr
           /\ pc' = "returned" \/ (pc' = "joinMedia" /\ resume' = "return")
        \/ pc = "waitACK" /\ offer = "foreign" /\ runErr' = runErr
    BY <2>1 DEF GivesUp
  <2>3. CASE runErr' # {}
    <3>1. pc' \notin {"sendFinal", "waitACK"}
      BY <2>1 DEF GivesUp
    <3> QED
      BY <2>3, <3>1
  <2>4. CASE /\ pc = "silent" /\ ctx = "deadline" /\ runErr' = runErr
             /\ pc' = "returned" \/ (pc' = "joinMedia" /\ resume' = "return")
    <3>1. scenario.behavior = "timeout" /\ replied = 0
      BY <2>4 DEF Course, Told, BeforeFinal
    <3>2. UNCHANGED <<scenario, replied, ctx>>
      BY <2>1 DEF GivesUp
    <3>3. ScenarioPlayed'
      BY <2>4, <3>1, <3>2 DEF ScenarioPlayed
    <3> QED
      BY <2>4, <3>3
  <2>5. CASE pc = "waitACK" /\ offer = "foreign" /\ runErr' = runErr
    BY <2>3, <2>5
  <2> QED
    BY <2>2, <2>3, <2>4, <2>5
<1>3. ASSUME NEW o \in Offers, ReceiveInvite(o) PROVE Concluded'
  <2>1. /\ UNCHANGED <<scenario, runErr, cancelled>>
        /\ offer' = (IF Negotiates THEN o ELSE "sendrecv")
        /\ \/ pc' = "sendFinal" /\ FinalAtOnce(o)
           \/ pc' = FirstStep
    BY <1>3 DEF ReceiveInvite
  <2>2. offer' \in Offers
    BY <2>1 DEF Offers
  <2>3. CASE pc' = "sendFinal" /\ FinalAtOnce(o)
    <3>1. Unusable(offer)' \/ Scripted(final, cancelled)'
      <4>1. CASE scenario.behavior = "negative" /\ final' = scenario.status
        BY <2>1, <4>1 DEF Scripted
      <4>2. CASE Negotiates /\ Unusable(o)
        BY <2>1, <4>2 DEF Unusable, NeedsSend, NeedsReceive
      <4> QED
        BY <2>3, <4>1, <4>2 DEF FinalAtOnce
    <3> QED
      BY <2>2, <2>3, <3>1
  <2>4. CASE pc' = FirstStep
    BY <2>4 DEF FirstStep
  <2> QED
    BY <2>1, <2>3, <2>4
<1>4. ASSUME NEW status \in {400, 404, 415, 488}, NEW kind \in Invalid, RejectInvite(status, kind)
      PROVE Concluded'
  BY <1>4 DEF RejectInvite
<1>5. ASSUME NEW m \in Datagrams, ReadWhileRinging(m) \/ ReadWhileCompleted(m) PROVE Concluded'
  <2>1. /\ UNCHANGED <<scenario, control, invite, outcome, runErr>>
        /\ pc \in BehaviorWaits \cup {"noAnswer", "waitACK"}
    BY <1>5 DEF ReadWhileRinging, ReadWhileCompleted
  <2> QED
    BY <2>1 DEF BehaviorWaits, Scripted
<1>6. ASSUME NEW m \in Datagrams, AcceptCANCEL(m) PROVE Concluded'
  <2>1. /\ pc \in CancelWindow /\ pc' = "sendFinal" /\ final' = 487 /\ cancelled'
        /\ UNCHANGED <<scenario, offer>>
    BY <1>6 DEF AcceptCANCEL
  <2>2. offer \in Offers /\ scenario.behavior # "negative"
    BY <2>1 DEF Told, Hopeless, CancelWindow, BehaviorWaits, Course, TypeOK
  <2> QED
    BY <2>1, <2>2 DEF Scripted
<1>7. ASSUME NEW m \in Datagrams, ReadACK(m) PROVE Concluded'
  <2>1. /\ pc = "waitACK" /\ acked'
        /\ UNCHANGED <<scenario, offer, finalStatus, canceled, storedOK>>
    BY <1>7 DEF ReadACK
  <2>2. CASE storedOK
    <3>1. pc' \in {"dialog", "lossDialog"}
      BY <1>7, <2>2 DEF ReadACK
    <3> QED
      BY <3>1
  <2>3. CASE ~storedOK
    <3>1. /\ runErr' = runErr
          /\ pc' = "returned" \/ (pc' = "joinMedia" /\ resume' = "return")
      BY <1>7, <2>3 DEF ReadACK, Leave
    <3>2. runErr = {} => ScenarioPlayed'
      BY <2>1, <2>3 DEF Scripted, ScenarioPlayed
    <3> QED
      BY <3>1, <3>2
  <2> QED
    BY <2>2, <2>3
<1>8. ASSUME NEW m \in Datagrams, ReadInDialog(m) PROVE Concluded'
  <2>1. /\ pc \in {"dialog", "lossDialog"} /\ UNCHANGED <<scenario, established>>
        /\ \/ UNCHANGED control
           \/ pc = "dialog" /\ pc' = "joinMedia" /\ resume' = "end"
           \/ pc = "lossDialog" /\ pc' = "returned"
    BY <1>8 DEF ReadInDialog, StopDialog, TerminatedByPeer
  <2>2. pc = "lossDialog" => established /\ scenario.behavior = "networkLoss"
    BY DEF Stages, InCall, Confirmed
  <2> QED
    BY <2>1, <2>2 DEF ScenarioPlayed
<1>9. ASSUME NEW m \in Datagrams, ReadWhileHangingUp(m) PROVE Concluded'
  <2>1. /\ pc = "waitBYE" /\ UNCHANGED <<scenario, established>>
        /\ \/ pc' = "waitBYE"
           \/ pc' = "returned" /\ (runErr' # {} \/ terminatedBy' \in {"SUT", "Sutel"})
    BY <1>9 DEF ReadWhileHangingUp, TakeRequest, AfterCrossingBYE
  <2>2. established /\ scenario.behavior \in Answering
    BY <2>1 DEF Stages, InCall, Confirmed, Course
  <2> QED
    BY <2>1, <2>2 DEF ScenarioPlayed, Answering
<1>10. CASE SendProvisional
  BY <1>10 DEF SendProvisional, AfterProvisional, AfterTrying, AfterRinging, AfterProgress
<1>11. CASE SendFinal \/ LoseFinal
  <2>1. /\ pc = "sendFinal" /\ UNCHANGED <<scenario, offer, final, storedOK>>
        /\ pc' = (IF offer = "stateless" THEN "returned" ELSE "waitACK")
        /\ finalStatus' = (IF offer \in Invalid THEN finalStatus ELSE final)
        /\ canceled' = cancelled
        /\ runErr' = IF offer \in Offers /\ Unusable(offer)
                     THEN runErr \cup {"negotiation"} ELSE runErr
    BY <1>11 DEF SendFinal, LoseFinal, FinalDecided
  <2>2. CASE runErr' # {}
    BY <2>1, <2>2
  <2>3. CASE runErr' = {}
    <3>1. runErr = {} /\ ~(offer \in Offers /\ Unusable(offer))
      BY <2>1, <2>3
    <3>2. offer \in Offers /\ Scripted(final, cancelled)
      BY <2>1, <3>1
    <3>3. offer # "foreign" /\ offer \notin Invalid
      BY <3>1, <3>2 DEF Unusable, Offers, Invalid
    <3>4. pc' = "waitACK" /\ finalStatus' = final /\ offer' # "foreign"
      BY <2>1, <3>3 DEF Invalid
    <3>5. Scripted(finalStatus, canceled)'
      BY <2>1, <3>2, <3>4 DEF Scripted
    <3> QED
      BY <3>4, <3>5
  <2> QED
    BY <2>2, <2>3
<1>12. CASE SendOK
  BY <1>12 DEF SendOK, Told, Hopeless
<1>13. CASE SendBYE \/ HangupDue \/ LossDue
  <2>1. /\ UNCHANGED <<scenario, established, runErr>>
        /\ \/ pc' = "waitBYE"
           \/ pc' = "joinMedia" /\ resume' = "bye"
           \/ pc = "sendBYEOnce" /\ pc' = "returned"
           \/ pc = "lossDialog" /\ pc' = "returned"
    BY <1>13 DEF SendBYE, HangupDue, LossDue, StopDialog
  <2>2. pc = "lossDialog" => established /\ scenario.behavior = "networkLoss"
    BY DEF Stages, InCall, Confirmed
  <2> QED
    BY <2>1, <2>2 DEF ScenarioPlayed
<1>14. CASE RetransmitFinal
  BY <1>14 DEF RetransmitFinal, Scripted
<1>15. CASE BehaviorDue
  BY <1>15 DEF BehaviorDue
<1>16. CASE JoinMedia
  <2> DEFINE failed == mediaErr \ {"canceled"}
  <2>1. /\ pc = "joinMedia" /\ resume' = "none" /\ pc' = AfterJoin(failed = {})
        /\ runErr' = (IF resume = "return" THEN runErr ELSE runErr \cup failed)
        /\ UNCHANGED <<scenario, ctx, offer, cancelled, acked, outcome, replied>>
    BY <1>16 DEF JoinMedia, Quiet
  <2>2. pc' \in {"sendBYE", "sendBYEOnce", "sendOK", "sendFinal", "returned"}
    BY <2>1 DEF AfterJoin
  <2>3. CASE pc' = "sendBYEOnce"
    <3>1. runErr' # {}
      BY <2>1, <2>3 DEF AfterJoin
    <3> QED
      BY <2>3, <3>1
  <2>4. CASE pc' = "sendFinal"
    <3>1. resume = "final" /\ failed = {}
      BY <2>1, <2>4 DEF AfterJoin
    <3>2. final' = scenario.status
      BY <1>16, <3>1 DEF JoinMedia
    <3>3. scenario.behavior = "earlyFailure" /\ offer \in Offers
      BY <2>1, <3>1 DEF Course, Told, Hopeless, TypeOK
    <3> QED
      BY <2>1, <2>4, <3>2, <3>3 DEF Scripted
  <2>5. CASE pc' = "returned"
    <3>1. CASE resume = "end"
      <4>1. established /\ terminatedBy = "SUT" /\ scenario.behavior \in Answering
        BY <2>1, <3>1 DEF Stages, InCall, Confirmed, Course
      <4>2. ScenarioPlayed'
        BY <2>1, <4>1 DEF ScenarioPlayed, Answering
      <4> QED
        BY <2>5, <4>2
    <3>2. CASE resume = "return"
      <4>1. runErr' = {} => ScenarioPlayed
        BY <2>1, <3>2
      <4>2. ScenarioPlayed => ScenarioPlayed'
        BY <2>1 DEF ScenarioPlayed
      <4> QED
        BY <2>5, <4>1, <4>2
    <3>3. CASE resume \in {"answer", "final"}
      <4>1. runErr' # {}
        BY <2>1, <2>5, <3>3 DEF AfterJoin
      <4> QED
        BY <2>5, <4>1
    <3>4. resume \in {"end", "return", "answer", "final"}
      BY <2>1, <2>5 DEF AfterJoin, TypeOK, Resumptions, Stages
    <3> QED
      BY <3>1, <3>2, <3>3, <3>4
  <2> QED
    BY <2>2, <2>3, <2>4, <2>5
<1> QED
  BY Steps, <1>1, <1>2, <1>3, <1>4, <1>5, <1>6, <1>7, <1>8, <1>9, <1>10, <1>11, <1>12, <1>13,
     <1>14, <1>15, <1>16 DEF Progress

(* Before the INVITE nothing was told and nothing is written.              *)
LEMMA InvInitially == Init => Inv
<1> SUFFICES ASSUME Init PROVE Inv
  OBVIOUS
<1>1. Course
  BY DEF Init, Course, CancelWindow, BehaviorWaits
<1>2. Told
  BY DEF Init, Told, BeforeFinal, InCall, GivenUp, Ended, Hopeless, Invalid
<1>3. Concluded
  BY DEF Init, Concluded, GivenUp, Ended
<1> QED
  BY <1>1, <1>2, <1>3, IInvInitially DEF Inv

LEMMA StepKeepsInv == Inv /\ [Next]_vars => Inv'
BY StepKeepsIInv, StepKeepsCourse, StepKeepsTold, StepKeepsConcluded DEF Inv, IInv

(* What the SUT was told, what the outcome says of it, and what the test   *)
(* may conclude, for every call.                                           *)
THEOREM OutcomeInvariance == Spec => []Inv
<1> QED
  BY InvInitially, StepKeepsInv, PTL DEF Spec

(* The status in the outcome is the last thing the SUT was told about its  *)
(* INVITE (finalStatus against the writes of the final response).          *)
THEOREM StatusCorrect == Spec => []OutcomeStatusAgreesWithWire
<1>1. Inv => OutcomeStatusAgreesWithWire
  <2> SUFFICES ASSUME Inv PROVE OutcomeStatusAgreesWithWire
    OBVIOUS
  <2>1. CASE BeforeFinal \/ pc = "sendFinal"
    BY <2>1 DEF Inv, Told, OutcomeStatusAgreesWithWire
  <2>2. CASE pc = "waitACK"
    BY <2>2 DEF Inv, Told, OutcomeStatusAgreesWithWire
  <2>3. CASE InCall
    BY <2>3 DEF Inv, IInv, Stages, Confirmed, Told, OutcomeStatusAgreesWithWire
  <2>4. CASE GivenUp
    BY <2>4 DEF Inv, Told
  <2>5. BeforeFinal \/ InCall \/ GivenUp \/ pc \in {"sendFinal", "waitACK"}
    BY DEF Inv, IInv, Stages, TypeOK, Locations, Reading, Sending, Resumptions, BehaviorWaits,
           CancelWindow, BeforeFinal, InCall, GivenUp, Ended
  <2> QED
    BY <2>1, <2>2, <2>3, <2>4, <2>5
<1> QED
  BY <1>1, OutcomeInvariance, PTL

(* A session that ends without an error has played its scenario            *)
(* (runOutbound and the error its behaviours return).                      *)
THEOREM SuccessCorrect == Spec => []SuccessMeansScenarioPlayed
<1>1. Inv => SuccessMeansScenarioPlayed
  BY DEF Inv, Concluded, GivenUp, Ended, SuccessMeansScenarioPlayed
<1> QED
  BY <1>1, OutcomeInvariance, PTL

(* The outcome is written once (finalStatus, terminatedBy, established and *)
(* canceled of the session), whatever arrives late or twice.               *)
THEOREM OutcomeFixed == Spec => OutcomeIsWrittenOnce
<1> DEFINE Once == /\ finalStatus # 0 => finalStatus' = finalStatus
                   /\ terminatedBy # "NoParty" => terminatedBy' = terminatedBy
                   /\ established => established'
                   /\ canceled => canceled'
<1>1. Inv /\ [Next]_vars => Once
  <2> SUFFICES ASSUME Inv, [Next]_vars PROVE Once
    OBVIOUS
  <2> USE DEF Inv, IInv
  <2>1. CASE UNCHANGED outcome
    BY <2>1
  <2>2. CASE Idle \/ Failure
    <3>1. UNCHANGED outcome
      BY <2>2, Idling, Failing DEF Failure, GivesUp
    <3> QED
      BY <3>1
  <2>3. ASSUME NEW m \in Datagrams, ReadInDialog(m) \/ ReadWhileHangingUp(m) PROVE Once
    <3>1. terminatedBy = "NoParty"
      BY <2>3 DEF ReadInDialog, ReadWhileHangingUp, Stages, InCall
    <3>2. UNCHANGED <<finalStatus, established, canceled>>
      BY <2>3 DEF ReadInDialog, ReadWhileHangingUp
    <3> QED
      BY <3>1, <3>2
  <2>4. ASSUME NEW m \in Datagrams, ReadACK(m) PROVE Once
    <3>1. UNCHANGED <<finalStatus, terminatedBy, canceled>> /\ (established' \/ established' = established)
      BY <2>4 DEF ReadACK
    <3> QED
      BY <3>1
  <2>5. CASE SendFinal \/ LoseFinal
    <3>1. /\ pc = "sendFinal" /\ UNCHANGED <<established, terminatedBy>>
      BY <2>5 DEF SendFinal, LoseFinal, FinalDecided
    <3> QED
      BY <3>1 DEF Stages, Told
  <2>6. CASE SendOK
    BY <2>6 DEF SendOK, Told, BeforeFinal
  <2>7. ASSUME Progress, ~UNCHANGED outcome
        PROVE  \/ \E m \in Datagrams : ReadInDialog(m) \/ ReadWhileHangingUp(m) \/ ReadACK(m)
               \/ SendFinal \/ LoseFinal \/ SendOK
    <3>1. ASSUME NEW m \in Datagrams, ReadWhileRinging(m) \/ AcceptCANCEL(m) \/ ReadWhileCompleted(m)
          PROVE  FALSE
      BY <2>7, <3>1 DEF ReadWhileRinging, AcceptCANCEL, ReadWhileCompleted
    <3>2. ASSUME \E o \in Offers : ReceiveInvite(o) PROVE FALSE
      BY <2>7, <3>2 DEF ReceiveInvite
    <3>3. ASSUME \E status \in {400, 404, 415, 488}, kind \in Invalid : RejectInvite(status, kind)
          PROVE  FALSE
      BY <2>7, <3>3 DEF RejectInvite
    <3>4. ASSUME SendProvisional \/ SendBYE \/ BehaviorDue \/ HangupDue PROVE FALSE
      BY <2>7, <3>4 DEF SendProvisional, SendBYE, BehaviorDue, HangupDue
    <3>5. ASSUME LossDue \/ RetransmitFinal \/ JoinMedia PROVE FALSE
      BY <2>7, <3>5 DEF LossDue, RetransmitFinal, JoinMedia
    <3> QED
      BY <2>7, <3>1, <3>2, <3>3, <3>4, <3>5 DEF Progress
  <2> QED
    BY Steps, <2>1, <2>2, <2>3, <2>4, <2>5, <2>6, <2>7
<1> QED
  BY <1>1, OutcomeInvariance, PTL DEF Spec, OutcomeIsWrittenOnce

-----------------------------------------------------------------------------
(* What a step may put on the wire.                                        *)
Proper ==
  \A i \in DOMAIN out' :
    /\ out'[i].method = "INVITE" /\ out'[i].again =>
         out'[i].status = IF final # 0 THEN final ELSE replied
    /\ pc \in {"sendBYE", "sendBYEOnce", "waitBYE"} \/ out'[i].status # 0

(* The steps that say something.                                           *)
Speaks ==
  \/ SendProvisional \/ SendFinal \/ SendOK \/ SendBYE \/ RetransmitBYE \/ RetransmitFinal
  \/ \E m \in Datagrams : \/ ReadBeforeInvite(m) \/ ReadWhileRinging(m) \/ AcceptCANCEL(m)
                          \/ ReadWhileCompleted(m) \/ ReadInDialog(m)
                          \/ ReadWhileHangingUp(m)

LEMMA Speakers ==
  ASSUME TypeOK, [Next]_vars
  PROVE  out' = <<>> \/ UNCHANGED vars \/ Speaks
<1>1. ASSUME Failure PROVE out' = <<>>
  BY <1>1, Failing DEF Failure, GivesUp
<1>2. ASSUME Idle PROVE out' = <<>> \/ UNCHANGED vars \/ Speaks
  BY <1>2 DEF Idle, ReadSilently, MediaEnds, ContextExpires, ContextCanceled, Finish, Done,
              Quiet, Speaks
<1>3. ASSUME Progress PROVE out' = <<>> \/ Speaks
  <2>1. ASSUME \E o \in Offers : ReceiveInvite(o) PROVE out' = <<>>
    BY <2>1 DEF ReceiveInvite
  <2>2. ASSUME \E status \in {400, 404, 415, 488}, kind \in Invalid : RejectInvite(status, kind)
        PROVE  out' = <<>>
    BY <2>2 DEF RejectInvite
  <2>3. ASSUME NEW m \in Datagrams, ReadACK(m) PROVE out' = <<>>
    BY <2>3 DEF ReadACK
  <2>4. ASSUME LoseFinal \/ BehaviorDue \/ HangupDue \/ LossDue \/ JoinMedia PROVE out' = <<>>
    BY <2>4 DEF LoseFinal, BehaviorDue, HangupDue, LossDue, JoinMedia, Quiet
  <2> QED
    BY <1>3, <2>1, <2>2, <2>3, <2>4 DEF Progress, Speaks
<1> QED
  BY Steps, <1>1, <1>2, <1>3

LEMMA Speaking == Inv /\ [Next]_vars => Proper \/ UNCHANGED vars
<1> SUFFICES ASSUME Inv, [Next]_vars PROVE Proper \/ UNCHANGED vars
  OBVIOUS
<1> USE DEF Inv, IInv
<1>1. CASE out' = <<>>
  BY <1>1 DEF Proper
<1>2. ASSUME NEW m \in Datagrams, ReadBeforeInvite(m) PROVE Proper
  <2>1. m.method # "INVITE" \/ out' = <<>>
    BY <1>2 DEF ReadBeforeInvite
  <2>2. out' = <<>> \/ out' = <<Reply(m.method, 481, FALSE)>>
    BY <1>2 DEF ReadBeforeInvite
  <2> QED
    BY <1>1, <2>2 DEF Proper, Reply
<1>3. ASSUME RetransmitBYE \/ SendBYE PROVE Proper
  <2>1. PICK again \in BOOLEAN : out' = <<OwnBYE(again)>>
    BY <1>3 DEF RetransmitBYE, SendBYE
  <2>2. pc \in {"sendBYE", "sendBYEOnce", "waitBYE"}
    BY <1>3 DEF RetransmitBYE, SendBYE
  <2> QED
    BY <2>1, <2>2 DEF Proper, OwnBYE, Reply
<1>4. ASSUME NEW m \in Datagrams,
             \/ ReadWhileRinging(m) \/ AcceptCANCEL(m) \/ ReadWhileCompleted(m)
             \/ ReadInDialog(m) \/ ReadWhileHangingUp(m)
      PROVE  Proper
  <2>1. /\ Exchange(m)
        /\ pc \in BehaviorWaits \cup {"noAnswer", "waitACK", "dialog", "lossDialog", "waitBYE"}
    BY <1>4 DEF ReadWhileRinging, AcceptCANCEL, ReadWhileCompleted, ReadInDialog,
                ReadWhileHangingUp, CancelWindow
  <2> QED
    BY <2>1, Repeating DEF Proper
<1>5. ASSUME NEW status, SayOnInvite(status, FALSE), status # 0 PROVE Proper
  BY <1>5 DEF SayOnInvite, Proper, Reply
<1>6. CASE SendProvisional
  <2>1. Provisional # 0
    BY DEF Provisional
  <2> QED
    BY <1>5, <1>6, <2>1 DEF SendProvisional
<1>7. CASE SendFinal
  <2>1. final # 0
    BY <1>7 DEF SendFinal, Told
  <2> QED
    BY <1>5, <1>7, <2>1 DEF SendFinal
<1>8. CASE SendOK
  <2>1. SayOnInvite(200, FALSE)
    BY <1>8 DEF SendOK
  <2>2. 200 # 0
    OBVIOUS
  <2> QED
    BY <1>5, <2>1, <2>2
<1>9. CASE RetransmitFinal
  <2>1. final # 0
    BY <1>9 DEF RetransmitFinal, Told
  <2> QED
    BY <1>9, <2>1 DEF RetransmitFinal, SayOnInvite, Proper, Reply
<1> QED
  BY Speakers, <1>1, <1>2, <1>3, <1>4, <1>5, <1>6, <1>7, <1>8, <1>9 DEF Speaks

(* A retransmitted INVITE gets the response given to it last, at each of   *)
(* the places that keep a copy (handleRingingRequest, waitForInviteACK and *)
(* handleDialogRequest).                                                   *)
THEOREM RetransmissionsCorrect == Spec => RetransmissionsRepeatLastResponse
<1> DEFINE Repeats == \A i \in DOMAIN out' :
                        out'[i].method = "INVITE" /\ out'[i].again
                          => out'[i].status = IF final # 0 THEN final ELSE replied
<1>1. Inv /\ [Next]_vars => Repeats \/ UNCHANGED vars
  BY Speaking DEF Proper
<1> QED
  BY <1>1, OutcomeInvariance, PTL DEF Spec, RetransmissionsRepeatLastResponse

(* After the SUT's BYE ended the call, no BYE of ours goes out for it      *)
(* (answerAndRunDialog, sendNonInviteTransaction).                         *)
THEOREM HangupCorrect == Spec => NoBYEAfterPeerBYE
<1> DEFINE Silent == terminatedBy = "SUT" =>
                       \A i \in DOMAIN out' : out'[i] # OwnBYE(FALSE) /\ out'[i] # OwnBYE(TRUE)
<1>1. Inv /\ [Next]_vars => Silent \/ UNCHANGED vars
  <2> SUFFICES ASSUME Inv, [Next]_vars, terminatedBy = "SUT", Proper
               PROVE  \A i \in DOMAIN out' : out'[i] # OwnBYE(FALSE) /\ out'[i] # OwnBYE(TRUE)
    BY Speaking
  <2>1. pc \notin {"sendBYE", "sendBYEOnce", "waitBYE"}
    BY DEF Inv, IInv, Stages, InCall
  <2> QED
    BY <2>1 DEF Proper, OwnBYE, Reply
<1> QED
  BY <1>1, OutcomeInvariance, PTL DEF Spec, NoBYEAfterPeerBYE

-----------------------------------------------------------------------------
(* Failures and the rest of the script. *)

(* An error of media waits for the join only once its goroutine has ended, *)
(* and a scripted final response is begun without any error.               *)
Untroubled ==
  /\ media # "finished" => mediaErr = {}
  /\ pc = "sendFinal" /\ ~cancelled /\ offer \notin Invalid => media = "none" /\ runErr = {}

LEMMA StepKeepsUntroubled ==
  ASSUME Inv, Untroubled, [Next]_vars
  PROVE  Untroubled'
<1> USE DEF Inv, IInv
<1>1. CASE Idle
  <2>1. CASE MediaEnds
    <3>1. /\ media \in {"running", "canceled"} /\ media' = "finished"
          /\ UNCHANGED <<control, invite, result>>
      BY <2>1 DEF MediaEnds
    <3> QED
      BY <3>1 DEF Untroubled
  <2>2. CASE ~MediaEnds
    <3>1. UNCHANGED <<player, invite, runErr>>
      BY <1>1, <2>2 DEF Idle, ReadBeforeInvite, ReadSilently, RetransmitBYE, ContextExpires,
                        ContextCanceled, Finish, Done, vars
    <3>2. pc' = pc \/ pc' = "done"
      BY <1>1, Idling
    <3> QED
      BY <3>1, <3>2 DEF Untroubled
  <2> QED
    BY <2>1, <2>2
<1>2. ASSUME media' = media \/ (media = "running" /\ media' = "canceled"), mediaErr' = mediaErr,
             pc' # "sendFinal"
      PROVE  Untroubled'
  BY <1>2 DEF Untroubled
<1>3. ASSUME Leave({}) \/ \E error \in ErrorClasses : Abort(error)
      PROVE  /\ media' = media \/ (media = "running" /\ media' = "canceled")
             /\ pc' # "sendFinal"
  BY <1>3 DEF Leave, Abort, StopDialog, Cancel
<1>4. CASE Failure
  <2>1. \E error \in ErrorClasses : Abort(error)
    BY <1>4 DEF Failure, Interrupted, TransportFails, WriteFails, BYEUnroutable, ReplyFails,
                ErrorClasses, TypeOK
  <2>2. mediaErr' = mediaErr
    BY <1>4 DEF Failure, Interrupted, TransportFails, WriteFails, BYEUnroutable, ReplyFails
  <2> QED
    BY <1>2, <1>3, <2>1, <2>2
<1>5. ASSUME NEW o \in Offers, ReceiveInvite(o) PROVE Untroubled'
  <2>1. pc = "waitInvite" /\ UNCHANGED <<player, runErr>>
    BY <1>5 DEF ReceiveInvite
  <2>2. media = "none" /\ runErr = {}
    BY <2>1 DEF MediaAccountedFor, Unaccompanied, Stages, BeforeFinal
  <2> QED
    BY <2>1, <2>2 DEF Untroubled
<1>6. ASSUME NEW status \in {400, 404, 415, 488}, NEW kind \in Invalid, RejectInvite(status, kind)
      PROVE  Untroubled'
  BY <1>6 DEF RejectInvite, Untroubled
<1>7. ASSUME NEW m \in Datagrams, AcceptCANCEL(m) PROVE Untroubled'
  BY <1>7 DEF AcceptCANCEL, Untroubled
<1>8. ASSUME NEW m \in Datagrams, ReadWhileRinging(m) \/ ReadWhileCompleted(m) PROVE Untroubled'
  BY <1>8 DEF ReadWhileRinging, ReadWhileCompleted, Untroubled
<1>9. ASSUME NEW m \in Datagrams, ReadACK(m) PROVE Untroubled'
  <2>1. CASE storedOK
    <3>1. mediaErr' = {} /\ pc' # "sendFinal"
      BY <1>9, <2>1 DEF ReadACK
    <3> QED
      BY <3>1 DEF Untroubled
  <2>2. CASE ~storedOK
    BY <1>2, <1>3, <1>9, <2>2 DEF ReadACK
  <2> QED
    BY <2>1, <2>2
<1>10. ASSUME NEW m \in Datagrams, ReadInDialog(m) PROVE Untroubled'
  <2>1. mediaErr' = mediaErr
    BY <1>10 DEF ReadInDialog
  <2>2. media' = media \/ (media = "running" /\ media' = "canceled")
    BY <1>10 DEF ReadInDialog, StopDialog, Cancel
  <2>3. pc' # "sendFinal"
    BY <1>10 DEF ReadInDialog, StopDialog
  <2> QED
    BY <1>2, <2>1, <2>2, <2>3
<1>11. ASSUME NEW m \in Datagrams, ReadWhileHangingUp(m) PROVE Untroubled'
  <2>1. UNCHANGED player /\ pc' # "sendFinal"
    BY <1>11 DEF ReadWhileHangingUp, AfterCrossingBYE
  <2> QED
    BY <1>2, <2>1
<1>12. CASE SendProvisional
  <2>1. pc' # "sendFinal"
    BY <1>12 DEF SendProvisional, AfterProvisional, AfterTrying, AfterRinging, AfterProgress
  <2>2. mediaErr' = {} \/ UNCHANGED player
    BY <1>12 DEF SendProvisional
  <2> QED
    BY <2>1, <2>2 DEF Untroubled
<1>13. CASE SendFinal \/ LoseFinal \/ SendOK \/ SendBYE \/ LossDue \/ RetransmitFinal
  <2>1. UNCHANGED player /\ pc' # "sendFinal"
    BY <1>13 DEF SendFinal, LoseFinal, FinalDecided, SendOK, SendBYE, LossDue, RetransmitFinal
  <2> QED
    BY <1>2, <2>1
<1>14. CASE BehaviorDue \/ HangupDue
  <2>1. mediaErr' = mediaErr /\ pc' # "sendFinal"
    BY <1>14 DEF BehaviorDue, HangupDue, StopDialog
  <2>2. media' = media \/ (media = "running" /\ media' = "canceled")
    BY <1>14 DEF BehaviorDue, HangupDue, StopDialog, Cancel
  <2> QED
    BY <1>2, <2>1, <2>2
<1>15. CASE JoinMedia
  <2>1. media' = "none" /\ mediaErr' = {}
    BY <1>15 DEF JoinMedia
  <2>2. pc' = "sendFinal" => runErr' = {}
    <3>1. ASSUME pc' = "sendFinal"
          PROVE  pc = "joinMedia" /\ resume = "final" /\ mediaErr \ {"canceled"} = {}
      BY <1>15, <3>1 DEF JoinMedia, AfterJoin
    <3>2. ASSUME pc' = "sendFinal" PROVE runErr = {} /\ runErr' = runErr \cup {}
      BY <1>15, <3>1, <3>2 DEF JoinMedia, Stages, BeforeFinal
    <3> QED
      BY <3>2
  <2> QED
    BY <2>1, <2>2 DEF Untroubled
<1> QED
  BY Steps, <1>1, <1>4, <1>5, <1>6, <1>7, <1>8, <1>9, <1>10, <1>11, <1>12, <1>13, <1>14, <1>15
     DEF Progress

(* A session that has failed, or whose early media has, neither answers    *)
(* the call nor turns it down as scripted (runOutboundEarlyMedia,          *)
(* runOutboundEarlyFailure, answerAndRunDialog).                           *)
THEOREM FailureCorrect == Spec => FailureStopsScript
<1> DEFINE Fresh(r) == r.method = "INVITE" /\ ~r.again /\ r.status >= 200
           Stops == Failed /\ ~acked =>
                      /\ ~established'
                      /\ \A i \in DOMAIN out' : Fresh(out'[i]) => cancelled \/ offer \in Invalid
<1>1. Init => Untroubled
  BY DEF Init, Untroubled
<1>2. ASSUME Inv, Untroubled, EstablishedMeansConfirmed, [Next]_vars
      PROVE  Stops \/ UNCHANGED vars
  <2> SUFFICES ASSUME Failed, ~acked, ~UNCHANGED vars
               PROVE  /\ ~established'
                      /\ \A i \in DOMAIN out' : Fresh(out'[i]) => cancelled \/ offer \in Invalid
    OBVIOUS
  <2> USE DEF Inv, IInv
  <2>1. pc # "sendOK" /\ ~(pc = "waitACK" /\ storedOK) /\ ~InCall
    <3>1. media = "none" => runErr # {}
      BY <1>2 DEF Untroubled, Failed
    <3> QED
      BY <1>2, <3>1 DEF Stages, BeforeFinal, Confirmed, MediaAccountedFor, Unaccompanied
  <2>2. ~established'
    <3>1. ~established
      BY <1>2 DEF EstablishedMeansConfirmed
    <3>2. CASE Idle
      BY <3>1, <3>2, Idling DEF outcome
    <3>3. CASE Failure
      BY <1>2, <3>1, <3>3, Failing DEF Failure, GivesUp, outcome
    <3>4. ASSUME NEW m \in Datagrams, ReadACK(m) PROVE ~established'
      BY <2>1, <3>1, <3>4 DEF ReadACK
    <3>5. ASSUME Progress, \A m \in Datagrams : ~ReadACK(m) PROVE established' = established
      BY <3>5 DEF Progress, ReceiveInvite, RejectInvite, ReadWhileRinging,
             AcceptCANCEL, ReadWhileCompleted, ReadInDialog, ReadWhileHangingUp,
             SendProvisional, SendFinal, LoseFinal, FinalDecided, SendOK, SendBYE, BehaviorDue,
             HangupDue, LossDue, RetransmitFinal, JoinMedia, Quiet, result, outcome
    <3> QED
      BY <1>2, Steps, <3>1, <3>2, <3>3, <3>4, <3>5
  <2>3. ASSUME NEW status, NEW again, SayOnInvite(status, again),
               again \/ ~(status >= 200) \/ cancelled \/ offer \in Invalid
        PROVE  \A i \in DOMAIN out' : Fresh(out'[i]) => cancelled \/ offer \in Invalid
    <3>1. \A i \in DOMAIN out' : out'[i].status = status /\ out'[i].again = again
      BY <2>3 DEF SayOnInvite, Reply
    <3> QED
      BY <2>3, <3>1
  <2>4. CASE SendProvisional
    <3>1. SayOnInvite(Provisional, FALSE)
      BY <2>4 DEF SendProvisional
    <3>2. Provisional \in {100, 180, 183}
      BY DEF Provisional
    <3>3. ~(Provisional >= 200)
      BY <3>2
    <3> QED
      BY <2>2, <2>3, <3>1, <3>3
  <2>5. CASE SendFinal
    <3>1. SayOnInvite(final, FALSE) /\ pc = "sendFinal"
      BY <2>5 DEF SendFinal
    <3>2. cancelled \/ offer \in Invalid
      BY <1>2, <3>1 DEF Untroubled, Failed
    <3> QED
      BY <2>2, <2>3, <3>1, <3>2
  <2>6. CASE RetransmitFinal
    BY <2>2, <2>3, <2>6 DEF RetransmitFinal
  <2>7. CASE SendOK \/ SendBYE \/ RetransmitBYE
    BY <2>1, <2>7 DEF SendOK, SendBYE, RetransmitBYE, InCall
  <2>8. ASSUME NEW m \in Datagrams, ReadBeforeInvite(m)
        PROVE  \A i \in DOMAIN out' : out'[i].method # "INVITE"
    <3>1. out' = <<>> \/ (m.method # "INVITE" /\ out' = <<Reply(m.method, 481, FALSE)>>)
      BY <2>8 DEF ReadBeforeInvite
    <3> QED
      BY <3>1 DEF Reply
  <2>9. ASSUME NEW m \in Datagrams,
               ReadWhileRinging(m) \/ AcceptCANCEL(m) \/ ReadWhileCompleted(m)
        PROVE  \A i \in DOMAIN out' : out'[i].method = "INVITE" => out'[i].again
    <3>1. Exchange(m) /\ pc \in BehaviorWaits \cup {"noAnswer", "waitACK"}
      BY <2>9 DEF ReadWhileRinging, AcceptCANCEL, ReadWhileCompleted, CancelWindow
    <3>2. AnswerTo(m) = 0 \/ m.method # "INVITE" \/ InviteRetransmission(m)
      BY <3>1 DEF AnswerTo, AnswerWhileRinging, AnswerWhileCompleted, InDialogLoop, BehaviorWaits
    <3>3. InviteRetransmission(m) => Again(m)
      BY DEF Again
    <3> QED
      BY <3>1, <3>2, <3>3 DEF Exchange, Reply
  <2>10. ASSUME NEW m \in Datagrams, ReadInDialog(m) \/ ReadWhileHangingUp(m)
         PROVE  FALSE
    BY <2>1, <2>10 DEF ReadInDialog, ReadWhileHangingUp, InCall
  <2>11. CASE out' = <<>>
    BY <2>2, <2>11
  <2>12. TypeOK
    BY <1>2
  <2>13. CASE \E m \in Datagrams : \/ ReadBeforeInvite(m) \/ ReadWhileRinging(m) \/ AcceptCANCEL(m)
                                   \/ ReadWhileCompleted(m) \/ ReadInDialog(m)
                                   \/ ReadWhileHangingUp(m)
    <3>1. \A i \in DOMAIN out' : out'[i].method = "INVITE" => out'[i].again
      BY <2>8, <2>9, <2>10, <2>13
    <3> QED
      BY <2>2, <3>1
  <2> QED
    BY Speakers, <1>2, <2>4, <2>5, <2>6, <2>7, <2>11, <2>12, <2>13 DEF Speaks
<1>3. Inv /\ Untroubled /\ [Next]_vars => Untroubled'
  BY StepKeepsUntroubled
<1>4. Inv /\ Untroubled /\ EstablishedMeansConfirmed /\ [Next]_vars => Stops \/ UNCHANGED vars
  BY <1>2
<1> QED
  BY <1>1, <1>3, <1>4, OutcomeInvariance, EstablishmentCorrect, PTL DEF Spec, FailureStopsScript

-----------------------------------------------------------------------------
(* The promise of InviteServer.                                            *)

(* The steps of InviteServer, in terms of the call.                        *)
LEMMA Mapping ==
  /\ Server!vars = <<Phase, Response>>
  /\ Server!Accept <=> (Phase = "idle" /\ Phase' = "proceeding" /\ Response' = Response)
  /\ Server!SendProvisional <=>
       (Phase = "proceeding" /\ Response' \in 100 .. 199 /\ Phase' = Phase)
  /\ Server!SendFinal <=>
       (Phase = "proceeding" /\ Phase' = "completed" /\ Response' \in 200 .. 699)
  /\ Server!RefuseStatelessly <=>
       /\ Phase = "proceeding" /\ Phase' = "ended"
       /\ Response = 0 /\ Response' \in 400 .. 699
  /\ Server!ReceiveACK <=>
       (Phase = "completed" /\ Phase' = "confirmed" /\ Response' = Response)
  /\ Server!End <=> (Phase # "ended" /\ Phase' = "ended" /\ Response' = Response)
BY DEF Server!vars, Server!Accept, Server!SendProvisional, Server!SendFinal,
       Server!RefuseStatelessly, Server!ReceiveACK, Server!End

(* A step of the callee is a step of InviteServer or none.                 *)
Serves == Server!Next \/ (Phase' = Phase /\ Response' = Response)

(* Where the transaction stands at the locations that matter to it.        *)
LEMMA Standing ==
  ASSUME Inv
  PROVE  /\ Ended <=> Phase = "ended"
         /\ pc = "waitInvite" => Phase = "idle" /\ Response = 0
         /\ (BeforeFinal /\ pc # "waitInvite") \/ pc = "sendFinal" =>
              Phase = "proceeding" /\ Response = latest
         /\ pc = "waitACK" => Phase = "completed" /\ Response = final
<1> USE DEF Inv, IInv, Ended
<1>1. Ended <=> Phase = "ended"
  BY DEF Phase
<1>2. ASSUME pc = "waitInvite" PROVE Phase = "idle" /\ Response = 0
  BY <1>2 DEF Told, Stages, BeforeFinal, Phase, Response
<1>3. ASSUME (BeforeFinal /\ pc # "waitInvite") \/ pc = "sendFinal"
      PROVE  Phase = "proceeding" /\ Response = latest
  <2>1. pc \notin {"returned", "done"} /\ ~acked /\ finalStatus = 0 /\ replied = latest
    BY <1>3 DEF Told, Stages, BeforeFinal, CancelWindow, BehaviorWaits
  <2>2. offer # "none"
    BY <1>3 DEF Told, BeforeFinal, CancelWindow, BehaviorWaits
  <2>3. ~(replied >= 200)
    BY <2>1 DEF TypeOK
  <2> QED
    BY <2>1, <2>2, <2>3 DEF Phase, Response
<1>4. ASSUME pc = "waitACK" PROVE Phase = "completed" /\ Response = final
  <2>1. ~acked /\ final >= 200 /\ (replied = final \/ (offer = "foreign" /\ replied = 0))
        /\ (offer \notin Invalid => finalStatus = final)
    BY <1>4 DEF Told, Stages
  <2>2. CASE replied = final
    BY <1>4, <2>1, <2>2 DEF Phase, Response
  <2>3. CASE offer = "foreign" /\ replied = 0
    <3>1. finalStatus = final /\ finalStatus # 0
      BY <2>1, <2>3 DEF Invalid, TypeOK
    <3> QED
      BY <1>4, <2>1, <2>3, <3>1 DEF Phase, Response
  <2> QED
    BY <2>1, <2>2, <2>3
<1> QED
  BY <1>1, <1>2, <1>3, <1>4

(* The same after the step.                                                *)
LEMMA Awaiting ==
  (Inv /\ pc = "waitACK" => Phase = "completed" /\ Response = final)'
<1>1. Inv /\ pc = "waitACK" => Phase = "completed" /\ Response = final
  BY Standing
<1> QED
  BY <1>1, PTL

(* A step that tells the SUT nothing new leaves the transaction alone, or  *)
(* ends it.                                                                *)
LEMMA Keeping ==
  ASSUME UNCHANGED <<acked, replied, finalStatus, offer>>, Ended => Ended'
  PROVE  Serves
<1>1. Response' = Response
  BY DEF Response
<1>2. CASE Ended \/ ~Ended'
  <2>1. Phase' = Phase
    BY <1>2 DEF Phase, Ended
  <2> QED
    BY <1>1, <2>1 DEF Serves
<1>3. CASE ~Ended /\ Ended'
  <2>1. Phase # "ended" /\ Phase' = "ended"
    BY <1>3 DEF Phase, Ended
  <2> QED
    BY <1>1, <2>1, Mapping DEF Serves, Server!Next
<1> QED
  BY <1>2, <1>3

(* Every step of the callee is a step of InviteServer or a stutter.        *)
LEMMA StepServes == Inv /\ Inv' /\ [Next]_vars => Serves
<1> SUFFICES ASSUME Inv, Inv', [Next]_vars PROVE Serves
  OBVIOUS
<1> USE DEF Inv, IInv
<1>1. CASE Idle
  BY <1>1, Idling, Keeping DEF Ended
<1>2. CASE Failure
  <2>1. PICK error \in ErrorClasses : GivesUp(error)
    BY <1>2, Failing DEF Failure
  <2>2. UNCHANGED <<acked, replied, finalStatus, offer>> /\ ~Ended
    BY <2>1 DEF GivesUp, Ended, Reading, Sending, BehaviorWaits
  <2> QED
    BY <2>2, Keeping
<1>3. ASSUME \/ \E o \in Offers : ReceiveInvite(o)
             \/ \E status \in {400, 404, 415, 488}, kind \in Invalid : RejectInvite(status, kind)
      PROVE  Serves
  <2>1. /\ pc = "waitInvite" /\ offer' # "none"
        /\ UNCHANGED <<acked, replied, finalStatus>>
        /\ pc' = "sendFinal" \/ pc' = FirstStep
    BY <1>3 DEF ReceiveInvite, RejectInvite, Offers, Invalid
  <2>2. ~acked /\ replied = 0 /\ finalStatus = 0
    BY <2>1 DEF Stages, Told, BeforeFinal
  <2>3. pc' \notin {"returned", "done"}
    BY <2>1 DEF FirstStep
  <2>4. Phase = "idle" /\ Phase' = "proceeding"
    BY <2>1, <2>2, <2>3, Standing DEF Phase
  <2>5. Response' = Response
    BY <2>1 DEF Response
  <2> QED
    BY <2>4, <2>5, Mapping DEF Serves, Server!Next
<1>4. ASSUME NEW m \in Datagrams, ReadWhileRinging(m) \/ AcceptCANCEL(m) PROVE Serves
  <2>1. /\ pc \in BehaviorWaits \cup {"noAnswer"} /\ ~Ended /\ Exchange(m)
        /\ UNCHANGED <<acked, finalStatus, offer>>
    BY <1>4 DEF ReadWhileRinging, AcceptCANCEL, CancelWindow, Ended, BehaviorWaits
  <2>2. replied' = replied
    BY <2>1, Repeating DEF BehaviorWaits
  <2> QED
    BY <2>1, <2>2, Keeping
<1>5. ASSUME NEW m \in Datagrams, ReadInDialog(m) \/ ReadWhileHangingUp(m) PROVE Serves
  <2>1. /\ pc \in {"dialog", "lossDialog", "waitBYE"} /\ ~Ended /\ Exchange(m)
        /\ UNCHANGED <<acked, finalStatus, offer>>
    BY <1>5 DEF ReadInDialog, ReadWhileHangingUp, Ended
  <2>2. replied' = replied
    BY <2>1, Repeating
  <2> QED
    BY <2>1, <2>2, Keeping
<1>6. ASSUME (\E m \in Datagrams : ReadWhileCompleted(m)) \/ RetransmitFinal PROVE Serves
  <2>1. pc = "waitACK" /\ pc' = "waitACK" /\ final' = final
    BY <1>6 DEF ReadWhileCompleted, RetransmitFinal
  <2>2. Phase = "completed" /\ Response = final
    BY <2>1, Standing
  <2>3. Phase' = "completed" /\ Response' = final'
    BY <2>1, Awaiting
  <2> QED
    BY <2>1, <2>2, <2>3 DEF Serves
<1>7. ASSUME NEW m \in Datagrams, ReadACK(m) PROVE Serves
  <2>1. /\ pc = "waitACK" /\ acked' /\ UNCHANGED <<replied, finalStatus>>
    BY <1>7 DEF ReadACK
  <2>2. Phase = "completed" /\ Response' = Response
    BY <2>1, Standing DEF Response
  <2>3. Phase' \in {"confirmed", "ended"}
    BY <2>1 DEF Phase
  <2> QED
    BY <2>2, <2>3, Mapping DEF Serves, Server!Next
<1>8. CASE SendProvisional
  <2>1. /\ pc \in {"sendTrying", "sendRinging", "sendProgress"}
        /\ pc' = AfterProvisional /\ replied' = Provisional
        /\ UNCHANGED <<acked, finalStatus, offer>>
    BY <1>8 DEF SendProvisional, SayOnInvite
  <2>2. Provisional \in 100 .. 199
    BY DEF Provisional
  <2>3. BeforeFinal /\ pc # "waitInvite" /\ ~acked /\ finalStatus = 0 /\ offer # "none"
    BY <2>1 DEF BeforeFinal, Stages, Told
  <2>4. pc' \notin {"returned", "done"}
    BY <2>1 DEF AfterProvisional, AfterTrying, AfterRinging, AfterProgress
  <2>5. Phase = "proceeding"
    BY <2>3, Standing
  <2>6. Phase' = "proceeding" /\ Response' = Provisional
    BY <2>1, <2>2, <2>3, <2>4 DEF Phase, Response
  <2> QED
    BY <2>2, <2>5, <2>6, Mapping DEF Serves, Server!Next
<1>9. CASE SendFinal \/ LoseFinal
  <2>1. /\ pc = "sendFinal" /\ final' = final
        /\ pc' = (IF offer = "stateless" THEN "returned" ELSE "waitACK")
        /\ replied' = final \/ offer = "foreign"
    BY <1>9 DEF SendFinal, LoseFinal, FinalDecided, SayOnInvite
  <2>2. Phase = "proceeding" /\ Response = latest /\ final \in 200 .. 699
    BY <2>1, Standing DEF Told, TypeOK
  <2>3. CASE offer = "stateless"
    <3>1. final \in 400 .. 699 /\ latest = 0
      BY <2>3 DEF Told, Hopeless, Invalid
    <3>2. replied' = final /\ pc' = "returned"
      BY <2>1, <2>3
    <3>3. Phase' = "ended" /\ Response' = final
      BY <3>1, <3>2 DEF Phase, Response
    <3> QED
      BY <2>2, <3>1, <3>3, Mapping DEF Serves, Server!Next
  <2>4. CASE offer # "stateless"
    <3>1. Phase' = "completed" /\ Response' = final
      BY <2>1, <2>4, Awaiting
    <3> QED
      BY <2>2, <3>1, Mapping DEF Serves, Server!Next
  <2> QED
    BY <2>3, <2>4
<1>10. CASE SendOK
  <2>1. pc = "sendOK" /\ pc' = "waitACK" /\ final' = 200
    BY <1>10 DEF SendOK
  <2>2. Phase = "proceeding"
    BY <2>1, Standing DEF BeforeFinal
  <2>3. Phase' = "completed" /\ Response' = 200
    BY <2>1, Awaiting
  <2>4. 200 \in 200 .. 699
    OBVIOUS
  <2> QED
    BY <2>2, <2>3, <2>4, Mapping DEF Serves, Server!Next
<1>11. CASE SendBYE \/ BehaviorDue \/ HangupDue \/ LossDue \/ JoinMedia
  <2>1. UNCHANGED <<acked, replied, finalStatus, offer>> /\ ~Ended
    BY <1>11 DEF SendBYE, BehaviorDue, HangupDue, LossDue, JoinMedia, Quiet, Ended
  <2> QED
    BY <2>1, Keeping
<1> QED
  BY Steps, <1>1, <1>2, <1>3, <1>4, <1>5, <1>6, <1>7, <1>8, <1>9, <1>10, <1>11 DEF Progress

(* The callee implements InviteServer: provisional responses only before   *)
(* the final one, one final response, an ACK only after it, and nothing    *)
(* after the end (runOutbound and all the behaviours it dispatches to).    *)
THEOREM InviteServerImplemented == Spec => ImplementsInviteServer
<1>1. Init => Server!Init
  <2> SUFFICES ASSUME Init PROVE Server!Init
    OBVIOUS
  <2>1. Phase = "idle" /\ Response = 0
    BY DEF Init, Phase, Response
  <2> QED
    BY <2>1 DEF Server!Init
<1>2. Inv /\ Inv' /\ [Next]_vars => [Server!Next]_(Server!vars)
  <2> SUFFICES ASSUME Inv, Inv', [Next]_vars PROVE [Server!Next]_(Server!vars)
    OBVIOUS
  <2>1. Server!Next \/ (Phase' = Phase /\ Response' = Response)
    BY StepServes DEF Serves
  <2> QED
    BY <2>1 DEF Server!vars
<1> QED
  BY <1>1, <1>2, OutcomeInvariance, PTL DEF Spec, ImplementsInviteServer, Server!Spec
=============================================================================
