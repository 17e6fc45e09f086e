------------------------- MODULE OutboundCallProofs -------------------------
(***************************************************************************)
(* Proofs about OutboundCall, for every set of scenarios and datagrams.    *)
(***************************************************************************)
EXTENDS OutboundCall, TLAPS

(* A step that sends nothing leaves a well typed trace on the wire.        *)
LEMMA NoMessageIsTyped == <<>> \in Seq(Out)
OBVIOUS

(* So does a step that sends one message.                                  *)
LEMMA OneMessageIsTyped == ASSUME NEW r \in Out PROVE <<r>> \in Seq(Out)
OBVIOUS

(* An answer is a status, or 0 when there is none.                         *)
LEMMA AnswerIsStatus ==
  ASSUME TypeOK, NEW m \in Datagrams
  PROVE  AnswerTo(m) \in {0} \cup Statuses
<1>1. m \in Datagram
  BY DatagramsAssumption
<1>2. DialogStatus(m, storedOK) \in {0} \cup Statuses
  BY <1>1 DEF DialogStatus, MethodStatus, Datagram, DTMFVerdicts, Statuses
<1>3. AnswerWhileCompleted(m) \in {0} \cup Statuses
  BY DEF TypeOK, AnswerWhileCompleted, Statuses
<1>4. AnswerWhileRinging(m) \in {0} \cup Statuses
  BY DEF TypeOK, AnswerWhileRinging, Statuses
<1> QED
  BY <1>2, <1>3, <1>4 DEF AnswerTo

(* What a handler puts on the wire is well typed.                          *)
LEMMA ExchangeIsTyped ==
  ASSUME TypeOK, NEW m \in Datagrams, Exchange(m)
  PROVE  /\ in' \in RequestMethods \cup {"none"}
         /\ out' \in Seq(Out)
         /\ replied' \in {0} \cup Statuses
<1>1. m.method \in RequestMethods
  BY DatagramsAssumption DEF Datagram
<1>2. AnswerTo(m) \in {0} \cup Statuses
  BY AnswerIsStatus
<1>3. Again(m) \in BOOLEAN
  BY DEF Again
<1>4. Reply(m.method, AnswerTo(m), Again(m)) \in Out
  BY <1>1, <1>2, <1>3 DEF Reply, Out
<1>5. in' \in RequestMethods \cup {"none"}
  BY <1>1 DEF Exchange
<1>6. out' \in Seq(Out)
  BY <1>4 DEF Exchange
<1>7. replied' \in {0} \cup Statuses
  BY <1>2 DEF Exchange, TypeOK
<1> QED
  BY <1>5, <1>6, <1>7

(* Every way out of a location ends in a location, with typed errors.      *)
LEMMA AbortIsTyped ==
  ASSUME TypeOK, NEW error \in ErrorClasses, Abort(error)
  PROVE  /\ pc' \in Locations /\ resume' \in Resumptions
         /\ media' \in {"none", "running", "canceled", "finished"}
         /\ runErr' \subseteq ErrorClasses
<1>1. Cancel \in {"none", "running", "canceled", "finished"}
  BY DEF Cancel, TypeOK
<1>2. CASE pc = "dialog"
  BY <1>1, <1>2 DEF Abort, StopDialog, TypeOK, Locations, Resumptions
<1>3. CASE pc # "dialog"
  <2>1. Leave({}) \/ Leave({error})
    BY <1>3 DEF Abort
  <2> QED
    BY <1>1, <2>1 DEF Leave, TypeOK, Locations, Resumptions
<1> QED
  BY <1>2, <1>3

(* The set definitions a type argument opens.                              *)
USE DEF control, invite, leg, player, outcome, result, wire

(* The session starts in a well typed state (waitForInvite).               *)
LEMMA InitIsTyped == Init => TypeOK
<1> SUFFICES ASSUME Init PROVE TypeOK
  OBVIOUS
<1>1. digits \in Seq(Nat) /\ out \in Seq(Out)
  BY DEF Init
<1> QED
  BY <1>1, InviteCSeqAssumption
     DEF Init, TypeOK, Locations, Reading, BehaviorWaits, Resumptions, Parties

(* Scenarios carry a final status.                                         *)
LEMMA ScenarioIsTyped == TypeOK => scenario.status \in 400 .. 699
BY ScenariosAssumption DEF TypeOK, Scenario

(* The behaviour is one of those runOutbound dispatches on.                *)
LEMMA BehaviorIsTyped == TypeOK => scenario.behavior \in Behaviors
BY ScenariosAssumption DEF TypeOK, Scenario

(* A configured failure status is never the 200 of an answer (validate).   *)
LEMMA FailureIsNoSuccess == TypeOK => scenario.status # 200 /\ scenario.status # 0
BY ScenarioIsTyped

(* Steps that neither read nor send keep the wire well typed.              *)
LEMMA QuietIsTyped ==
  ASSUME TypeOK, Quiet
  PROVE  /\ in' \in RequestMethods \cup {"none"}
         /\ out' \in Seq(Out)
         /\ replied' \in {0} \cup Statuses
BY DEF Quiet, TypeOK

(* So do responses to the INVITE with a typed status (sendSIP).            *)
LEMMA SayOnInviteIsTyped ==
  ASSUME NEW status \in {0} \cup Statuses, NEW again \in BOOLEAN, SayOnInvite(status, again)
  PROVE  /\ in' \in RequestMethods \cup {"none"}
         /\ out' \in Seq(Out)
         /\ replied' \in {0} \cup Statuses
<1>1. Reply("INVITE", status, again) \in Out
  BY DEF Reply, Out, RequestMethods
<1> QED
  BY <1>1 DEF SayOnInvite

(* The bookkeeping of a dialog request is well typed.                      *)
LEMMA TakeRequestIsTyped ==
  ASSUME TypeOK, NEW m \in Datagrams, TakeRequest(m)
  PROVE  /\ remoteCSeq' \in Nat /\ digits' \in Seq(Nat)
         /\ terminatedBy' \in Parties
<1>1. m.cseq \in Nat \cup {NoCSeq}
  BY DatagramsAssumption DEF Datagram
<1>2. remoteCSeq' \in Nat
  BY <1>1 DEF TakeRequest, NextRemoteCSeq, InDialog, TypeOK
<1>3. RecordsDigit(m, storedOK, remoteCSeq) => m.cseq \in Nat
  BY <1>1 DEF RecordsDigit, InDialog
<1>4. digits' \in Seq(Nat)
  BY <1>3 DEF TakeRequest, TypeOK
<1> QED
  BY <1>2, <1>4 DEF TakeRequest, TypeOK, Parties

(* cancelMedia leaves the media goroutine in one of its states.            *)
LEMMA CancelIsTyped ==
  ASSUME TypeOK
  PROVE  Cancel \in {"none", "running", "canceled", "finished"}
BY DEF Cancel, TypeOK

(* One step of any process keeps the state well typed.                     *)
LEMMA StepIsTyped == TypeOK /\ [Next]_vars => TypeOK'
<1> SUFFICES ASSUME TypeOK, [Next]_vars PROVE TypeOK'
  OBVIOUS
<1> USE InviteCSeqAssumption
<1>1. ASSUME NEW o \in Offers, ReceiveInvite(o) PROVE TypeOK'
  <2>0. \/ final' = final
        \/ final' = 488
        \/ final' = scenario.status
    BY <1>1 DEF ReceiveInvite, FinalAtOnce
  <2>1. final' \in {0} \cup 200 .. 699
    <3>1. scenario.status \in 200 .. 699
      BY ScenarioIsTyped
    <3>2. final \in {0} \cup 200 .. 699
      BY DEF TypeOK
    <3> QED
      BY <2>0, <3>1, <3>2
  <2>2. pc' \in Locations
    BY <1>1 DEF ReceiveInvite, FirstStep, Locations, Reading, Sending, BehaviorWaits
  <2> QED
    BY <1>1, <2>1, <2>2 DEF ReceiveInvite, TypeOK, Offers, RequestMethods
<1>2. ASSUME NEW status \in {400, 404, 415, 488}, NEW kind \in Invalid, RejectInvite(status, kind)
      PROVE TypeOK'
  BY <1>2 DEF RejectInvite, TypeOK, VerdictError, ErrorClasses, Locations, Sending, RequestMethods
<1>3. ASSUME NEW m \in Datagrams, Receive(m) PROVE TypeOK'
  <2>0. m \in Datagram
    BY DatagramsAssumption
  <2>1. CASE ReadBeforeInvite(m)
    <3>1. Reply(m.method, 481, FALSE) \in Out
      BY <2>0 DEF Reply, Out, Datagram, Statuses
    <3>2. out' = <<>> \/ out' = <<Reply(m.method, 481, FALSE)>>
      BY <2>1 DEF ReadBeforeInvite
    <3>3. <<Reply(m.method, 481, FALSE)>> \in Seq(Out)
      BY <3>1, OneMessageIsTyped
    <3>4. out' \in Seq(Out)
      BY <3>2, <3>3, NoMessageIsTyped
    <3> QED
      BY <2>0, <2>1, <3>4 DEF ReadBeforeInvite, TypeOK, Datagram
  <2>2. CASE ReadSilently(m)
    BY <2>0, <2>2 DEF ReadSilently, TypeOK, Datagram
  <2>3. CASE ReadWhileRinging(m)
    BY <2>3, ExchangeIsTyped DEF ReadWhileRinging, TypeOK
  <2>4. CASE AcceptCANCEL(m)
    BY <2>4, ExchangeIsTyped DEF AcceptCANCEL, TypeOK, Locations, Sending
  <2>5. CASE ReadWhileCompleted(m)
    BY <2>5, ExchangeIsTyped DEF ReadWhileCompleted, TypeOK
  <2>6. CASE ReadACK(m)
    <3>1. /\ pc' \in Locations /\ resume' \in Resumptions
          /\ media' \in {"none", "running", "canceled", "finished"}
          /\ mediaErr' \subseteq {"media", "canceled", "deadline"}
          /\ established' \in BOOLEAN /\ runErr' \subseteq ErrorClasses
      <4>1. CASE storedOK
        BY <2>6, <4>1 DEF ReadACK, TypeOK, Locations, Reading
      <4>2. CASE ~storedOK
        <5>1. Leave({}) /\ UNCHANGED <<established, mediaErr>>
          BY <2>6, <4>2 DEF ReadACK
        <5> QED
          BY <5>1, CancelIsTyped DEF Leave, TypeOK, Locations, Resumptions
      <4> QED
        BY <4>1, <4>2
    <3>2. out' \in Seq(Out) /\ in' \in RequestMethods
      BY <2>6 DEF ReadACK, RequestMethods
    <3> QED
      BY <2>6, <3>1, <3>2 DEF ReadACK, TypeOK
  <2>7. CASE ReadInDialog(m)
    <3>1. remoteCSeq' \in Nat /\ digits' \in Seq(Nat) /\ terminatedBy' \in Parties
      BY <2>7, TakeRequestIsTyped DEF ReadInDialog, TypeOK
    <3>2. /\ pc' \in Locations /\ resume' \in Resumptions /\ endpoint' \in {"open", "closed"}
          /\ media' \in {"none", "running", "canceled", "finished"}
          /\ runErr' \subseteq ErrorClasses
      BY <2>7, CancelIsTyped
         DEF ReadInDialog, StopDialog, TerminatedByPeer, TypeOK, Locations, Resumptions
    <3> QED
      BY <2>7, <3>1, <3>2, ExchangeIsTyped DEF ReadInDialog, TypeOK
  <2>8. CASE ReadWhileHangingUp(m)
    <3>1. remoteCSeq' \in Nat /\ digits' \in Seq(Nat) /\ terminatedBy' \in Parties
      BY <2>8, TakeRequestIsTyped DEF ReadWhileHangingUp, TypeOK, Parties
    <3>2. pc' \in Locations /\ bye' \in {"none", "lost", "sent", "answered"}
          /\ runErr' \subseteq ErrorClasses
      BY <2>8, ZenonT(60) DEF ReadWhileHangingUp, AfterCrossingBYE, TypeOK, Locations, ErrorClasses
    <3> QED
      BY <2>8, <3>1, <3>2, ExchangeIsTyped DEF ReadWhileHangingUp, TypeOK
  <2>9. CASE ReplyFails(m)
    <3>1. "transport" \in ErrorClasses
      BY DEF ErrorClasses
    <3>2. remoteCSeq' \in Nat
      BY <2>0, <2>9 DEF ReplyFails, NextRemoteCSeq, InDialog, Datagram, TypeOK
    <3> QED
      BY <2>9, <3>1, <3>2, AbortIsTyped, QuietIsTyped DEF ReplyFails, TypeOK
  <2> QED
    BY <1>3, <2>1, <2>2, <2>3, <2>4, <2>5, <2>6, <2>7, <2>8, <2>9 DEF Receive
<1>4. CASE SendProvisional
  <2>1. Provisional \in {100, 180, 183}
    BY DEF Provisional
  <2>2. Provisional \in Statuses
    BY <2>1 DEF Statuses
  <2>3. pc' \in Locations
    BY <1>4 DEF SendProvisional, AfterProvisional, AfterTrying, AfterRinging, AfterProgress,
                Locations, Reading, Sending, BehaviorWaits
  <2>4. in' \in RequestMethods \cup {"none"} /\ out' \in Seq(Out)
        /\ replied' \in {0} \cup Statuses
    BY <1>4, <2>2, SayOnInviteIsTyped DEF SendProvisional
  <2>5. latest' \in {0, 100, 180, 183}
    BY <1>4, <2>1 DEF SendProvisional
  <2>6. /\ media' \in {"none", "running", "canceled", "finished"}
        /\ mediaErr' \subseteq {"media", "canceled", "deadline"}
    BY <1>4 DEF SendProvisional, TypeOK
  <2>7. UNCHANGED <<scenario, resume, ctx, endpoint, offer, final, cancelled, storedOK,
                    acked, leg, result>>
    BY <1>4 DEF SendProvisional
  <2> QED
    BY <2>3, <2>4, <2>5, <2>6, <2>7 DEF TypeOK
<1>5. CASE SendFinal \/ LoseFinal
  <2>1. pc = "sendFinal" /\ FinalDecided
    BY <1>5 DEF SendFinal, LoseFinal
  <2>2. /\ finalStatus' \in {0} \cup 200 .. 699 /\ canceled' \in BOOLEAN
        /\ pc' \in Locations /\ runErr' \subseteq ErrorClasses
        /\ UNCHANGED <<established, terminatedBy>>
    BY <2>1 DEF FinalDecided, TypeOK, Locations, Reading, ErrorClasses
  <2>3. in' \in RequestMethods \cup {"none"} /\ out' \in Seq(Out)
        /\ replied' \in {0} \cup Statuses
    <3>1. CASE SendFinal
      <4>1. final \in {0} \cup Statuses
        BY <3>1 DEF TypeOK, Statuses
      <4> QED
        BY <3>1, <4>1, SayOnInviteIsTyped DEF SendFinal
    <3>2. CASE LoseFinal
      BY <3>2, QuietIsTyped DEF LoseFinal
    <3> QED
      BY <1>5, <3>1, <3>2
  <2>4. UNCHANGED <<scenario, resume, ctx, endpoint, invite, leg, player>>
    BY <1>5 DEF SendFinal, LoseFinal
  <2> QED
    BY <2>2, <2>3, <2>4 DEF TypeOK
<1>6. CASE SendOK
  <2>1. 200 \in {0} \cup Statuses /\ 200 \in {0} \cup 200 .. 699
    BY DEF Statuses
  <2>2. in' \in RequestMethods \cup {"none"} /\ out' \in Seq(Out)
        /\ replied' \in {0} \cup Statuses
    BY <1>6, <2>1, SayOnInviteIsTyped DEF SendOK
  <2>3. pc' \in Locations
    BY <1>6 DEF SendOK, Locations, Reading
  <2> QED
    BY <1>6, <2>1, <2>2, <2>3 DEF SendOK, TypeOK
<1>7. CASE SendBYE
  <2>1. OwnBYE(FALSE) \in Out
    BY DEF OwnBYE, Reply, Out, RequestMethods
  <2>2. in' \in RequestMethods \cup {"none"} /\ out' \in Seq(Out)
    BY <1>7, <2>1, OneMessageIsTyped DEF SendBYE
  <2>3. pc' \in Locations /\ bye' \in {"none", "lost", "sent", "answered"}
    BY <1>7 DEF SendBYE, Locations, Reading
  <2>4. UNCHANGED <<scenario, resume, ctx, endpoint, invite, remoteCSeq, digits, player,
                    result, replied>>
    BY <1>7 DEF SendBYE
  <2> QED
    BY <1>7, <2>2, <2>3, <2>4 DEF TypeOK
<1>8. CASE Timer
  <2>1. CASE BehaviorDue
    <3>1. /\ pc' \in Locations /\ resume' \in Resumptions
          /\ media' \in {"none", "running", "canceled", "finished"}
      BY <2>1, CancelIsTyped DEF BehaviorDue, TypeOK, Locations, Sending, Resumptions
    <3> QED
      BY <2>1, <3>1, QuietIsTyped DEF BehaviorDue, TypeOK
  <2>2. CASE HangupDue
    <3>1. /\ pc' \in Locations /\ resume' \in Resumptions /\ runErr' \subseteq ErrorClasses
          /\ media' \in {"none", "running", "canceled", "finished"}
      BY <2>2, CancelIsTyped DEF HangupDue, StopDialog, TypeOK, Locations, Resumptions
    <3> QED
      BY <2>2, <3>1, QuietIsTyped DEF HangupDue, TypeOK
  <2>3. CASE LossDue
    BY <2>3, QuietIsTyped DEF LossDue, TypeOK, Locations
  <2>4. CASE RetransmitFinal
    <3>1. final \in {0} \cup Statuses
      BY DEF TypeOK, Statuses
    <3>2. in' \in RequestMethods \cup {"none"} /\ out' \in Seq(Out)
          /\ replied' \in {0} \cup Statuses
      BY <2>4, <3>1, SayOnInviteIsTyped DEF RetransmitFinal
    <3> QED
      BY <2>4, <3>2 DEF RetransmitFinal, TypeOK
  <2>5. CASE RetransmitBYE
    <3>1. OwnBYE(TRUE) \in Out
      BY DEF OwnBYE, Reply, Out, RequestMethods
    <3>2. in' \in RequestMethods \cup {"none"} /\ out' \in Seq(Out)
      BY <2>5, <3>1, OneMessageIsTyped DEF RetransmitBYE
    <3>3. UNCHANGED <<scenario, control, ctx, endpoint, invite, leg, player, result,
                      replied>>
      BY <2>5 DEF RetransmitBYE
    <3> QED
      BY <3>2, <3>3 DEF TypeOK
  <2> QED
    BY <1>8, <2>1, <2>2, <2>3, <2>4, <2>5 DEF Timer
<1>9. CASE Interrupted \/ TransportFails \/ WriteFails \/ BYEUnroutable
  <2>1. ctx # "live" => ctx \in ErrorClasses
    BY DEF TypeOK, ErrorClasses
  <2>2. "transport" \in ErrorClasses /\ "protocol" \in ErrorClasses
    BY DEF ErrorClasses
  <2>3. PICK error \in ErrorClasses : Abort(error)
    BY <1>9, <2>1, <2>2 DEF Interrupted, TransportFails, WriteFails, BYEUnroutable
  <2>4. /\ Quiet
        /\ UNCHANGED <<scenario, ctx, endpoint, invite, remoteCSeq, digits, mediaErr, outcome>>
    BY <1>9 DEF Interrupted, TransportFails, WriteFails, BYEUnroutable
  <2>5. bye' \in {"none", "lost", "sent", "answered"}
    BY <1>9 DEF Interrupted, TransportFails, WriteFails, BYEUnroutable, TypeOK
  <2> QED
    BY <2>3, <2>4, <2>5, AbortIsTyped, QuietIsTyped DEF TypeOK
<1>10. CASE MediaEnds
  BY <1>10, QuietIsTyped DEF MediaEnds, MediaResults, TypeOK
<1>11. CASE JoinMedia
  <2>1. pc' \in Locations
    BY <1>11 DEF JoinMedia, AfterJoin, Locations, Sending
  <2>2. final' \in {0} \cup 200 .. 699
    <3>1. scenario.status \in 200 .. 699
      BY ScenarioIsTyped
    <3> QED
      BY <1>11, <3>1 DEF JoinMedia, TypeOK
  <2>3. runErr' \subseteq ErrorClasses
    BY <1>11 DEF JoinMedia, TypeOK, ErrorClasses
  <2> QED
    BY <1>11, <2>1, <2>2, <2>3, QuietIsTyped DEF JoinMedia, TypeOK, Resumptions
<1>12. CASE ContextExpires \/ ContextCanceled \/ Finish
  <2>1. Quiet /\ UNCHANGED <<scenario, resume, invite, leg, player, result>>
    BY <1>12 DEF ContextExpires, ContextCanceled, Finish
  <2>2. /\ pc' \in Locations /\ ctx' \in {"live", "deadline", "canceled"}
        /\ endpoint' \in {"open", "closed"}
    BY <1>12 DEF ContextExpires, ContextCanceled, Finish, TypeOK, Locations
  <2> QED
    BY <2>1, <2>2, QuietIsTyped DEF TypeOK
<1>13. CASE Done \/ UNCHANGED vars
  <2>1. UNCHANGED <<scenario, control, ctx, endpoint, invite, leg, player, result, wire>>
    BY <1>13 DEF Done, vars
  <2> QED
    BY <2>1 DEF TypeOK
<1> QED
  BY <1>1, <1>2, <1>3, <1>4, <1>5, <1>6, <1>7, <1>8, <1>9, <1>10, <1>11, <1>12, <1>13
     DEF Next, Send

(* The type invariant of OutboundCall.                                     *)
THEOREM TypeCorrect == Spec => []TypeOK
<1>1. Init => TypeOK
  BY InitIsTyped
<1>2. TypeOK /\ [Next]_vars => TypeOK'
  BY StepIsTyped
<1> QED
  BY <1>1, <1>2, PTL DEF Spec

-----------------------------------------------------------------------------
(***************************************************************************)
(* The inductive invariant.  What the safety invariants say of a finished  *)
(* call has to be known of each stage it goes through: before the final    *)
(* response, with the final response awaiting its ACK, in the dialog, and  *)
(* on the way out through the join on the media goroutine.                 *)
(***************************************************************************)

BeforeFinal ==
  \/ pc \in CancelWindow \cup {"waitInvite", "silent", "sendTrying", "sendRinging",
                               "sendProgress", "sendOK"}
  \/ pc = "joinMedia" /\ resume \in {"answer", "final"}

InCall ==
  \/ pc \in {"dialog", "lossDialog", "sendBYE", "sendBYEOnce", "waitBYE"}
  \/ pc = "joinMedia" /\ resume \in {"bye", "byeOnce", "end"}

Ended == pc \in {"returned", "done"}

NoDialog ==
  /\ ~established /\ ~(acked /\ final = 200)
  /\ terminatedBy = "NoParty" /\ bye = "none" /\ digits = <<>>

Confirmed ==
  /\ acked /\ storedOK /\ established /\ ~canceled
  /\ final = 200 /\ finalStatus = 200 /\ "protocol" \notin runErr

Released ==
  /\ established => \/ bye # "none" \/ terminatedBy = "SUT"
                    \/ scenario.behavior = "networkLoss"
  /\ bye = "lost" => runErr \cap {"transport", "protocol"} # {}

(* The outcome at each stage of the call.                                  *)
Stages ==
  /\ BeforeFinal => NoDialog /\ ~acked /\ ~storedOK /\ ~canceled /\ runErr = {}
  /\ pc = "sendFinal" => NoDialog /\ ~acked /\ ~storedOK /\ ~canceled /\ final # 200
  /\ pc = "waitACK" => /\ NoDialog /\ ~acked /\ (storedOK <=> final = 200)
                       /\ storedOK => finalStatus = 200 /\ ~canceled /\ runErr = {}
  /\ InCall => /\ Confirmed
               /\ bye = IF pc = "waitBYE" THEN "sent" ELSE "none"
               /\ terminatedBy = IF pc = "joinMedia" /\ resume = "end" THEN "SUT"
                                                                    ELSE "NoParty"
               /\ scenario.behavior = "networkLoss" <=> pc = "lossDialog"
  /\ pc = "joinMedia" => resume # "none"
  /\ pc = "joinMedia" /\ resume = "return" => NoDialog
  /\ Ended => /\ EstablishedMeansConfirmed /\ TerminatedByTellsWho
              /\ Released
              /\ digits # <<>> => established
              /\ scenario.behavior = "networkLoss" => bye = "none"

(* Locations that no media goroutine reaches.                              *)
Unaccompanied ==
  {"waitInvite", "silent", "noAnswer", "tryingWait", "sendTrying", "progressWait",
   "sendProgress", "sendOK", "lossDialog", "sendBYE", "sendBYEOnce", "waitBYE",
   "returned", "done"}

Early == {"earlyMedia", "earlyFailure"}

(* Where media may be playing, and in which behaviours.                    *)
MediaAccountedFor ==
  /\ pc \in Unaccompanied => media = "none"
  /\ media # "none" /\ ~acked => scenario.behavior \in Early
  /\ pc \in {"progressWait", "sendProgress", "failureWait"} => scenario.behavior \in Early
  /\ pc \in {"tryingWait", "sendTrying"} => scenario.behavior \notin {"timeout", "negative"}
  /\ pc = "waitACK" /\ storedOK => media = "none"
  /\ offer \in Invalid => /\ media = "none" /\ ~storedOK
                          /\ pc \in {"sendFinal", "waitACK", "returned", "done"}

DigitsInOrder ==
  /\ InviteCSeq <= remoteCSeq
  /\ \A i, j \in DOMAIN digits : i < j => digits[i] < digits[j]
  /\ \A i \in DOMAIN digits : InviteCSeq < digits[i] /\ digits[i] <= remoteCSeq

IInv == TypeOK /\ Stages /\ MediaAccountedFor /\ DigitsInOrder

(* Before the INVITE there is no media, no outcome and no digit.           *)
LEMMA IInvInitially == Init => IInv
<1> SUFFICES ASSUME Init PROVE IInv
  OBVIOUS
<1>1. Stages
  BY DEF Init, Stages, BeforeFinal, InCall, Ended, NoDialog
<1>2. MediaAccountedFor
  BY DEF Init, MediaAccountedFor, Invalid
<1>3. DigitsInOrder
  BY InviteCSeqAssumption DEF Init, DigitsInOrder
<1> QED
  BY <1>1, <1>2, <1>3, InitIsTyped DEF IInv

(* Every way out keeps the account of the call.                            *)
LEMMA AbortKeepsStages ==
  ASSUME TypeOK, Stages, MediaAccountedFor, NEW error \in ErrorClasses, Abort(error),
         pc \in Reading \cup Sending, pc \notin Reading => error \in {"transport", "protocol"},
         error = "protocol" => pc \in {"sendBYE", "sendBYEOnce"},
         bye' = IF pc \in {"sendBYE", "sendBYEOnce"} THEN "lost" ELSE bye,
         UNCHANGED <<scenario, invite, outcome>>, digits' = digits
  PROVE  Stages'
<1>1. CASE pc = "dialog"
  BY <1>1 DEF Abort, StopDialog, Stages, BeforeFinal, InCall, Ended, NoDialog, Confirmed, CancelWindow, BehaviorWaits
<1>2. CASE pc # "dialog"
  <2>1. PICK errors \in SUBSET ErrorClasses : Leave(errors) /\ errors \in {{}, {error}}
    BY <1>2 DEF Abort, Forgiven
  <2>2. CASE BeforeFinal \/ pc \in {"sendFinal", "waitACK"}
    BY <2>1, <2>2 DEF Leave, Stages, BeforeFinal, InCall, Ended, NoDialog, Confirmed,
           EstablishedMeansConfirmed, TerminatedByTellsWho, Released, CancelWindow, BehaviorWaits, TypeOK
  <2>3. CASE pc \in {"lossDialog", "sendBYE", "sendBYEOnce", "waitBYE"}
    <3>1. Leave({error}) /\ media = "none"
      BY <1>2, <2>3 DEF Abort, Forgiven, MediaAccountedFor, Unaccompanied
    <3>2. pc' = "returned" /\ runErr' = runErr \cup {error}
      BY <3>1 DEF Leave
    <3>3. /\ Confirmed /\ terminatedBy = "NoParty" /\ (bye = "none" \/ pc = "waitBYE")
          /\ bye # "answered"
          /\ scenario.behavior = "networkLoss" <=> pc = "lossDialog"
          /\ bye = IF pc = "waitBYE" THEN "sent" ELSE "none"
      BY <2>3 DEF Stages, InCall
    <3>4. established' /\ acked' /\ final' = 200 /\ ~canceled' /\ finalStatus' = 200
      BY <3>3 DEF Confirmed
    <3>5. EstablishedMeansConfirmed' /\ TerminatedByTellsWho'
      BY <3>3, <3>4 DEF EstablishedMeansConfirmed, TerminatedByTellsWho
    <3>6. Released'
      BY <2>3, <3>2, <3>3 DEF Released, Reading, BehaviorWaits
    <3> QED
      BY <3>2, <3>3, <3>4, <3>5, <3>6
         DEF Confirmed, Stages, BeforeFinal, InCall, Ended, CancelWindow, BehaviorWaits
  <2> QED
    BY <1>2, <2>2, <2>3 DEF Reading, Sending, BeforeFinal, CancelWindow, BehaviorWaits
<1> QED
  BY <1>1, <1>2

(* One step keeps the account of the call at its stage.                    *)
LEMMA StepKeepsStages ==
  ASSUME TypeOK, Stages, MediaAccountedFor, [Next]_vars
  PROVE  Stages'
<1> USE DEF Stages, BeforeFinal, InCall, Ended, NoDialog, Confirmed, CancelWindow, BehaviorWaits
<1>1. ASSUME NEW o \in Offers, ReceiveInvite(o) PROVE Stages'
  <2>1. FirstStep \in {"silent", "sendTrying", "tryingWait", "ringingWait", "progressWait"}
    BY DEF FirstStep
  <2>2. \/ pc' = "sendFinal" /\ final' \in {488, scenario.status}
        \/ pc' = FirstStep
    BY <1>1 DEF ReceiveInvite, FinalAtOnce
  <2>3. 488 # 200 /\ scenario.status # 200
    BY FailureIsNoSuccess
  <2>4. pc = "waitInvite" /\ UNCHANGED <<acked, storedOK, leg, result>>
    BY <1>1 DEF ReceiveInvite
  <2>5. NoDialog' /\ ~acked' /\ ~storedOK' /\ ~canceled' /\ runErr' = {}
    BY <2>4
  <2> QED
    BY <2>1, <2>2, <2>3, <2>5
<1>2. ASSUME NEW status \in {400, 404, 415, 488}, NEW kind \in Invalid, RejectInvite(status, kind)
      PROVE Stages'
  BY <1>2 DEF RejectInvite
<1>3. ASSUME NEW m \in Datagrams, Receive(m) PROVE Stages'
  <2>1. CASE ReadBeforeInvite(m) \/ ReadSilently(m) \/ ReadWhileRinging(m) \/ ReadWhileCompleted(m)
    <3>1. UNCHANGED <<scenario, control, invite, leg, player, result>>
      BY <2>1 DEF ReadBeforeInvite, ReadSilently, ReadWhileRinging, ReadWhileCompleted
    <3> QED
      BY <3>1 DEF EstablishedMeansConfirmed, TerminatedByTellsWho, Released
  <2>2. CASE AcceptCANCEL(m)
    BY <2>2 DEF AcceptCANCEL
  <2>3. CASE ReadACK(m)
    <3>1. CASE storedOK
      BY <2>3, <3>1 DEF ReadACK
    <3>2. CASE ~storedOK
      BY <2>3, <3>2 DEF ReadACK, Leave, EstablishedMeansConfirmed, TerminatedByTellsWho, Released
    <3> QED
      BY <3>1, <3>2
  <2>4. CASE ReadInDialog(m)
    BY <2>4 DEF ReadInDialog, TakeRequest, StopDialog, TerminatedByPeer,
              EstablishedMeansConfirmed, TerminatedByTellsWho, Released
  <2>5. CASE ReadWhileHangingUp(m)
    BY <2>5, ZenonT(60) DEF ReadWhileHangingUp, TakeRequest, AfterCrossingBYE,
              EstablishedMeansConfirmed, TerminatedByTellsWho, Released
  <2>6. CASE ReplyFails(m)
    <3>1. pc \in Reading /\ pc \notin {"sendBYE", "sendBYEOnce"}
      BY <2>6 DEF ReplyFails, Reading
    <3> QED
      BY <2>6, <3>1, AbortKeepsStages DEF ReplyFails, ErrorClasses
  <2> QED
    BY <1>3, <2>1, <2>2, <2>3, <2>4, <2>5, <2>6 DEF Receive
<1>4. CASE SendProvisional
  BY <1>4 DEF SendProvisional, AfterProvisional, AfterTrying, AfterRinging, AfterProgress
<1>5. CASE SendFinal \/ LoseFinal
  <2>1. pc = "sendFinal" /\ FinalDecided /\ UNCHANGED <<invite, leg>>
    BY <1>5 DEF SendFinal, LoseFinal
  <2>2. UNCHANGED <<established, terminatedBy>> /\ pc' \in {"returned", "waitACK"}
    BY <2>1 DEF FinalDecided
  <2>3. NoDialog' /\ ~acked' /\ ~storedOK' /\ final' # 200
    BY <2>1, <2>2
  <2> QED
    BY <2>2, <2>3 DEF EstablishedMeansConfirmed, TerminatedByTellsWho, Released
<1>6. CASE SendOK
  BY <1>6 DEF SendOK
<1>7. CASE SendBYE
  BY <1>7 DEF SendBYE, EstablishedMeansConfirmed, TerminatedByTellsWho, Released
<1>8. CASE Timer
  <2>1. CASE BehaviorDue
    BY <2>1 DEF BehaviorDue
  <2>2. CASE HangupDue
    BY <2>2 DEF HangupDue, StopDialog
  <2>3. CASE LossDue
    BY <2>3 DEF LossDue, EstablishedMeansConfirmed, TerminatedByTellsWho, Released
  <2>4. CASE RetransmitFinal
    BY <2>4 DEF RetransmitFinal
  <2>5. CASE RetransmitBYE
    BY <2>5 DEF RetransmitBYE
  <2> QED
    BY <1>8, <2>1, <2>2, <2>3, <2>4, <2>5 DEF Timer
<1>9. CASE Interrupted \/ TransportFails \/ WriteFails \/ BYEUnroutable
  <2>1. /\ ctx # "live" => ctx \in ErrorClasses /\ ctx # "protocol"
        /\ "transport" \in ErrorClasses /\ "protocol" \in ErrorClasses
    BY DEF TypeOK, ErrorClasses
  <2>2. PICK error \in ErrorClasses :
          /\ Abort(error)
          /\ pc \in Reading \cup Sending
          /\ pc \notin Reading => error \in {"transport", "protocol"}
          /\ error = "protocol" => pc \in {"sendBYE", "sendBYEOnce"}
    BY <1>9, <2>1
       DEF Interrupted, TransportFails, WriteFails, BYEUnroutable, Reading, Sending
  <2>3. /\ UNCHANGED <<scenario, invite, outcome>> /\ digits' = digits
        /\ bye' = IF pc \in {"sendBYE", "sendBYEOnce"} THEN "lost" ELSE bye
    BY <1>9 DEF Interrupted, TransportFails, WriteFails, BYEUnroutable, Reading
  <2> QED
    BY <2>2, <2>3, AbortKeepsStages
<1>10. CASE MediaEnds
  BY <1>10 DEF MediaEnds, EstablishedMeansConfirmed, TerminatedByTellsWho, Released
<1>11. CASE JoinMedia
  <2>1. scenario.status # 200 /\ mediaErr \ {"canceled"} \subseteq {"media", "deadline"}
    BY FailureIsNoSuccess DEF TypeOK
  <2>2. /\ pc = "joinMedia"
        /\ UNCHANGED <<scenario, storedOK, acked, leg, outcome>>
    BY <1>11 DEF JoinMedia
  <2>3. CASE resume \in {"answer", "final"}
    BY <1>11, <2>1, <2>2, <2>3
       DEF JoinMedia, AfterJoin, EstablishedMeansConfirmed, TerminatedByTellsWho, Released
  <2>4. CASE resume = "return"
    BY <1>11, <2>2, <2>4
       DEF JoinMedia, AfterJoin, EstablishedMeansConfirmed, TerminatedByTellsWho, Released
  <2>5. CASE resume \in {"bye", "byeOnce", "end"}
    <3>1. Confirmed' /\ scenario'.behavior # "networkLoss"
      BY <1>11, <2>1, <2>2, <2>5 DEF JoinMedia
    <3>2. \/ pc' \in {"sendBYE", "sendBYEOnce"} /\ terminatedBy = "NoParty"
          \/ pc' = "returned" /\ terminatedBy = "SUT"
      BY <1>11, <2>2, <2>5 DEF JoinMedia, AfterJoin
    <3> QED
      BY <2>2, <2>5, <3>1, <3>2 DEF EstablishedMeansConfirmed, TerminatedByTellsWho, Released
  <2> QED
    BY <2>2, <2>3, <2>4, <2>5 DEF TypeOK, Resumptions
<1>12. CASE ContextExpires \/ ContextCanceled \/ Finish \/ Done \/ UNCHANGED vars
  <2>1. /\ UNCHANGED <<scenario, resume, invite, leg, player, result>>
        /\ pc' = pc \/ (pc = "returned" /\ pc' = "done")
    BY <1>12 DEF ContextExpires, ContextCanceled, Finish, Done, vars
  <2> QED
    BY <2>1 DEF EstablishedMeansConfirmed, TerminatedByTellsWho, Released
<1> QED
  BY <1>1, <1>2, <1>3, <1>4, <1>5, <1>6, <1>7, <1>8, <1>9, <1>10, <1>11, <1>12
     DEF Next, Send

(* Leaving through Abort or Leave never leaves media playing unjoined.     *)
LEMMA AbortKeepsMediaAccounted ==
  ASSUME TypeOK, MediaAccountedFor, Stages, NEW error \in ErrorClasses, Abort(error),
         UNCHANGED <<scenario, acked, offer, storedOK>>
  PROVE  MediaAccountedFor'
<1>1. CASE pc = "dialog"
  <2>1. offer \notin Invalid /\ acked
    BY <1>1 DEF MediaAccountedFor, Stages, InCall, Confirmed
  <2> QED
    BY <1>1, <2>1 DEF Abort, StopDialog, MediaAccountedFor, Unaccompanied
<1>2. CASE pc # "dialog"
  <2>1. Leave({}) \/ Leave({error})
    BY <1>2 DEF Abort
  <2>2. \/ media = "none" /\ media' = "none" /\ pc' = "returned"
        \/ media # "none" /\ media' # "none" /\ pc' = "joinMedia"
    BY <2>1 DEF Leave, Cancel
  <2> QED
    BY <2>2 DEF MediaAccountedFor, Unaccompanied
<1> QED
  BY <1>1, <1>2

(* Every step starts media only where it is joined later, and leaves those *)
(* places only with the media joined (startEarlyPlayback).                     *)
LEMMA StepKeepsMediaAccounted ==
  ASSUME TypeOK, Stages, MediaAccountedFor, [Next]_vars
  PROVE  MediaAccountedFor'
<1> USE DEF MediaAccountedFor, Unaccompanied, BehaviorWaits
<1>1. ASSUME NEW o \in Offers, ReceiveInvite(o) PROVE MediaAccountedFor'
  <2>1. offer' \notin Invalid
    BY <1>1 DEF ReceiveInvite, Offers, Invalid
  <2>2. \/ pc' = "sendFinal"
        \/ scenario.behavior # "negative" /\ pc' = FirstStep
    BY <1>1 DEF ReceiveInvite
  <2>3. pc = "waitInvite" /\ UNCHANGED <<scenario, acked, storedOK, media>>
    BY <1>1 DEF ReceiveInvite
  <2> QED
    BY <2>1, <2>2, <2>3, BehaviorIsTyped DEF FirstStep, Behaviors, Early
<1>2. ASSUME NEW status \in {400, 404, 415, 488}, NEW kind \in Invalid, RejectInvite(status, kind)
      PROVE MediaAccountedFor'
  <2>1. ~storedOK
    BY <1>2 DEF RejectInvite, Stages, BeforeFinal
  <2> QED
    BY <1>2, <2>1 DEF RejectInvite
<1>3. ASSUME NEW m \in Datagrams, Receive(m) PROVE MediaAccountedFor'
  <2>1. CASE ReadBeforeInvite(m) \/ ReadSilently(m) \/ ReadWhileRinging(m) \/ ReadWhileCompleted(m)
    <3>1. UNCHANGED <<scenario, control, invite, player>>
      BY <2>1 DEF ReadBeforeInvite, ReadSilently, ReadWhileRinging, ReadWhileCompleted
    <3> QED
      BY <3>1
  <2>2. CASE AcceptCANCEL(m)
    BY <2>2 DEF AcceptCANCEL, CancelWindow
  <2>3. CASE ReadACK(m)
    <3>1. CASE storedOK
      BY <2>3, <3>1 DEF ReadACK
    <3>2. CASE ~storedOK
      <4>1. \/ media = "none" /\ media' = "none" /\ pc' = "returned"
            \/ media # "none" /\ media' # "none" /\ pc' = "joinMedia"
        BY <2>3, <3>2 DEF ReadACK, Leave, Cancel
      <4>2. acked' /\ UNCHANGED <<scenario, offer, storedOK>>
        BY <2>3 DEF ReadACK
      <4> QED
        BY <4>1, <4>2
    <3> QED
      BY <3>1, <3>2
  <2>4. CASE ReadInDialog(m)
    <3>1. acked /\ offer \notin Invalid
      BY <2>4 DEF ReadInDialog, Stages, InCall, Confirmed
    <3>2. UNCHANGED <<scenario, invite>>
      BY <2>4 DEF ReadInDialog
    <3>3. \/ UNCHANGED <<pc, media>>
          \/ pc = "dialog" /\ pc' = "joinMedia"
          \/ pc = "lossDialog" /\ pc' = "returned" /\ UNCHANGED media
      BY <2>4 DEF ReadInDialog, StopDialog
    <3> QED
      BY <3>1, <3>2, <3>3
  <2>5. CASE ReadWhileHangingUp(m)
    <3>1. pc' \in {"waitBYE", "returned"} /\ pc = "waitBYE"
      BY <2>5 DEF ReadWhileHangingUp, AfterCrossingBYE
    <3>2. UNCHANGED <<scenario, invite, player>>
      BY <2>5 DEF ReadWhileHangingUp
    <3> QED
      BY <3>1, <3>2
  <2>6. CASE ReplyFails(m)
    <3>1. "transport" \in ErrorClasses
      BY DEF ErrorClasses
    <3> QED
      BY <2>6, <3>1, AbortKeepsMediaAccounted DEF ReplyFails
  <2> QED
    BY <1>3, <2>1, <2>2, <2>3, <2>4, <2>5, <2>6 DEF Receive
<1>4. CASE SendProvisional
  <2>1. /\ pc \in {"sendTrying", "sendRinging", "sendProgress"} /\ pc' = AfterProvisional
        /\ media' = IF pc = "sendProgress" THEN "running" ELSE media
        /\ UNCHANGED <<scenario, acked, offer, storedOK>>
    BY <1>4 DEF SendProvisional
  <2>2. offer \notin Invalid
    BY <2>1
  <2>3. CASE pc = "sendTrying"
    <3>1. pc' = AfterTrying /\ media' = "none"
      BY <2>1, <2>3 DEF AfterProvisional
    <3> QED
      BY <2>1, <2>2, <2>3, <3>1, BehaviorIsTyped DEF AfterTrying, Behaviors, Early
  <2>4. CASE pc = "sendRinging"
    <3>1. pc' = AfterRinging /\ media' = media
      BY <2>1, <2>4 DEF AfterProvisional
    <3>2. ~acked
      BY <2>4 DEF Stages, BeforeFinal
    <3> QED
      BY <2>1, <2>2, <2>4, <3>1, <3>2 DEF AfterRinging, Early
  <2>5. CASE pc = "sendProgress"
    <3>1. pc' = AfterProgress
      BY <2>1, <2>5 DEF AfterProvisional
    <3> QED
      BY <2>1, <2>2, <2>5, <3>1 DEF AfterProgress, Early
  <2> QED
    BY <2>1, <2>3, <2>4, <2>5
<1>5. CASE SendFinal \/ LoseFinal
  <2>1. /\ pc = "sendFinal" /\ pc' = (IF offer = "stateless" THEN "returned" ELSE "waitACK")
        /\ UNCHANGED <<scenario, invite, player>>
    BY <1>5 DEF SendFinal, LoseFinal, FinalDecided
  <2> QED
    BY <2>1 DEF Stages, Invalid
<1>6. CASE SendOK
  BY <1>6 DEF SendOK
<1>7. CASE SendBYE
  BY <1>7 DEF SendBYE
<1>8. CASE Timer
  <2>1. CASE BehaviorDue
    <3>1. ~acked
      BY <2>1 DEF BehaviorDue, Stages, BeforeFinal, CancelWindow
    <3>2. UNCHANGED <<scenario, invite>>
      BY <2>1 DEF BehaviorDue
    <3> QED
      BY <2>1, <3>1, <3>2 DEF BehaviorDue, Cancel, Early
  <2>2. CASE HangupDue
    <3>1. acked
      BY <2>2 DEF HangupDue, Stages, InCall, Confirmed
    <3> QED
      BY <2>2, <3>1 DEF HangupDue, StopDialog
  <2>3. CASE LossDue
    BY <2>3 DEF LossDue
  <2>4. CASE RetransmitFinal \/ RetransmitBYE
    <3>1. UNCHANGED <<scenario, control, invite, player>>
      BY <2>4 DEF RetransmitFinal, RetransmitBYE
    <3> QED
      BY <3>1
  <2> QED
    BY <1>8, <2>1, <2>2, <2>3, <2>4 DEF Timer
<1>9. CASE Interrupted \/ TransportFails \/ WriteFails \/ BYEUnroutable
  <2>1. PICK error \in ErrorClasses : Abort(error)
    BY <1>9 DEF Interrupted, TransportFails, WriteFails, BYEUnroutable, TypeOK, ErrorClasses
  <2>2. UNCHANGED <<scenario, acked, offer, storedOK>>
    BY <1>9 DEF Interrupted, TransportFails, WriteFails, BYEUnroutable
  <2> QED
    BY <2>1, <2>2, AbortKeepsMediaAccounted
<1>10. CASE MediaEnds
  BY <1>10 DEF MediaEnds
<1>11. CASE JoinMedia
  BY <1>11 DEF JoinMedia, AfterJoin
<1>12. CASE ContextExpires \/ ContextCanceled \/ Finish \/ Done \/ UNCHANGED vars
  <2>1. /\ UNCHANGED <<scenario, invite, player>>
        /\ pc' = pc \/ (pc = "returned" /\ pc' = "done")
    BY <1>12 DEF ContextExpires, ContextCanceled, Finish, Done, vars
  <2> QED
    BY <2>1
<1> QED
  BY <1>1, <1>2, <1>3, <1>4, <1>5, <1>6, <1>7, <1>8, <1>9, <1>10, <1>11, <1>12
     DEF Next, Send

(* Digits are only ever appended, for an INFO newer than all before it.    *)
LEMMA TakeRequestKeepsDigitsInOrder ==
  ASSUME TypeOK, DigitsInOrder, NEW m \in Datagrams, TakeRequest(m)
  PROVE  DigitsInOrder'
<1>1. m.cseq \in Nat \cup {NoCSeq}
  BY DatagramsAssumption DEF Datagram
<1>2. CASE RecordsDigit(m, storedOK, remoteCSeq)
  <2>1. m.cseq > remoteCSeq /\ remoteCSeq' = m.cseq /\ m.cseq \in Nat
    BY <1>1, <1>2
       DEF RecordsDigit, TakeRequest, NextRemoteCSeq, Duplicate, InDialog, NoCSeq, TypeOK
  <2>2. digits' = Append(digits, m.cseq)
    BY <1>2 DEF TakeRequest
  <2>3. /\ DOMAIN digits' = DOMAIN digits \cup {Len(digits) + 1}
        /\ DOMAIN digits = 1 .. Len(digits)
        /\ Len(digits) \in Nat
        /\ digits'[Len(digits) + 1] = m.cseq
        /\ \A i \in DOMAIN digits : digits'[i] = digits[i] /\ digits[i] \in Nat
    BY <2>1, <2>2 DEF TypeOK
  <2>4. \A i \in DOMAIN digits' : InviteCSeq < digits'[i] /\ digits'[i] <= remoteCSeq'
    BY <2>1, <2>3, InviteCSeqAssumption DEF DigitsInOrder, TypeOK
  <2>5. \A i, j \in DOMAIN digits' : i < j => digits'[i] < digits'[j]
    BY <2>1, <2>3 DEF DigitsInOrder, TypeOK
  <2> QED
    BY <2>1, <2>4, <2>5, InviteCSeqAssumption DEF DigitsInOrder, TypeOK
<1>3. CASE ~RecordsDigit(m, storedOK, remoteCSeq)
  <2>1. digits' = digits
    BY <1>3 DEF TakeRequest
  <2>2. remoteCSeq <= remoteCSeq' /\ remoteCSeq' \in Nat
    BY <1>1 DEF TakeRequest, NextRemoteCSeq, Duplicate, InDialog, NoCSeq, TypeOK
  <2>3. \A i \in DOMAIN digits : digits[i] \in Nat
    BY DEF TypeOK
  <2> QED
    BY <2>1, <2>2, <2>3, InviteCSeqAssumption DEF DigitsInOrder, TypeOK
<1> QED
  BY <1>2, <1>3

(* Only a fresh INFO of the dialog changes the recorded digits.            *)
LEMMA StepKeepsDigitsInOrder ==
  ASSUME TypeOK, DigitsInOrder, [Next]_vars
  PROVE  DigitsInOrder'
<1>1. CASE UNCHANGED <<remoteCSeq, digits>>
  BY <1>1 DEF DigitsInOrder
<1>2. CASE \E m \in Datagrams : TakeRequest(m)
  BY <1>2, TakeRequestKeepsDigitsInOrder
<1>3. CASE \E m \in Datagrams : ReplyFails(m)
  <2>1. PICK m \in Datagrams : ReplyFails(m)
    BY <1>3
  <2>2. digits' = digits
    BY <2>1 DEF ReplyFails
  <2>3. m.cseq \in Nat \cup {NoCSeq}
    BY DatagramsAssumption DEF Datagram
  <2>4. remoteCSeq <= remoteCSeq' /\ remoteCSeq' \in Nat
    BY <2>1, <2>3 DEF ReplyFails, NextRemoteCSeq, Duplicate, InDialog, NoCSeq, TypeOK
  <2>5. \A i \in DOMAIN digits : digits[i] \in Nat
    BY DEF TypeOK
  <2> QED
    BY <2>2, <2>4, <2>5, InviteCSeqAssumption DEF DigitsInOrder, TypeOK
<1>4. ASSUME NEW m \in Datagrams, Receive(m)
      PROVE  UNCHANGED <<remoteCSeq, digits>> \/ TakeRequest(m) \/ ReplyFails(m)
  BY <1>4 DEF Receive, ReadBeforeInvite, ReadSilently, ReadWhileRinging, AcceptCANCEL,
              ReadWhileCompleted, ReadACK, ReadInDialog, ReadWhileHangingUp
<1>5. ASSUME Send \/ Timer
      PROVE  UNCHANGED <<remoteCSeq, digits>>
  BY <1>5 DEF Send, Timer, SendProvisional, SendFinal, LoseFinal, SendOK, SendBYE,
              BehaviorDue, HangupDue, LossDue, RetransmitFinal, RetransmitBYE
<1>6. ASSUME Interrupted \/ TransportFails \/ WriteFails \/ BYEUnroutable \/ MediaEnds \/ JoinMedia
      PROVE  UNCHANGED <<remoteCSeq, digits>>
  BY <1>6 DEF Interrupted, TransportFails, WriteFails, BYEUnroutable, MediaEnds, JoinMedia
<1>7. ASSUME ContextExpires \/ ContextCanceled \/ Finish \/ Done \/ UNCHANGED vars
      PROVE  UNCHANGED <<remoteCSeq, digits>>
  BY <1>7 DEF ContextExpires, ContextCanceled, Finish, Done, vars
<1>8. ASSUME \E o \in Offers : ReceiveInvite(o)
      PROVE  UNCHANGED <<remoteCSeq, digits>>
  BY <1>8 DEF ReceiveInvite
<1>9. ASSUME \E status \in {400, 404, 415, 488}, kind \in Invalid : RejectInvite(status, kind)
      PROVE  UNCHANGED <<remoteCSeq, digits>>
  BY <1>9 DEF RejectInvite
<1> QED
  BY <1>1, <1>2, <1>3, <1>4, <1>5, <1>6, <1>7, <1>8, <1>9 DEF Next

(* The invariant is inductive.                                             *)
LEMMA StepKeepsIInv == IInv /\ [Next]_vars => IInv'
BY StepIsTyped, StepKeepsStages, StepKeepsMediaAccounted, StepKeepsDigitsInOrder DEF IInv

(* The invariant that the properties below rest on: what each location of  *)
(* the session goroutine implies about the outcome, the media goroutine    *)
(* and the recorded digits.                                                *)
THEOREM Invariance == Spec => []IInv
<1> QED
  BY IInvInitially, StepKeepsIInv, PTL DEF Spec

-----------------------------------------------------------------------------
(* A call is established exactly when the ACK of its 200 was read, and an  *)
(* established call is never reported as canceled (establishOutboundDialog *)
(* against finishCanceledInvite and the ACK waits of other finals).        *)
THEOREM EstablishmentCorrect == Spec => []EstablishedMeansConfirmed
<1>1. IInv => EstablishedMeansConfirmed
  <2> SUFFICES ASSUME IInv PROVE EstablishedMeansConfirmed
    OBVIOUS
  <2>1. CASE BeforeFinal \/ pc \in {"sendFinal", "waitACK"}
    BY <2>1 DEF IInv, Stages, NoDialog, EstablishedMeansConfirmed
  <2>2. CASE InCall \/ Ended
    BY <2>2 DEF IInv, Stages, Confirmed, EstablishedMeansConfirmed
  <2>3. CASE pc = "joinMedia" /\ resume = "return"
    BY <2>3 DEF IInv, Stages, NoDialog, EstablishedMeansConfirmed
  <2>4. \/ BeforeFinal \/ pc \in {"sendFinal", "waitACK"} \/ InCall \/ Ended
        \/ pc = "joinMedia" /\ resume = "return"
    BY DEF IInv, Stages, TypeOK, Locations, Reading, Sending, Resumptions, BehaviorWaits,
           CancelWindow, BeforeFinal, InCall, Ended
  <2> QED
    BY <2>1, <2>2, <2>3, <2>4
<1> QED
  BY <1>1, Invariance, PTL

(* Every established call is released by the time the session is done: the *)
(* SUT hung up or a BYE was tried, and the test is told of one that could  *)
(* not be sent; NetworkLoss alone leaves without one, and never sends one  *)
(* (answerAndRunDialog).                                                   *)
THEOREM ReleaseCorrect == Spec => []EstablishedCallIsReleased
<1>1. IInv => EstablishedCallIsReleased
  <2> SUFFICES ASSUME IInv PROVE EstablishedCallIsReleased
    OBVIOUS
  <2>1. pc = "done" => Released
    BY DEF IInv, Stages, Ended
  <2>2. scenario.behavior = "networkLoss" => bye = "none"
    BY DEF IInv, Stages, TypeOK, Locations, Reading, Sending, Resumptions, BehaviorWaits,
           CancelWindow, BeforeFinal, InCall, Ended, NoDialog
  <2>3. bye = "lost" => Released
    BY DEF IInv, Stages, TypeOK, Locations, Reading, Sending, Resumptions, BehaviorWaits,
           CancelWindow, BeforeFinal, InCall, Ended, NoDialog
  <2> QED
    BY <2>1, <2>2, <2>3 DEF Released, EstablishedCallIsReleased
<1> QED
  BY <1>1, Invariance, PTL

(* TerminatedBy tells who ended the call when the two hang-ups cross       *)
(* (sendNonInviteTransaction, handleDialogRequest).                        *)
THEOREM TerminationCorrect == Spec => []TerminatedByTellsWho
<1>1. IInv => TerminatedByTellsWho
  BY DEF IInv, Stages, TypeOK, Locations, Reading, Sending, Resumptions, BehaviorWaits,
         CancelWindow, BeforeFinal, InCall, Ended, NoDialog, Confirmed, TerminatedByTellsWho
<1> QED
  BY <1>1, Invariance, PTL

(* No media goroutine is left when a BYE is sent, a 200 goes out, or the   *)
(* behaviour has returned (startEarlyPlayback and startAnsweredMedia and   *)
(* the joins on them).                                                     *)
THEOREM MediaJoinCorrect == Spec => []NoMediaOutlivesCall
<1>1. IInv => NoMediaOutlivesCall
  <2> SUFFICES ASSUME IInv PROVE NoMediaOutlivesCall
    OBVIOUS
  <2>1. bye # "none" => pc \in {"waitBYE", "returned", "done"}
    BY DEF IInv, Stages, TypeOK, Locations, Reading, Sending, Resumptions, BehaviorWaits,
           CancelWindow, BeforeFinal, InCall, Ended, NoDialog
  <2> QED
    BY <2>1 DEF IInv, MediaAccountedFor, Unaccompanied, NoMediaOutlivesCall
<1> QED
  BY <1>1, Invariance, PTL

(* The digits of an established call are in CSeq order without repetition, *)
(* whatever the network repeats or reorders (handleDialogRequest).         *)
THEOREM DigitsCorrect == Spec => []DigitsRecordedOnce
<1>1. IInv => DigitsRecordedOnce
  <2> SUFFICES ASSUME IInv PROVE DigitsRecordedOnce
    OBVIOUS
  <2>1. digits # <<>> => InCall \/ Ended
    BY DEF IInv, Stages, TypeOK, Locations, Reading, Sending, Resumptions, BehaviorWaits,
           CancelWindow, BeforeFinal, InCall, Ended, NoDialog
  <2> QED
    BY <2>1 DEF IInv, DigitsInOrder, DigitsRecordedOnce, Stages, Confirmed
<1> QED
  BY <1>1, Invariance, PTL
=============================================================================
