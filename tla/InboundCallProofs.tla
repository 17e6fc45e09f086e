--------------------------- MODULE InboundCallProofs ---------------------------
(***************************************************************************)
(* Proofs about InboundCall, for every set of scenarios and datagrams.     *)
(***************************************************************************)
EXTENDS InboundCall, TLAPS

USE DEF control, invite, sending, taken, player, outcome

-----------------------------------------------------------------------------
(* The inductive invariant: what is known of each stage of the call. *)

(* The INVITE waits for its first final response, ...                      *)
Ringing == {"sendInvite", "calling", "cancelRinging", "ackChallenge"}

(* ... was given up at RingTimeout, or failed.                             *)
TimedOut == {"cancelTimedOut", "cancelling", "ackLateSuccess", "ackLateFailure"}
Failed   == {"ackFailure", "absorb"}

BeforeCall == Ringing \cup TimedOut \cup Failed \cup {"ackSuccess"}

InCall == WithMedia \cup {"joinMedia", "sendBYE", "sendBYEOnce", "waitBYE", "byeFailed", "byeLate"}

Over == {"returned", "done"}

OwesACK == {"ackChallenge", "ackSuccess", "ackFailure", "ackLateSuccess", "ackLateFailure"}

(* TypeOK in parts: the goroutines, the INVITE, what is sent in the        *)
(* dialog, and what the peer sends.                                        *)
PlaceOK ==
  /\ pc \in Locations /\ resume \in {"none", "bye", "byeOnce", "end"}
  /\ ctx \in {"live", "deadline", "canceled"}
  /\ media \in {"none", "running", "canceled", "finished"}
  /\ mediaErr \subseteq {"media", "canceled", "deadline"}
  /\ runErr \subseteq ErrorClasses

InviteOK ==
  /\ cseq \in {InviteCSeq, InviteCSeq + 1}
  /\ provisional \in BOOLEAN /\ hangup \in BOOLEAN /\ untagged \in BOOLEAN
  /\ unacked \subseteq {InviteCSeq, InviteCSeq + 1}
  /\ finalStatus \in {0} \cup 200 .. 699
  /\ established \in BOOLEAN /\ canceled \in BOOLEAN

SentOK ==
  /\ localCSeq \in Nat /\ highest \in Nat
  /\ digit \in 0 .. Len(scenario.info) /\ confirmed \in 0 .. digit
  /\ bye \in {"none", "lost", "sent", "answered"}

TakenOK == remoteCSeq \in Nat /\ terminatedBy \in Parties /\ digits \in Seq(Nat)

WireOK == in \in {"none", "duplicateOK", "other"} /\ out \in Seq(Out)

Stages ==
  /\ pc \in Ringing \cup {"cancelTimedOut", "cancelling"} => finalStatus = 0
  /\ pc \in BeforeCall =>
       ~established /\ bye = "none" /\ terminatedBy = "NoParty" /\ digit = 0 /\ confirmed = 0
  /\ pc = "ackChallenge" => cseq = InviteCSeq
  /\ pc \in TimedOut \cup {"byeLate"} => "deadline" \in runErr
  /\ pc \in {"ackSuccess", "ackLateSuccess"} => Success(finalStatus)
  /\ pc \in Failed => ~Success(finalStatus)
  /\ pc = "absorb" /\ runErr = {} => finalStatus = scenario.expect
  /\ pc \in InCall =>
       /\ established /\ (runErr = {} => finalStatus = scenario.expect /\ Success(finalStatus))
  /\ pc \in {"byeFailed", "byeLate", "sendBYEOnce"} => runErr # {}

Acknowledged ==
  /\ pc \in OwesACK => unacked = {cseq}
  /\ pc \notin OwesACK \cup Over => unacked = {}
  /\ pc \in Over /\ unacked # {} =>
       \/ "transport" \in runErr
       \/ "protocol" \in runErr /\ Success(finalStatus) /\ ~established

MediaAccounted == (media # "none") <=> (pc \in WithMedia \cup {"joinMedia"})

Released ==
  /\ bye # "none" => pc \in {"waitBYE"} \cup Over
  /\ pc = "waitBYE" => bye = "sent"
  /\ bye = "lost" => "transport" \in runErr
  /\ terminatedBy # "NoParty" => pc \in Over \/ (pc = "joinMedia" /\ resume = "end")
  /\ pc = "joinMedia" =>
       /\ resume \in {"bye", "byeOnce", "end"}
       /\ resume = "end" => terminatedBy = "SUT"
       /\ resume = "byeOnce" => runErr # {}
  /\ pc \in Over /\ established =>
       \/ bye # "none" \/ terminatedBy = "SUT"
       \/ untagged /\ "deadline" \in runErr

Concluded ==
  pc \in Over /\ runErr = {} =>
    /\ finalStatus = scenario.expect
    /\ established <=> Success(finalStatus)
    /\ established => \/ terminatedBy = "Sutel" /\ bye = "answered"
                      \/ terminatedBy = "SUT" /\ bye # "answered"

Numbers ==
  /\ pc = "sendInvite" => highest < cseq
  /\ pc \in BeforeCall \ {"sendInvite"} => highest = cseq
  /\ pc \in InCall => cseq <= highest /\ highest <= localCSeq

InfoSent ==
  /\ digit <= confirmed + 1
  /\ pc \in {"sendINFO", "gap"} => digit = confirmed /\ digit < Len(scenario.info)
  /\ pc = "waitINFO" => digit = confirmed + 1
  /\ pc \in {"beginWait", "dialog", "sendBYE", "waitBYE"} \/ (pc = "joinMedia" /\ resume = "bye") =>
       digit = confirmed /\ confirmed = Len(scenario.info)
  /\ pc \in Over /\ runErr = {} /\ terminatedBy = "Sutel" => confirmed = Len(scenario.info)

-----------------------------------------------------------------------------
(* Types. *)

(* The errors of Abort are errors.                                         *)
LEMMA ErrorsAreClasses ==
  ASSUME PlaceOK
  PROVE  {"transport", "protocol"} \subseteq ErrorClasses /\ (ctx # "live" => ctx \in ErrorClasses)
BY DEF PlaceOK, ErrorClasses

(* A scenario has a number of digits.                                      *)
LEMMA LengthIsTyped == scenario \in Scenarios => Len(scenario.info) \in Nat
BY ScenariosAssumption DEF Scenario

(* Giving up leads to a location.                                          *)
LEMMA AbortKeepsPlaceOK ==
  ASSUME PlaceOK, NEW error \in ErrorClasses, Abort(error), UNCHANGED <<ctx, mediaErr>>
  PROVE  PlaceOK'
<1>1. CASE StopDialog("byeOnce", {error})
  BY <1>1 DEF StopDialog, PlaceOK, Locations
<1>2. CASE Return({}) \/ Return({error})
  BY <1>2 DEF Return, PlaceOK, Locations
<1> QED
  BY <1>1, <1>2 DEF Abort

(* Every step leaves the goroutines at a location.                         *)
LEMMA StepKeepsPlaceOK ==
  ASSUME PlaceOK, [Next]_vars
  PROVE  PlaceOK'
<1>1. CASE \E m \in Datagrams : ReadWhileCalling(m)
  BY <1>1 DEF ReadWhileCalling, FinalResponse, Challenge, IsMatching, PlaceOK, Locations,
       Reading, Sending, InDialogLoop, WithMedia, ErrorClasses
<1>2. CASE \E m \in Datagrams : ReadWhileCancelling(m)
  BY <1>2 DEF ReadWhileCancelling, FinalResponse, PlaceOK, Locations, Reading, Sending,
       InDialogLoop, WithMedia, ErrorClasses
<1>3. CASE \E m \in Datagrams : ReadRequest(m)
  BY <1>3 DEF ReadRequest, Return, StopDialog, PeerEnded, TakeRequest, PlaceOK, Locations,
       Reading, Sending, InDialogLoop, WithMedia, ErrorClasses
<1>4. CASE \E m \in Datagrams : ReadForkedOK(m)
  BY <1>4 DEF ReadForkedOK, StopDialog, PlaceOK, Locations, Reading, Sending, InDialogLoop,
       WithMedia, ErrorClasses
<1>5. CASE \E m \in Datagrams : ReadINFOResponse(m)
  <2>1. PICK m \in Datagrams : ReadINFOResponse(m)
    BY <1>5
  <2>2. AfterINFO \in {"gap", "sendINFO", "beginWait"}
    BY DEF AfterINFO, NextStep
  <2>3. \/ StopDialog("byeOnce", {"protocol"})
        \/ pc' \in {pc, AfterINFO} /\ UNCHANGED <<resume, media, runErr>>
    BY <2>1 DEF ReadINFOResponse
  <2>4. UNCHANGED <<ctx, mediaErr>>
    BY <2>1 DEF ReadINFOResponse
  <2>5. pc' \in Locations
    BY <2>2, <2>3 DEF StopDialog, PlaceOK, Locations, Reading, Sending, InDialogLoop
  <2> QED
    BY <2>3, <2>4, <2>5, ErrorsAreClasses DEF StopDialog, PlaceOK
<1>6. CASE \E m \in Datagrams : ReadBYEResponse(m)
  BY <1>6 DEF ReadBYEResponse, PlaceOK, Locations, Reading, Sending, InDialogLoop,
       WithMedia, ErrorClasses
<1>7. CASE \E m \in Datagrams : ReplyFails(m)
  <2>1. Abort("transport") /\ UNCHANGED <<ctx, mediaErr>>
    BY <1>7 DEF ReplyFails
  <2> QED
    BY <2>1, AbortKeepsPlaceOK, ErrorsAreClasses DEF PlaceOK
<1>8. CASE SendInvite
  BY <1>8 DEF SendInvite, PlaceOK, Locations, Reading, Sending, InDialogLoop, WithMedia,
       ErrorClasses
<1>9. CASE SendCANCEL
  BY <1>9 DEF SendCANCEL, PlaceOK, Locations, Reading, Sending, InDialogLoop, WithMedia,
       ErrorClasses
<1>10. CASE AckChallenge
  BY <1>10 DEF AckChallenge, PlaceOK, Locations, Reading, Sending, InDialogLoop, WithMedia,
       ErrorClasses
<1>11. CASE AckFailure
  BY <1>11 DEF AckFailure, Mismatch, PlaceOK, Locations, Reading, Sending, InDialogLoop,
       WithMedia, ErrorClasses
<1>12. CASE AckLateFailure
  BY <1>12 DEF AckLateFailure, PlaceOK, Locations, Reading, Sending, InDialogLoop,
       WithMedia, ErrorClasses
<1>13. CASE \E tagged \in BOOLEAN : AckLateSuccess(tagged)
  BY <1>13 DEF AckLateSuccess, PlaceOK, Locations, Reading, Sending, InDialogLoop,
       WithMedia, ErrorClasses
<1>14. CASE \E answer \in Answers : AckSuccess(answer)
  <2>1. PICK answer \in Answers : AckSuccess(answer)
    BY <1>14
  <2>2. Mismatch \subseteq ErrorClasses
    BY DEF Mismatch, ErrorClasses
  <2>3. Refusal(answer) \subseteq ErrorClasses
    BY <2>2 DEF Refusal, ErrorClasses
  <2> QED
    BY <2>1, <2>3 DEF AckSuccess, NextStep, PlaceOK, Locations, Sending
<1>15. CASE ByeWithoutAnswer
  BY <1>15 DEF ByeWithoutAnswer, PlaceOK, Locations, Reading, Sending, InDialogLoop,
       WithMedia, ErrorClasses
<1>16. CASE SendINFO
  BY <1>16 DEF SendINFO, PlaceOK, Locations, Reading, Sending, InDialogLoop, WithMedia,
       ErrorClasses
<1>17. CASE SendBYE
  BY <1>17 DEF SendBYE, PlaceOK, Locations, Reading, Sending, InDialogLoop, WithMedia,
       ErrorClasses
<1>18. CASE HangUpRinging
  BY <1>18 DEF HangUpRinging, PlaceOK, Locations, Reading, Sending, InDialogLoop, WithMedia,
       ErrorClasses
<1>19. CASE RingTimeout
  BY <1>19 DEF RingTimeout, PlaceOK, Locations, Reading, Sending, InDialogLoop, WithMedia,
       ErrorClasses
<1>20. CASE GiveUp
  BY <1>20 DEF GiveUp, PlaceOK, Locations, Reading, Sending, InDialogLoop, WithMedia,
       ErrorClasses
<1>21. CASE GapDue
  BY <1>21 DEF GapDue, PlaceOK, Locations, Reading, Sending, InDialogLoop, WithMedia,
       ErrorClasses
<1>22. CASE HangupDue
  BY <1>22 DEF HangupDue, StopDialog, PlaceOK, Locations, Reading, Sending, InDialogLoop,
       WithMedia, ErrorClasses
<1>23. CASE BeginWait
  BY <1>23 DEF BeginWait, StopDialog, PlaceOK, Locations, Reading, Sending, InDialogLoop,
       WithMedia, ErrorClasses
<1>24. CASE AckUnroutable
  BY <1>24 DEF AckUnroutable, Return, PlaceOK, Locations, Reading, Sending, InDialogLoop,
       WithMedia, ErrorClasses
<1>25. CASE Interrupted
  <2>1. Abort(ctx) /\ UNCHANGED <<ctx, mediaErr>> /\ ctx # "live"
    BY <1>25 DEF Interrupted
  <2> QED
    BY <2>1, AbortKeepsPlaceOK, ErrorsAreClasses DEF PlaceOK
<1>26. CASE TransportFails
  <2>1. Abort("transport") /\ UNCHANGED <<ctx, mediaErr>>
    BY <1>26 DEF TransportFails
  <2> QED
    BY <2>1, AbortKeepsPlaceOK, ErrorsAreClasses DEF PlaceOK
<1>27. CASE WriteFails
  <2>1. Abort("transport") /\ UNCHANGED <<ctx, mediaErr>>
    BY <1>27 DEF WriteFails
  <2> QED
    BY <2>1, AbortKeepsPlaceOK, ErrorsAreClasses DEF PlaceOK
<1>28. CASE MediaEnds
  BY <1>28 DEF MediaEnds, MediaResults, PlaceOK
<1>29. CASE JoinMedia
  BY <1>29 DEF JoinMedia, PlaceOK, Locations, Reading, Sending, InDialogLoop, WithMedia,
       ErrorClasses
<1>30. CASE ContextExpires
  BY <1>30 DEF ContextExpires, ContextEnds, PlaceOK, Locations, Reading, Sending,
       InDialogLoop, WithMedia, ErrorClasses
<1>31. CASE ContextCanceled
  BY <1>31 DEF ContextCanceled, ContextEnds, PlaceOK, Locations, Reading, Sending,
       InDialogLoop, WithMedia, ErrorClasses
<1>32. CASE Finish
  BY <1>32 DEF Finish, PlaceOK, Locations, Reading, Sending, InDialogLoop, WithMedia,
       ErrorClasses
<1>33. CASE (\E m \in Datagrams : ReadWhileAbsorbing(m))
         \/ (\E m \in Datagrams : ReadResponse(m)) \/ RetransmitInvite \/ Retransmit \/ Done
         \/ UNCHANGED vars
  <2>1. UNCHANGED <<pc, resume, ctx, media, mediaErr, runErr>>
    BY <1>33 DEF ReadWhileAbsorbing, ReadResponse, RetransmitInvite, Retransmit, Done, vars
  <2> QED
    BY <2>1 DEF PlaceOK, Locations, Reading, Sending, InDialogLoop, WithMedia, ErrorClasses
<1> QED
  BY <1>1, <1>2, <1>3, <1>4, <1>5, <1>6, <1>7, <1>8, <1>9, <1>10, <1>11, <1>12, <1>13,
       <1>14, <1>15, <1>16, <1>17, <1>18, <1>19, <1>20, <1>21, <1>22, <1>23, <1>24, <1>25, <1>26,
       <1>27, <1>28, <1>29, <1>30, <1>31, <1>32, <1>33
     DEF Next, Receive, Send, Timer

(* Every step leaves what is known of the INVITE well typed; only the      *)
(* first INVITE is challenged.                                             *)
LEMMA StepKeepsInviteOK ==
  ASSUME scenario \in Scenarios, InviteOK, Stages, [Next]_vars
  PROVE  InviteOK'
<1>1. CASE \E m \in Datagrams : ReadWhileCalling(m)
  <2>1. PICK m \in Datagrams : ReadWhileCalling(m)
    BY <1>1
  <2>2. FinalResponse(m) => m.status \in 200 .. 699
    BY DatagramsAssumption DEF FinalResponse, IsRequest, Datagram, Statuses
  <2>3. finalStatus' \in {0} \cup 200 .. 699
    BY <2>1, <2>2 DEF ReadWhileCalling, InviteOK
  <2>5. provisional' \in BOOLEAN
    BY <2>1, Zenon DEF ReadWhileCalling, InviteOK
  <2>4. unacked' \subseteq {InviteCSeq, InviteCSeq + 1}
    BY <2>1 DEF ReadWhileCalling, InviteOK
  <2> QED
    BY <2>1, <2>3, <2>4, <2>5 DEF ReadWhileCalling, InviteOK
<1>2. CASE \E m \in Datagrams : ReadWhileCancelling(m)
  <2>1. PICK m \in Datagrams : ReadWhileCancelling(m)
    BY <1>2
  <2>2. FinalResponse(m) => m.status \in 200 .. 699
    BY DatagramsAssumption DEF FinalResponse, IsRequest, Datagram, Statuses
  <2>3. finalStatus' \in {0} \cup 200 .. 699
    BY <2>1, <2>2 DEF ReadWhileCancelling, InviteOK
  <2>4. unacked' \subseteq {InviteCSeq, InviteCSeq + 1}
    BY <2>1 DEF ReadWhileCancelling, InviteOK
  <2> QED
    BY <2>1, <2>3, <2>4 DEF ReadWhileCancelling, InviteOK
<1>3. CASE SendInvite
  BY <1>3, ScenariosAssumption, ZenonT(60) DEF SendInvite, InviteOK, Scenario
<1>4. CASE AckChallenge
  BY <1>4, InviteCSeqAssumption DEF AckChallenge, InviteOK, Stages
<1>5. CASE AckFailure
  BY <1>5 DEF AckFailure, Mismatch, InviteOK
<1>6. CASE AckLateFailure
  BY <1>6 DEF AckLateFailure, InviteOK
<1>7. CASE \E tagged \in BOOLEAN : AckLateSuccess(tagged)
  BY <1>7 DEF AckLateSuccess, InviteOK
<1>8. CASE \E answer \in Answers : AckSuccess(answer)
  BY <1>8 DEF AckSuccess, Refusal, Mismatch, NextStep, DialogCSeq, InviteOK
<1>9. CASE HangUpRinging
  BY <1>9, ZenonT(60) DEF HangUpRinging, InviteOK
<1>10. CASE (\E m \in Datagrams : ReadWhileAbsorbing(m))
         \/ (\E m \in Datagrams : ReadRequest(m)) \/ (\E m \in Datagrams : ReadResponse(m))
         \/ (\E m \in Datagrams : ReadForkedOK(m))
         \/ (\E m \in Datagrams : ReadINFOResponse(m))
         \/ (\E m \in Datagrams : ReadBYEResponse(m)) \/ (\E m \in Datagrams : ReplyFails(m))
         \/ SendCANCEL \/ ByeWithoutAnswer \/ SendINFO \/ SendBYE \/ RetransmitInvite
         \/ RingTimeout \/ GiveUp \/ Retransmit \/ GapDue \/ HangupDue \/ BeginWait
         \/ AckUnroutable \/ Interrupted \/ TransportFails \/ WriteFails \/ MediaEnds
         \/ JoinMedia \/ ContextExpires \/ ContextCanceled \/ Finish \/ Done \/ UNCHANGED vars
  <2>1. UNCHANGED <<cseq, provisional, hangup, untagged, unacked, finalStatus, established,
       canceled>>
    BY <1>10 DEF ReadWhileAbsorbing, ReadRequest, ReadResponse, ReadForkedOK,
         ReadINFOResponse, ReadBYEResponse, ReplyFails, SendCANCEL, ByeWithoutAnswer, SendINFO,
         SendBYE, RetransmitInvite, RingTimeout, GiveUp, Retransmit, GapDue, HangupDue,
         BeginWait, AckUnroutable, Interrupted, TransportFails, WriteFails, MediaEnds, JoinMedia,
         ContextExpires, ContextEnds, ContextCanceled, Finish, Done, vars
  <2> QED
    BY <2>1 DEF InviteOK
<1> QED
  BY <1>1, <1>2, <1>3, <1>4, <1>5, <1>6, <1>7, <1>8, <1>9, <1>10
     DEF Next, Receive, Send, Timer

(* Every step leaves the counters of the dialog well typed.                *)
LEMMA StepKeepsSentOK ==
  ASSUME scenario \in Scenarios, InviteOK, SentOK, InfoSent, [Next]_vars
  PROVE  SentOK'
<1>1. CASE \E m \in Datagrams : ReadINFOResponse(m)
  BY <1>1, LengthIsTyped DEF ReadINFOResponse, SentOK, InfoSent
<1>2. CASE \E m \in Datagrams : ReadBYEResponse(m)
  BY <1>2 DEF ReadBYEResponse, SentOK
<1>3. CASE SendInvite
  BY <1>3, InviteCSeqAssumption DEF SendInvite, SentOK, InviteOK
<1>4. CASE \E tagged \in BOOLEAN : AckLateSuccess(tagged)
  BY <1>4, InviteCSeqAssumption DEF AckLateSuccess, SentOK, InviteOK
<1>5. CASE \E answer \in Answers : AckSuccess(answer)
  BY <1>5, InviteCSeqAssumption DEF AckSuccess, DialogCSeq, SentOK, InviteOK
<1>6. CASE ByeWithoutAnswer
  BY <1>6 DEF ByeWithoutAnswer, SentOK
<1>7. CASE SendINFO
  BY <1>7, LengthIsTyped DEF SendINFO, SentOK, InfoSent
<1>8. CASE SendBYE
  BY <1>8 DEF SendBYE, SentOK
<1>9. CASE WriteFails
  BY <1>9 DEF WriteFails, SentOK
<1>10. CASE (\E m \in Datagrams : ReadWhileCalling(m))
         \/ (\E m \in Datagrams : ReadWhileAbsorbing(m))
         \/ (\E m \in Datagrams : ReadWhileCancelling(m))
         \/ (\E m \in Datagrams : ReadRequest(m)) \/ (\E m \in Datagrams : ReadResponse(m))
         \/ (\E m \in Datagrams : ReadForkedOK(m)) \/ (\E m \in Datagrams : ReplyFails(m))
         \/ SendCANCEL \/ AckChallenge \/ AckFailure \/ AckLateFailure \/ RetransmitInvite
         \/ HangUpRinging \/ RingTimeout \/ GiveUp \/ Retransmit \/ GapDue \/ HangupDue
         \/ BeginWait \/ AckUnroutable \/ Interrupted \/ TransportFails \/ MediaEnds
         \/ JoinMedia \/ ContextExpires \/ ContextCanceled \/ Finish \/ Done \/ UNCHANGED vars
  <2>1. UNCHANGED <<scenario, localCSeq, highest, digit, confirmed, bye>>
    BY <1>10 DEF ReadWhileCalling, ReadWhileAbsorbing, ReadWhileCancelling, ReadRequest,
         ReadResponse, ReadForkedOK, ReplyFails, SendCANCEL, AckChallenge, AckFailure,
         AckLateFailure, RetransmitInvite, HangUpRinging, RingTimeout, GiveUp, Retransmit,
         GapDue, HangupDue, BeginWait, AckUnroutable, Interrupted, TransportFails, MediaEnds,
         JoinMedia, ContextExpires, ContextEnds, ContextCanceled, Finish, Done, vars
  <2> QED
    BY <2>1 DEF SentOK
<1> QED
  BY <1>1, <1>2, <1>3, <1>4, <1>5, <1>6, <1>7, <1>8, <1>9, <1>10
     DEF Next, Receive, Send, Timer

(* What the peer sends is taken as what it is.                             *)
LEMMA StepKeepsTakenOK ==
  ASSUME TakenOK, [Next]_vars
  PROVE  TakenOK'
<1>1. CASE \E m \in Datagrams : ReadRequest(m)
  <2>1. PICK m \in Datagrams : ReadRequest(m)
    BY <1>1
  <2>2. m.cseq \in Nat \cup {NoCSeq}
    BY DatagramsAssumption DEF Datagram
  <2>3. remoteCSeq' \in Nat
    BY <2>1, <2>2 DEF ReadRequest, TakeRequest, NextRemoteCSeq, InDialog, TakenOK
  <2>4. RecordsDigit(m, FALSE, remoteCSeq) => m.cseq \in Nat
    BY <2>2 DEF RecordsDigit, InDialog
  <2>5. digits' \in Seq(Nat)
    <3>1. TakeRequest(m)
      BY <2>1 DEF ReadRequest
    <3>2. digits' = digits \/ (digits' = Append(digits, m.cseq) /\ m.cseq \in Nat)
      BY <2>4, <3>1 DEF TakeRequest
    <3>3. digits \in Seq(Nat)
      BY DEF TakenOK
    <3> QED
      BY <3>2, <3>3
  <2> QED
    BY <2>1, <2>3, <2>5 DEF ReadRequest, TakeRequest, TakenOK, Parties
<1>2. CASE \E m \in Datagrams : ReadBYEResponse(m)
  BY <1>2 DEF ReadBYEResponse, TakenOK, Parties
<1>3. CASE \E m \in Datagrams : ReplyFails(m)
  <2>1. PICK m \in Datagrams : ReplyFails(m)
    BY <1>3
  <2>2. m.cseq \in Nat \cup {NoCSeq}
    BY DatagramsAssumption DEF Datagram
  <2>3. remoteCSeq' \in Nat
    BY <2>1, <2>2 DEF ReplyFails, NextRemoteCSeq, InDialog, TakenOK
  <2> QED
    BY <2>1, <2>3 DEF ReplyFails, TakenOK
<1>4. CASE ByeWithoutAnswer
  BY <1>4 DEF ByeWithoutAnswer, TakenOK, Parties
<1>5. CASE (\E m \in Datagrams : ReadWhileCalling(m))
         \/ (\E m \in Datagrams : ReadWhileAbsorbing(m))
         \/ (\E m \in Datagrams : ReadWhileCancelling(m))
         \/ (\E m \in Datagrams : ReadResponse(m)) \/ (\E m \in Datagrams : ReadForkedOK(m))
         \/ (\E m \in Datagrams : ReadINFOResponse(m)) \/ SendInvite \/ SendCANCEL
         \/ AckChallenge \/ AckFailure \/ AckLateFailure
         \/ (\E tagged \in BOOLEAN : AckLateSuccess(tagged))
         \/ (\E answer \in Answers : AckSuccess(answer)) \/ SendINFO \/ SendBYE
         \/ RetransmitInvite \/ HangUpRinging \/ RingTimeout \/ GiveUp \/ Retransmit \/ GapDue
         \/ HangupDue \/ BeginWait \/ AckUnroutable \/ Interrupted \/ TransportFails
         \/ WriteFails \/ MediaEnds \/ JoinMedia \/ ContextExpires \/ ContextCanceled
         \/ Finish \/ Done \/ UNCHANGED vars
  <2>1. UNCHANGED <<remoteCSeq, terminatedBy, digits>>
    BY <1>5 DEF ReadWhileCalling, ReadWhileAbsorbing, ReadWhileCancelling, ReadResponse,
         ReadForkedOK, ReadINFOResponse, SendInvite, SendCANCEL, AckChallenge, AckFailure,
         AckLateFailure, AckLateSuccess, AckSuccess, SendINFO, SendBYE, RetransmitInvite,
         HangUpRinging, RingTimeout, GiveUp, Retransmit, GapDue, HangupDue, BeginWait,
         AckUnroutable, Interrupted, TransportFails, WriteFails, MediaEnds, JoinMedia,
         ContextExpires, ContextEnds, ContextCanceled, Finish, Done, vars
  <2> QED
    BY <2>1 DEF TakenOK, Parties
<1> QED
  BY <1>1, <1>2, <1>3, <1>4, <1>5
     DEF Next, Receive, Send, Timer
-----------------------------------------------------------------------------
(* What several actions have in common. *)

OwnBYEs == {"sendBYE", "sendBYEOnce", "byeFailed", "byeLate"}

(* What a step does that gives the call up because of an error.            *)
GivesUp(error) ==
  /\ pc \in Reading \cup Sending
  /\ \/ /\ pc \in WithMedia /\ pc' = "joinMedia" /\ resume' = "byeOnce"
        /\ runErr' = runErr \cup {error}
        /\ media' \in {media, "canceled"} /\ (media = "none" => media' = media)
     \/ /\ pc \notin WithMedia /\ pc' = "returned" /\ UNCHANGED <<resume, media>>
        /\ \/ runErr' = runErr \cup {error}
           \/ pc \in {"absorb", "cancelling"} /\ runErr' = runErr
  /\ \/ bye' = bye /\ pc \notin OwnBYEs
     \/ bye' = "lost" /\ pc \in OwnBYEs
  /\ pc \in Sending => error = "transport"
  /\ UNCHANGED <<scenario, ctx, invite, digit, confirmed, highest, mediaErr, outcome>>

(* These four give up.                                                     *)
LEMMA Failing ==
  ASSUME PlaceOK,
         Interrupted \/ TransportFails \/ WriteFails \/ \E m \in Datagrams : ReplyFails(m)
  PROVE  \E error \in ErrorClasses : GivesUp(error)
<1> USE DEF Abort, StopDialog, Return
<1>1. CASE Interrupted
  <2>1. GivesUp(ctx)
    BY <1>1 DEF Interrupted, GivesUp, OwnBYEs, WithMedia, Reading, Sending, InDialogLoop
  <2> QED
    BY <1>1, <2>1, ErrorsAreClasses DEF Interrupted
<1>2. CASE TransportFails
  <2>1. GivesUp("transport")
    BY <1>2 DEF TransportFails, GivesUp, OwnBYEs, WithMedia, Reading, Sending, InDialogLoop
  <2> QED
    BY <2>1, ErrorsAreClasses
<1>3. CASE WriteFails
  <2>1. GivesUp("transport")
    BY <1>3 DEF WriteFails, GivesUp, OwnBYEs, WithMedia, Reading, Sending, InDialogLoop
  <2> QED
    BY <2>1, ErrorsAreClasses
<1>4. CASE \E m \in Datagrams : ReplyFails(m)
  <2>1. pc \in InDialogLoop \cup {"calling", "absorb"}
    BY <1>4 DEF ReplyFails, Reaction, InDialogLoop
  <2>2. GivesUp("transport")
    BY <1>4, <2>1 DEF ReplyFails, GivesUp, OwnBYEs, WithMedia, Reading, Sending, InDialogLoop
  <2> QED
    BY <2>2, ErrorsAreClasses
<1> QED
  BY <1>1, <1>2, <1>3, <1>4

(* What a request of the dialog does to the call: nothing, or it ends it.  *)
Hears ==
  /\ pc \in InDialogLoop
  /\ \/ UNCHANGED <<pc, resume, media, runErr, terminatedBy>>
     \/ /\ terminatedBy' = "SUT" /\ runErr' = runErr
        /\ \/ pc = "waitBYE" /\ pc' = "returned" /\ UNCHANGED <<resume, media>>
           \/ /\ pc # "waitBYE" /\ pc' = "joinMedia" /\ resume' = "end"
              /\ media' \in {media, "canceled"} /\ (media = "none" => media' = media)
  /\ UNCHANGED <<scenario, ctx, invite, sending, mediaErr, finalStatus, established, canceled>>

(* ReadRequest does that.                                                  *)
LEMMA Hearing ==
  ASSUME \E m \in Datagrams : ReadRequest(m) PROVE Hears
<1>1. PICK m \in Datagrams : ReadRequest(m)
  OBVIOUS
<1>2. CASE EndsDialog(m, FALSE, remoteCSeq)
  <2>1. terminatedBy' = "SUT"
    BY <1>1, <1>2 DEF ReadRequest, TakeRequest
  <2>2. IF pc = "waitBYE" THEN Return({}) ELSE StopDialog("end", {})
    BY <1>1, <1>2 DEF ReadRequest, PeerEnded
  <2>3. pc \in InDialogLoop
        /\ UNCHANGED <<scenario, ctx, invite, sending, mediaErr, finalStatus, established, canceled>>
    BY <1>1 DEF ReadRequest
  <2> QED
    BY <2>1, <2>2, <2>3 DEF Hears, Return, StopDialog
<1>3. CASE ~EndsDialog(m, FALSE, remoteCSeq)
  <2>1. UNCHANGED <<pc, resume, media, runErr, terminatedBy>>
    BY <1>1, <1>3 DEF ReadRequest, TakeRequest
  <2>2. pc \in InDialogLoop
        /\ UNCHANGED <<scenario, ctx, invite, sending, mediaErr, finalStatus, established, canceled>>
    BY <1>1 DEF ReadRequest
  <2> QED
    BY <2>1, <2>2 DEF Hears
<1> QED
  BY <1>2, <1>3

-----------------------------------------------------------------------------
(* Stages. *)

(* Every step leads to a stage where what the stage promises is known.     *)
LEMMA StepKeepsStages ==
  ASSUME PlaceOK, InviteOK, Stages, InfoSent, Released, [Next]_vars
  PROVE  Stages'
<1> USE DEF Ringing, TimedOut, Failed, BeforeCall, InCall, Over, WithMedia, InDialogLoop, Reading, Sending, OwnBYEs
<1>1. CASE \E m \in Datagrams : ReadWhileCalling(m)
  BY <1>1 DEF ReadWhileCalling, FinalResponse, Challenge, IsMatching, Stages
<1>2. CASE \E m \in Datagrams : ReadWhileCancelling(m)
  BY <1>2 DEF ReadWhileCancelling, FinalResponse, Stages
<1>3. CASE \E m \in Datagrams : ReadRequest(m)
  <2>1. Hears
    BY <1>3, Hearing
  <2> QED
    BY <2>1 DEF Hears, Stages
<1>4. CASE \E m \in Datagrams : ReadForkedOK(m)
  BY <1>4 DEF ReadForkedOK, StopDialog, Stages
<1>5. CASE \E m \in Datagrams : ReadINFOResponse(m)
  BY <1>5 DEF ReadINFOResponse, StopDialog, AfterINFO, NextStep, Stages
<1>6. CASE \E m \in Datagrams : ReadBYEResponse(m)
  BY <1>6 DEF ReadBYEResponse, Stages
<1>7. CASE SendInvite
  BY <1>7 DEF SendInvite, Stages
<1>8. CASE SendCANCEL
  BY <1>8 DEF SendCANCEL, Stages
<1>9. CASE AckChallenge
  BY <1>9 DEF AckChallenge, Stages
<1>10. CASE AckFailure
  BY <1>10 DEF AckFailure, Mismatch, Stages
<1>11. CASE AckLateFailure
  BY <1>11 DEF AckLateFailure, Stages
<1>12. CASE \E tagged \in BOOLEAN : AckLateSuccess(tagged)
  BY <1>12 DEF AckLateSuccess, Stages
<1>13. CASE \E answer \in Answers : AckSuccess(answer)
  BY <1>13 DEF AckSuccess, Refusal, Mismatch, NextStep, DialogCSeq, Stages
<1>14. CASE ByeWithoutAnswer
  BY <1>14 DEF ByeWithoutAnswer, Stages
<1>15. CASE SendINFO
  BY <1>15 DEF SendINFO, Stages
<1>16. CASE SendBYE
  BY <1>16 DEF SendBYE, Stages
<1>17. CASE HangUpRinging
  BY <1>17 DEF HangUpRinging, Stages
<1>18. CASE RingTimeout
  BY <1>18 DEF RingTimeout, Stages
<1>19. CASE GiveUp
  BY <1>19 DEF GiveUp, Stages
<1>20. CASE GapDue
  BY <1>20 DEF GapDue, Stages
<1>21. CASE HangupDue
  BY <1>21 DEF HangupDue, StopDialog, Stages
<1>22. CASE BeginWait
  BY <1>22 DEF BeginWait, StopDialog, Stages
<1>23. CASE AckUnroutable
  BY <1>23 DEF AckUnroutable, Return, Stages
<1>24. CASE Interrupted \/ TransportFails \/ WriteFails \/ \E m \in Datagrams : ReplyFails(m)
  <2>1. PICK error \in ErrorClasses : GivesUp(error)
    BY <1>24, Failing
  <2> QED
    BY <2>1 DEF GivesUp, Stages
<1>25. CASE JoinMedia
  BY <1>25 DEF JoinMedia, Released, Stages
<1>26. CASE Finish
  BY <1>26 DEF Finish, Stages
<1>27. CASE (\E m \in Datagrams : ReadWhileAbsorbing(m))
         \/ (\E m \in Datagrams : ReadResponse(m)) \/ RetransmitInvite \/ Retransmit
         \/ MediaEnds \/ ContextExpires \/ ContextCanceled \/ Done \/ UNCHANGED vars
  <2>1. UNCHANGED <<scenario, pc, resume, finalStatus, established, bye, terminatedBy,
       digit, confirmed, cseq, runErr>>
    BY <1>27 DEF ReadWhileAbsorbing, ReadResponse, RetransmitInvite, Retransmit, MediaEnds,
         ContextExpires, ContextEnds, ContextCanceled, Done, vars
  <2> QED
    BY <2>1 DEF Stages
<1> QED
  BY <1>1, <1>2, <1>3, <1>4, <1>5, <1>6, <1>7, <1>8, <1>9, <1>10, <1>11, <1>12, <1>13,
       <1>14, <1>15, <1>16, <1>17, <1>18, <1>19, <1>20, <1>21, <1>22, <1>23, <1>24, <1>25,
            <1>26,
       <1>27
     DEF Next, Receive, Send, Timer

(* Media runs only where the session will come to join it.                 *)
LEMMA StepKeepsMediaAccounted ==
  ASSUME PlaceOK, MediaAccounted, [Next]_vars
  PROVE  MediaAccounted'
<1>1. CASE \E m \in Datagrams : ReadWhileCalling(m)
  BY <1>1 DEF ReadWhileCalling, FinalResponse, Challenge, IsMatching, MediaAccounted,
       InDialogLoop, Reading, Sending, OwnBYEs, WithMedia
<1>2. CASE \E m \in Datagrams : ReadWhileCancelling(m)
  BY <1>2 DEF ReadWhileCancelling, FinalResponse, MediaAccounted, InDialogLoop, Reading,
       Sending, OwnBYEs, WithMedia
<1>3. CASE \E m \in Datagrams : ReadRequest(m)
  <2>1. Hears
    BY <1>3, Hearing
  <2> QED
    BY <2>1 DEF Hears, MediaAccounted, InDialogLoop, Reading, Sending, OwnBYEs, WithMedia
<1>4. CASE \E m \in Datagrams : ReadForkedOK(m)
  BY <1>4 DEF ReadForkedOK, StopDialog, MediaAccounted, InDialogLoop, Reading, Sending,
       OwnBYEs, WithMedia
<1>5. CASE \E m \in Datagrams : ReadINFOResponse(m)
  BY <1>5 DEF ReadINFOResponse, StopDialog, AfterINFO, NextStep, MediaAccounted,
       InDialogLoop, Reading, Sending, OwnBYEs, WithMedia
<1>6. CASE \E m \in Datagrams : ReadBYEResponse(m)
  BY <1>6 DEF ReadBYEResponse, MediaAccounted, InDialogLoop, Reading, Sending, OwnBYEs,
       WithMedia
<1>7. CASE SendInvite
  BY <1>7 DEF SendInvite, MediaAccounted, InDialogLoop, Reading, Sending, OwnBYEs, WithMedia
<1>8. CASE SendCANCEL
  BY <1>8 DEF SendCANCEL, MediaAccounted, InDialogLoop, Reading, Sending, OwnBYEs, WithMedia
<1>9. CASE AckChallenge
  BY <1>9 DEF AckChallenge, MediaAccounted, InDialogLoop, Reading, Sending, OwnBYEs, WithMedia
<1>10. CASE AckFailure
  BY <1>10 DEF AckFailure, Mismatch, MediaAccounted, InDialogLoop, Reading, Sending,
       OwnBYEs, WithMedia
<1>11. CASE AckLateFailure
  BY <1>11 DEF AckLateFailure, MediaAccounted, InDialogLoop, Reading, Sending, OwnBYEs,
       WithMedia
<1>12. CASE \E tagged \in BOOLEAN : AckLateSuccess(tagged)
  BY <1>12 DEF AckLateSuccess, MediaAccounted, InDialogLoop, Reading, Sending, OwnBYEs,
       WithMedia
<1>13. CASE \E answer \in Answers : AckSuccess(answer)
  BY <1>13 DEF AckSuccess, NextStep, MediaAccounted, WithMedia
<1>14. CASE ByeWithoutAnswer
  BY <1>14 DEF ByeWithoutAnswer, MediaAccounted, InDialogLoop, Reading, Sending, OwnBYEs,
       WithMedia
<1>15. CASE SendINFO
  BY <1>15 DEF SendINFO, MediaAccounted, InDialogLoop, Reading, Sending, OwnBYEs, WithMedia
<1>16. CASE SendBYE
  BY <1>16 DEF SendBYE, MediaAccounted, InDialogLoop, Reading, Sending, OwnBYEs, WithMedia
<1>17. CASE HangUpRinging
  BY <1>17 DEF HangUpRinging, MediaAccounted, InDialogLoop, Reading, Sending, OwnBYEs, WithMedia
<1>18. CASE RingTimeout
  BY <1>18 DEF RingTimeout, MediaAccounted, InDialogLoop, Reading, Sending, OwnBYEs, WithMedia
<1>19. CASE GiveUp
  BY <1>19 DEF GiveUp, MediaAccounted, InDialogLoop, Reading, Sending, OwnBYEs, WithMedia
<1>20. CASE GapDue
  BY <1>20 DEF GapDue, MediaAccounted, InDialogLoop, Reading, Sending, OwnBYEs, WithMedia
<1>21. CASE HangupDue
  BY <1>21 DEF HangupDue, StopDialog, MediaAccounted, InDialogLoop, Reading, Sending,
       OwnBYEs, WithMedia
<1>22. CASE BeginWait
  BY <1>22 DEF BeginWait, StopDialog, MediaAccounted, InDialogLoop, Reading, Sending,
       OwnBYEs, WithMedia
<1>23. CASE AckUnroutable
  BY <1>23 DEF AckUnroutable, Return, MediaAccounted, InDialogLoop, Reading, Sending,
       OwnBYEs, WithMedia
<1>24. CASE Interrupted \/ TransportFails \/ WriteFails \/ \E m \in Datagrams : ReplyFails(m)
  <2>1. PICK error \in ErrorClasses : GivesUp(error)
    BY <1>24, Failing
  <2> QED
    BY <2>1 DEF GivesUp, MediaAccounted, InDialogLoop, Reading, Sending, OwnBYEs, WithMedia
<1>25. CASE MediaEnds
  BY <1>25 DEF MediaEnds, MediaResults, MediaAccounted, InDialogLoop, Reading, Sending,
       OwnBYEs, WithMedia
<1>26. CASE JoinMedia
  BY <1>26 DEF JoinMedia, MediaAccounted, InDialogLoop, Reading, Sending, OwnBYEs, WithMedia
<1>27. CASE Finish
  BY <1>27 DEF Finish, MediaAccounted, InDialogLoop, Reading, Sending, OwnBYEs, WithMedia
<1>28. CASE (\E m \in Datagrams : ReadWhileAbsorbing(m))
         \/ (\E m \in Datagrams : ReadResponse(m)) \/ RetransmitInvite \/ Retransmit
         \/ ContextExpires \/ ContextCanceled \/ Done \/ UNCHANGED vars
  <2>1. UNCHANGED <<pc, media>>
    BY <1>28 DEF ReadWhileAbsorbing, ReadResponse, RetransmitInvite, Retransmit,
         ContextExpires, ContextEnds, ContextCanceled, Done, vars
  <2> QED
    BY <2>1 DEF MediaAccounted, InDialogLoop, Reading, Sending, OwnBYEs, WithMedia
<1> QED
  BY <1>1, <1>2, <1>3, <1>4, <1>5, <1>6, <1>7, <1>8, <1>9, <1>10, <1>11, <1>12, <1>13,
       <1>14, <1>15, <1>16, <1>17, <1>18, <1>19, <1>20, <1>21, <1>22, <1>23, <1>24, <1>25,
            <1>26,
       <1>27, <1>28
     DEF Next, Receive, Send, Timer

(* A final response is owed its ACK only where the ACK is sent next.       *)
LEMMA StepKeepsAcknowledged ==
  ASSUME PlaceOK, InviteOK, Stages, Acknowledged, [Next]_vars
  PROVE  Acknowledged'
<1> USE DEF Ringing, TimedOut, Failed, BeforeCall, InCall, Over, WithMedia, InDialogLoop, Reading, Sending, OwnBYEs
<1>1. CASE \E m \in Datagrams : ReadWhileCalling(m)
  BY <1>1 DEF ReadWhileCalling, FinalResponse, Challenge, IsMatching, Acknowledged, OwesACK
<1>2. CASE \E m \in Datagrams : ReadWhileCancelling(m)
  BY <1>2 DEF ReadWhileCancelling, FinalResponse, Acknowledged, OwesACK
<1>3. CASE \E m \in Datagrams : ReadRequest(m)
  <2>1. Hears
    BY <1>3, Hearing
  <2> QED
    BY <2>1 DEF Hears, Acknowledged, OwesACK
<1>4. CASE \E m \in Datagrams : ReadForkedOK(m)
  BY <1>4 DEF ReadForkedOK, StopDialog, Acknowledged, OwesACK
<1>5. CASE \E m \in Datagrams : ReadINFOResponse(m)
  BY <1>5 DEF ReadINFOResponse, StopDialog, AfterINFO, NextStep, Acknowledged, OwesACK
<1>6. CASE \E m \in Datagrams : ReadBYEResponse(m)
  BY <1>6 DEF ReadBYEResponse, Acknowledged, OwesACK
<1>7. CASE SendInvite
  BY <1>7 DEF SendInvite, Acknowledged, OwesACK
<1>8. CASE SendCANCEL
  BY <1>8 DEF SendCANCEL, Acknowledged, OwesACK
<1>9. CASE AckChallenge
  BY <1>9 DEF AckChallenge, Acknowledged, OwesACK
<1>10. CASE AckFailure
  BY <1>10 DEF AckFailure, Mismatch, Acknowledged, OwesACK
<1>11. CASE AckLateFailure
  BY <1>11 DEF AckLateFailure, Acknowledged, OwesACK
<1>12. CASE \E tagged \in BOOLEAN : AckLateSuccess(tagged)
  BY <1>12 DEF AckLateSuccess, Acknowledged, OwesACK
<1>13. CASE \E answer \in Answers : AckSuccess(answer)
  BY <1>13 DEF AckSuccess, Refusal, Mismatch, NextStep, DialogCSeq, Acknowledged, OwesACK
<1>14. CASE ByeWithoutAnswer
  BY <1>14 DEF ByeWithoutAnswer, Acknowledged, OwesACK
<1>15. CASE SendINFO
  BY <1>15 DEF SendINFO, Acknowledged, OwesACK
<1>16. CASE SendBYE
  BY <1>16 DEF SendBYE, Acknowledged, OwesACK
<1>17. CASE HangUpRinging
  BY <1>17 DEF HangUpRinging, Acknowledged, OwesACK
<1>18. CASE RingTimeout
  BY <1>18 DEF RingTimeout, Acknowledged, OwesACK
<1>19. CASE GiveUp
  BY <1>19 DEF GiveUp, Acknowledged, OwesACK
<1>20. CASE GapDue
  BY <1>20 DEF GapDue, Acknowledged, OwesACK
<1>21. CASE HangupDue
  BY <1>21 DEF HangupDue, StopDialog, Acknowledged, OwesACK
<1>22. CASE BeginWait
  BY <1>22 DEF BeginWait, StopDialog, Acknowledged, OwesACK
<1>23. CASE AckUnroutable
  BY <1>23 DEF AckUnroutable, Return, Acknowledged, Stages, OwesACK
<1>24. CASE Interrupted \/ TransportFails \/ WriteFails \/ \E m \in Datagrams : ReplyFails(m)
  <2>1. PICK error \in ErrorClasses : GivesUp(error)
    BY <1>24, Failing
  <2> QED
    BY <2>1 DEF GivesUp, Acknowledged, OwesACK
<1>25. CASE JoinMedia
  BY <1>25 DEF JoinMedia, Acknowledged, OwesACK
<1>26. CASE Finish
  BY <1>26 DEF Finish, Acknowledged, OwesACK
<1>27. CASE (\E m \in Datagrams : ReadWhileAbsorbing(m))
         \/ (\E m \in Datagrams : ReadResponse(m)) \/ RetransmitInvite \/ Retransmit
         \/ MediaEnds \/ ContextExpires \/ ContextCanceled \/ Done \/ UNCHANGED vars
  <2>1. UNCHANGED <<pc, cseq, unacked, runErr, finalStatus, established>>
    BY <1>27 DEF ReadWhileAbsorbing, ReadResponse, RetransmitInvite, Retransmit, MediaEnds,
         ContextExpires, ContextEnds, ContextCanceled, Done, vars
  <2> QED
    BY <2>1 DEF Acknowledged, OwesACK
<1> QED
  BY <1>1, <1>2, <1>3, <1>4, <1>5, <1>6, <1>7, <1>8, <1>9, <1>10, <1>11, <1>12, <1>13,
       <1>14, <1>15, <1>16, <1>17, <1>18, <1>19, <1>20, <1>21, <1>22, <1>23, <1>24, <1>25,
            <1>26,
       <1>27
     DEF Next, Receive, Send, Timer

(* A call is left only with a BYE tried, or ended by the SUT.              *)
LEMMA StepKeepsReleased ==
  ASSUME PlaceOK, InviteOK, Stages, Released, [Next]_vars
  PROVE  Released'
<1> USE DEF Ringing, TimedOut, Failed, BeforeCall, InCall, Over, WithMedia, InDialogLoop, Reading, Sending, OwnBYEs
<1>1. CASE \E m \in Datagrams : ReadWhileCalling(m)
  BY <1>1 DEF ReadWhileCalling, FinalResponse, Challenge, IsMatching, Released, Stages
<1>2. CASE \E m \in Datagrams : ReadWhileCancelling(m)
  BY <1>2 DEF ReadWhileCancelling, FinalResponse, Released, Stages
<1>3. CASE \E m \in Datagrams : ReadRequest(m)
  <2>1. Hears
    BY <1>3, Hearing
  <2> QED
    BY <2>1 DEF Hears, Released, Stages
<1>4. CASE \E m \in Datagrams : ReadForkedOK(m)
  BY <1>4 DEF ReadForkedOK, StopDialog, Released, Stages
<1>5. CASE \E m \in Datagrams : ReadINFOResponse(m)
  BY <1>5 DEF ReadINFOResponse, StopDialog, AfterINFO, NextStep, Released, Stages
<1>6. CASE \E m \in Datagrams : ReadBYEResponse(m)
  BY <1>6 DEF ReadBYEResponse, Released, Stages
<1>7. CASE SendInvite
  BY <1>7 DEF SendInvite, Released, Stages
<1>8. CASE SendCANCEL
  BY <1>8 DEF SendCANCEL, Released, Stages
<1>9. CASE AckChallenge
  BY <1>9 DEF AckChallenge, Released, Stages
<1>10. CASE AckFailure
  BY <1>10 DEF AckFailure, Mismatch, Released, Stages
<1>11. CASE AckLateFailure
  BY <1>11 DEF AckLateFailure, Released, Stages
<1>12. CASE \E tagged \in BOOLEAN : AckLateSuccess(tagged)
  BY <1>12 DEF AckLateSuccess, Released, Stages
<1>13. CASE \E answer \in Answers : AckSuccess(answer)
  BY <1>13 DEF AckSuccess, Refusal, Mismatch, NextStep, DialogCSeq, Released, Stages
<1>14. CASE ByeWithoutAnswer
  BY <1>14 DEF ByeWithoutAnswer, Released, Stages
<1>15. CASE SendINFO
  BY <1>15 DEF SendINFO, Released, Stages
<1>16. CASE SendBYE
  BY <1>16 DEF SendBYE, Released, Stages
<1>17. CASE HangUpRinging
  BY <1>17 DEF HangUpRinging, Released, Stages
<1>18. CASE RingTimeout
  BY <1>18 DEF RingTimeout, Released, Stages
<1>19. CASE GiveUp
  BY <1>19 DEF GiveUp, Released, Stages
<1>20. CASE GapDue
  BY <1>20 DEF GapDue, Released, Stages
<1>21. CASE HangupDue
  BY <1>21 DEF HangupDue, StopDialog, Released, Stages
<1>22. CASE BeginWait
  BY <1>22 DEF BeginWait, StopDialog, Released, Stages
<1>23. CASE AckUnroutable
  BY <1>23 DEF AckUnroutable, Return, Released, Stages
<1>24. CASE Interrupted \/ TransportFails \/ WriteFails \/ \E m \in Datagrams : ReplyFails(m)
  <2>1. PICK error \in ErrorClasses : GivesUp(error)
    BY <1>24, Failing
  <2> QED
    BY <2>1 DEF GivesUp, Released, Stages
<1>25. CASE JoinMedia
  BY <1>25 DEF JoinMedia, Released, Stages
<1>26. CASE Finish
  BY <1>26 DEF Finish, Released, Stages
<1>27. CASE (\E m \in Datagrams : ReadWhileAbsorbing(m))
         \/ (\E m \in Datagrams : ReadResponse(m)) \/ RetransmitInvite \/ Retransmit
         \/ MediaEnds \/ ContextExpires \/ ContextCanceled \/ Done \/ UNCHANGED vars
  <2>1. UNCHANGED <<pc, resume, established, bye, terminatedBy, runErr, untagged>>
    BY <1>27 DEF ReadWhileAbsorbing, ReadResponse, RetransmitInvite, Retransmit, MediaEnds,
         ContextExpires, ContextEnds, ContextCanceled, Done, vars
  <2> QED
    BY <2>1 DEF Released, Stages
<1> QED
  BY <1>1, <1>2, <1>3, <1>4, <1>5, <1>6, <1>7, <1>8, <1>9, <1>10, <1>11, <1>12, <1>13,
       <1>14, <1>15, <1>16, <1>17, <1>18, <1>19, <1>20, <1>21, <1>22, <1>23, <1>24, <1>25,
            <1>26,
       <1>27
     DEF Next, Receive, Send, Timer

(* A session ends without an error only if the call went as expected.      *)
LEMMA StepKeepsConcluded ==
  ASSUME PlaceOK, InviteOK, Stages, Released, Concluded, [Next]_vars
  PROVE  Concluded'
<1> USE DEF Ringing, TimedOut, Failed, BeforeCall, InCall, Over, WithMedia, InDialogLoop, Reading, Sending, OwnBYEs
<1>1. CASE \E m \in Datagrams : ReadWhileCalling(m)
  BY <1>1 DEF ReadWhileCalling, FinalResponse, Challenge, IsMatching, Concluded, Stages,
       Released
<1>2. CASE \E m \in Datagrams : ReadWhileCancelling(m)
  BY <1>2 DEF ReadWhileCancelling, FinalResponse, Concluded, Stages, Released
<1>3. CASE \E m \in Datagrams : ReadRequest(m)
  <2>1. Hears
    BY <1>3, Hearing
  <2> QED
    BY <2>1 DEF Hears, Concluded, Stages, Released
<1>4. CASE \E m \in Datagrams : ReadForkedOK(m)
  BY <1>4 DEF ReadForkedOK, StopDialog, Concluded, Stages, Released
<1>5. CASE \E m \in Datagrams : ReadINFOResponse(m)
  BY <1>5 DEF ReadINFOResponse, StopDialog, AfterINFO, NextStep, Concluded, Stages, Released
<1>6. CASE \E m \in Datagrams : ReadBYEResponse(m)
  BY <1>6 DEF ReadBYEResponse, Concluded, Stages, Released
<1>7. CASE SendInvite
  BY <1>7 DEF SendInvite, Concluded, Stages, Released
<1>8. CASE SendCANCEL
  BY <1>8 DEF SendCANCEL, Concluded, Stages, Released
<1>9. CASE AckChallenge
  BY <1>9 DEF AckChallenge, Concluded, Stages, Released
<1>10. CASE AckFailure
  BY <1>10 DEF AckFailure, Mismatch, Concluded, Stages, Released
<1>11. CASE AckLateFailure
  BY <1>11 DEF AckLateFailure, Concluded, Stages, Released
<1>12. CASE \E tagged \in BOOLEAN : AckLateSuccess(tagged)
  BY <1>12 DEF AckLateSuccess, Concluded, Stages, Released
<1>13. CASE \E answer \in Answers : AckSuccess(answer)
  BY <1>13 DEF AckSuccess, Refusal, Mismatch, NextStep, DialogCSeq, Concluded, Stages, Released
<1>14. CASE ByeWithoutAnswer
  BY <1>14 DEF ByeWithoutAnswer, Concluded, Stages, Released
<1>15. CASE SendINFO
  BY <1>15 DEF SendINFO, Concluded, Stages, Released
<1>16. CASE SendBYE
  BY <1>16 DEF SendBYE, Concluded, Stages, Released
<1>17. CASE HangUpRinging
  BY <1>17 DEF HangUpRinging, Concluded, Stages, Released
<1>18. CASE RingTimeout
  BY <1>18 DEF RingTimeout, Concluded, Stages, Released
<1>19. CASE GiveUp
  BY <1>19 DEF GiveUp, Concluded, Stages, Released
<1>20. CASE GapDue
  BY <1>20 DEF GapDue, Concluded, Stages, Released
<1>21. CASE HangupDue
  BY <1>21 DEF HangupDue, StopDialog, Concluded, Stages, Released
<1>22. CASE BeginWait
  BY <1>22 DEF BeginWait, StopDialog, Concluded, Stages, Released
<1>23. CASE AckUnroutable
  BY <1>23 DEF AckUnroutable, Return, Concluded, Stages, Released
<1>24. CASE Interrupted \/ TransportFails \/ WriteFails \/ \E m \in Datagrams : ReplyFails(m)
  <2>1. PICK error \in ErrorClasses : GivesUp(error)
    BY <1>24, Failing
  <2> QED
    BY <2>1 DEF GivesUp, Concluded, Stages, Released
<1>25. CASE JoinMedia
  BY <1>25 DEF JoinMedia, Concluded, Stages, Released
<1>26. CASE Finish
  BY <1>26 DEF Finish, Concluded, Stages, Released
<1>27. CASE (\E m \in Datagrams : ReadWhileAbsorbing(m))
         \/ (\E m \in Datagrams : ReadResponse(m)) \/ RetransmitInvite \/ Retransmit
         \/ MediaEnds \/ ContextExpires \/ ContextCanceled \/ Done \/ UNCHANGED vars
  <2>1. UNCHANGED <<scenario, pc, finalStatus, established, bye, terminatedBy, runErr>>
    BY <1>27 DEF ReadWhileAbsorbing, ReadResponse, RetransmitInvite, Retransmit, MediaEnds,
         ContextExpires, ContextEnds, ContextCanceled, Done, vars
  <2> QED
    BY <2>1 DEF Concluded, Stages, Released
<1> QED
  BY <1>1, <1>2, <1>3, <1>4, <1>5, <1>6, <1>7, <1>8, <1>9, <1>10, <1>11, <1>12, <1>13,
       <1>14, <1>15, <1>16, <1>17, <1>18, <1>19, <1>20, <1>21, <1>22, <1>23, <1>24, <1>25,
            <1>26,
       <1>27
     DEF Next, Receive, Send, Timer

(* INFO digits are confirmed before the call goes on.                      *)
LEMMA StepKeepsInfoSent ==
  ASSUME PlaceOK, scenario \in Scenarios, SentOK, Stages, Released, InfoSent, [Next]_vars
  PROVE  InfoSent'
<1> USE DEF Ringing, TimedOut, Failed, BeforeCall, InCall, Over, WithMedia, InDialogLoop, Reading, Sending, OwnBYEs
<1>1. CASE \E m \in Datagrams : ReadWhileCalling(m)
  BY <1>1 DEF ReadWhileCalling, FinalResponse, Challenge, IsMatching, InfoSent, Stages, Released
<1>2. CASE \E m \in Datagrams : ReadWhileCancelling(m)
  BY <1>2 DEF ReadWhileCancelling, FinalResponse, InfoSent, Stages, Released
<1>3. CASE \E m \in Datagrams : ReadRequest(m)
  <2>1. Hears
    BY <1>3, Hearing
  <2> QED
    BY <2>1 DEF Hears, InfoSent, Stages, Released
<1>4. CASE \E m \in Datagrams : ReadForkedOK(m)
  BY <1>4 DEF ReadForkedOK, StopDialog, InfoSent, Stages, Released
<1>5. CASE \E m \in Datagrams : ReadINFOResponse(m)
  <2>1. PICK m \in Datagrams : ReadINFOResponse(m)
    BY <1>5
  <2>2. pc = "waitINFO" /\ UNCHANGED <<scenario, digit, terminatedBy>>
    BY <2>1 DEF ReadINFOResponse
  <2>3. digit = confirmed + 1 /\ digit \in 1 .. Len(scenario.info) /\ terminatedBy = "NoParty"
        /\ Len(scenario.info) \in Nat
    BY <2>2, LengthIsTyped DEF InfoSent, SentOK, Released
  <2>4. \/ pc' = "joinMedia" /\ resume' = "byeOnce" /\ confirmed' = confirmed
        \/ pc' = AfterINFO /\ confirmed' = confirmed + 1
        \/ UNCHANGED <<pc, resume, confirmed>>
    BY <2>1 DEF ReadINFOResponse, StopDialog
  <2>5. CASE pc' = AfterINFO /\ confirmed' = confirmed + 1
    <3>1. scenario.info[digit] => digit < Len(scenario.info)
      <4>1. scenario.info # <<>> => ~scenario.info[Len(scenario.info)]
        BY ScenariosAssumption
      <4> QED
        BY <2>3, <4>1, ScenariosAssumption DEF Scenario
    <3>2. \/ pc' \in {"gap", "sendINFO"} /\ digit < Len(scenario.info)
          \/ pc' = "beginWait" /\ digit = Len(scenario.info)
      BY <2>3, <2>5, <3>1 DEF AfterINFO, NextStep
    <3> QED
      BY <2>2, <2>3, <2>5, <3>2 DEF InfoSent
  <2>6. CASE ~(pc' = AfterINFO /\ confirmed' = confirmed + 1)
    BY <2>2, <2>3, <2>4, <2>6 DEF InfoSent
  <2> QED
    BY <2>5, <2>6
<1>6. CASE \E m \in Datagrams : ReadBYEResponse(m)
  BY <1>6 DEF ReadBYEResponse, InfoSent, Stages, Released
<1>7. CASE SendInvite
  BY <1>7 DEF SendInvite, InfoSent, Stages, Released
<1>8. CASE SendCANCEL
  BY <1>8 DEF SendCANCEL, InfoSent, Stages, Released
<1>9. CASE AckChallenge
  BY <1>9 DEF AckChallenge, InfoSent, Stages, Released
<1>10. CASE AckFailure
  BY <1>10 DEF AckFailure, Mismatch, InfoSent, Stages, Released
<1>11. CASE AckLateFailure
  BY <1>11 DEF AckLateFailure, InfoSent, Stages, Released
<1>12. CASE \E tagged \in BOOLEAN : AckLateSuccess(tagged)
  BY <1>12 DEF AckLateSuccess, InfoSent, Stages, Released
<1>13. CASE \E answer \in Answers : AckSuccess(answer)
  BY <1>13 DEF AckSuccess, Refusal, Mismatch, NextStep, DialogCSeq, InfoSent, Stages, Released
<1>14. CASE ByeWithoutAnswer
  BY <1>14 DEF ByeWithoutAnswer, InfoSent, Stages, Released
<1>15. CASE SendINFO
  BY <1>15 DEF SendINFO, InfoSent, Stages, Released
<1>16. CASE SendBYE
  BY <1>16 DEF SendBYE, InfoSent, Stages, Released
<1>17. CASE HangUpRinging
  BY <1>17 DEF HangUpRinging, InfoSent, Stages, Released
<1>18. CASE RingTimeout
  BY <1>18 DEF RingTimeout, InfoSent, Stages, Released
<1>19. CASE GiveUp
  BY <1>19 DEF GiveUp, InfoSent, Stages, Released
<1>20. CASE GapDue
  BY <1>20 DEF GapDue, InfoSent, Stages, Released
<1>21. CASE HangupDue
  BY <1>21 DEF HangupDue, StopDialog, InfoSent, Stages, Released
<1>22. CASE BeginWait
  BY <1>22 DEF BeginWait, StopDialog, InfoSent, Stages, Released
<1>23. CASE AckUnroutable
  BY <1>23 DEF AckUnroutable, Return, InfoSent, Stages, Released
<1>24. CASE Interrupted \/ TransportFails \/ WriteFails \/ \E m \in Datagrams : ReplyFails(m)
  <2>1. PICK error \in ErrorClasses : GivesUp(error)
    BY <1>24, Failing
  <2> QED
    BY <2>1 DEF GivesUp, InfoSent, Stages, Released
<1>25. CASE JoinMedia
  BY <1>25 DEF JoinMedia, InfoSent, Stages, Released
<1>26. CASE Finish
  BY <1>26 DEF Finish, InfoSent, Stages, Released
<1>27. CASE (\E m \in Datagrams : ReadWhileAbsorbing(m))
         \/ (\E m \in Datagrams : ReadResponse(m)) \/ RetransmitInvite \/ Retransmit
         \/ MediaEnds \/ ContextExpires \/ ContextCanceled \/ Done \/ UNCHANGED vars
  <2>1. UNCHANGED <<scenario, pc, resume, digit, confirmed, runErr, terminatedBy>>
    BY <1>27 DEF ReadWhileAbsorbing, ReadResponse, RetransmitInvite, Retransmit, MediaEnds,
         ContextExpires, ContextEnds, ContextCanceled, Done, vars
  <2> QED
    BY <2>1 DEF InfoSent, Stages, Released
<1> QED
  BY <1>1, <1>2, <1>3, <1>4, <1>5, <1>6, <1>7, <1>8, <1>9, <1>10, <1>11, <1>12, <1>13,
       <1>14, <1>15, <1>16, <1>17, <1>18, <1>19, <1>20, <1>21, <1>22, <1>23, <1>24, <1>25,
            <1>26,
       <1>27
     DEF Next, Receive, Send, Timer
(* CSeq numbers of the call never go back.                                 *)
LEMMA StepKeepsNumbers ==
  ASSUME PlaceOK, InviteOK, SentOK, Stages, Numbers, [Next]_vars
  PROVE  Numbers'
<1> USE DEF Ringing, TimedOut, Failed, BeforeCall, InCall, Over, WithMedia, InDialogLoop, Reading, Sending, OwnBYEs
<1>1. CASE \E m \in Datagrams : ReadWhileCalling(m)
  BY <1>1 DEF ReadWhileCalling, FinalResponse, Challenge, IsMatching, Numbers, InviteOK, SentOK
<1>2. CASE \E m \in Datagrams : ReadWhileCancelling(m)
  BY <1>2 DEF ReadWhileCancelling, FinalResponse, Numbers, InviteOK, SentOK
<1>3. CASE \E m \in Datagrams : ReadRequest(m)
  <2>1. Hears
    BY <1>3, Hearing
  <2> QED
    BY <2>1 DEF Hears, Numbers
<1>4. CASE \E m \in Datagrams : ReadForkedOK(m)
  BY <1>4 DEF ReadForkedOK, StopDialog, Numbers
<1>5. CASE \E m \in Datagrams : ReadINFOResponse(m)
  <2>1. PICK m \in Datagrams : ReadINFOResponse(m)
    BY <1>5
  <2>2. pc = "waitINFO" /\ UNCHANGED <<cseq, localCSeq, highest>>
    BY <2>1 DEF ReadINFOResponse
  <2>3. pc' \in {"joinMedia", "gap", "sendINFO", "beginWait", "waitINFO"}
    BY <2>1 DEF ReadINFOResponse, StopDialog, AfterINFO, NextStep
  <2> QED
    BY <2>2, <2>3 DEF Numbers
<1>6. CASE \E m \in Datagrams : ReadBYEResponse(m)
  BY <1>6 DEF ReadBYEResponse, Numbers, InviteOK, SentOK
<1>7. CASE \E m \in Datagrams : ReplyFails(m)
  <2>1. PICK error \in ErrorClasses : GivesUp(error)
    BY <1>7, Failing
  <2>2. UNCHANGED localCSeq
    BY <1>7 DEF ReplyFails
  <2> QED
    BY <2>1, <2>2 DEF GivesUp, Numbers
<1>8. CASE SendInvite
  BY <1>8, InviteCSeqAssumption DEF SendInvite, Numbers, InviteOK
<1>9. CASE SendCANCEL
  BY <1>9 DEF SendCANCEL, Numbers, InviteOK, SentOK
<1>10. CASE AckChallenge
  BY <1>10, InviteCSeqAssumption DEF AckChallenge, Numbers, InviteOK
<1>11. CASE AckFailure
  BY <1>11 DEF AckFailure, Mismatch, Numbers, InviteOK, SentOK
<1>12. CASE AckLateFailure
  BY <1>12 DEF AckLateFailure, Numbers, InviteOK, SentOK
<1>13. CASE \E tagged \in BOOLEAN : AckLateSuccess(tagged)
  BY <1>13, InviteCSeqAssumption DEF AckLateSuccess, Numbers, InviteOK
<1>14. CASE \E answer \in Answers : AckSuccess(answer)
  <2>1. PICK answer \in Answers : AckSuccess(answer)
    BY <1>14
  <2>2. pc = "ackSuccess" /\ localCSeq' = cseq /\ UNCHANGED <<cseq, highest>>
    BY <2>1 DEF AckSuccess, DialogCSeq
  <2>3. pc' \in {"sendINFO", "beginWait", "byeFailed"}
    BY <2>1 DEF AckSuccess, NextStep
  <2>4. cseq \in Int
    BY InviteCSeqAssumption DEF InviteOK
  <2> QED
    BY <2>2, <2>3, <2>4 DEF Numbers, SentOK
<1>15. CASE ByeWithoutAnswer
  BY <1>15 DEF ByeWithoutAnswer, Numbers, InviteOK, SentOK
<1>16. CASE SendINFO
  BY <1>16, InviteCSeqAssumption DEF SendINFO, Numbers, InviteOK, SentOK
<1>17. CASE SendBYE
  BY <1>17, InviteCSeqAssumption DEF SendBYE, Numbers, InviteOK, SentOK
<1>18. CASE HangUpRinging
  BY <1>18 DEF HangUpRinging, Numbers, InviteOK, SentOK
<1>19. CASE RingTimeout
  BY <1>19 DEF RingTimeout, Numbers, InviteOK, SentOK
<1>20. CASE GiveUp
  BY <1>20 DEF GiveUp, Numbers, InviteOK, SentOK
<1>21. CASE GapDue
  BY <1>21 DEF GapDue, Numbers, InviteOK, SentOK
<1>22. CASE HangupDue
  BY <1>22 DEF HangupDue, StopDialog, Numbers, InviteOK, SentOK
<1>23. CASE BeginWait
  BY <1>23 DEF BeginWait, StopDialog, Numbers, InviteOK, SentOK
<1>24. CASE AckUnroutable
  BY <1>24 DEF AckUnroutable, Return, Numbers, InviteOK, SentOK
<1>25. CASE Interrupted
  <2>1. PICK error \in ErrorClasses : GivesUp(error)
    BY <1>25, Failing
  <2>2. UNCHANGED localCSeq
    BY <1>25 DEF Interrupted
  <2> QED
    BY <2>1, <2>2 DEF GivesUp, Numbers
<1>26. CASE TransportFails
  <2>1. PICK error \in ErrorClasses : GivesUp(error)
    BY <1>26, Failing
  <2>2. UNCHANGED localCSeq
    BY <1>26 DEF TransportFails
  <2> QED
    BY <2>1, <2>2 DEF GivesUp, Numbers
<1>27. CASE WriteFails
  <2>1. PICK error \in ErrorClasses : GivesUp(error)
    BY <1>27, Failing
  <2>2. localCSeq' \in {localCSeq, localCSeq + 1}
    BY <1>27 DEF WriteFails
  <2>3. cseq \in Int
    BY InviteCSeqAssumption DEF InviteOK
  <2> QED
    BY <2>1, <2>2, <2>3 DEF GivesUp, Numbers, SentOK
<1>28. CASE JoinMedia
  BY <1>28 DEF JoinMedia, Numbers, InviteOK, SentOK
<1>29. CASE Finish
  BY <1>29 DEF Finish, Numbers, InviteOK, SentOK
<1>30. CASE (\E m \in Datagrams : ReadWhileAbsorbing(m))
         \/ (\E m \in Datagrams : ReadResponse(m)) \/ RetransmitInvite \/ Retransmit
         \/ MediaEnds \/ ContextExpires \/ ContextCanceled \/ Done \/ UNCHANGED vars
  <2>1. UNCHANGED <<pc, cseq, localCSeq, highest>>
    BY <1>30 DEF ReadWhileAbsorbing, ReadResponse, RetransmitInvite, Retransmit, MediaEnds,
         ContextExpires, ContextEnds, ContextCanceled, Done, vars
  <2> QED
    BY <2>1 DEF Numbers, InviteOK, SentOK
<1> QED
  BY <1>1, <1>2, <1>3, <1>4, <1>5, <1>6, <1>7, <1>8, <1>9, <1>10, <1>11, <1>12, <1>13,
       <1>14, <1>15, <1>16, <1>17, <1>18, <1>19, <1>20, <1>21, <1>22, <1>23, <1>24, <1>25, <1>26,
       <1>27, <1>28, <1>29, <1>30
     DEF Next, Receive, Send, Timer

-----------------------------------------------------------------------------
(* The wire. *)

(* A request of the call is a message.                                     *)
LEMMA SayIsTyped ==
  ASSUME InviteOK, SentOK
  PROVE  \A method \in RequestMethods, again \in BOOLEAN :
           /\ Say(method, cseq, again) \in Out
           /\ Say(method, localCSeq, again) \in Out
           /\ Say(method, localCSeq + 1, again) \in Out
           /\ Say(method, InviteCSeq, again) \in Out
<1>1. {cseq, localCSeq, localCSeq + 1, InviteCSeq} \subseteq Nat
  BY InviteCSeqAssumption DEF InviteOK, SentOK
<1> QED
  BY <1>1 DEF Say, Out

(* One message on the wire.                                                *)
LEMMA EmitIsTyped ==
  ASSUME NEW message \in Out, Emit(message) PROVE WireOK'
<1>1. <<message>> \in Seq(Out)
  OBVIOUS
<1> QED
  BY <1>1 DEF Emit, WireOK

(* What is sent back at once is well typed.                                *)
LEMMA ExchangeIsTyped ==
  ASSUME InviteOK, SentOK, NEW m \in Datagrams, Exchange(m)
  PROVE  WireOK'
<1>1. m.method \in RequestMethods /\ m.cseq \in Nat \cup {NoCSeq}
  BY DatagramsAssumption DEF Datagram
<1>2. DialogStatus(m, FALSE) \in {0} \cup Statuses
  <2>1. m.body \in Statuses
    BY DatagramsAssumption DEF Datagram, DTMFVerdicts, Statuses
  <2>2. MethodStatus(m) \in Statuses
    BY <2>1 DEF MethodStatus, Statuses
  <2>3. {200, 400, 481} \subseteq Statuses
    BY DEF Statuses
  <2> QED
    BY <2>2, <2>3, ZenonT(60) DEF DialogStatus
<1>3. Again(m) \in BOOLEAN
  BY DEF Again
<1>4. AnswerOf(m, 481, FALSE) \in Out /\ AnswerOf(m, DialogStatus(m, FALSE), Again(m)) \in Out
  <2>1. ASSUME NEW status \in {0} \cup Statuses, NEW again \in BOOLEAN
        PROVE  AnswerOf(m, status, again) \in Out
    BY <1>1 DEF AnswerOf, Out
  <2>2. 481 \in Statuses
    BY DEF Statuses
  <2> QED
    BY <1>2, <1>3, <2>1, <2>2
<1>5. Say("ACK", InviteCSeq, TRUE) \in Out /\ Say("ACK", cseq, TRUE) \in Out
  BY SayIsTyped DEF RequestMethods
<1>6. \/ Reaction(m) = <<>>
      \/ \E message \in Out : Reaction(m) = <<message>>
  BY <1>4, <1>5 DEF Reaction
<1>7. Reaction(m) \in Seq(Out)
  <2>1. CASE Reaction(m) = <<>>
    BY <2>1
  <2>2. CASE \E message \in Out : Reaction(m) = <<message>>
    <3>1. PICK message \in Out : Reaction(m) = <<message>>
      BY <2>2
    <3> QED
      BY <3>1
  <2> QED
    BY <1>6, <2>1, <2>2
<1> QED
  BY <1>7 DEF Exchange, WireOK

(* Every step puts messages on the wire.                                   *)
LEMMA StepKeepsWireOK ==
  ASSUME InviteOK, SentOK, WireOK, [Next]_vars
  PROVE  WireOK'
<1> USE DEF RequestMethods
<1>1. CASE \E m \in Datagrams : ReadForkedOK(m)
  <2>1. SayFork("ACK", cseq) \in Out /\ SayFork("BYE", cseq + 1) \in Out
    BY InviteCSeqAssumption DEF SayFork, Out, RequestMethods, InviteOK
  <2>2. \/ out' = <<>> \/ out' = <<SayFork("ACK", cseq)>>
        \/ out' = <<SayFork("ACK", cseq), SayFork("BYE", cseq + 1)>>
    BY <1>1 DEF ReadForkedOK
  <2>3. in' = "other"
    BY <1>1 DEF ReadForkedOK
  <2>4. \A a, b \in Out : <<>> \in Seq(Out) /\ <<a>> \in Seq(Out) /\ <<a, b>> \in Seq(Out)
    OBVIOUS
  <2> QED
    BY <2>1, <2>2, <2>3, <2>4 DEF WireOK
<1>2. CASE SendInvite
  <2>1. Say("INVITE", cseq, FALSE) \in Out
    BY SayIsTyped
  <2>2. Emit(Say("INVITE", cseq, FALSE))
    BY <1>2 DEF SendInvite
  <2> QED
    BY <2>1, <2>2, EmitIsTyped
<1>3. CASE SendCANCEL
  <2>1. Say("CANCEL", cseq, FALSE) \in Out
    BY SayIsTyped
  <2>2. Emit(Say("CANCEL", cseq, FALSE))
    BY <1>3 DEF SendCANCEL
  <2> QED
    BY <2>1, <2>2, EmitIsTyped
<1>4. CASE AckChallenge
  <2>1. Say("ACK", cseq, FALSE) \in Out
    BY SayIsTyped
  <2>2. Emit(Say("ACK", cseq, FALSE))
    BY <1>4 DEF AckChallenge
  <2> QED
    BY <2>1, <2>2, EmitIsTyped
<1>5. CASE AckFailure
  <2>1. Say("ACK", cseq, FALSE) \in Out
    BY SayIsTyped
  <2>2. Emit(Say("ACK", cseq, FALSE))
    BY <1>5 DEF AckFailure
  <2> QED
    BY <2>1, <2>2, EmitIsTyped
<1>6. CASE AckLateFailure
  <2>1. Say("ACK", cseq, FALSE) \in Out
    BY SayIsTyped
  <2>2. Emit(Say("ACK", cseq, FALSE))
    BY <1>6 DEF AckLateFailure
  <2> QED
    BY <2>1, <2>2, EmitIsTyped
<1>7. CASE \E tagged \in BOOLEAN : AckLateSuccess(tagged)
  <2>1. Say("ACK", cseq, FALSE) \in Out
    BY SayIsTyped
  <2>2. Emit(Say("ACK", cseq, FALSE))
    BY <1>7 DEF AckLateSuccess
  <2> QED
    BY <2>1, <2>2, EmitIsTyped
<1>8. CASE \E answer \in Answers : AckSuccess(answer)
  <2>1. Say("ACK", cseq, FALSE) \in Out
    BY SayIsTyped
  <2>2. Emit(Say("ACK", cseq, FALSE))
    BY <1>8 DEF AckSuccess
  <2> QED
    BY <2>1, <2>2, EmitIsTyped
<1>9. CASE ByeWithoutAnswer
  <2>1. Say("BYE", localCSeq + 1, FALSE) \in Out
    BY SayIsTyped
  <2>2. Emit(Say("BYE", localCSeq + 1, FALSE))
    BY <1>9 DEF ByeWithoutAnswer
  <2> QED
    BY <2>1, <2>2, EmitIsTyped
<1>10. CASE SendINFO
  <2>1. Say("INFO", localCSeq + 1, FALSE) \in Out
    BY SayIsTyped
  <2>2. Emit(Say("INFO", localCSeq + 1, FALSE))
    BY <1>10 DEF SendINFO
  <2> QED
    BY <2>1, <2>2, EmitIsTyped
<1>11. CASE SendBYE
  <2>1. Say("BYE", localCSeq + 1, FALSE) \in Out
    BY SayIsTyped
  <2>2. Emit(Say("BYE", localCSeq + 1, FALSE))
    BY <1>11 DEF SendBYE
  <2> QED
    BY <2>1, <2>2, EmitIsTyped
<1>12. CASE RetransmitInvite
  <2>1. Say("INVITE", cseq, TRUE) \in Out
    BY SayIsTyped
  <2>2. Emit(Say("INVITE", cseq, TRUE))
    BY <1>12 DEF RetransmitInvite
  <2> QED
    BY <2>1, <2>2, EmitIsTyped
<1>13. CASE Retransmit
  <2>1. Say("BYE", localCSeq, TRUE) \in Out /\ Say("INFO", localCSeq, TRUE) \in Out
    BY SayIsTyped
  <2>2. Emit(Say("BYE", localCSeq, TRUE)) \/ Emit(Say("INFO", localCSeq, TRUE))
    BY <1>13 DEF Retransmit
  <2> QED
    BY <2>1, <2>2, EmitIsTyped
<1>14. CASE (\E m \in Datagrams : ReplyFails(m)) \/ HangUpRinging \/ RingTimeout \/ GiveUp
         \/ GapDue \/ HangupDue \/ BeginWait \/ AckUnroutable \/ Interrupted
         \/ TransportFails \/ WriteFails \/ MediaEnds \/ JoinMedia \/ ContextExpires
         \/ ContextCanceled \/ Finish
  <2>1. Quiet
    BY <1>14 DEF HangUpRinging, RingTimeout, GiveUp, GapDue, HangupDue, BeginWait,
         AckUnroutable, Interrupted, TransportFails, WriteFails, MediaEnds, JoinMedia,
         ContextExpires, ContextCanceled, Finish, ReplyFails, ContextEnds
  <2> QED
    BY <2>1 DEF Quiet, WireOK
<1>15. CASE (\E m \in Datagrams : ReadWhileCalling(m))
         \/ (\E m \in Datagrams : ReadWhileAbsorbing(m))
         \/ (\E m \in Datagrams : ReadWhileCancelling(m))
         \/ (\E m \in Datagrams : ReadRequest(m)) \/ (\E m \in Datagrams : ReadResponse(m))
         \/ (\E m \in Datagrams : ReadINFOResponse(m))
         \/ (\E m \in Datagrams : ReadBYEResponse(m))
  <2>1. PICK m \in Datagrams : Exchange(m)
    BY <1>15 DEF ReadWhileCalling, ReadWhileAbsorbing, ReadWhileCancelling, ReadRequest,
         ReadResponse, ReadINFOResponse, ReadBYEResponse
  <2> QED
    BY <2>1, ExchangeIsTyped
<1>16. CASE Done \/ UNCHANGED vars
  BY <1>16 DEF Done, vars, WireOK
<1> QED
  BY <1>1, <1>2, <1>3, <1>4, <1>5, <1>6, <1>7, <1>8, <1>9, <1>10, <1>11, <1>12, <1>13,
       <1>14, <1>15, <1>16
     DEF Next, Receive, Send, Timer

(* A new request of the call has a new CSeq number.                        *)
Fresh(message) ==
  message.status = 0 /\ message.to = "call" /\ ~message.again =>
    IF message.method \in {"ACK", "CANCEL"} THEN message.cseq = cseq
    ELSE message.cseq > highest

(* On a wire with one message it is the only one.                          *)
LEMMA OneMessage == \A message : \A i \in DOMAIN <<message>> : <<message>>[i] = message
OBVIOUS

(* What is sent back at once is an answer, or an ACK again.                *)
LEMMA ExchangeIsFresh ==
  ASSUME NEW m \in Datagrams, Exchange(m)
  PROVE  \A i \in DOMAIN out' : Fresh(out'[i])
<1>1. Fresh(AnswerOf(m, 481, FALSE)) /\ Fresh(Say("ACK", InviteCSeq, TRUE)) /\ Fresh(Say("ACK", cseq, TRUE))
  BY DEF Fresh, AnswerOf, Say
<1>2. DialogStatus(m, FALSE) # 0 => Fresh(AnswerOf(m, DialogStatus(m, FALSE), Again(m)))
  BY DEF Fresh, AnswerOf
<1>3. out' = <<>> \/ \E message : Fresh(message) /\ out' = <<message>>
  BY <1>1, <1>2 DEF Exchange, Reaction
<1> QED
  BY <1>3, OneMessage

(* Every step sends new numbers.                                           *)
LEMMA StepIsFresh ==
  ASSUME PlaceOK, InviteOK, SentOK, Numbers, Next, vars' # vars
  PROVE  \A i \in DOMAIN out' : Fresh(out'[i])
<1> USE DEF Ringing, TimedOut, Failed, BeforeCall, InCall, Over, WithMedia, InDialogLoop, Reading, Sending, OwnBYEs
<1>1. CASE \E m \in Datagrams : ReadForkedOK(m)
  <2>1. \/ out' = <<>> \/ out' = <<SayFork("ACK", cseq)>>
        \/ out' = <<SayFork("ACK", cseq), SayFork("BYE", cseq + 1)>>
    BY <1>1 DEF ReadForkedOK
  <2> QED
    BY <2>1 DEF SayFork, Fresh
<1>2. CASE SendInvite
  <2>1. Emit(Say("INVITE", cseq, FALSE))
    BY <1>2 DEF SendInvite
  <2>2. cseq > highest
    BY <1>2, InviteCSeqAssumption DEF SendInvite, Numbers, InviteOK, SentOK
  <2> QED
    BY <2>1, <2>2, OneMessage DEF Emit, Say, Fresh
<1>3. CASE SendCANCEL
  <2>1. Emit(Say("CANCEL", cseq, FALSE))
    BY <1>3 DEF SendCANCEL
  <2> QED
    BY <2>1, OneMessage DEF Emit, Say, Fresh
<1>4. CASE AckChallenge
  <2>1. Emit(Say("ACK", cseq, FALSE))
    BY <1>4 DEF AckChallenge
  <2> QED
    BY <2>1, OneMessage DEF Emit, Say, Fresh
<1>5. CASE AckFailure
  <2>1. Emit(Say("ACK", cseq, FALSE))
    BY <1>5 DEF AckFailure
  <2> QED
    BY <2>1, OneMessage DEF Emit, Say, Fresh
<1>6. CASE AckLateFailure
  <2>1. Emit(Say("ACK", cseq, FALSE))
    BY <1>6 DEF AckLateFailure
  <2> QED
    BY <2>1, OneMessage DEF Emit, Say, Fresh
<1>7. CASE \E tagged \in BOOLEAN : AckLateSuccess(tagged)
  <2>1. Emit(Say("ACK", cseq, FALSE))
    BY <1>7 DEF AckLateSuccess
  <2> QED
    BY <2>1, OneMessage DEF Emit, Say, Fresh
<1>8. CASE \E answer \in Answers : AckSuccess(answer)
  <2>1. Emit(Say("ACK", cseq, FALSE))
    BY <1>8 DEF AckSuccess
  <2> QED
    BY <2>1, OneMessage DEF Emit, Say, Fresh
<1>9. CASE ByeWithoutAnswer
  <2>1. Emit(Say("BYE", localCSeq + 1, FALSE))
    BY <1>9 DEF ByeWithoutAnswer
  <2>2. localCSeq + 1 > highest
    BY <1>9 DEF ByeWithoutAnswer, Numbers, InviteOK, SentOK
  <2> QED
    BY <2>1, <2>2, OneMessage DEF Emit, Say, Fresh
<1>10. CASE SendINFO
  <2>1. Emit(Say("INFO", localCSeq + 1, FALSE))
    BY <1>10 DEF SendINFO
  <2>2. localCSeq + 1 > highest
    BY <1>10 DEF SendINFO, Numbers, InviteOK, SentOK
  <2> QED
    BY <2>1, <2>2, OneMessage DEF Emit, Say, Fresh
<1>11. CASE SendBYE
  <2>1. Emit(Say("BYE", localCSeq + 1, FALSE))
    BY <1>11 DEF SendBYE
  <2>2. localCSeq + 1 > highest
    BY <1>11 DEF SendBYE, Numbers, InviteOK, SentOK
  <2> QED
    BY <2>1, <2>2, OneMessage DEF Emit, Say, Fresh
<1>12. CASE RetransmitInvite
  <2>1. Emit(Say("INVITE", cseq, TRUE))
    BY <1>12 DEF RetransmitInvite
  <2> QED
    BY <2>1, OneMessage DEF Emit, Say, Fresh
<1>13. CASE Retransmit
  <2>1. Emit(Say("BYE", localCSeq, TRUE)) \/ Emit(Say("INFO", localCSeq, TRUE))
    BY <1>13 DEF Retransmit
  <2> QED
    BY <2>1, OneMessage DEF Emit, Say, Fresh
<1>14. CASE (\E m \in Datagrams : ReplyFails(m)) \/ HangUpRinging \/ RingTimeout \/ GiveUp
         \/ GapDue \/ HangupDue \/ BeginWait \/ AckUnroutable \/ Interrupted
         \/ TransportFails \/ WriteFails \/ MediaEnds \/ JoinMedia \/ ContextExpires
         \/ ContextCanceled \/ Finish
  <2>1. Quiet
    BY <1>14 DEF HangUpRinging, RingTimeout, GiveUp, GapDue, HangupDue, BeginWait,
         AckUnroutable, Interrupted, TransportFails, WriteFails, MediaEnds, JoinMedia,
         ContextExpires, ContextCanceled, Finish, ReplyFails, ContextEnds
  <2> QED
    BY <2>1 DEF Quiet
<1>15. CASE (\E m \in Datagrams : ReadWhileCalling(m))
         \/ (\E m \in Datagrams : ReadWhileAbsorbing(m))
         \/ (\E m \in Datagrams : ReadWhileCancelling(m))
         \/ (\E m \in Datagrams : ReadRequest(m)) \/ (\E m \in Datagrams : ReadResponse(m))
         \/ (\E m \in Datagrams : ReadINFOResponse(m))
         \/ (\E m \in Datagrams : ReadBYEResponse(m))
  <2>1. PICK m \in Datagrams : Exchange(m)
    BY <1>15 DEF ReadWhileCalling, ReadWhileAbsorbing, ReadWhileCancelling, ReadRequest,
         ReadResponse, ReadINFOResponse, ReadBYEResponse
  <2> QED
    BY <2>1, ExchangeIsFresh
<1>16. CASE Done
  BY <1>16 DEF Done, vars
<1> QED
  BY <1>1, <1>2, <1>3, <1>4, <1>5, <1>6, <1>7, <1>8, <1>9, <1>10, <1>11, <1>12, <1>13,
       <1>14, <1>15, <1>16
     DEF Next, Receive, Send, Timer
-----------------------------------------------------------------------------
(* Theorems. *)

IInv ==
  /\ scenario \in Scenarios
  /\ PlaceOK /\ InviteOK /\ SentOK /\ TakenOK /\ WireOK
  /\ Stages /\ Acknowledged /\ MediaAccounted /\ Released /\ Concluded /\ InfoSent /\ Numbers

(* A session begins where nothing has happened.                            *)
LEMMA IInvInitially == Init => IInv
<1> SUFFICES ASSUME Init PROVE IInv
  OBVIOUS
<1>1. PlaceOK /\ MediaAccounted
  BY DEF Init, PlaceOK, Locations, Sending, MediaAccounted, WithMedia
<1>2. InviteOK
  BY DEF Init, InviteOK
<1>3. SentOK
  BY InviteCSeqAssumption, LengthIsTyped DEF Init, SentOK
<1>4. TakenOK /\ WireOK
  BY DEF Init, TakenOK, Parties, WireOK
<1>5. Stages /\ Acknowledged /\ Released /\ Concluded /\ InfoSent
  BY DEF Init, Stages, Acknowledged, Released, Concluded, InfoSent, Ringing, TimedOut, Failed,
         BeforeCall, InCall, Over, OwesACK, WithMedia
<1>6. Numbers
  BY FirstCSeqAssumption, InviteCSeqAssumption
     DEF Init, Numbers, Ringing, TimedOut, Failed, BeforeCall, InCall, WithMedia
<1> QED
  BY <1>1, <1>2, <1>3, <1>4, <1>5, <1>6 DEF Init, IInv

(* No step changes the scenario.                                           *)
LEMMA ScenarioStays == [Next]_vars => UNCHANGED scenario
<1> SUFFICES ASSUME [Next]_vars PROVE UNCHANGED scenario
  OBVIOUS
<1>1. CASE (\E m \in Datagrams : ReadWhileCalling(m))
         \/ (\E m \in Datagrams : ReadWhileAbsorbing(m))
         \/ (\E m \in Datagrams : ReadWhileCancelling(m))
         \/ (\E m \in Datagrams : ReadRequest(m)) \/ (\E m \in Datagrams : ReadResponse(m))
         \/ (\E m \in Datagrams : ReadForkedOK(m))
         \/ (\E m \in Datagrams : ReadINFOResponse(m))
         \/ (\E m \in Datagrams : ReadBYEResponse(m)) \/ (\E m \in Datagrams : ReplyFails(m))
         \/ SendInvite \/ SendCANCEL \/ AckChallenge \/ AckFailure \/ AckLateFailure
         \/ (\E tagged \in BOOLEAN : AckLateSuccess(tagged))
         \/ (\E answer \in Answers : AckSuccess(answer)) \/ ByeWithoutAnswer \/ SendINFO
         \/ SendBYE \/ RetransmitInvite \/ HangUpRinging \/ RingTimeout \/ GiveUp
         \/ Retransmit \/ GapDue \/ HangupDue \/ BeginWait \/ AckUnroutable \/ Interrupted
         \/ TransportFails \/ WriteFails \/ MediaEnds \/ JoinMedia \/ ContextExpires
         \/ ContextCanceled \/ Finish \/ Done \/ UNCHANGED vars
  <2>1. UNCHANGED <<scenario>>
    BY <1>1 DEF ReadWhileCalling, ReadWhileAbsorbing, ReadWhileCancelling, ReadRequest,
         ReadResponse, ReadForkedOK, ReadINFOResponse, ReadBYEResponse, ReplyFails, SendInvite,
         SendCANCEL, AckChallenge, AckFailure, AckLateFailure, AckLateSuccess, AckSuccess,
         ByeWithoutAnswer, SendINFO, SendBYE, RetransmitInvite, HangUpRinging, RingTimeout,
         GiveUp, Retransmit, GapDue, HangupDue, BeginWait, AckUnroutable, Interrupted,
         TransportFails, WriteFails, MediaEnds, JoinMedia, ContextExpires, ContextEnds,
         ContextCanceled, Finish, Done, vars
  <2> QED
    BY <2>1
<1> QED
  BY <1>1
     DEF Next, Receive, Send, Timer

(* The invariant is inductive.                                             *)
LEMMA StepKeepsIInv == IInv /\ [Next]_vars => IInv'
<1> SUFFICES ASSUME IInv, [Next]_vars PROVE IInv'
  OBVIOUS
<1>1. /\ scenario \in Scenarios /\ PlaceOK /\ InviteOK /\ SentOK /\ TakenOK /\ WireOK
      /\ Stages /\ Acknowledged /\ MediaAccounted /\ Released /\ Concluded /\ InfoSent /\ Numbers
  BY DEF IInv
<1>2. scenario' \in Scenarios
  BY <1>1, ScenarioStays
<1>3. PlaceOK' /\ InviteOK' /\ SentOK' /\ TakenOK' /\ WireOK'
  BY <1>1, StepKeepsPlaceOK, StepKeepsInviteOK, StepKeepsSentOK, StepKeepsTakenOK, StepKeepsWireOK
<1>4. Stages' /\ Acknowledged' /\ MediaAccounted' /\ Released'
  BY <1>1, StepKeepsStages, StepKeepsAcknowledged, StepKeepsMediaAccounted, StepKeepsReleased
<1>5. Concluded' /\ InfoSent' /\ Numbers'
  BY <1>1, StepKeepsConcluded, StepKeepsInfoSent, StepKeepsNumbers
<1> QED
  BY <1>2, <1>3, <1>4, <1>5 DEF IInv

(* It always holds.                                                        *)
THEOREM Invariance == Spec => []IInv
<1>1. Init => IInv
  BY IInvInitially
<1>2. IInv /\ [Next]_vars => IInv'
  BY StepKeepsIInv
<1> QED
  BY <1>1, <1>2, PTL DEF Spec

(* The type invariant of InboundCall.                                      *)
THEOREM TypeCorrect == Spec => []TypeOK
<1>1. IInv => TypeOK
  BY DEF IInv, TypeOK, PlaceOK, InviteOK, SentOK, TakenOK, WireOK
<1> QED
  BY <1>1, Invariance, PTL

(* No final response is left without its ACK on any path through the       *)
(* challenge, the timeouts and the crossing CANCELs.                       *)
THEOREM AcknowledgementCorrect == Spec => []EveryFinalIsACKed
<1>1. IInv => EveryFinalIsACKed
  BY DEF IInv, Acknowledged, EveryFinalIsACKed, Over
<1> QED
  BY <1>1, Invariance, PTL

(* Every call that was established is released, on whichever exit.         *)
THEOREM ReleaseCorrect == Spec => []EstablishedCallIsReleased
<1>1. IInv => EstablishedCallIsReleased
  BY DEF IInv, Released, EstablishedCallIsReleased, Over
<1> QED
  BY <1>1, Invariance, PTL

(* Media is joined before the call is given up.                            *)
THEOREM MediaJoinCorrect == Spec => []NoMediaOutlivesCall
<1>1. IInv => NoMediaOutlivesCall
  BY DEF IInv, MediaAccounted, Released, NoMediaOutlivesCall, Over, WithMedia
<1> QED
  BY <1>1, Invariance, PTL

(* INFO digits go out one at a time and all of them are confirmed.         *)
THEOREM DigitsCorrect == Spec => []DigitsAreConfirmed
<1>1. IInv => DigitsAreConfirmed
  BY DEF IInv, InfoSent, DigitsAreConfirmed, Over
<1> QED
  BY <1>1, Invariance, PTL

(* A session without an error ended with the expected status and, if it    *)
(* was answered, by the party its outcome names.                           *)
THEOREM SuccessCorrect == Spec => []SuccessMeansExpectedStatus
<1>1. IInv => SuccessMeansExpectedStatus
  BY DEF IInv, Concluded, SuccessMeansExpectedStatus, Over
<1> QED
  BY <1>1, Invariance, PTL

-----------------------------------------------------------------------------
(* Steps. *)

(* Every request of the call has a new CSeq number.                        *)
THEOREM CSeqCorrect == Spec => OwnCSeqIncreases
<1>1. IInv /\ [Next]_vars =>
        [\A i \in DOMAIN out' :
           out'[i].status = 0 /\ out'[i].to = "call" /\ ~out'[i].again =>
             IF out'[i].method \in {"ACK", "CANCEL"} THEN out'[i].cseq = cseq
             ELSE out'[i].cseq > highest]_vars
  BY StepIsFresh DEF IInv, Fresh
<1> QED
  BY <1>1, Invariance, PTL DEF Spec, OwnCSeqIncreases

Once ==
  /\ finalStatus # 0 => finalStatus' = finalStatus
  /\ terminatedBy # "NoParty" => terminatedBy' = terminatedBy
  /\ established => established'
  /\ canceled => canceled'

(* No step rewrites the outcome.                                           *)
LEMMA StepWritesOnce ==
  ASSUME PlaceOK, InviteOK, Stages, Released, [Next]_vars
  PROVE  Once
<1> USE DEF Ringing, TimedOut, Failed, BeforeCall, InCall, Over, WithMedia, InDialogLoop, Reading, Sending, OwnBYEs
<1>1. CASE \E m \in Datagrams : ReadWhileCalling(m)
  BY <1>1 DEF ReadWhileCalling, FinalResponse, Challenge, IsMatching, Once, Stages,
       Released, PlaceOK, InviteOK
<1>2. CASE \E m \in Datagrams : ReadWhileCancelling(m)
  BY <1>2 DEF ReadWhileCancelling, FinalResponse, Once, Stages, Released, PlaceOK, InviteOK
<1>3. CASE \E m \in Datagrams : ReadRequest(m)
  <2>1. Hears
    BY <1>3, Hearing
  <2> QED
    BY <2>1 DEF Hears, Once, Stages, Released, PlaceOK, InviteOK
<1>4. CASE \E m \in Datagrams : ReadBYEResponse(m)
  BY <1>4 DEF ReadBYEResponse, Once, Stages, Released, PlaceOK, InviteOK
<1>5. CASE \E tagged \in BOOLEAN : AckLateSuccess(tagged)
  BY <1>5 DEF AckLateSuccess, Once, Stages, Released, PlaceOK, InviteOK
<1>6. CASE \E answer \in Answers : AckSuccess(answer)
  BY <1>6 DEF AckSuccess, Refusal, Mismatch, NextStep, DialogCSeq, Once, Stages, Released,
       PlaceOK, InviteOK
<1>7. CASE ByeWithoutAnswer
  BY <1>7 DEF ByeWithoutAnswer, Once, Stages, Released, PlaceOK, InviteOK
<1>8. CASE HangUpRinging
  BY <1>8 DEF HangUpRinging, Once, Stages, Released, PlaceOK, InviteOK
<1>9. CASE (\E m \in Datagrams : ReadWhileAbsorbing(m))
         \/ (\E m \in Datagrams : ReadResponse(m)) \/ (\E m \in Datagrams : ReadForkedOK(m))
         \/ (\E m \in Datagrams : ReadINFOResponse(m)) \/ SendInvite \/ SendCANCEL
         \/ AckChallenge \/ AckFailure \/ AckLateFailure \/ SendINFO \/ SendBYE
         \/ RetransmitInvite \/ RingTimeout \/ GiveUp \/ Retransmit \/ GapDue \/ HangupDue
         \/ BeginWait \/ AckUnroutable \/ Interrupted \/ TransportFails \/ WriteFails
         \/ (\E m \in Datagrams : ReplyFails(m)) \/ MediaEnds \/ JoinMedia \/ ContextExpires
         \/ ContextCanceled \/ Finish \/ Done \/ UNCHANGED vars
  <2>1. UNCHANGED <<finalStatus, terminatedBy, established, canceled>>
    BY <1>9 DEF ReadWhileAbsorbing, ReadResponse, ReadForkedOK, ReadINFOResponse,
         SendInvite, SendCANCEL, AckChallenge, AckFailure, AckLateFailure, SendINFO, SendBYE,
         RetransmitInvite, RingTimeout, GiveUp, Retransmit, GapDue, HangupDue, BeginWait,
         AckUnroutable, Interrupted, TransportFails, WriteFails, ReplyFails, MediaEnds,
         JoinMedia, ContextExpires, ContextCanceled, ContextEnds, Finish, Done, vars, outcome
  <2> QED
    BY <2>1 DEF Once, Stages, Released, PlaceOK, InviteOK
<1> QED
  BY <1>1, <1>2, <1>3, <1>4, <1>5, <1>6, <1>7, <1>8, <1>9
     DEF Next, Receive, Send, Timer

(* The outcome is written once, whatever crosses or is repeated.           *)
THEOREM OutcomeCorrect == Spec => OutcomeIsWrittenOnce
<1>1. IInv /\ [Next]_vars =>
        [/\ finalStatus # 0 => finalStatus' = finalStatus
         /\ terminatedBy # "NoParty" => terminatedBy' = terminatedBy
         /\ established => established'
         /\ canceled => canceled']_vars
  BY StepWritesOnce DEF IInv, Once
<1> QED
  BY <1>1, Invariance, PTL DEF Spec, OutcomeIsWrittenOnce
-----------------------------------------------------------------------------
(* The caller implements InviteClient: every step starts, advances or ends *)
(* its transaction, or leaves it alone.                                    *)

(* What Client allows, in terms of Attempt and Phase.                      *)
Tracks == Client!Next \/ (Attempt' = Attempt /\ Phase' = Phase)

(* The steps of Client.                                                    *)
LEMMA Mapping ==
  /\ Client!vars = <<Attempt, Phase>>
  /\ Client!Provisional <=> (Phase = "calling" /\ Phase' = "proceeding" /\ Attempt' = Attempt)
  /\ Client!Final <=>
       (Phase \in {"calling", "proceeding"} /\ Phase' = "answered" /\ Attempt' = Attempt)
  /\ Client!Acknowledge <=>
       (Phase = "answered" /\ Phase' \in {"challenged", "confirmed"} /\ Attempt' = Attempt)
  /\ Client!End <=> (Phase # "ended" /\ Phase' = "ended" /\ Attempt' = Attempt)
  /\ Client!Start <=>
       (/\ Attempt' = Attempt + 1 /\ Phase' = "calling"
        /\ (Attempt = 0 /\ Phase = "idle") \/ (Attempt = 1 /\ Phase = "challenged"))
BY DEF Client!vars, Client!Provisional, Client!Final, Client!Acknowledge, Client!End,
       Client!Start

(* A step that touches nothing of the INVITE leaves the transaction alone. *)
LEMMA Standing ==
  ASSUME UNCHANGED <<pc, cseq, highest, unacked, provisional>>
  PROVE  Tracks
<1>1. Attempt' = Attempt
  BY DEF Attempt
<1>2. Phase' = Phase
  BY DEF Phase
<1> QED
  BY <1>1, <1>2 DEF Tracks

(* A step that returns ends it.                                            *)
LEMMA Returning ==
  ASSUME pc \notin Over, pc' \in Over, UNCHANGED <<cseq, highest>>
  PROVE  Tracks
<1>1. Attempt' = Attempt
  BY DEF Attempt
<1>2. Phase # "ended" /\ Phase' = "ended"
  BY DEF Phase, Over
<1> QED
  BY <1>1, <1>2, Mapping DEF Tracks, Client!Next

(* A step within the call leaves it confirmed, or ends it.                 *)
LEMMA Calling ==
  ASSUME InviteOK, SentOK, SentOK', Acknowledged, Acknowledged', Numbers,
         pc \in InCall, pc' \in InCall \cup Over, cseq' = cseq, highest <= highest'
  PROVE  Tracks
<1> USE DEF InCall, WithMedia, Over, OwesACK
<1>1. cseq \in Nat /\ highest \in Nat /\ highest' \in Nat /\ cseq <= highest
  BY InviteCSeqAssumption DEF InviteOK, SentOK, Numbers
<1>2. ~(highest < cseq) /\ ~(highest' < cseq')
  BY <1>1
<1>3. Attempt' = Attempt
  BY <1>2 DEF Attempt
<1>4. Phase = "confirmed"
  BY DEF Phase, Acknowledged
<1>5. CASE pc' \in Over
  <2>1. Phase' = "ended"
    BY <1>5 DEF Phase
  <2> QED
    BY <1>3, <1>4, <2>1, Mapping DEF Tracks, Client!Next
<1>6. CASE pc' \in InCall
  <2>1. Phase' = "confirmed"
    BY <1>6 DEF Phase, Acknowledged
  <2> QED
    BY <1>3, <1>4, <2>1 DEF Tracks
<1> QED
  BY <1>5, <1>6

(* Every step is a step of InviteClient, or none of it.                    *)
LEMMA StepTracks ==
  ASSUME IInv, IInv', [Next]_vars
  PROVE  Tracks
<1> USE DEF Over
<1>1. /\ PlaceOK /\ InviteOK /\ SentOK /\ Acknowledged /\ Stages /\ Numbers /\ Released
      /\ SentOK' /\ Acknowledged' /\ Numbers'
  BY DEF IInv
<1>2. cseq \in Nat /\ highest \in Nat /\ localCSeq \in Nat /\ InviteCSeq \in Nat
  BY <1>1, InviteCSeqAssumption DEF InviteOK, SentOK
<1>3. CASE (\E m \in Datagrams : ReadWhileAbsorbing(m)) \/ (\E m \in Datagrams : ReadResponse(m))
         \/ RetransmitInvite \/ Retransmit \/ MediaEnds \/ ContextExpires \/ ContextCanceled
         \/ Done \/ UNCHANGED vars
  <2>1. UNCHANGED <<pc, cseq, highest, unacked, provisional>>
    BY <1>3 DEF ReadWhileAbsorbing, ReadResponse, RetransmitInvite, Retransmit, MediaEnds,
         ContextExpires, ContextCanceled, ContextEnds, Done, vars
  <2> QED
    BY <2>1, Standing
<1>4. CASE (\E m \in Datagrams : ReadForkedOK(m)) \/ (\E m \in Datagrams : ReadBYEResponse(m))
         \/ GapDue \/ HangupDue \/ BeginWait \/ JoinMedia
  <2>1. pc \in InCall /\ pc' \in InCall \cup {"returned"} /\ UNCHANGED <<cseq, highest>>
    BY <1>4 DEF ReadForkedOK, ReadBYEResponse, GapDue, HangupDue, BeginWait, JoinMedia,
         StopDialog, InCall, WithMedia
  <2> QED
    BY <1>1, <1>2, <2>1, Calling
<1>5. CASE \E m \in Datagrams : ReadRequest(m)
  <2>1. Hears
    BY <1>5, Hearing
  <2>2. pc \in InCall /\ pc' \in InCall \cup {"returned"} /\ UNCHANGED <<cseq, highest>>
    BY <2>1 DEF Hears, InDialogLoop, InCall, WithMedia
  <2> QED
    BY <1>1, <1>2, <2>2, Calling
<1>6. CASE \E m \in Datagrams : ReadINFOResponse(m)
  <2>1. pc = "waitINFO" /\ UNCHANGED <<cseq, highest>>
    BY <1>6 DEF ReadINFOResponse
  <2>2. pc' \in {pc, "joinMedia", "gap", "sendINFO", "beginWait"}
    BY <1>6 DEF ReadINFOResponse, StopDialog, AfterINFO, NextStep
  <2>3. pc \in InCall /\ pc' \in InCall
    BY <2>1, <2>2 DEF InCall, WithMedia
  <2> QED
    BY <1>1, <1>2, <2>1, <2>3, Calling
<1>7. CASE SendINFO \/ SendBYE \/ ByeWithoutAnswer
  <2>1. pc \in InCall /\ pc' \in InCall \cup {"returned"} /\ cseq' = cseq /\ highest' = localCSeq + 1
    BY <1>7 DEF SendINFO, SendBYE, ByeWithoutAnswer, InCall, WithMedia
  <2>2. highest <= localCSeq
    BY <1>1, <2>1 DEF Numbers
  <2>3. highest <= highest'
    BY <1>2, <2>1, <2>2
  <2> QED
    BY <1>1, <2>1, <2>3, Calling
<1>8. CASE Interrupted \/ TransportFails \/ WriteFails \/ \E m \in Datagrams : ReplyFails(m)
  <2>1. PICK error \in ErrorClasses : GivesUp(error)
    BY <1>1, <1>8, Failing
  <2>2. UNCHANGED <<cseq, highest>> /\ pc \notin Over
    BY <1>8, <2>1 DEF GivesUp, Interrupted, TransportFails, WriteFails, ReplyFails, Reading, Sending,
         InDialogLoop, WithMedia, Reaction
  <2>3. pc' = "returned" \/ (pc \in WithMedia /\ pc' = "joinMedia")
    BY <2>1 DEF GivesUp
  <2>4. CASE pc' = "returned"
    BY <2>2, <2>4, Returning
  <2>5. CASE pc \in WithMedia /\ pc' = "joinMedia"
    BY <1>1, <1>2, <2>2, <2>5, Calling DEF InCall
  <2> QED
    BY <2>3, <2>4, <2>5
<1>9. CASE AckUnroutable \/ GiveUp \/ AckLateFailure
  <2>1. pc \notin Over /\ pc' = "returned" /\ UNCHANGED <<cseq, highest>>
    BY <1>9 DEF AckUnroutable, GiveUp, AckLateFailure, Return
  <2> QED
    BY <2>1, Returning
<1>10. CASE Finish
  <2>1. Phase = "ended" /\ Phase' = "ended" /\ Attempt' = Attempt
    BY <1>10 DEF Finish, Phase, Attempt
  <2> QED
    BY <2>1 DEF Tracks
<1>11. CASE RingTimeout \/ HangUpRinging \/ SendCANCEL
  <2>1. UNCHANGED <<cseq, highest, unacked, provisional>>
        /\ pc \in {"calling", "cancelRinging", "cancelTimedOut"}
        /\ pc' \in {"calling", "cancelRinging", "cancelTimedOut", "cancelling", "returned"}
    BY <1>11 DEF RingTimeout, HangUpRinging, SendCANCEL
  <2>2. CASE pc' = "returned"
    BY <2>1, <2>2, Returning
  <2>3. CASE pc' # "returned"
    <3>1. Phase' = Phase /\ Attempt' = Attempt
      BY <2>1, <2>3 DEF Phase, Attempt
    <3> QED
      BY <3>1 DEF Tracks
  <2> QED
    BY <2>2, <2>3
<1>12. CASE SendInvite
  <2>1. /\ pc = "sendInvite" /\ pc' = "calling" /\ provisional' = FALSE
        /\ highest' = cseq /\ UNCHANGED <<cseq, unacked>>
    BY <1>12 DEF SendInvite
  <2>2. unacked = {} /\ highest < cseq
    BY <1>1, <2>1 DEF Acknowledged, Numbers, OwesACK
  <2>3. Attempt = cseq - InviteCSeq /\ Attempt' = cseq - InviteCSeq + 1
    BY <1>2, <2>1, <2>2 DEF Attempt
  <2>4. Phase' = "calling" /\ Phase = IF cseq = InviteCSeq THEN "idle" ELSE "challenged"
    BY <2>1, <2>2 DEF Phase
  <2>5. cseq = InviteCSeq \/ cseq = InviteCSeq + 1
    BY <1>1 DEF InviteOK
  <2>6. CASE cseq = InviteCSeq
    <3>1. Attempt = 0 /\ Phase = "idle" /\ Attempt' = Attempt + 1
      BY <1>2, <2>3, <2>4, <2>6
    <3> QED
      BY <2>4, <3>1, Mapping DEF Tracks, Client!Next
  <2>7. CASE cseq = InviteCSeq + 1
    <3>1. Attempt = 1 /\ Phase = "challenged" /\ Attempt' = Attempt + 1
      BY <1>2, <2>3, <2>4, <2>7
    <3> QED
      BY <2>4, <3>1, Mapping DEF Tracks, Client!Next
  <2> QED
    BY <2>5, <2>6, <2>7
<1>13. CASE \E m \in Datagrams : ReadWhileCalling(m) \/ ReadWhileCancelling(m)
  <2>1. PICK m \in Datagrams : ReadWhileCalling(m) \/ ReadWhileCancelling(m)
    BY <1>13
  <2>2. pc \in {"calling", "cancelling"} /\ unacked = {} /\ UNCHANGED <<cseq, highest>>
    BY <1>1, <2>1 DEF ReadWhileCalling, ReadWhileCancelling, Acknowledged, OwesACK
  <2>3. Phase = (IF provisional THEN "proceeding" ELSE "calling") /\ Attempt' = Attempt
    BY <2>2 DEF Phase, Attempt
  <2>4. CASE FinalResponse(m)
    <3>1. unacked' = {cseq}
      BY <2>1, <2>2, <2>4 DEF ReadWhileCalling, ReadWhileCancelling
    <3>2. pc' \notin Over
      BY <2>1, <2>4 DEF ReadWhileCalling, ReadWhileCancelling
    <3>3. Phase' = "answered"
      BY <3>1, <3>2 DEF Phase
    <3> QED
      BY <2>3, <3>3, Mapping DEF Tracks, Client!Next
  <2>5. CASE ~FinalResponse(m)
    <3>1. /\ UNCHANGED <<pc, unacked>> /\ provisional' \in BOOLEAN
          /\ provisional => provisional'
      BY <1>1, <2>1, <2>5 DEF ReadWhileCalling, ReadWhileCancelling, InviteOK, IsMatching
    <3>2. Phase' = (IF provisional' THEN "proceeding" ELSE "calling")
      BY <2>2, <3>1 DEF Phase
    <3> QED
      BY <2>3, <3>1, <3>2, Mapping DEF Tracks, Client!Next
  <2> QED
    BY <2>4, <2>5
<1>14. CASE AckChallenge
  <2>1. /\ pc = "ackChallenge" /\ highest' = highest
        /\ unacked' = unacked \ {cseq}
        /\ \/ pc' = "sendInvite" /\ cseq' = cseq + 1
           \/ pc' = "returned" /\ cseq' = cseq
    BY <1>14 DEF AckChallenge
  <2>2. unacked = {cseq} /\ highest = cseq /\ cseq = InviteCSeq
    BY <1>1, <2>1 DEF Acknowledged, Numbers, OwesACK, BeforeCall, Ringing, Stages
  <2>3. Phase = "answered" /\ Attempt = 1
    BY <1>2, <2>1, <2>2 DEF Phase, Attempt
  <2>4. CASE pc' = "returned"
    BY <2>1, <2>4, Returning
  <2>5. CASE pc' = "sendInvite"
    <3>1. cseq' = InviteCSeq + 1 /\ highest' = InviteCSeq /\ unacked' = {}
      BY <2>1, <2>2, <2>5
    <3>2. Phase' = "challenged" /\ Attempt' = 1
      BY <1>2, <2>5, <3>1 DEF Phase, Attempt
    <3> QED
      BY <2>3, <3>2, Mapping DEF Tracks, Client!Next
  <2> QED
    BY <2>1, <2>4, <2>5
<1>15. CASE AckFailure \/ (\E tagged \in BOOLEAN : AckLateSuccess(tagged))
          \/ \E answer \in Answers : AckSuccess(answer)
  <2>1. /\ pc \in {"ackFailure", "ackLateSuccess", "ackSuccess"}
        /\ pc' \in {"absorb", "byeLate", "byeFailed", "sendINFO", "beginWait", "returned"}
        /\ unacked' = unacked \ {cseq} /\ UNCHANGED <<cseq, highest>>
    BY <1>15 DEF AckFailure, AckLateSuccess, AckSuccess, NextStep
  <2>2. unacked = {cseq}
    BY <1>1, <2>1 DEF Acknowledged, OwesACK
  <2>3. Phase = "answered" /\ Attempt' = Attempt
    BY <2>1, <2>2 DEF Phase, Attempt
  <2>4. CASE pc' = "returned"
    BY <2>1, <2>4, Returning
  <2>5. CASE pc' # "returned"
    <3>1. Phase' = "confirmed"
      BY <2>1, <2>2, <2>5 DEF Phase
    <3> QED
      BY <2>3, <3>1, Mapping DEF Tracks, Client!Next
  <2> QED
    BY <2>4, <2>5
<1> QED
  BY <1>3, <1>4, <1>5, <1>6, <1>7, <1>8, <1>9, <1>10, <1>11, <1>12, <1>13, <1>14, <1>15
     DEF Next, Receive, Send, Timer

(* One client transaction at a time, one retry at most, and that after the *)
(* challenge is acknowledged; a call only out of an acknowledged final     *)
(* response (runInbound, runInviteClientTransaction).                      *)
THEOREM InviteClientImplemented == Spec => ImplementsInviteClient
<1>1. Init => Client!Init
  <2> SUFFICES ASSUME Init PROVE Client!Init
    OBVIOUS
  <2>1. highest < cseq /\ cseq - InviteCSeq = 0
    BY InviteCSeqAssumption, FirstCSeqAssumption DEF Init
  <2>2. Attempt = 0 /\ Phase = "idle"
    BY <2>1 DEF Init, Attempt, Phase
  <2> QED
    BY <2>2 DEF Client!Init
<1>2. IInv /\ IInv' /\ [Next]_vars => [Client!Next]_(Client!vars)
  <2> SUFFICES ASSUME IInv, IInv', [Next]_vars PROVE [Client!Next]_(Client!vars)
    OBVIOUS
  <2>1. Client!Next \/ (Attempt' = Attempt /\ Phase' = Phase)
    BY StepTracks DEF Tracks
  <2> QED
    BY <2>1 DEF Client!vars
<1> QED
  BY <1>1, <1>2, Invariance, PTL DEF Spec, ImplementsInviteClient, Client!Spec
=============================================================================
