-------------------------- MODULE AnswerTimingProofs --------------------------
(***************************************************************************)
(* Proofs about AnswerTiming, for every script, every T1 and T2, and every *)
(* lateness Lag of the goroutine.                                          *)
(***************************************************************************)
EXTENDS AnswerTiming, TLAPS

-----------------------------------------------------------------------------
(* The larger and the smaller of two times.                                *)
LEMMA LargerOfTwo ==
  ASSUME NEW a \in Int, NEW b \in Int
  PROVE  Max({a, b}) = IF a >= b THEN a ELSE b
<1>1. \E x \in {a, b} : \A y \in {a, b} : x >= y
  <2>1. CASE a >= b
    BY <2>1
  <2>2. CASE ~(a >= b)
    BY <2>2
  <2> QED
    BY <2>1, <2>2
<1>2. Max({a, b}) \in {a, b} /\ \A y \in {a, b} : Max({a, b}) >= y
  BY <1>1 DEF Max
<1> QED
  BY <1>2

LEMMA SmallerOfTwo ==
  ASSUME NEW a \in Int, NEW b \in Int
  PROVE  Min({a, b}) = IF a <= b THEN a ELSE b
<1>1. \E x \in {a, b} : \A y \in {a, b} : x <= y
  <2>1. CASE a <= b
    BY <2>1
  <2>2. CASE ~(a <= b)
    BY <2>2
  <2> QED
    BY <2>1, <2>2
<1>2. Min({a, b}) \in {a, b} /\ \A y \in {a, b} : Min({a, b}) <= y
  BY <1>1 DEF Min
<1> QED
  BY <1>2

-----------------------------------------------------------------------------
(***************************************************************************)
(* The inductive invariant: what the armed timer stands for in each phase. *)
(***************************************************************************)

Time == Nat \cup {Never}

Last == Len(script.steps)

Typed ==
  /\ script \in Scripts
  /\ now \in Nat
  /\ phase \in {"waiting", "ack", "dialog", "bye", "done"}
  /\ step \in Nat
  /\ timer \in Time
  /\ interval \in 1 .. T2
  /\ remaining \in Int
  /\ sent \in [DOMAIN script.steps -> Time]
  /\ acked \in Time /\ bye \in Time /\ lastSent \in Time

(* Waiting for a step: its time has not passed by more than Lag.           *)
Expecting ==
  phase = "waiting" =>
    /\ step \in DOMAIN script.steps
    /\ now <= script.steps[step].at + Lag
    /\ \/ timer = script.steps[step].at
       \/ timer = Never /\ script.steps[step].at <= now

(* Waiting for an ACK or the answer to a BYE: the next repetition.         *)
Repeating ==
  phase \in {"ack", "bye"} =>
    /\ lastSent \in Nat /\ timer \in Nat /\ lastSent <= now
    /\ timer <= lastSent + T2
    /\ now <= timer + Lag

(* The rest of the dialog, as it was computed when the call was answered.  *)
Counted ==
  phase = "ack" /\ Answered =>
    /\ sent[Last] \in Nat /\ sent[Last] <= now
    /\ remaining = IF script.hangup = 0 THEN 0
                   ELSE IF script.hangup > sent[Last] THEN script.hangup - sent[Last] ELSE -1

(* The dialog: the ACK moved its end.                                      *)
Lasting ==
  phase = "dialog" /\ script.hangup > 0 =>
    /\ sent[Last] \in Nat /\ acked \in Nat
    /\ sent[Last] < script.hangup /\ sent[Last] <= acked
    /\ timer = acked + (script.hangup - sent[Last])
    /\ now <= timer + Lag

SentInTime ==
  \A i \in DOMAIN script.steps :
    sent[i] # Never => sent[i] - script.steps[i].at \in 0 .. Lag

HungUpInTime ==
  bye # Never /\ script.hangup > 0 =>
    /\ sent[Last] \in Nat /\ acked \in Nat
    /\ bye >= script.hangup \/ script.playback
    /\ bye <= (IF script.hangup >= sent[Last] THEN script.hangup ELSE sent[Last])
              + (acked - sent[Last]) + Lag

TInv ==
  /\ Typed /\ Expecting /\ Repeating /\ Counted /\ Lasting
  /\ SentInTime /\ HungUpInTime
  /\ phase \in {"waiting", "ack", "dialog"} => bye = Never

(* The steps of a script, one by one.                                      *)
LEMMA ElementsAreTyped ==
  ASSUME NEW S, NEW q \in Seq(S)
  PROVE  \A i \in 1 .. Len(q) : q[i] \in S
OBVIOUS

(* What validate guarantees of the script that is played.                  *)
LEMMA ScriptIsValid ==
  ASSUME script \in Scripts
  PROVE  /\ script.hangup \in Nat /\ script.playback \in BOOLEAN
         /\ Last \in Nat \ {0} /\ DOMAIN script.steps = 1 .. Last
         /\ \A i \in 1 .. Last : /\ script.steps[i].at \in Nat
                                 /\ script.steps[i].status \in 100 .. 699
                                 /\ script.steps[i].status >= 200 <=> i = Last
         /\ \A i, j \in 1 .. Last : i < j => script.steps[i].at <= script.steps[j].at
<1>1. script.steps \in Seq([status : 100 .. 699, at : Nat]) /\ script.steps # <<>>
  BY ScriptsAssumption
<1>2. Last \in Nat /\ DOMAIN script.steps = 1 .. Last
  BY <1>1 DEF Last
<1>3. Last # 0
  BY <1>1, <1>2 DEF Last
<1>4. \A i \in 1 .. Last : script.steps[i] \in [status : 100 .. 699, at : Nat]
  BY <1>1, ElementsAreTyped, ZenonT(60) DEF Last
<1>5. \A i \in 1 .. Last : script.steps[i].at \in Nat /\ script.steps[i].status \in 100 .. 699
  BY <1>4, SMTT(60)
<1>6. \A i \in 1 .. Last : script.steps[i].status >= 200 <=> i = Last
  BY <1>2, ScriptsAssumption DEF Last
<1>7. \A i, j \in 1 .. Last : i < j => script.steps[i].at <= script.steps[j].at
  BY <1>2, ScriptsAssumption
<1>8. script.hangup \in Nat /\ script.playback \in BOOLEAN
  BY ScriptsAssumption
<1> QED
  BY <1>2, <1>3, <1>5, <1>6, <1>7, <1>8

(* The timer of a step that is still ahead is its time.                    *)
LEMMA DeadlineIsTime ==
  ASSUME NEW at \in Nat, now \in Nat
  PROVE  /\ StepDeadline(at) = at \/ (StepDeadline(at) = Never /\ at <= now)
         /\ StepDeadline(at) \in Time
BY DEF StepDeadline, Deadline, Time

LEMMA TInvInitially == Init => TInv
<1> SUFFICES ASSUME Init PROVE TInv
  OBVIOUS
<1> USE TimingAssumption, ScriptIsValid DEF Init
<1>1. script.steps[1].at \in Nat /\ 1 \in DOMAIN script.steps
  OBVIOUS
<1>2. Typed
  BY <1>1, DeadlineIsTime DEF Typed, Time
<1>3. Expecting
  BY <1>1, DeadlineIsTime DEF Expecting
<1>4. SentInTime /\ HungUpInTime
  BY DEF SentInTime, HungUpInTime
<1> QED
  BY <1>2, <1>3, <1>4 DEF TInv, Repeating, Counted, Lasting

(* A step of the script that is due is sent in time.                       *)
LEMMA StepIsInTime ==
  ASSUME TInv, phase = "waiting", timer = Never \/ Due
  PROVE  /\ step \in 1 .. Last
         /\ now - script.steps[step].at \in 0 .. Lag
         /\ SentInTime => \A i \in DOMAIN script.steps :
              [sent EXCEPT ![step] = now][i] # Never =>
                 [sent EXCEPT ![step] = now][i] - script.steps[i].at \in 0 .. Lag
<1> USE TimingAssumption, ScriptIsValid
<1>1. step \in 1 .. Last /\ script.steps[step].at \in Nat /\ now \in Nat
  BY DEF TInv, Typed, Expecting
<1>2. script.steps[step].at <= now /\ now <= script.steps[step].at + Lag
  BY <1>1 DEF TInv, Typed, Expecting, Due, Time
<1>3. now - script.steps[step].at \in 0 .. Lag
  BY <1>1, <1>2
<1> QED
  BY <1>1, <1>3 DEF TInv, Typed, SentInTime

(* A final response starts its repetition.                                 *)
LEMMA FinalRepeats ==
  ASSUME TInv, Final, now' = now
  PROVE  /\ phase' = "ack" /\ Repeating' /\ interval' \in 1 .. T2
         /\ timer' \in Time /\ lastSent' \in Time
BY TimingAssumption DEF TInv, Typed, Final, Repeating, Time

(* So does a BYE.                                                          *)
LEMMA BYERepeats ==
  ASSUME TInv, SendBYE, now' = now
  PROVE  /\ phase' = "bye" /\ Repeating' /\ interval' \in 1 .. T2
         /\ timer' \in Time /\ lastSent' \in Time /\ bye' = now /\ bye' \in Time
BY TimingAssumption DEF TInv, Typed, SendBYE, Repeating, Time

(* Every step keeps the timer and the script apart by at most Lag.         *)
LEMMA StepKeepsTInv == TInv /\ [Next]_vars => TInv'
<1> SUFFICES ASSUME TInv, [Next]_vars PROVE TInv'
  OBVIOUS
<1> USE TimingAssumption
<1>0. script \in Scripts /\ now \in Nat
  BY DEF TInv, Typed
<1>1. CASE Tick
  <2>1. /\ UNCHANGED <<script, phase, step, timer, interval, remaining, sent, acked, bye, lastSent>>
        /\ now' = now + 1 /\ (timer # Never => now < timer + Lag) /\ phase # "done"
        /\ phase = "waiting" => timer # Never
    BY <1>1 DEF Tick
  <2>2. Typed' /\ SentInTime' /\ HungUpInTime'
    BY <2>1 DEF TInv, Typed, SentInTime, HungUpInTime, Last
  <2>3. Expecting'
    <3>1. ASSUME phase = "waiting"
          PROVE  timer = script.steps[step].at /\ step \in DOMAIN script.steps
      BY <2>1, <3>1 DEF TInv, Expecting
    <3>2. ASSUME phase = "waiting" PROVE script.steps[step].at \in Nat
      BY <1>0, <3>1, <3>2, ScriptIsValid
    <3> QED
      BY <1>0, <2>1, <3>1, <3>2 DEF Expecting
  <2>4. Repeating'
    BY <1>0, <2>1 DEF TInv, Repeating
  <2>5. Counted'
    BY <1>0, <2>1 DEF TInv, Counted, Answered, Status, Last
  <2>6. Lasting'
    <3>1. script.hangup \in Nat
      BY <1>0, ScriptIsValid
    <3> QED
      BY <1>0, <2>1, <3>1 DEF TInv, Lasting, Last
  <2> QED
    BY <2>1, <2>2, <2>3, <2>4, <2>5, <2>6 DEF TInv
<1>2. CASE SendProvisional
  <2>1. /\ phase = "waiting" /\ (timer = Never \/ Due) /\ script.steps[step].status < 200
        /\ sent' = [sent EXCEPT ![step] = now] /\ step' = step + 1
        /\ timer' = StepDeadline(script.steps[step + 1].at)
        /\ UNCHANGED <<script, now, phase, interval, remaining, acked, bye, lastSent>>
    BY <1>2 DEF SendProvisional, Status
  <2>2. step \in 1 .. Last /\ step # Last
    <3>1. step \in 1 .. Last
      BY <2>1, StepIsInTime
    <3>2. script.steps[step].status >= 200 <=> step = Last
      BY <1>0, <3>1, ScriptIsValid
    <3>3. script.steps[step].status \in 100 .. 699
      BY <1>0, <3>1, ScriptIsValid
    <3>4. script.steps[step].status < 200
      BY <2>1
    <3>5. ~(script.steps[step].status >= 200)
      BY <3>3, <3>4, SMTT(60)
    <3> QED
      BY <3>1, <3>2, <3>5
  <2>3. step + 1 \in 1 .. Last /\ step < step + 1 /\ Last \in Nat
    BY <1>0, <2>2, ScriptIsValid
  <2>4. /\ script.steps[step].at \in Nat /\ script.steps[step + 1].at \in Nat
        /\ script.steps[step].at <= script.steps[step + 1].at
    BY <1>0, <2>2, <2>3, ScriptIsValid
  <2>5. now <= script.steps[step + 1].at + Lag
    BY <1>0, <2>1, <2>4, StepIsInTime
  <2>6. Expecting'
    BY <1>0, <2>1, <2>3, <2>4, <2>5, DeadlineIsTime, ScriptIsValid DEF Expecting
  <2>7. Typed'
    BY <1>0, <2>1, <2>3, <2>4, DeadlineIsTime DEF TInv, Typed, Time
  <2>8. SentInTime'
    BY <2>1, StepIsInTime DEF TInv, SentInTime
  <2>9. bye' = Never
    BY <2>1 DEF TInv
  <2> QED
    BY <2>1, <2>6, <2>7, <2>8, <2>9 DEF TInv, Repeating, Counted, Lasting, HungUpInTime
<1>3. CASE SendFinal
  <2>1. /\ phase = "waiting" /\ (timer = Never \/ Due) /\ script.steps[step].status >= 200
        /\ sent' = [sent EXCEPT ![step] = now]
        /\ remaining' = Remaining /\ Final
        /\ UNCHANGED <<script, now, step, acked, bye>>
    BY <1>3 DEF SendFinal, Status
  <2>2. step \in 1 .. Last /\ step = Last /\ Last \in DOMAIN script.steps
    BY <1>0, <2>1, StepIsInTime, ScriptIsValid
  <2>3. script.hangup \in Nat
    BY <1>0, ScriptIsValid
  <2>4. remaining' = (IF script.hangup = 0 THEN 0
                      ELSE IF script.hangup > now THEN script.hangup - now ELSE -1)
    BY <1>0, <2>1, <2>3 DEF Remaining
  <2>5. sent' \in [DOMAIN script'.steps -> Time] /\ sent'[Last] = now
    BY <1>0, <2>1, <2>2 DEF TInv, Typed, Time
  <2>6. Typed'
    BY <1>0, <2>1, <2>3, <2>4, <2>5, FinalRepeats DEF TInv, Typed
  <2>7. Counted'
    BY <1>0, <2>1, <2>4, <2>5 DEF Counted, Last
  <2>8. SentInTime'
    BY <2>1, StepIsInTime DEF TInv, SentInTime
  <2>9. bye' = Never
    BY <2>1 DEF TInv
  <2> QED
    BY <2>1, <2>6, <2>7, <2>8, <2>9, FinalRepeats DEF TInv, Expecting, Lasting, HungUpInTime
<1>4. CASE CancelArrives
  <2>1. /\ phase = "waiting" /\ Final /\ remaining' = -1 /\ step' = 0
        /\ UNCHANGED <<script, now, sent, acked, bye>>
    BY <1>4 DEF CancelArrives
  <2>2. Typed'
    BY <2>1, FinalRepeats DEF TInv, Typed
  <2>3. SentInTime' /\ bye' = Never
    BY <2>1 DEF TInv, SentInTime
  <2> QED
    BY <2>1, <2>2, <2>3, FinalRepeats
       DEF TInv, Expecting, Counted, Answered, Lasting, HungUpInTime
<1>5. CASE Retransmit
  <2>1. /\ phase \in {"ack", "bye"} /\ now >= timer /\ lastSent' = now
        /\ interval' = NextInterval /\ timer' = now + NextInterval
        /\ UNCHANGED <<script, now, phase, step, remaining, sent, acked, bye>>
    BY <1>5 DEF Retransmit, Due
  <2>2. NextInterval \in 1 .. T2
    <3>1. interval \in 1 .. T2 /\ 2 * interval \in Int /\ T2 \in Int
      BY DEF TInv, Typed
    <3>2. NextInterval = IF 2 * interval <= T2 THEN 2 * interval ELSE T2
      BY <3>1, SmallerOfTwo DEF NextInterval
    <3> QED
      BY <3>1, <3>2
  <2>3. Typed'
    BY <1>0, <2>1, <2>2 DEF TInv, Typed, Time
  <2>4. Repeating'
    BY <1>0, <2>1, <2>2 DEF Repeating
  <2>5. Expecting' /\ Lasting'
    BY <2>1 DEF Expecting, Lasting
  <2>6. Counted' /\ SentInTime' /\ HungUpInTime'
    BY <2>1 DEF TInv, Counted, Answered, Status, SentInTime, HungUpInTime, Last
  <2> QED
    BY <2>1, <2>3, <2>4, <2>5, <2>6 DEF TInv
<1>6. CASE InviteArrivesAgain
  <2>1. /\ phase = "ack" /\ lastSent' = now
        /\ UNCHANGED <<script, now, phase, step, timer, interval, remaining, sent, acked, bye>>
    BY <1>6 DEF InviteArrivesAgain
  <2>2. Typed'
    BY <1>0, <2>1 DEF TInv, Typed, Time
  <2>3. Repeating'
    BY <1>0, <2>1 DEF TInv, Repeating
  <2>4. Expecting' /\ Lasting'
    BY <2>1 DEF Expecting, Lasting
  <2>5. Counted' /\ SentInTime' /\ HungUpInTime'
    BY <2>1 DEF TInv, Counted, Answered, Status, SentInTime, HungUpInTime, Last
  <2> QED
    BY <2>1, <2>2, <2>3, <2>4, <2>5 DEF TInv
<1>7. CASE ACKArrives
  <2>1. /\ phase = "ack" /\ acked' = now /\ bye = Never
        /\ UNCHANGED <<script, now, step, remaining, sent>>
    BY <1>7 DEF ACKArrives, TInv
  <2>2. script.hangup \in Nat /\ remaining \in Int
    BY <1>0, ScriptIsValid DEF TInv, Typed
  <2>3. SentInTime'
    BY <2>1 DEF TInv, SentInTime
  <2>4. CASE Answered /\ remaining < 0
    <3>1. SendBYE
      BY <1>7, <2>4 DEF ACKArrives
    <3>2. Typed'
      BY <1>0, <2>1, <3>1, BYERepeats DEF TInv, Typed, Time
    <3>3. sent[Last] \in Nat /\ sent[Last] <= now /\ 0 < script.hangup /\ script.hangup <= sent[Last]
      BY <2>1, <2>2, <2>4 DEF TInv, Counted
    <3>4. HungUpInTime'
      BY <1>0, <2>1, <2>2, <3>1, <3>3, BYERepeats DEF HungUpInTime, Last
    <3> QED
      BY <2>1, <2>3, <3>1, <3>2, <3>4, BYERepeats DEF TInv, Expecting, Counted, Lasting
  <2>5. CASE ~(Answered /\ remaining < 0)
    <3>1. /\ phase' = (IF Answered THEN "dialog" ELSE "done")
          /\ timer' = (IF Answered /\ remaining > 0 THEN now + remaining ELSE Never)
          /\ UNCHANGED <<interval, bye, lastSent>>
      BY <1>7, <2>5 DEF ACKArrives
    <3>2. Typed'
      BY <1>0, <2>1, <2>2, <3>1 DEF TInv, Typed, Time
    <3>3. Lasting'
      <4> SUFFICES ASSUME Answered, script.hangup > 0 PROVE Lasting'
        BY <2>1, <3>1 DEF Lasting
      <4>1. /\ sent[Last] \in Nat /\ sent[Last] <= now
            /\ remaining = script.hangup - sent[Last] /\ remaining > 0
        BY <1>0, <2>1, <2>2, <2>5 DEF TInv, Counted
      <4> QED
        BY <1>0, <2>1, <2>2, <3>1, <4>1 DEF Lasting, Last
    <3> QED
      BY <2>1, <2>3, <3>1, <3>2, <3>3 DEF TInv, Expecting, Repeating, Counted, HungUpInTime
  <2> QED
    BY <2>4, <2>5
<1>8. CASE HangUp
  <2>1. /\ phase = "dialog" /\ (Due \/ script.playback) /\ SendBYE
        /\ UNCHANGED <<script, now, step, remaining, sent, acked>>
    BY <1>8 DEF HangUp
  <2>2. Typed'
    BY <2>1, BYERepeats DEF TInv, Typed
  <2>3. HungUpInTime'
    <3> SUFFICES ASSUME script.hangup > 0 PROVE HungUpInTime'
      BY <2>1 DEF HungUpInTime
    <3>1. /\ script.hangup \in Nat /\ sent[Last] \in Nat /\ acked \in Nat
          /\ sent[Last] < script.hangup /\ sent[Last] <= acked
          /\ timer = acked + (script.hangup - sent[Last]) /\ now <= timer + Lag
      BY <1>0, <2>1, ScriptIsValid DEF TInv, Lasting
    <3>2. bye' >= script.hangup \/ script.playback
      BY <1>0, <2>1, <3>1, BYERepeats DEF Due
    <3>3. bye' = now
      BY <2>1, BYERepeats
    <3> QED
      BY <1>0, <2>1, <3>1, <3>2, <3>3 DEF HungUpInTime, Last
  <2>4. SentInTime'
    BY <2>1 DEF TInv, SentInTime
  <2> QED
    BY <2>1, <2>2, <2>3, <2>4, BYERepeats DEF TInv, Expecting, Counted, Lasting
<1>9. CASE End
  <2>1. /\ phase' = "done" /\ timer' = Never
        /\ UNCHANGED <<script, now, step, interval, remaining, sent, acked, bye, lastSent>>
    BY <1>9 DEF End
  <2>2. Typed' /\ SentInTime' /\ HungUpInTime'
    BY <2>1 DEF TInv, Typed, Time, SentInTime, HungUpInTime, Last
  <2> QED
    BY <2>1, <2>2 DEF TInv, Expecting, Repeating, Counted, Lasting
<1>10. CASE UNCHANGED vars
  BY <1>10 DEF vars, TInv, Typed, Expecting, Repeating, Counted, Lasting, Answered, Status,
               SentInTime, HungUpInTime, Last
<1> QED
  BY <1>1, <1>2, <1>3, <1>4, <1>5, <1>6, <1>7, <1>8, <1>9, <1>10 DEF Next

(* What the armed timer stands for, at any moment of any call.             *)
THEOREM TimerInvariance == Spec => []TInv
<1> QED
  BY TInvInitially, StepKeepsTInv, PTL DEF Spec

(* The messages of a script go out at their times, and a BYE neither       *)
(* before HangupAfter nor later than it by more than the wait for the ACK  *)
(* (waitForBehaviorDeadline, remainingUntil).                              *)
THEOREM ScriptedTimesCorrect == Spec => []ScriptedTimesKept
<1>1. TInv => ScriptedTimesKept
  <2> SUFFICES ASSUME TInv PROVE ScriptedTimesKept
    OBVIOUS
  <2>1. script.hangup \in Nat /\ DOMAIN script.steps = 1 .. Last /\ Last \in Nat
    BY ScriptIsValid DEF TInv, Typed
  <2>2. DOMAIN sent = 1 .. Last
    BY <2>1 DEF TInv, Typed
  <2>3. Len(sent) = Last
    BY <2>1, <2>2
  <2>4. \A i \in DOMAIN sent : sent[i] # Never => sent[i] - script.steps[i].at \in 0 .. Lag
    BY <2>1, <2>2 DEF TInv, SentInTime
  <2>5. ASSUME bye # Never, script.hangup > 0
        PROVE  /\ bye >= script.hangup \/ script.playback
               /\ bye <= Max({script.hangup, sent[Last]}) + (acked - sent[Last]) + Lag
    <3>1. sent[Last] \in Nat /\ script.hangup \in Int
      BY <2>1, <2>5 DEF TInv, HungUpInTime
    <3>2. Max({script.hangup, sent[Last]})
            = IF script.hangup >= sent[Last] THEN script.hangup ELSE sent[Last]
      BY <3>1, LargerOfTwo
    <3> QED
      BY <2>5, <3>2 DEF TInv, HungUpInTime
  <2> QED
    BY <2>3, <2>4, <2>5 DEF ScriptedTimesKept
<1> QED
  BY <1>1, TimerInvariance, PTL

(* No more than T2, and the lateness of the goroutine, passes between two  *)
(* sendings of an unanswered message (waitForInviteACK,                    *)
(* sendNonInviteTransaction).                                              *)
THEOREM RepetitionCorrect == Spec => []RepeatedUntilAnswered
<1>1. TInv => RepeatedUntilAnswered
  BY TimingAssumption DEF TInv, Typed, Repeating, RepeatedUntilAnswered
<1> QED
  BY <1>1, TimerInvariance, PTL
=============================================================================
