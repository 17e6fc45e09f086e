----------------------------- MODULE AnswerTiming -----------------------------
(***************************************************************************)
(* When an answering session sends: the timers of runOutboundAnswer,       *)
(* runOutboundEarlyMedia and runOutboundEarlyFailure (src/outbound.go),    *)
(* of runEstablishedDialog and sendNonInviteTransaction (src/dialog.go).   *)
(* OutboundCall has the control of these scenarios without time; here      *)
(* only what sets, stops or outlives a timer is kept.                      *)
(*                                                                         *)
(* Time counts from the first valid INVITE (started).  A goroutine runs at *)
(* most Lag after its timer is due.                                        *)
(***************************************************************************)
EXTENDS Integers, Sequences, FiniteSetsExt

CONSTANTS
  Scripts,    \* [steps: sequence of [status, at], hangup, playback]
  T1, T2,     \* SIPT1, SIPT2
  Lag,
  MaxTime,    \* bound: the run is not followed beyond
  Never       \* no time

ASSUME TimingAssumption ==
  /\ T1 \in Nat \ {0} /\ T2 \in Nat /\ T2 >= T1 /\ Lag \in Nat /\ MaxTime \in Nat
  /\ Never \notin Int

(* validate: times in order, one final response, after the others.         *)
ASSUME ScriptsAssumption ==
  \A s \in Scripts :
    /\ s.hangup \in Nat /\ s.playback \in BOOLEAN
    /\ s.steps \in Seq([status : 100 .. 699, at : Nat]) /\ s.steps # <<>>
    /\ \A i, j \in DOMAIN s.steps : i < j => s.steps[i].at <= s.steps[j].at
    /\ \A i \in DOMAIN s.steps : s.steps[i].status >= 200 <=> i = Len(s.steps)

VARIABLES
  script,
  now,
  phase,       \* waiting: for the next step; ack: for the ACK of the final
               \* response; dialog: for its end; bye: for the answer to BYE; done
  step,        \* the next message of the script
  timer,       \* when the armed timer is due, Never if none is armed
  interval,    \* of retransmissions
  remaining,   \* remainingUntil(HangupAfter) when the call was answered
  sent,        \* history: when each message of the script was sent
  acked, bye,  \* history: when the ACK came, when BYE was sent
  lastSent     \* history: when final response or BYE went out last

vars == <<script, now, phase, step, timer, interval, remaining, sent, acked, bye, lastSent>>

Status == script.steps[step].status

Due == timer # Never /\ now >= timer

(* waitForBehaviorDeadline arms a timer unless the time has passed.        *)
Deadline(at) == IF at > now THEN at ELSE Never

(* Faulty variant: the times of the script are waits one after the other.  *)
CumulativeDeadline(at) == IF at > 0 THEN now + at ELSE Never

StepDeadline(at) == Deadline(at)

Init ==
  /\ script \in Scripts
  /\ now = 0 /\ phase = "waiting" /\ step = 1
  /\ timer = StepDeadline(script.steps[1].at)
  /\ interval = T1 /\ remaining = 0
  /\ sent = [i \in DOMAIN script.steps |-> Never]
  /\ acked = Never /\ bye = Never /\ lastSent = Never

(* Time passes unless the goroutine is running: it is not waiting, or its  *)
(* timer was due Lag ago.                                                  *)
Tick ==
  /\ now < MaxTime
  /\ phase = "waiting" => timer # Never
  /\ phase # "done" /\ (timer # Never => now < timer + Lag)
  /\ now' = now + 1
  /\ UNCHANGED <<script, phase, step, timer, interval, remaining, sent, acked, bye, lastSent>>

(* A provisional response of the script, then the wait for the next step.  *)
SendProvisional ==
  /\ phase = "waiting" /\ (timer = Never \/ Due) /\ Status < 200
  /\ sent' = [sent EXCEPT ![step] = now]
  /\ step' = step + 1
  /\ timer' = StepDeadline(script.steps[step + 1].at)
  /\ UNCHANGED <<script, now, phase, interval, remaining, acked, bye, lastSent>>

(* remainingUntil: 0 waits for the peer, -1 is too late for any wait.      *)
Remaining ==
  CASE script.hangup = 0 -> 0
    [] script.hangup > now -> script.hangup - now
    [] OTHER -> -1

Final ==
  /\ phase' = "ack" /\ interval' = T1 /\ timer' = now + T1 /\ lastSent' = now

(* The final response; the time left for the dialog is computed with it.   *)
SendFinal ==
  /\ phase = "waiting" /\ (timer = Never \/ Due) /\ Status >= 200
  /\ sent' = [sent EXCEPT ![step] = now]
  /\ remaining' = Remaining
  /\ Final
  /\ UNCHANGED <<script, now, step, acked, bye>>

(* finishCanceledInvite: 487 takes the place of the rest of the script.    *)
CancelArrives ==
  /\ phase = "waiting" /\ timer # Never
  /\ remaining' = -1 /\ step' = 0
  /\ Final
  /\ UNCHANGED <<script, now, sent, acked, bye>>

(* Faulty variant: T2 does not bound the interval.                         *)
DoubledInterval == 2 * interval

NextInterval == Min({2 * interval, T2})

Retransmit ==
  /\ phase \in {"ack", "bye"} /\ Due
  /\ lastSent' = now
  /\ interval' = NextInterval /\ timer' = now + NextInterval
  /\ UNCHANGED <<script, now, phase, step, remaining, sent, acked, bye>>

(* A repeated INVITE is answered at once and leaves the timer alone.       *)
InviteArrivesAgain ==
  /\ phase = "ack" /\ lastSent' = now
  /\ UNCHANGED <<script, now, phase, step, timer, interval, remaining, sent, acked, bye>>

(* sendDialogBYE: a transaction with an interval and a timer of its own.   *)
SendBYE ==
  /\ phase' = "bye" /\ bye' = now /\ lastSent' = now
  /\ interval' = T1 /\ timer' = now + T1

Answered == step # 0 /\ Status \in 200 .. 299

(* The ACK: an answered call becomes a dialog with what remains until      *)
(* HangupAfter, or ends at once when nothing remains.                      *)
ACKArrives ==
  /\ phase = "ack" /\ acked' = now
  /\ IF Answered /\ remaining < 0
     THEN SendBYE
     ELSE /\ phase' = IF Answered THEN "dialog" ELSE "done"
          /\ timer' = IF Answered /\ remaining > 0 THEN now + remaining ELSE Never
          /\ UNCHANGED <<interval, bye, lastSent>>
  /\ UNCHANGED <<script, now, step, remaining, sent>>

(* The time is over, or the playback is.                                   *)
HangUp ==
  /\ phase = "dialog" /\ (Due \/ script.playback)
  /\ SendBYE
  /\ UNCHANGED <<script, now, step, remaining, sent, acked>>

(* BYE of the peer, its answer to ours, an error, or the end of the context *)
(* (the one BYE a cancelled session sends on its way out has no time).     *)
End ==
  /\ phase # "done" /\ phase' = "done" /\ timer' = Never
  /\ UNCHANGED <<script, now, step, interval, remaining, sent, acked, bye, lastSent>>

Next ==
  \/ Tick \/ SendProvisional \/ SendFinal \/ CancelArrives \/ Retransmit
  \/ InviteArrivesAgain \/ ACKArrives \/ HangUp \/ End

Spec == Init /\ [][Next]_vars

-----------------------------------------------------------------------------
(* Properties. *)

(* The times of a script count from the first INVITE: a message is not     *)
(* sent before its time, and the lateness of earlier ones does not add up  *)
(* (waitForBehaviorDeadline).  BYE is not sent before HangupAfter unless   *)
(* playback ends the call, and at most the wait for the ACK after it.      *)
ScriptedTimesKept ==
  /\ \A i \in DOMAIN sent :
       sent[i] # Never => sent[i] - script.steps[i].at \in 0 .. Lag
  /\ bye # Never /\ script.hangup > 0 =>
       /\ bye >= script.hangup \/ script.playback
       /\ LET answered == sent[Len(sent)]
          IN bye <= Max({script.hangup, answered}) + (acked - answered) + Lag

(* A final response that is not ACKed and a BYE that is not answered are   *)
(* repeated before T2 is over, whatever repeated INVITEs are answered in   *)
(* between (waitForInviteACK, sendNonInviteTransaction).                   *)
RepeatedUntilAnswered ==
  phase \in {"ack", "bye"} => now - lastSent <= T2 + Lag

(* spec.md:633: all times are relative to the first valid INVITE, and a    *)
(* positive HangupAfter is an upper bound.  The code subtracts the time    *)
(* that has passed when the call is answered and waits for the rest once   *)
(* the ACK has come, so a late ACK moves the BYE.                          *)
HangupAfterIsUpperBound ==
  bye # Never /\ script.hangup > 0 =>
    bye <= Max({script.hangup, acked}) + Lag
=============================================================================
