---------------------------- MODULE InviteClient ----------------------------
(***************************************************************************)
(* What the caller side promises about its INVITE: one client transaction  *)
(* at a time, at most one retry, and that only after the challenge of the  *)
(* first was acknowledged; a dialog only out of an acknowledged final      *)
(* response; nothing once the call has ended.                              *)
(***************************************************************************)
EXTENDS Naturals

VARIABLES attempt,   \* INVITE transactions started so far
          phase      \* idle, calling, proceeding, answered (a final response is
                     \* owed its ACK), challenged, confirmed, ended

vars == <<attempt, phase>>

Init == attempt = 0 /\ phase = "idle"

Start ==
  /\ attempt' = attempt + 1 /\ phase' = "calling"
  /\ \/ attempt = 0 /\ phase = "idle"
     \/ attempt = 1 /\ phase = "challenged"

Provisional == phase = "calling" /\ phase' = "proceeding" /\ UNCHANGED attempt

Final ==
  /\ phase \in {"calling", "proceeding"} /\ phase' = "answered"
  /\ UNCHANGED attempt

Acknowledge ==
  /\ phase = "answered"
  /\ phase' \in {"challenged", "confirmed"}
  /\ UNCHANGED attempt

(* Timeout, cancellation, failure, or the end of the call.                 *)
End == phase # "ended" /\ phase' = "ended" /\ UNCHANGED attempt

Next == Start \/ Provisional \/ Final \/ Acknowledge \/ End

Spec == Init /\ [][Next]_vars
=============================================================================
