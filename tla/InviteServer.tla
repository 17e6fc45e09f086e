---------------------------- MODULE InviteServer ----------------------------
(***************************************************************************)
(* What the callee side promises about the INVITE transaction, whatever    *)
(* behaviour is scripted: provisional responses only before the final one, *)
(* one final response that is never replaced, an ACK only after it, and    *)
(* nothing once the call has ended.                                        *)
(***************************************************************************)
EXTENDS Naturals

VARIABLES phase,     \* idle, proceeding, completed, confirmed, ended
          response   \* the last response of the transaction, 0 for none

vars == <<phase, response>>

Init == phase = "idle" /\ response = 0

Accept == phase = "idle" /\ phase' = "proceeding" /\ UNCHANGED response

SendProvisional ==
  /\ phase = "proceeding"
  /\ response' \in 100 .. 199
  /\ UNCHANGED phase

SendFinal ==
  /\ phase = "proceeding" /\ phase' = "completed"
  /\ response' \in 200 .. 699

(* A request without a valid transaction is refused and forgotten.         *)
RefuseStatelessly ==
  /\ phase = "proceeding" /\ phase' = "ended"
  /\ response = 0 /\ response' \in 400 .. 699

ReceiveACK == phase = "completed" /\ phase' = "confirmed" /\ UNCHANGED response

(* Deadline, cancellation, failure, or the end of a confirmed call.        *)
End == phase # "ended" /\ phase' = "ended" /\ UNCHANGED response

Next == Accept \/ SendProvisional \/ SendFinal \/ RefuseStatelessly \/ ReceiveACK \/ End

Spec == Init /\ [][Next]_vars
=============================================================================
