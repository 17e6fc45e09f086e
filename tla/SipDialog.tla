------------------------------ MODULE SipDialog ------------------------------
(***************************************************************************)
(* SIP requests and responses as one call leg tells them apart, and the    *)
(* pure part of the in-dialog request handler of src/signaling.go.         *)
(*                                                                         *)
(* A datagram keeps only what the code compares: its method, the response  *)
(* status (0 for a request), whether its Call-ID is this call's, its CSeq  *)
(* number, the identity carried by its From and To headers, whether its    *)
(* top Via branch is the INVITE's, and the verdict parseDTMFInfo reaches   *)
(* on its body.                                                            *)
(***************************************************************************)
EXTENDS Integers

CONSTANT InviteCSeq   \* CSeq number of the INVITE that created the call

ASSUME InviteCSeqAssumption == InviteCSeq \in Nat

NoCSeq == -1          \* CSeq header absent, malformed, or naming another method

RequestMethods == {"INVITE", "ACK", "CANCEL", "BYE", "INFO", "OTHER"}

(* From and To of a message: exactly the INVITE's (To without a tag), the  *)
(* two tags of the dialog, or anything else.                               *)
Identities == {"invite", "dialog", "stranger"}

DTMFVerdicts == {200, 400, 415}

Statuses == 100 .. 699

Datagram == [method : RequestMethods, status : {0} \cup Statuses,
             call : BOOLEAN, cseq : Nat \cup {NoCSeq},
             ids : Identities, branch : BOOLEAN, body : DTMFVerdicts]

IsRequest(m) == m.status = 0

(* isMatching: Call-ID and CSeq (number and method) of message m.          *)
IsMatching(m, method, cseq) == m.call /\ m.method = method /\ m.cseq = cseq

Success(status) == status \in 200 .. 299

InviteRetransmission(m) ==
  /\ IsRequest(m)
  /\ IsMatching(m, "INVITE", InviteCSeq)
  /\ m.branch

ValidInviteCANCEL(m) ==
  /\ IsRequest(m)
  /\ IsMatching(m, "CANCEL", InviteCSeq)
  /\ m.branch
  /\ m.ids = "invite"

(* A 2xx is acknowledged end to end, so its ACK carries a branch of its    *)
(* own; the ACK of a non-2xx final belongs to the INVITE transaction.      *)
MatchingACK(m, final) ==
  /\ IsRequest(m)
  /\ IsMatching(m, "ACK", InviteCSeq)
  /\ m.ids = "dialog"
  /\ final < 300 \/ m.branch

(***************************************************************************)
(* handleDialogRequest, for a request m of an established dialog.          *)
(***************************************************************************)

(* A retransmission of the INVITE is answered with the stored 200.         *)
ResendsOK(m, storedOK) == storedOK /\ InviteRetransmission(m)

(* Requests that reach the CSeq bookkeeping of the dialog.                 *)
InDialog(m, storedOK) ==
  /\ m.call
  /\ m.method # "ACK"
  /\ ~ResendsOK(m, storedOK)
  /\ m.ids = "dialog"
  /\ m.cseq # NoCSeq

(* Faulty variant: only CSeq numbers below the last one are stale.         *)
DuplicateBelow(m, remoteCSeq) == m.cseq < remoteCSeq

Duplicate(m, remoteCSeq) == m.cseq <= remoteCSeq

MethodStatus(m) ==
  IF m.method = "BYE" THEN 200 ELSE IF m.method = "INFO" THEN m.body ELSE 501

(* Status of the response to m, 0 when it gets none.                       *)
DialogStatus(m, storedOK) ==
  IF ~m.call \/ m.method = "ACK" THEN 0
  ELSE IF ResendsOK(m, storedOK)  THEN 200
  ELSE IF InDialog(m, storedOK)   THEN MethodStatus(m)
  ELSE IF m.ids = "dialog"        THEN 400
  ELSE 481

NextRemoteCSeq(m, storedOK, remoteCSeq) ==
  IF InDialog(m, storedOK) /\ ~Duplicate(m, remoteCSeq) THEN m.cseq ELSE remoteCSeq

(* A first BYE ends the call; a first well-formed INFO records its digit.  *)
EndsDialog(m, storedOK, remoteCSeq) ==
  m.method = "BYE" /\ InDialog(m, storedOK) /\ ~Duplicate(m, remoteCSeq)

RecordsDigit(m, storedOK, remoteCSeq) ==
  /\ m.method = "INFO" /\ m.body = 200
  /\ InDialog(m, storedOK) /\ ~Duplicate(m, remoteCSeq)
=============================================================================
