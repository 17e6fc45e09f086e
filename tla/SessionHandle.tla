---------------------------- MODULE SessionHandle ----------------------------
(***************************************************************************)
(* What a test may rely on when it holds a Session and several of its      *)
(* goroutines call Wait and Close: no call returns before the session has  *)
(* finished, every Wait returns the one final result, and a second call    *)
(* is as good as the first.                                                *)
(***************************************************************************)
CONSTANTS Callers, Results, NoResult

VARIABLES finished,   \* the session has ended
          outcome,    \* its result, NoResult before
          call,       \* what each caller is doing: none, wait or close
          told        \* the result its last Wait returned

vars == <<finished, outcome, call, told>>

Init ==
  /\ finished = FALSE /\ outcome = NoResult
  /\ call = [c \in Callers |-> "none"]
  /\ told = [c \in Callers |-> NoResult]

Decide ==
  /\ ~finished /\ outcome = NoResult
  /\ outcome' \in Results
  /\ UNCHANGED <<finished, call, told>>

Finish ==
  /\ outcome # NoResult /\ finished' = TRUE
  /\ UNCHANGED <<outcome, call, told>>

Invoke(c) ==
  /\ call[c] = "none"
  /\ \E operation \in {"wait", "close"} : call' = [call EXCEPT ![c] = operation]
  /\ UNCHANGED <<finished, outcome, told>>

Return(c) ==
  /\ finished /\ call[c] # "none"
  /\ call' = [call EXCEPT ![c] = "none"]
  /\ told' = IF call[c] = "wait" THEN [told EXCEPT ![c] = outcome] ELSE told
  /\ UNCHANGED <<finished, outcome>>

Next == Decide \/ Finish \/ \E c \in Callers : Invoke(c) \/ Return(c)

Spec == Init /\ [][Next]_vars
=============================================================================
