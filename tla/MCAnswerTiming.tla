---------------------------- MODULE MCAnswerTiming ----------------------------
(* TLC instance of AnswerTiming: scripts of an answer with and without 100, *)
(* of early media and of an early failure, with equal and distinct times.   *)
EXTENDS AnswerTiming

At(status, at) == [status |-> status, at |-> at]

Script(steps, hangup, playback) == [steps |-> steps, hangup |-> hangup, playback |-> playback]

MCScripts ==
  {Script(<<At(100, 1), At(180, 2), At(200, 4)>>, hangup, playback) :
     hangup \in {0, 4, 6}, playback \in BOOLEAN}
  \cup {Script(<<At(180, 1), At(200, 1)>>, 5, FALSE),
        Script(<<At(100, 0), At(183, 0), At(180, 2), At(200, 3)>>, 6, FALSE),
        Script(<<At(100, 1), At(183, 1), At(486, 3)>>, 0, FALSE)}
=============================================================================
