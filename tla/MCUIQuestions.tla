---------------------------- MODULE MCUIQuestions ---------------------------
(* Values for model checking UIQuestions.                                  *)
EXTENDS UIQuestions, TLC

CONSTANT e1

(* Nothing to say, or one claim on the event. *)
Replies == {{}, {{e1}}}

(* The event carries a time after the start. *)
Times == [e \in Event |-> 1]
=============================================================================
