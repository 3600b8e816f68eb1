------------------------------ MODULE MCCards ------------------------------
EXTENDS Cards, TLC

CONSTANTS crew, channel

Said(action, team, ch, cites) ==
  [action |-> action, team |-> team, channel |-> ch, cites |-> cites]
Reported(assessment) == [action |-> "reported", assessment |-> assessment]

(* Requests and assignments of one moment, one request with and one without *)
(* a name, then an assignment and a reply of the next; the second event may *)
(* be a report on the task instead, which a device out of the subject's     *)
(* scope goes on with.                                                      *)
Times == (1 :> 0) @@ (2 :> 0) @@ (3 :> 1) @@ (4 :> 1) @@ (5 :> 1)
Sources == [e \in Event |-> IF e = 5 THEN "camera" ELSE "radio"]
Heard ==
  (1 :> {Said("requested", crew, None, {1}), Said("assigned", None, channel, {1})}) @@
  (2 :> {Said("requested", None, None, {2}), Said("assigned", None, channel, {2}),
         Reported("checking")}) @@
  (3 :> {Said("assigned", None, channel, {1, 3})}) @@
  (4 :> {Said("acknowledged", None, channel, {4})}) @@
  (5 :> {Reported("supported_by_report")})
=============================================================================
