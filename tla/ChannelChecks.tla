--------------------------- MODULE ChannelChecks ---------------------------
(***************************************************************************)
(* The reducer that links what was said on a radio channel: a group asks   *)
(* for a working channel, one is assigned, the group replies.              *)
(* fire_agents/channels.py                                                 *)
(*                                                                         *)
(* A fact is what a model extracted from one event:                        *)
(*   [event, time, source, action, team, channel, cites]                   *)
(* with team and channel in their normalised form or None.  Rebuild makes  *)
(* all checks anew from all facts, in the order of the events' time.       *)
(***************************************************************************)
EXTENDS Integers, FiniteSets, Folds

CONSTANTS
  None,
  LinkWindow,    \* 60 s: what belongs to a check follows its last event
  ReplyWindow    \* 30 s: a reply follows the assignment

ASSUME WindowAssumption ==
  LinkWindow \in Nat /\ ReplyWindow \in Nat /\ ReplyWindow <= LinkWindow

Before(f, g) == f.time < g.time \/ (f.time = g.time /\ f.event < g.event)

(* A check is named after the event that opened it: a request, or an        *)
(* assignment nobody was found to have asked for.                           *)
NewCheck(f) ==
  [ref |-> f.event, source |-> f.source, team |-> f.team,
   request |-> IF f.action = "requested" THEN f.event ELSE None,
   channel |-> None, assignment |-> None, assignedAt |-> None,
   acknowledgement |-> None, evidence |-> {}, last |-> f.time]

Candidates(checks, f) ==
  {c \in checks : /\ c.source = f.source
                  /\ f.time - c.last \in 0..LinkWindow
                  /\ f.team # None => c.team = f.team}

(* Slip: a check that has its channel takes another one.                    *)
PendingReassigned(checks, f) == Candidates(checks, f)

Pending(checks, f) == {c \in Candidates(checks, f) : c.channel = None}

(* Slip: the reply may be of the very moment of the assignment.             *)
AnsweredAtOnce(checks, f) ==
  {c \in Candidates(checks, f) :
     /\ c.assignment # None /\ c.channel = f.channel
     /\ f.time - c.assignedAt \in 0..ReplyWindow}

Answered(checks, f) ==
  {c \in Candidates(checks, f) :
     /\ c.assignment # None /\ c.channel = f.channel
     /\ f.time - c.assignedAt \in 1..ReplyWindow}

Extend(c, f) == [c EXCEPT !.last = f.time, !.evidence = @ \cup f.cites]

Requested(c, f) == Extend(c, f)
Assigned(c, f) ==
  [Extend(c, f) EXCEPT !.channel = f.channel, !.assignment = f.event,
                       !.assignedAt = f.time]
Acknowledged(c, f) == [Extend(c, f) EXCEPT !.acknowledgement = f.event]

(* One requester is asked for the others: a label that several may share is *)
(* no identity, so an anonymous request never joins another.                *)
LinkRequest(checks, f) ==
  LET pending == IF f.team = None THEN {} ELSE Pending(checks, f)
      check == IF Cardinality(pending) = 1 THEN CHOOSE c \in pending : TRUE
               ELSE NewCheck(f)
  IN (checks \ {check}) \cup {Requested(check, f)}

(* Several anonymous requests, or none: the assignment stands for itself.   *)
(* Several of which one is named: it is not linked at all.                  *)
LinkAssignment(checks, f) ==
  LET pending == Pending(checks, f)
      check == IF Cardinality(pending) = 1 THEN CHOOSE c \in pending : TRUE
               ELSE NewCheck(f)
  IN IF Cardinality(pending) > 1 /\ \E c \in pending : c.team # None
     THEN checks
     ELSE (checks \ {check}) \cup {Assigned(check, f)}

LinkReply(checks, f) ==
  LET answered == Answered(checks, f)
  IN IF Cardinality(answered) # 1 THEN checks
     ELSE (checks \ answered) \cup {Acknowledged(c, f) : c \in answered}

Link(checks, f) ==
  CASE f.action = "requested" -> LinkRequest(checks, f)
    [] f.action = "assigned" /\ f.channel # None -> LinkAssignment(checks, f)
    [] f.action = "acknowledged" /\ f.channel # None -> LinkReply(checks, f)
    [] OTHER -> checks

Latest(facts) == CHOOSE f \in facts : \A g \in facts \ {f} : Before(g, f)

Rebuild(facts) ==
  MapThenFoldSet(LAMBDA f, checks : Link(checks, f), {}, LAMBDA f : f, Latest, facts)
=============================================================================
