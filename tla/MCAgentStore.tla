---------------------------- MODULE MCAgentStore ----------------------------
(* Values for model checking AgentStore.                                   *)
EXTENDS AgentStore, TLC

CONSTANTS t1, t2, m1, m2

Report(action, task, team) ==
  [action |-> action, task |-> task, team |-> team, cites |-> TRUE]

(* What opens, moves and closes a task, and a claim that cites another     *)
(* event and is refused.                                                   *)
OneTask ==
  {Report("assigned", t1, m1), Report("accepted", t1, NoTeam),
   Report("completed", t1, NoTeam),
   [action |-> "completed", task |-> t1, team |-> m1, cites |-> FALSE]}

(* Two tasks and two teams: reports that name no team, the wrong one or no *)
(* task, and the empty result.                                             *)
TwoTasks ==
  {Report("assigned", t1, m1), Report("completed", t1, NoTeam),
   Report("accepted", t1, m2), Report("assigned", t2, NoTeam),
   Report("cancelled", t2, m2), Report("channel", NoTask, NoTeam),
   Report("completed", NoTask, m1), Report("none", NoTask, NoTeam)}

Interchangeable == Permutations(Event) \cup Permutations(Worker)
=============================================================================
