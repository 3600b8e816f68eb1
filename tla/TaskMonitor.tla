----------------------------- MODULE TaskMonitor ----------------------------
(***************************************************************************)
(* What the agent service promises about ordinary tasks, with no jobs      *)
(* table, no workers, no leases and no retries: a task's status is moved   *)
(* by reports, each of which is used once, and by the absence of any       *)
(* report when everything known up to the scenario clock has been read.    *)
(* A notice is shown once an absence was found, and from then on follows   *)
(* the status.  AgentStore is shown to implement this specification.       *)
(***************************************************************************)
EXTENDS Integers

CONSTANTS
  Event,    \* the messages sources may send
  Task,     \* the tasks they may be about
  MaxTime   \* bound on scenario time

MonitorAssumption == MaxTime \in Nat

VARIABLES
  now,      \* the scenario clock
  input,    \* what is known of each event of this generation
  arrived,  \* the time each event carries
  status,   \* the assessment of each task
  sources,  \* the events each assessment rests on
  notice    \* the assessment last shown to the operator

tmvars == <<now, input, arrived, status, sources, notice>>

Moment == 0..MaxTime
Reported == {"checking", "accepted", "supported_by_report", "no_longer_relevant"}
Closed == {"supported_by_report", "no_longer_relevant"}
Open == {"checking", "accepted"}

MonitorTypeOK ==
  /\ now \in Moment
  /\ input \in [Event -> {"unknown", "unread", "read", "unreadable"}]
  /\ arrived \in [Event -> Moment]
  /\ status \in [Task -> Reported \cup {"absent", "no_confirmation"}]
  /\ sources \in [Task -> SUBSET Event]
  /\ notice \in [Task -> Reported \cup {"absent", "no_confirmation"}]

Blank ==
  /\ now = 0
  /\ input = [e \in Event |-> "unknown"]
  /\ arrived = [e \in Event |-> 0]
  /\ status = [t \in Task |-> "absent"]
  /\ sources = [t \in Task |-> {}]
  /\ notice = [t \in Task |-> "absent"]

Arrive(e, ms) ==
  /\ input[e] = "unknown"
  /\ input' = [input EXCEPT ![e] = "unread"]
  /\ arrived' = [arrived EXCEPT ![e] = ms]
  /\ UNCHANGED <<now, status, sources, notice>>

Readable(e) == input[e] = "unread" /\ arrived[e] <= now

(* An event is read once, when the clock has reached it; it may move one   *)
(* task, and never reopens a closed one except to check it anew.           *)
Read(e) ==
  /\ Readable(e)
  /\ input' = [input EXCEPT ![e] = "read"]
  /\ \/ UNCHANGED <<status, sources, notice>>
     \/ \E t \in Task, s \in Reported :
          /\ status[t] \in Closed => s \in Closed \cup {"checking"}
          /\ status' = [status EXCEPT ![t] = s]
          /\ sources' = [sources EXCEPT ![t] = @ \cup {e}]
          /\ notice' = [notice EXCEPT ![t] = IF @ = "absent" THEN @ ELSE s]
  /\ UNCHANGED <<now, arrived>>

GiveUp(e) ==
  /\ Readable(e)
  /\ input' = [input EXCEPT ![e] = "unreadable"]
  /\ UNCHANGED <<now, arrived, status, sources, notice>>

AllRead(ms) == \A e \in Event : input[e] \in {"unread", "unreadable"} => arrived[e] > ms

(* The clock moves on, and some of the open tasks are found unconfirmed.   *)
Advance(ms) ==
  /\ ms >= now
  /\ now' = ms
  /\ \E late \in SUBSET {t \in Task : status[t] \in Open} :
       /\ late # {} => AllRead(ms)
       /\ status' = [t \in Task |-> IF t \in late THEN "no_confirmation" ELSE status[t]]
       /\ notice' = [t \in Task |-> IF t \in late THEN "no_confirmation" ELSE notice[t]]
  /\ UNCHANGED <<input, arrived, sources>>

(* A new generation begins with nothing known. *)
StartOver ==
  /\ now' = 0
  /\ input' = [e \in Event |-> "unknown"]
  /\ arrived' = [e \in Event |-> 0]
  /\ status' = [t \in Task |-> "absent"]
  /\ sources' = [t \in Task |-> {}]
  /\ notice' = [t \in Task |-> "absent"]

MonitorNext ==
  \/ \E e \in Event : \/ \E ms \in Moment : Arrive(e, ms)
                      \/ Read(e)
                      \/ GiveUp(e)
  \/ \E ms \in Moment : Advance(ms)
  \/ StartOver

MonitorSpec == Blank /\ [][MonitorNext]_tmvars

(* A source that supports one task supports no other, and was read: the    *)
(* monitor never lets one message decide two tasks.                        *)
SourcesDisjoint ==
  /\ \A t \in Task : \A e \in sources[t] : input[e] = "read"
  /\ \A t, u \in Task : t # u => sources[t] \cap sources[u] = {}
=============================================================================
