------------------------------ MODULE Publisher -----------------------------
(***************************************************************************)
(* The explicit incident publisher (agent-service/fire_agents/platform.py, *)
(* class Publisher; platform_cli.py publish-one) and what the platform's   *)
(* incident tools do with its calls.                                       *)
(*                                                                         *)
(* incident_writer.py of the platform carries the calls out.               *)
(*                                                                         *)
(* Each invocation is a process of its own: it opens the database, turns   *)
(* every row left in "sending" into "uncertain", and works off at most one *)
(* outbox row.  Between its transactions it waits for remote calls that    *)
(* are not idempotent.  A call travels: it may be applied after its        *)
(* publisher has given up on it or died, or never.  The store goes on      *)
(* enqueuing publications, a reset may come at any moment, and operators   *)
(* change the status of incidents.                                         *)
(*                                                                         *)
(* README.md of agent-service asks for one publisher per database, so one  *)
(* process runs at a time here.  The evidence of a publication is its set  *)
(* of events; an event without a reading id cannot be linked.              *)
(***************************************************************************)
EXTENDS Integers, Sequences, FiniteSets

CONSTANTS
  Task,
  Event,           \* events a publication may cite
  Unread,          \* the events that carry no reading id
  None,
  MaxGen,          \* bound: resets
  MaxRows,         \* bound: publications enqueued over all generations
  MaxInvocations,  \* bound: invocations of publish-one
  MaxOperator      \* bound: changes an operator makes to incidents

ASSUME PublisherAssumption ==
  /\ IsFiniteSet(Event) /\ Unread \subseteq Event
  /\ MaxGen \in Nat /\ MaxRows \in Nat /\ MaxInvocations \in Nat
  /\ MaxOperator \in Nat
  /\ None \notin Nat

VARIABLES
  generation,   \* sessions.generation
  outbox,       \* rows in rowid order
  link,         \* platform_links: incident of a generation and task
  phase,        \* where the publisher process is
  row,          \* the row it works on
  incident,     \* the incident it works on
  toLink,       \* evidence it still has to link
  answered,     \* the outstanding call has been applied and its result returned
  wire,         \* calls sent and not applied yet
  incidents,    \* the platform's incidents, in creation order
  invocations, operator

vars == <<generation, outbox, link, phase, row, incident, toLink, answered, wire,
          incidents, invocations, operator>>
store == <<generation, outbox, link>>
process == <<phase, row, incident, toLink, answered>>

Gen == 0..MaxGen
RowStatus == {"pending", "sending", "sent", "sent_obsolete", "uncertain",
              "blocked", "cancelled"}
Stuck == {"uncertain", "sending", "blocked"}
Sent == {"sent", "sent_obsolete"}
Waiting == {"creating", "resolving", "linking", "noting"}
Call == [op : {"create", "resolve", "link", "note"}, row : Nat,
         incident : Nat \cup {None}, event : Event \cup {None}]

Row == [gen : Gen, task : Task, closes : BOOLEAN, evidence : SUBSET Event,
        status : RowStatus]

IncidentStatus == {"open", "acknowledged", "resolved", "escalated"}

(* born: the row whose create_incident made it; linked: readings in the    *)
(* order they were linked; notes: rows appended by update_incident.        *)
Incident == [born : Nat, status : IncidentStatus, linked : Seq(Event),
             notes : Seq(Nat)]

TypeOK ==
  /\ generation \in Gen
  /\ outbox \in Seq(Row)
  /\ link \in [Gen -> [Task -> Nat \cup {None}]]
  /\ phase \in Waiting \cup {"idle", "open", "toCreate", "toLink", "toResolve",
                             "reading", "commit"}
  /\ row \in Nat /\ incident \in Nat \cup {None}
  /\ toLink \in SUBSET Event
  /\ answered \in BOOLEAN
  /\ wire \in SUBSET Call
  /\ incidents \in Seq(Incident)
  /\ invocations \in 0..MaxInvocations /\ operator \in 0..MaxOperator

Init ==
  /\ generation = 0
  /\ outbox = <<>>
  /\ link = [g \in Gen |-> [t \in Task |-> None]]
  /\ phase = "idle" /\ row = 0 /\ incident = None /\ toLink = {}
  /\ answered = FALSE
  /\ wire = {}
  /\ incidents = <<>>
  /\ invocations = 0 /\ operator = 0

-----------------------------------------------------------------------------
(* The store and the operators around the publisher                        *)

SameScope(r, s) == outbox[r].gen = outbox[s].gen /\ outbox[r].task = outbox[s].task

(* Store.publish: the evidence of a task only grows. *)
Enqueue(t, closes, evidence) ==
  /\ Len(outbox) < MaxRows
  /\ evidence # {}
  /\ \A r \in DOMAIN outbox : outbox[r].gen = generation /\ outbox[r].task = t
       => outbox[r].evidence \subseteq evidence
  /\ outbox' = Append(outbox, [gen |-> generation, task |-> t, closes |-> closes,
                               evidence |-> evidence, status |-> "pending"])
  /\ UNCHANGED <<generation, link, process, wire, incidents, invocations, operator>>

(* Store.reset *)
Reset ==
  /\ generation < MaxGen
  /\ generation' = generation + 1
  /\ outbox' = [r \in DOMAIN outbox |->
       IF outbox[r].status = "pending"
         THEN [outbox[r] EXCEPT !.status = "cancelled"] ELSE outbox[r]]
  /\ UNCHANGED <<link, process, wire, incidents, invocations, operator>>

(* An operator, or another agent, sets the status of an incident.  Nobody  *)
(* else adds notes: update_incident reads and rewrites them as one value.  *)
OperatorSets(i, status) ==
  /\ operator < MaxOperator
  /\ operator' = operator + 1
  /\ incidents' = [incidents EXCEPT ![i].status = status]
  /\ UNCHANGED <<store, process, wire, invocations>>

-----------------------------------------------------------------------------
(* The platform: a call that arrives is applied, once.                     *)

AppendNote(inc, r) == [inc EXCEPT !.notes = Append(@, r)]

(* Any order of the readings: create_incident stores them as one batch. *)
Batch(evidence) ==
  CHOOSE s \in [1..Cardinality(evidence) -> evidence] :
    \A e \in evidence : \E i \in DOMAIN s : s[i] = e

Created(r) == [born |-> r, status |-> "open", linked |-> Batch(outbox[r].evidence),
               notes |-> <<>>]

Applied(c) ==
  CASE c.op = "create" -> Append(incidents, Created(c.row))
    [] c.op = "resolve" ->
         [incidents EXCEPT ![c.incident] =
            [AppendNote(@, c.row) EXCEPT !.status = "resolved"]]
    [] c.op = "link" -> [incidents EXCEPT ![c.incident].linked = Append(@, c.event)]
    [] c.op = "note" -> [incidents EXCEPT ![c.incident] = AppendNote(@, c.row)]

(* Applied, and the answer reaches a publisher that still waits for it. *)
Arrive(c) ==
  /\ c \in wire
  /\ wire' = wire \ {c}
  /\ incidents' = Applied(c)
  /\ \/ /\ phase \in Waiting /\ c.row = row /\ ~answered
        /\ answered' = TRUE
        /\ incident' = IF c.op = "create" THEN Len(incidents) + 1 ELSE incident
     \/ UNCHANGED <<answered, incident>>
  /\ UNCHANGED <<store, phase, row, toLink, invocations, operator>>

-----------------------------------------------------------------------------
(* The publisher process                                                   *)

Send(op, i, e) == [op |-> op, row |-> row, incident |-> i, event |-> e]

ReplayInterrupted == [r \in DOMAIN outbox |->
  IF outbox[r].status = "sending" THEN [outbox[r] EXCEPT !.status = "pending"]
                                  ELSE outbox[r]]

(* An interrupted write may have reached the remote service. *)
MarkInterrupted == [r \in DOMAIN outbox |->
  IF outbox[r].status = "sending" THEN [outbox[r] EXCEPT !.status = "uncertain"]
                                  ELSE outbox[r]]

(* Publisher.__init__ *)
Open ==
  /\ phase = "idle"
  /\ invocations < MaxInvocations
  /\ invocations' = invocations + 1
  /\ outbox' = MarkInterrupted
  /\ phase' = "open"
  /\ UNCHANGED <<generation, link, row, incident, toLink, answered, wire, incidents,
                 operator>>

BlockedBySendingOnly(r) == \E s \in DOMAIN outbox :
  SameScope(r, s) /\ outbox[s].status = "sending"

Blocked(r) == \E s \in DOMAIN outbox : SameScope(r, s) /\ outbox[s].status \in Stuck

Candidate(r) ==
  /\ outbox[r].status = "pending" /\ outbox[r].gen = generation
  /\ ~Blocked(r)

Quit ==
  /\ phase' = "idle" /\ row' = 0 /\ incident' = None /\ toLink' = {}
  /\ answered' = FALSE

(* The first transaction of step finds no row, or one whose evidence has   *)
(* no reading id.                                                          *)
NothingToSend ==
  /\ phase = "open"
  /\ \A r \in DOMAIN outbox : ~Candidate(r)
  /\ Quit
  /\ UNCHANGED <<store, wire, incidents, invocations, operator>>

First(r) == Candidate(r) /\ \A s \in DOMAIN outbox : Candidate(s) => r <= s

Block(r) ==
  /\ phase = "open"
  /\ First(r)
  /\ outbox[r].evidence \cap Unread # {}
  /\ outbox' = [outbox EXCEPT ![r].status = "blocked"]
  /\ Quit
  /\ UNCHANGED <<generation, link, wire, incidents, invocations, operator>>

(* The link is read in the transaction that marks the row. *)
Start(r) ==
  /\ phase = "open"
  /\ First(r)
  /\ outbox[r].evidence \cap Unread = {}
  /\ outbox' = [outbox EXCEPT ![r].status = "sending"]
  /\ row' = r
  /\ incident' = link[outbox[r].gen][outbox[r].task]
  /\ phase' = IF incident' = None THEN "toCreate" ELSE "reading"
  /\ UNCHANGED <<generation, link, toLink, answered, wire, incidents, invocations,
                 operator>>

SendCreate ==
  /\ phase = "toCreate"
  /\ wire' = wire \cup {Send("create", None, None)}
  /\ phase' = "creating"
  /\ UNCHANGED <<store, row, incident, toLink, answered, incidents, invocations,
                 operator>>

(* The id came back: the link is stored by a transaction of its own. *)
StoreLink ==
  /\ phase = "creating" /\ answered
  /\ link' = [link EXCEPT ![outbox[row].gen][outbox[row].task] = incident]
  /\ answered' = FALSE
  /\ phase' = IF outbox[row].closes THEN "toResolve" ELSE "commit"
  /\ UNCHANGED <<generation, outbox, row, incident, toLink, wire, incidents,
                 invocations, operator>>

(* create_incident only supports initial open status. *)
SendResolve ==
  /\ phase = "toResolve"
  /\ wire' = wire \cup {Send("resolve", incident, None)}
  /\ phase' = "resolving"
  /\ UNCHANGED <<store, row, incident, toLink, answered, incidents, invocations,
                 operator>>

Contents(s) == {s[i] : i \in DOMAIN s}

MissingUncompared(r, i) == outbox[r].evidence

Missing(r, i) == outbox[r].evidence \ Contents(incidents[i].linked)

(* get_incident *)
ReadIncident ==
  /\ phase = "reading"
  /\ toLink' = Missing(row, incident)
  /\ phase' = "toLink"
  /\ UNCHANGED <<store, row, incident, answered, wire, incidents, invocations,
                 operator>>

SendLink(e) ==
  /\ phase = "toLink" /\ e \in toLink
  /\ wire' = wire \cup {Send("link", incident, e)}
  /\ toLink' = toLink \ {e}
  /\ phase' = "linking"
  /\ UNCHANGED <<store, row, incident, answered, incidents, invocations, operator>>

LinkAnswered ==
  /\ phase = "linking" /\ answered
  /\ answered' = FALSE
  /\ phase' = "toLink"
  /\ UNCHANGED <<store, row, incident, toLink, wire, incidents, invocations, operator>>

NoteWithStatus(r) == IF outbox[r].closes THEN "resolve" ELSE "note"

(* Keep operator status; only append observations. *)
NoteCall(r) == "note"

SendNote ==
  /\ phase = "toLink" /\ toLink = {}
  /\ wire' = wire \cup {Send(NoteCall(row), incident, None)}
  /\ phase' = "noting"
  /\ UNCHANGED <<store, row, incident, toLink, answered, incidents, invocations,
                 operator>>

LastCallAnswered ==
  /\ phase \in {"resolving", "noting"} /\ answered
  /\ answered' = FALSE
  /\ phase' = "commit"
  /\ UNCHANGED <<store, row, incident, toLink, wire, incidents, invocations, operator>>

(* A reset during the request cannot undo a remote side effect. *)
Commit ==
  /\ phase = "commit"
  /\ outbox' = [outbox EXCEPT ![row].status =
       IF outbox[row].gen = generation THEN "sent" ELSE "sent_obsolete"]
  /\ Quit
  /\ UNCHANGED <<generation, link, wire, incidents, invocations, operator>>

GiveUpStatusUnknown == "error"

GiveUpStatus == "uncertain"

(* A call or the link's transaction raised: an error answer, a timeout, a  *)
(* malformed result.  What is on the wire stays there.                     *)
GiveUp ==
  /\ phase \in Waiting \cup {"reading"}
  /\ outbox' = [outbox EXCEPT ![row].status = GiveUpStatus]
  /\ Quit
  /\ UNCHANGED <<generation, link, wire, incidents, invocations, operator>>

(* The process dies: the row stays in "sending". *)
Crash ==
  /\ phase # "idle"
  /\ Quit
  /\ UNCHANGED <<store, wire, incidents, invocations, operator>>

PublisherStep ==
  \/ Open
  \/ NothingToSend
  \/ \E r \in DOMAIN outbox : Block(r) \/ Start(r)
  \/ SendCreate
  \/ StoreLink
  \/ SendResolve
  \/ ReadIncident
  \/ \E e \in Event : SendLink(e)
  \/ LinkAnswered
  \/ SendNote
  \/ LastCallAnswered
  \/ Commit
  \/ GiveUp
  \/ Crash

Next ==
  \/ \E t \in Task, closes \in BOOLEAN, evidence \in SUBSET Event :
       Enqueue(t, closes, evidence)
  \/ Reset
  \/ \E i \in DOMAIN incidents, status \in IncidentStatus : OperatorSets(i, status)
  \/ \E c \in wire : Arrive(c)
  \/ PublisherStep

Spec == Init /\ [][Next]_vars

-----------------------------------------------------------------------------
(* Properties                                                              *)

(* A task of a generation has at most one incident, although               *)
(* create_incident is not idempotent, its answer may be lost and the       *)
(* process may die before the link is stored.                              *)
OneIncident == \A i, j \in DOMAIN incidents :
  i # j => ~SameScope(incidents[i].born, incidents[j].born)

(* An incident hears of its own task only, each publication once and in    *)
(* the order of the outbox, whatever calls are lost or late.  The first    *)
(* publication is noted again only when it also resolves the incident.     *)
NotesInOrder == \A i \in DOMAIN incidents :
  LET inc == incidents[i]
  IN  \A k \in DOMAIN inc.notes :
        /\ SameScope(inc.notes[k], inc.born)
        /\ \/ inc.notes[k] > inc.born
           \/ inc.notes[k] = inc.born /\ outbox[inc.born].closes
        /\ \A l \in DOMAIN inc.notes : k < l => inc.notes[k] < inc.notes[l]

(* A row counts as sent only when the linked incident shows it with all    *)
(* of its evidence, and no reading is linked twice.                        *)
SentIsShown ==
  /\ \A r \in DOMAIN outbox : outbox[r].status \in Sent =>
       \E i \in DOMAIN incidents :
         /\ link[outbox[r].gen][outbox[r].task] = i
         /\ \/ incidents[i].born = r /\ (outbox[r].closes => r \in Contents(incidents[i].notes))
            \/ r \in Contents(incidents[i].notes)
         /\ outbox[r].evidence \subseteq Contents(incidents[i].linked)
  /\ \A i \in DOMAIN incidents : \A k, l \in DOMAIN incidents[i].linked :
       incidents[i].linked[k] = incidents[i].linked[l] => k = l

(* Publications of a task are taken in order, and an ambiguous write stops *)
(* the task: everything before a row that was taken up has been sent.      *)
NoOvertaking == \A r, s \in DOMAIN outbox :
  /\ r < s /\ SameScope(r, s)
  /\ outbox[s].status \notin {"pending", "cancelled"}
  => outbox[r].status \in Sent

(* An ambiguous write is never blindly replayed: a row that was taken up   *)
(* is never pending again, and one that ended never changes.               *)
NeverReplayed == [][\A r \in DOMAIN outbox :
  /\ outbox[r].status # "pending" => outbox'[r].status # "pending"
  /\ outbox[r].status \in Sent \cup {"uncertain", "blocked", "cancelled"}
       => outbox'[r].status = outbox[r].status]_vars

(* Once its first publication was sent, only operators move the status of  *)
(* an incident (test_update_preserves_operator_status).                    *)
OperatorStatusKept == [][\A i \in DOMAIN incidents :
  /\ outbox[incidents[i].born].status \in Sent
  /\ operator' = operator
  => incidents'[i].status = incidents[i].status]_vars
=============================================================================
