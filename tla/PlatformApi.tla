------------------------------ MODULE PlatformApi ------------------------------
(***************************************************************************)
(* The platform's own operations (platform/app): the MCP tools that write  *)
(* incidents and dashboards, POST /ingest/telemetry and WS /ingest/stream, *)
(* and a dashboard that follows one of the Redis channels over SSE.        *)
(*                                                                         *)
(* Requests run in sessions of their own; every statement or commit they   *)
(* await is a step.  External: PostgreSQL in READ COMMITTED, SQLAlchemy,   *)
(* which writes the columns whose value differs from the one it loaded,    *)
(* and Redis, which hands a message to whoever is subscribed at that time. *)
(***************************************************************************)
EXTENDS Naturals, Sequences, FiniteSets

CONSTANTS
  Request,            \* requests; a row created by one has its name
  Incident0, Dashboard0,   \* rows that exist at the start
  Device, None,
  Ops,                \* what a request may ask for
  MaxFaults           \* bound: failing statements and lost connections

Row == {Incident0, Dashboard0} \cup Request
Channel == {"incidents", "dashboards", "telemetry"}
Kind == {"incident", "dashboard"}
Status == {"open", "acknowledged", "resolved", "escalated"}
Severity == {"low", "medium", "high", "critical"}

(* What a tool or an ingestion may be asked for.  A field that is None, or *)
(* FALSE, is left out of the request; an empty list of items does nothing. *)
Operation ==
  [does : {"create"}, kind : Kind] \cup [does : {"link"}, kind : {"incident"}]
  \cup [does : {"update"}, kind : {"incident"}, status : Status \cup {None},
        severity : Severity \cup {None}, note : BOOLEAN]
  \cup [does : {"update"}, kind : {"dashboard"}, title : BOOLEAN, spec : BOOLEAN]
  \cup [does : {"ingest"}, items : Seq(Device) \ {<<>>}, via : {"http", "ws"}]

(* The columns of a row; a value that a request gives has its name.        *)
Columns(kind) ==
  IF kind = "incident"
  THEN [status : Status, severity : Severity, closed : Request \cup {None},
        notes : SUBSET Request]
  ELSE [title : Request \cup {None}, spec : Request \cup {None}, version : Nat]
RowOf(kind) == [kind : {kind}, updated : Nat, cols : Columns(kind)]
DeviceRow == [first : Request, last : Request]

ASSUME PlatformAssumption ==
  /\ IsFiniteSet(Request) /\ MaxFaults \in Nat
  /\ Incident0 # Dashboard0 /\ {Incident0, Dashboard0} \cap Request = {}
  /\ Ops \subseteq Operation
  /\ None \notin Operation \cup RowOf("incident") \cup RowOf("dashboard") \cup DeviceRow
  /\ None \notin Request

VARIABLES
  table,     \* rows of incidents and dashboard_specs: columns, updated_at
  evidence,  \* rows of incident_evidence: <<incident, request>>
  devices,   \* rows of devices: who inserted it, who updated it last
  readings,  \* rows of telemetry_readings: <<request, position>>
  req,       \* the requests
  client,    \* a dashboard: its channel and what it has received
  silent,    \* committed, but its message was never published
  used       \* faults used up, for the bounds

vars == <<table, evidence, devices, readings, req, client, silent, used>>
database == <<table, evidence, devices, readings>>

IncidentColumns == [status |-> "open", severity |-> "low", closed |-> None, notes |-> {}]
DashboardColumns == [title |-> None, spec |-> None, version |-> 1]

NewRow(kind) ==
  [kind |-> kind, updated |-> 0,
   cols |-> IF kind = "incident" THEN IncidentColumns ELSE DashboardColumns]

Idle == [phase |-> "idle", op |-> None, row |-> None, old |-> None, event |-> None,
         pos |-> 1, found |-> FALSE, bad |-> {}]

Init ==
  /\ table = [r \in Row |-> CASE r = Incident0 -> NewRow("incident")
                              [] r = Dashboard0 -> NewRow("dashboard")
                              [] OTHER -> None]
  /\ evidence = {} /\ readings = {} /\ silent = {}
  /\ devices = [d \in Device |-> None]
  /\ req = [q \in Request |-> Idle]
  /\ client = [phase |-> "off", channel |-> "incidents", seen |-> {}]
  /\ used = 0

At(q, phase) == req[q].phase = phase
Op(q) == req[q].op
Goes(q, phase) == req' = [req EXCEPT ![q].phase = phase]

-----------------------------------------------------------------------------
(* incident_writer.py, dashboard_writer.py *)

(* An MCP tool is called; one that is given a row needs it to exist.       *)
Issue(q) ==
  /\ At(q, "idle")
  /\ \E op \in Ops, r \in Row :
       /\ CASE op.does = "create" -> r = q
            [] op.does = "ingest" -> r = Incident0
            [] OTHER -> table[r] # None /\ table[r].kind = op.kind
       /\ req' = [req EXCEPT ![q] =
            [Idle EXCEPT !.op = op, !.row = IF op.does = "ingest" THEN None ELSE r,
                         !.phase = CASE op.does = "update" -> "load"
                                     [] op.does = "ingest" -> "select"
                                     [] OTHER -> "commit"]]
  /\ UNCHANGED <<database, client, silent, used>>

Load(q) ==
  /\ At(q, "load")
  /\ req' = [req EXCEPT ![q].old = table[req[q].row].cols, ![q].phase = "commit"]
  /\ UNCHANGED <<database, client, silent, used>>

Given(value, otherwise) == IF value # None THEN value ELSE otherwise

(* The columns as the handler leaves them in its copy of the row.          *)
UpdatedIncident(q, old) ==
  [status |-> Given(Op(q).status, old.status),
   closed |-> IF Op(q).status = "resolved" THEN q ELSE old.closed,
   severity |-> Given(Op(q).severity, old.severity),
   notes |-> IF Op(q).note THEN old.notes \cup {q} ELSE old.notes]

UpdatedDashboard(q, old) ==
  [title |-> IF Op(q).title THEN q ELSE old.title,
   spec |-> IF Op(q).spec THEN q ELSE old.spec,
   version |-> old.version + 1]

Updated(q) ==
  IF Op(q).kind = "incident" THEN UpdatedIncident(q, req[q].old)
                             ELSE UpdatedDashboard(q, req[q].old)

(* Slip: every column of the copy is written.                              *)
FlushedWhole(cols, old, new) == new

(* UPDATE of the columns that changed in the copy, whatever they are now.  *)
Flushed(cols, old, new) ==
  [c \in DOMAIN cols |-> IF new[c] # old[c] THEN new[c] ELSE cols[c]]

CommitUpdate(q) ==
  /\ At(q, "commit") /\ Op(q).does = "update"
  /\ LET r == req[q].row
         cols == Flushed(table[r].cols, req[q].old, Updated(q))
     IN table' = IF Updated(q) = req[q].old THEN table
                 ELSE [table EXCEPT ![r].cols = cols, ![r].updated = @ + 1]
  /\ Goes(q, "refresh")
  /\ UNCHANGED <<evidence, devices, readings, client, silent, used>>

(* The incident and its evidence in one transaction.                       *)
CommitCreate(q) ==
  /\ At(q, "commit") /\ Op(q).does = "create"
  /\ table' = [table EXCEPT ![q] = NewRow(Op(q).kind)]
  /\ evidence' = IF Op(q).kind = "incident" THEN evidence \cup {<<q, q>>} ELSE evidence
  /\ Goes(q, "refresh")
  /\ UNCHANGED <<devices, readings, client, silent, used>>

(* link_evidence publishes nothing. *)
CommitEvidence(q) ==
  /\ At(q, "commit") /\ Op(q).does = "link"
  /\ evidence' = evidence \cup {<<req[q].row, q>>}
  /\ Goes(q, "done")
  /\ UNCHANGED <<table, devices, readings, client, silent, used>>

ChannelOf(q) ==
  CASE Op(q).does = "ingest" -> "telemetry"
    [] Op(q).kind = "incident" -> "incidents"
    [] OTHER -> "dashboards"

Message(r) == [row |-> r, cols |-> table[r].cols, updated |-> table[r].updated]

(* Slip: the message is made from the copy.                                *)
RefreshFromCopy(q) ==
  /\ At(q, "refresh")
  /\ req' = [req EXCEPT ![q].phase = "publish", ![q].event =
       IF Op(q).does = "update" THEN [Message(req[q].row) EXCEPT !.cols = Updated(q)]
                                ELSE Message(req[q].row)]
  /\ UNCHANGED <<database, client, silent, used>>

(* The row is read back after the commit (its evidence too, left out here). *)
Refresh(q) ==
  /\ At(q, "refresh")
  /\ req' = [req EXCEPT ![q].event = Message(req[q].row), ![q].phase = "publish"]
  /\ UNCHANGED <<database, client, silent, used>>

(* Whoever is subscribed receives the message.                             *)
Delivered(channel, message) ==
  client' = IF client.phase # "off" /\ client.channel = channel
            THEN [client EXCEPT !.seen = @ \cup {message}] ELSE client

Publish(q) ==
  /\ At(q, "publish") /\ Op(q).does # "ingest"
  /\ Delivered(ChannelOf(q), req[q].event)
  /\ req' = [req EXCEPT ![q].phase = "done", ![q].event = None]
  /\ UNCHANGED <<database, silent, used>>

-----------------------------------------------------------------------------
(* ingestion/writer.py: one item after the other, two commits for each *)

Item(q) == Op(q).items[req[q].pos]

SelectDevice(q) ==
  /\ At(q, "select")
  /\ req' = [req EXCEPT ![q].found = devices[Item(q)] # None, ![q].phase = "upsert"]
  /\ UNCHANGED <<database, client, silent, used>>

(* Slip: HTTP goes on with the next item as well.                          *)
GoesOnAlways(q, ok) == TRUE

(* After an error HTTP answers 500, the websocket reads its next message.  *)
GoesOn(q, ok) == ok \/ Op(q).via = "ws"

NextItem(q, ok) ==
  LET r == IF ok THEN req[q] ELSE [req[q] EXCEPT !.bad = @ \cup {req[q].pos}]
  IN req' = [req EXCEPT ![q] =
       IF r.pos < Len(r.op.items) /\ GoesOn(q, ok)
       THEN [r EXCEPT !.pos = @ + 1, !.phase = "select"]
       ELSE [r EXCEPT !.phase = "done"]]

(* INSERT violates the unique external_id if another session was first.    *)
UpsertDevice(q) ==
  /\ At(q, "upsert")
  /\ LET d == Item(q)
     IN IF ~req[q].found /\ devices[d] # None
        THEN /\ NextItem(q, FALSE)
             /\ UNCHANGED devices
        ELSE /\ devices' = [devices EXCEPT ![d] =
                  [first |-> IF req[q].found THEN @.first ELSE q, last |-> q]]
             /\ Goes(q, "reading")
  /\ UNCHANGED <<table, evidence, readings, client, silent, used>>

StoreReading(q) ==
  /\ At(q, "reading")
  /\ readings' = readings \cup {<<q, req[q].pos>>}
  /\ Goes(q, "publish")
  /\ UNCHANGED <<table, evidence, devices, client, silent, used>>

PublishReading(q) ==
  /\ At(q, "publish") /\ Op(q).does = "ingest"
  /\ Delivered("telemetry", <<q, req[q].pos>>)
  /\ NextItem(q, TRUE)
  /\ UNCHANGED <<database, silent, used>>

(* A statement fails and the session is rolled back, or Redis is away and  *)
(* the request fails although its change is committed.                     *)
Fails(q) ==
  /\ req[q].phase \in {"load", "commit", "refresh", "select", "upsert",
                       "reading", "publish"}
  /\ used < MaxFaults
  /\ used' = used + 1
  /\ silent' = CASE Op(q).does = "ingest" /\ At(q, "publish") ->
                      silent \cup {<<q, req[q].pos>>}
                 [] Op(q).does # "ingest" /\ req[q].phase \in {"refresh", "publish"} ->
                      silent \cup {req[q].row}
                 [] OTHER -> silent
  /\ IF Op(q).does = "ingest" THEN NextItem(q, FALSE)
     ELSE Goes(q, IF req[q].phase \in {"refresh", "publish"}
                  THEN "unpublished" ELSE "failed")
  /\ UNCHANGED <<database, client>>

-----------------------------------------------------------------------------
(* api/streams.py and the GET routes: a dashboard subscribes, then reads *)

(* The moment the subscription takes effect; the headers went out before.    *)
Subscribe ==
  /\ client.phase = "off"
  /\ \E c \in Channel : client' = [phase |-> "subscribed", channel |-> c,
                                  seen |-> IF c = client.channel THEN client.seen ELSE {}]
  /\ UNCHANGED <<database, req, silent, used>>

(* The answers of the GET routes, without their filters and page limits.   *)
StoredRows(kind) ==
  {Message(r) : r \in {s \in Row : table[s] # None /\ table[s].kind = kind}}

StoredReadings == readings

Stored(channel) ==
  CASE channel = "telemetry" -> StoredReadings
    [] channel = "incidents" -> StoredRows("incident")
    [] OTHER -> StoredRows("dashboard")

Fetch ==
  /\ client.phase = "subscribed"
  /\ client' = [client EXCEPT !.phase = "live", !.seen = @ \cup Stored(client.channel)]
  /\ UNCHANGED <<database, req, silent, used>>

(* The connection is lost; nothing is replayed when it is made again.      *)
Disconnect ==
  /\ client.phase # "off" /\ used < MaxFaults
  /\ used' = used + 1
  /\ client' = [client EXCEPT !.phase = "off"]
  /\ UNCHANGED <<database, req, silent>>

-----------------------------------------------------------------------------
Handle(q) ==
  \/ Load(q) \/ CommitUpdate(q) \/ CommitCreate(q) \/ CommitEvidence(q)
  \/ Refresh(q) \/ Publish(q)
  \/ SelectDevice(q) \/ UpsertDevice(q) \/ StoreReading(q) \/ PublishReading(q)

Next ==
  \/ \E q \in Request : Issue(q) \/ Handle(q) \/ Fails(q)
  \/ Subscribe \/ Fetch \/ Disconnect

Spec == Init /\ [][Next]_vars

-----------------------------------------------------------------------------
(* Properties *)

(* An update whose commit is in the database.                              *)
Committed(q, r) ==
  /\ req[q].row = r /\ Op(q).does = "update"
  /\ req[q].phase \in {"refresh", "publish", "done", "unpublished"}

(* A note of a committed update is missing from the incident only because   *)
(* of one that is there and ran beside it: neither of the two had read the  *)
(* other's note.  A dashboard has fewer versions than updates only because  *)
(* two of them read the same one.  Updates that follow each other lose      *)
(* nothing (update_incident, update_dashboard: read, change, write without  *)
(* a lock).                                                                 *)
LostOnlyInOverlap ==
  \A q \in Request, r \in Row :
    Committed(q, r) =>
      IF table[r].kind = "incident"
      THEN Op(q).note => \/ q \in table[r].cols.notes
                         \/ \E v \in table[r].cols.notes :
                              q \notin req[v].old.notes /\ v \notin req[q].old.notes
      ELSE \/ table[r].cols.version = 1 + Cardinality({v \in Request : Committed(v, r)})
           \/ \E u, v \in Request : /\ u # v /\ Committed(u, r) /\ Committed(v, r)
                                    /\ req[u].old.version = req[v].old.version

(* A dashboard that subscribed before it read has every reading and the     *)
(* current columns of every row, once no request is between its commit and  *)
(* its message, unless a message could not be published.  (Messages may     *)
(* come in another order than the commits, and new evidence is not told.)   *)
SubscriberMissesNothing ==
  /\ client.phase = "live"
  /\ \A q \in Request : req[q].phase \notin {"refresh", "publish"}
  => \A m \in Stored(client.channel) :
       \/ m \in client.seen
       \/ IF client.channel = "telemetry" THEN m \in silent ELSE m.row \in silent

(* An item is stored unless its request says it failed; it fails without a  *)
(* fault only because another session inserted the device at the same time; *)
(* and HTTP stores nothing after the first item that failed.                *)
IngestAnswers ==
  \A q \in Request : req[q].op # None /\ Op(q).does = "ingest" =>
    /\ \A p \in 1..Len(Op(q).items) :
         /\ p < req[q].pos /\ p \notin req[q].bad => <<q, p>> \in readings
         /\ p \in req[q].bad /\ used = 0 =>
              /\ <<q, p>> \notin readings
              /\ devices[Op(q).items[p]].first # q
    /\ At(q, "done") /\ req[q].bad = {} =>
         {<<q, p>> : p \in 1..Len(Op(q).items)} \subseteq readings
    /\ Op(q).via = "http" => \A b \in req[q].bad, p \in 1..Len(Op(q).items) :
                               p > b => <<q, p>> \notin readings
=============================================================================
