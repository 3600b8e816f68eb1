-------------------------- MODULE PlatformApiProofs -------------------------
(***************************************************************************)
(* PlatformApi, for any requests and devices and any number of faults:     *)
(* what overlapping updates lose, what a subscriber misses and what        *)
(* ingestion answers.                                                      *)
(***************************************************************************)
EXTENDS PlatformApi, FiniteSetTheorems, TLAPS

Phase == {"idle", "load", "select", "commit", "refresh", "publish", "upsert", "reading",
          "done", "unpublished", "failed"}
Table == RowOf("incident") \cup RowOf("dashboard")
Copy == Columns("incident") \cup Columns("dashboard")
Told == [row : Row, cols : Copy, updated : Nat]   \* messages about rows
Session ==
  [phase : Phase, op : Operation \cup {None}, row : Row \cup {None},
   old : Copy \cup {None}, event : Told \cup {None}, pos : Nat, found : BOOLEAN,
   bad : SUBSET Nat]

TypeOK ==
  /\ table \in [Row -> Table \cup {None}]
  /\ devices \in [Device -> DeviceRow \cup {None}]
  /\ readings \subseteq Request \X Nat
  /\ req \in [Request -> Session]
  /\ client \in [phase : {"off", "subscribed", "live"}, channel : Channel,
                 seen : SUBSET (Told \cup (Request \X Nat))]
  /\ used \in Nat

(* Where a request can be, and the row it is about.                        *)
Placed(q) ==
  LET s == req[q] IN
  /\ s.op = None => s.phase = "idle"
  /\ s.op # None =>
      /\ s.op.does = "create" =>
           /\ s.phase \in {"commit", "refresh", "publish", "done", "unpublished", "failed"}
           /\ s.row = q
           /\ s.phase \in {"refresh", "publish"} =>
                table[q] # None /\ table[q].kind = s.op.kind
      /\ s.op.does = "update" =>
           /\ s.phase \in {"load", "commit", "refresh", "publish", "done", "unpublished",
                           "failed"}
           /\ s.row \in Row /\ table[s.row] # None /\ table[s.row].kind = s.op.kind
           /\ s.phase \notin {"load", "failed"} => s.old \in Columns(s.op.kind)
      /\ s.op.does = "link" => s.phase \in {"commit", "done", "failed"}
      /\ s.op.does = "ingest" =>
           /\ s.phase \in {"select", "upsert", "reading", "publish", "done"}
           /\ s.pos \in 1..Len(s.op.items)
      /\ s.op.does # "ingest" /\ s.phase = "publish" => s.event \in Told

(* A row that a request creates is there only after its commit.            *)
Born(q) ==
  table[q] # None => /\ req[q].op # None /\ req[q].op.does = "create"
                     /\ req[q].phase \notin {"commit", "failed"}
Sessions == \A q \in Request : Placed(q) /\ Born(q)

(* An ingestion, item by item. *)
Ingests(q) == req[q].op # None /\ req[q].op.does = "ingest"
Ingesting(q) ==
  LET s == req[q] IN
  /\ \A p \in 1..Len(s.op.items) : p < s.pos /\ p \notin s.bad => <<q, p>> \in readings
  /\ \A i \in readings : i[1] = q => i[2] <= s.pos
  /\ s.phase \in {"select", "upsert", "reading"} => <<q, s.pos>> \notin readings
  /\ s.phase = "publish" => <<q, s.pos>> \in readings
  /\ \A b \in s.bad : b \in 1..s.pos /\ (s.phase # "done" => b # s.pos)
  /\ s.op.via = "http" /\ s.bad # {} => s.phase = "done" /\ s.bad = {s.pos}
  /\ s.phase = "done" /\ s.pos \notin s.bad =>
       s.pos = Len(s.op.items) /\ <<q, s.pos>> \in readings
  /\ s.phase = "upsert" => LET d == s.op.items[s.pos] IN
       IF s.found THEN devices[d] # None ELSE devices[d] = None \/ devices[d].first # q
  /\ used = 0 => \A b \in s.bad : /\ <<q, b>> \notin readings
                                  /\ devices[s.op.items[b]] # None
                                  /\ devices[s.op.items[b]].first # q
Ingestions == /\ \A q \in Request : Ingests(q) => Ingesting(q)
              /\ \A i \in readings : Ingests(i[1])

(* What the dashboard has not been told is about to be, or never will.     *)
ChannelFor(kind) == IF kind = "incident" THEN "incidents" ELSE "dashboards"
Telling(q, r) == /\ req[q].op # None /\ req[q].op.does # "ingest" /\ req[q].row = r
                 /\ \/ req[q].phase = "refresh"
                    \/ req[q].phase = "publish" /\ req[q].event = Message(r)
RowsTold ==
  \A r \in Row : table[r] # None /\ client.channel = ChannelFor(table[r].kind) =>
    Message(r) \in client.seen \/ r \in silent \/ \E q \in Request : Telling(q, r)
ReadingsTold ==
  client.channel = "telemetry" => \A i \in readings :
    \/ i \in client.seen \cup silent
    \/ \E q \in Request : Ingests(q) /\ req[q].phase = "publish" /\ i = <<q, req[q].pos>>
Subscribed == client.phase = "live" => RowsTold /\ ReadingsTold

(* The notes of an incident, and those an update has read, are those of     *)
(* updates committed by then.                                               *)
Updates(q, r, kind) ==
  /\ req[q].op # None /\ req[q].op.does = "update" /\ req[q].op.kind = kind
  /\ req[q].row = r
Wrote(q, r) == req[q].op # None /\ Committed(q, r)
InDatabase == {"refresh", "publish", "done", "unpublished"}
HasRead == {"commit"} \cup InDatabase
NotesCopied ==
  \A q \in Request, r \in Row : Updates(q, r, "incident") /\ req[q].phase \in HasRead =>
    \A v \in req[q].old.notes : Wrote(v, r)
NotesKnown ==
  \A r \in Row : table[r] # None /\ table[r].kind = "incident" =>
    \A v \in table[r].cols.notes : Wrote(v, r)
NotesLost ==
  \A q \in Request, r \in Row : Updates(q, r, "incident") /\ Committed(q, r) /\ Op(q).note =>
    \/ q \in table[r].cols.notes
    \/ \E v \in table[r].cols.notes : q \notin req[v].old.notes /\ v \notin req[q].old.notes

(* Without two updates of one version, each version has its update.        *)
Committers(r) == {v \in Request : Wrote(v, r)}
Overlap(r) == \E u, v \in Committers(r) : u # v /\ req[u].old.version = req[v].old.version
InTurn(r) ==
  LET C == Committers(r) n == table[r].cols.version IN
  /\ n = 1 + Cardinality(C)
  /\ \A k \in 1..Cardinality(C) : \E u \in C : req[u].old.version = k
  /\ \A v \in Request : Updates(v, r, "dashboard") /\ req[v].phase = "commit" =>
       req[v].old.version \in 1..n
Versions ==
  \A r \in Row : table[r] # None /\ table[r].kind = "dashboard" => Overlap(r) \/ InTurn(r)

Inv == /\ TypeOK /\ Sessions /\ Ingestions /\ Subscribed
       /\ NotesCopied /\ NotesKnown /\ NotesLost /\ Versions

-----------------------------------------------------------------------------
(* Requests, rows and columns                                              *)

LEMMA Apart == /\ None \notin Operation /\ None \notin Table /\ None \notin DeviceRow
               /\ None \notin Request /\ Request \subseteq Row
               /\ Incident0 \in Row \ Request /\ Dashboard0 \in Row \ Request
               /\ Incident0 # Dashboard0
BY PlatformAssumption DEF Table, Row

LEMMA OperationIs ==
  ASSUME NEW op \in Operation
  PROVE  /\ op.does \in {"create", "link", "update", "ingest"}
         /\ op.does \in {"create", "link", "update"} => op.kind \in Kind
         /\ op.does = "link" => op.kind = "incident"
         /\ op.does = "update" /\ op.kind = "incident" =>
              /\ op.status \in Status \cup {None} /\ op.severity \in Severity \cup {None}
              /\ op.note \in BOOLEAN
         /\ op.does = "ingest" => /\ op.items \in Seq(Device) /\ op.items # <<>>
                                  /\ op.via \in {"http", "ws"}
BY DEF Operation, Kind

LEMMA SessionIs ==
  ASSUME NEW s \in Session
  PROVE  /\ s.phase \in Phase /\ s.op \in Operation \cup {None} /\ s.row \in Row \cup {None}
         /\ s.pos \in Nat /\ s.found \in BOOLEAN /\ s.bad \in SUBSET Nat
         /\ s.old \in Copy \cup {None} /\ s.event \in Told \cup {None}
BY DEF Session

LEMMA IdleIs == /\ Idle \in Session /\ Idle.phase = "idle" /\ Idle.op = None
                /\ Idle.pos = 1 /\ Idle.bad = {}
BY DEF Idle, Session, Phase

LEMMA RowIs ==
  ASSUME NEW t \in Table
  PROVE  /\ t.kind \in Kind /\ t.updated \in Nat /\ t.cols \in Columns(t.kind)
         /\ t.cols \in Copy /\ t # None
BY Apart DEF Table, RowOf, Kind, Copy

LEMMA NewRowIs ==
  ASSUME NEW kind \in Kind
  PROVE  /\ NewRow(kind) \in Table /\ NewRow(kind) # None /\ NewRow(kind).kind = kind
         /\ kind = "incident" => NewRow(kind).cols.notes = {}
         /\ kind = "dashboard" => NewRow(kind).cols.version = 1
<1>1. CASE kind = "incident"
  <2>1. IncidentColumns \in Columns("incident") /\ IncidentColumns.notes = {}
      BY DEF IncidentColumns, Columns, Status, Severity
  <2>2. NewRow(kind) = [kind |-> "incident", updated |-> 0, cols |-> IncidentColumns]
      BY <1>1 DEF NewRow
  <2>3. NewRow(kind) \in Table
      BY <2>1, <2>2 DEF Table, RowOf
  <2> QED
      BY <1>1, <2>1, <2>2, <2>3, Apart
<1>2. CASE kind = "dashboard"
  <2>1. DashboardColumns \in Columns("dashboard") /\ DashboardColumns.version = 1
      BY DEF DashboardColumns, Columns
  <2>2. NewRow(kind) = [kind |-> "dashboard", updated |-> 0, cols |-> DashboardColumns]
      BY <1>2 DEF NewRow
  <2>3. NewRow(kind) \in Table
      BY <2>1, <2>2 DEF Table, RowOf
  <2> QED
      BY <1>2, <2>1, <2>2, <2>3, Apart
<1> QED
    BY <1>1, <1>2 DEF Kind

LEMMA MessageIs ==
  ASSUME TypeOK, NEW r \in Row, table[r] # None
  PROVE  Message(r) \in Told /\ Message(r).row = r
<1>1. table[r] \in Table
    BY DEF TypeOK
<1> QED
    BY <1>1, RowIs DEF Message, Told

(* UPDATE writes what the handler changed. *)
LEMMA FlushedIncident ==
  ASSUME NEW c \in Columns("incident"), NEW o \in Columns("incident"),
         NEW n \in Columns("incident")
  PROVE  /\ Flushed(c, o, n) \in Columns("incident")
         /\ Flushed(c, o, n).notes = IF n.notes # o.notes THEN n.notes ELSE c.notes
<1>1. DOMAIN c = {"status", "severity", "closed", "notes"}
    BY DEF Columns
<1> QED
    BY <1>1 DEF Flushed, Columns

LEMMA FlushedDashboard ==
  ASSUME NEW c \in Columns("dashboard"), NEW o \in Columns("dashboard"),
         NEW n \in Columns("dashboard")
  PROVE  /\ Flushed(c, o, n) \in Columns("dashboard")
         /\ Flushed(c, o, n).version = IF n.version # o.version THEN n.version ELSE c.version
<1>1. DOMAIN c = {"title", "spec", "version"}
    BY DEF Columns
<1> QED
    BY <1>1 DEF Flushed, Columns

(* The copy a handler works on. *)
LEMMA CopyIs ==
  ASSUME NEW q \in Request, req[q].op \in Operation, req[q].op.does = "update",
         req[q].old \in Columns(req[q].op.kind)
  PROVE  /\ Updated(q) \in Columns(req[q].op.kind)
         /\ req[q].op.kind = "incident" => Updated(q).notes =
              IF req[q].op.note THEN req[q].old.notes \cup {q} ELSE req[q].old.notes
         /\ req[q].op.kind = "dashboard" => Updated(q).version = req[q].old.version + 1
<1> DEFINE old == req[q].old
           op == req[q].op
<1>1. CASE op.kind = "incident"
  <2>1. op.status \in Status \cup {None} /\ op.severity \in Severity \cup {None}
      BY <1>1, OperationIs
  <2>2. /\ old.status \in Status /\ old.severity \in Severity
        /\ old.closed \in Request \cup {None} /\ old.notes \in SUBSET Request
      BY <1>1 DEF Columns
  <2> DEFINE st == Given(op.status, old.status)
             se == Given(op.severity, old.severity)
             cl == IF op.status = "resolved" THEN q ELSE old.closed
             no == IF op.note THEN old.notes \cup {q} ELSE old.notes
  <2>3. st \in Status /\ se \in Severity /\ cl \in Request \cup {None} /\ no \in SUBSET Request
      BY <2>1, <2>2 DEF Given
  <2>4. Updated(q) = [status |-> st, closed |-> cl, severity |-> se, notes |-> no]
      BY <1>1 DEF Updated, UpdatedIncident, Op
  <2> HIDE DEF st, se, cl, no
  <2>5. Updated(q) \in Columns("incident") /\ Updated(q).notes = no
      BY <2>3, <2>4 DEF Columns
  <2> QED
      BY <1>1, <2>5 DEF no
<1>2. CASE op.kind = "dashboard"
  <2>1. old.title \in Request \cup {None} /\ old.spec \in Request \cup {None}
        /\ old.version \in Nat
      BY <1>2 DEF Columns
  <2> DEFINE ti == IF op.title THEN q ELSE old.title
             sp == IF op.spec THEN q ELSE old.spec
             ve == old.version + 1
  <2>2. ti \in Request \cup {None} /\ sp \in Request \cup {None} /\ ve \in Nat
      BY <2>1
  <2>3. Updated(q) = [title |-> ti, spec |-> sp, version |-> ve]
      BY <1>2 DEF Updated, UpdatedDashboard, Op
  <2> HIDE DEF ti, sp, ve
  <2>4. Updated(q) \in Columns("dashboard") /\ Updated(q).version = ve
      BY <2>2, <2>3 DEF Columns
  <2> QED
      BY <1>2, <2>4 DEF ve
<1> QED
    BY <1>1, <1>2, OperationIs DEF Kind

-----------------------------------------------------------------------------
(* What the steps do to the requests                                       *)

Becomes(q, n) == n \in Session /\ req' = [req EXCEPT ![q] = n]

(* A request that only goes on to another phase. *)
Like(n, s) == /\ n.op = s.op /\ n.row = s.row /\ n.old = s.old /\ n.event = s.event
              /\ n.pos = s.pos /\ n.found = s.found /\ n.bad = s.bad

LEMMA BecomesIs ==
  ASSUME TypeOK, NEW q \in Request, NEW n, Becomes(q, n)
  PROVE  /\ req' \in [Request -> Session] /\ req'[q] = n
         /\ \A v \in Request : v # q => req'[v] = req[v]
BY DEF TypeOK, Becomes

LEMMA GoesIs ==
  ASSUME TypeOK, NEW q \in Request, NEW p \in Phase, Goes(q, p)
  PROVE  \E n \in Session : Becomes(q, n) /\ n.phase = p /\ Like(n, req[q])
<1> DEFINE n == [req[q] EXCEPT !.phase = p]
<1>1. req[q] \in Session /\ req' = [req EXCEPT ![q] = n]
    BY DEF TypeOK, Goes
<1>2. n \in Session /\ n.phase = p /\ Like(n, req[q])
    BY <1>1 DEF Session, Like
<1> HIDE DEF n
<1> QED
    BY <1>1, <1>2 DEF Becomes

LEMMA IssueIs ==
  ASSUME TypeOK, NEW q \in Request, Issue(q)
  PROVE  \E n \in Session :
           /\ Becomes(q, n) /\ req[q].phase = "idle"
           /\ n.op \in Operation /\ n.op # None /\ n.pos = 1 /\ n.bad = {}
           /\ n.op.does = "create" => n.phase = "commit" /\ n.row = q
           /\ n.op.does = "link" => n.phase = "commit"
           /\ n.op.does = "ingest" => n.phase = "select"
           /\ n.op.does = "update" =>
                /\ n.phase = "load" /\ n.row \in Row
                /\ table[n.row] # None /\ table[n.row].kind = n.op.kind
           /\ UNCHANGED <<database, client, silent, used>>
<1>1. PICK op \in Ops, r \in Row :
        /\ CASE op.does = "create" -> r = q
             [] op.does = "ingest" -> r = Incident0
             [] OTHER -> table[r] # None /\ table[r].kind = op.kind
        /\ req' = [req EXCEPT ![q] =
             [Idle EXCEPT !.op = op, !.row = IF op.does = "ingest" THEN None ELSE r,
                          !.phase = CASE op.does = "update" -> "load"
                                      [] op.does = "ingest" -> "select"
                                      [] OTHER -> "commit"]]
    BY DEF Issue
<1>2. op \in Operation /\ op # None /\ op.does \in {"create", "link", "update", "ingest"}
    BY PlatformAssumption, OperationIs
<1> DEFINE row == IF op.does = "ingest" THEN None ELSE r
           p == CASE op.does = "update" -> "load"
                  [] op.does = "ingest" -> "select"
                  [] OTHER -> "commit"
           n == [Idle EXCEPT !.op = op, !.row = row, !.phase = p]
<1>3. /\ p \in Phase /\ (op.does = "update" => p = "load")
      /\ op.does = "ingest" => p = "select"
      /\ op.does \in {"create", "link"} => p = "commit"
    BY <1>2 DEF Phase
<1>4. row \in Row \cup {None} /\ (op.does # "ingest" => row = r)
    OBVIOUS
<1>5. req' = [req EXCEPT ![q] = n]
    BY <1>1
<1> HIDE DEF row, p
<1>6. n \in Session /\ n.op = op /\ n.row = row /\ n.phase = p /\ n.pos = 1 /\ n.bad = {}
    BY <1>2, <1>3, <1>4, IdleIs DEF Session
<1> HIDE DEF n
<1>7. UNCHANGED <<database, client, silent, used>> /\ req[q].phase = "idle"
    BY DEF Issue, At
<1> QED
    BY <1>1, <1>2, <1>3, <1>4, <1>5, <1>6, <1>7 DEF Becomes

LEMMA LoadIs ==
  ASSUME TypeOK, NEW q \in Request, Placed(q), req[q].op # None, req[q].op.does = "update",
         Load(q)
  PROVE  \E n \in Session :
           /\ Becomes(q, n) /\ n.phase = "commit" /\ n.old = table[req[q].row].cols
           /\ n.old \in Columns(req[q].op.kind)
           /\ n.op = req[q].op /\ n.row = req[q].row /\ n.pos = req[q].pos
           /\ n.bad = req[q].bad
<1> DEFINE s == req[q]
           old == table[s.row].cols
           n == [s EXCEPT !.old = old, !.phase = "commit"]
<1>1. s \in Session /\ req' = [req EXCEPT ![q] = n]
    BY DEF TypeOK, Load
<1>2. old \in Copy /\ old \in Columns(s.op.kind)
  <2>1. s.row \in Row /\ table[s.row] # None /\ table[s.row].kind = s.op.kind
      BY DEF Placed
  <2>2. table[s.row] \in Table
      BY <2>1 DEF TypeOK
  <2> QED
      BY <2>1, <2>2, RowIs
<1> HIDE DEF s
<1>3. /\ n \in Session /\ n.old = old /\ n.phase = "commit" /\ n.op = s.op
      /\ n.row = s.row /\ n.pos = s.pos /\ n.bad = s.bad
  <2> HIDE DEF old
  <2> QED
      BY <1>1, <1>2 DEF Session, Phase
<1> HIDE DEF n
<1> QED
    BY <1>1, <1>2, <1>3 DEF Becomes, s

LEMMA RefreshIs ==
  ASSUME TypeOK, NEW q \in Request, req[q].row \in Row, table[req[q].row] # None,
         Refresh(q)
  PROVE  \E n \in Session :
           /\ Becomes(q, n) /\ n.phase = "publish" /\ n.event = Message(req[q].row)
           /\ n.op = req[q].op /\ n.row = req[q].row /\ n.old = req[q].old
           /\ n.pos = req[q].pos /\ n.bad = req[q].bad
<1> DEFINE s == req[q]
           e == Message(s.row)
           n == [s EXCEPT !.event = e, !.phase = "publish"]
<1>1. s \in Session /\ req' = [req EXCEPT ![q] = n] /\ e \in Told
    BY MessageIs DEF TypeOK, Refresh
<1> HIDE DEF s, e
<1>2. /\ n \in Session /\ n.event = e /\ n.phase = "publish" /\ n.op = s.op
      /\ n.row = s.row /\ n.old = s.old /\ n.pos = s.pos /\ n.bad = s.bad
    BY <1>1 DEF Session, Phase
<1> HIDE DEF n
<1> QED
    BY <1>1, <1>2 DEF Becomes, s, e

LEMMA PublishIs ==
  ASSUME TypeOK, NEW q \in Request, Publish(q)
  PROVE  \E n \in Session :
           /\ Becomes(q, n) /\ n.phase = "done"
           /\ n.op = req[q].op /\ n.row = req[q].row /\ n.old = req[q].old
           /\ n.pos = req[q].pos /\ n.bad = req[q].bad
<1> DEFINE s == req[q]
           n == [s EXCEPT !.phase = "done", !.event = None]
<1>1. s \in Session /\ req' = [req EXCEPT ![q] = n]
    BY DEF TypeOK, Publish
<1> HIDE DEF s
<1>2. /\ n \in Session /\ n.phase = "done" /\ n.op = s.op
      /\ n.row = s.row /\ n.old = s.old /\ n.pos = s.pos /\ n.bad = s.bad
    BY <1>1 DEF Session, Phase
<1> HIDE DEF n
<1> QED
    BY <1>1, <1>2 DEF Becomes, s

LEMMA SelectIs ==
  ASSUME TypeOK, NEW q \in Request, SelectDevice(q)
  PROVE  \E n \in Session :
           /\ Becomes(q, n) /\ n.phase = "upsert"
           /\ n.found = (devices[req[q].op.items[req[q].pos]] # None)
           /\ n.op = req[q].op /\ n.row = req[q].row /\ n.old = req[q].old
           /\ n.pos = req[q].pos /\ n.bad = req[q].bad
<1> DEFINE s == req[q]
           f == devices[s.op.items[s.pos]] # None
           n == [s EXCEPT !.found = f, !.phase = "upsert"]
<1>1. s \in Session /\ req' = [req EXCEPT ![q] = n] /\ f \in BOOLEAN
    BY DEF TypeOK, SelectDevice, Item, Op
<1> HIDE DEF s, f
<1>2. /\ n \in Session /\ n.phase = "upsert" /\ n.found = f /\ n.op = s.op
      /\ n.row = s.row /\ n.old = s.old /\ n.pos = s.pos /\ n.bad = s.bad
    BY <1>1 DEF Session, Phase
<1> HIDE DEF n
<1> QED
    BY <1>1, <1>2 DEF Becomes, s, f

(* The next item, or the end. *)
LEMMA NextItemIs ==
  ASSUME TypeOK, NEW q \in Request, NEW ok \in BOOLEAN, NextItem(q, ok)
  PROVE  \E n \in Session :
           /\ Becomes(q, n) /\ n.op = req[q].op /\ n.row = req[q].row
           /\ n.old = req[q].old /\ n.event = req[q].event
           /\ n.bad = IF ok THEN req[q].bad ELSE req[q].bad \cup {req[q].pos}
           /\ IF req[q].pos < Len(req[q].op.items) /\ (ok \/ req[q].op.via = "ws")
              THEN n.phase = "select" /\ n.pos = req[q].pos + 1
              ELSE n.phase = "done" /\ n.pos = req[q].pos
<1> DEFINE s == req[q]
           bad == s.bad \cup {s.pos}
           r == IF ok THEN s ELSE [s EXCEPT !.bad = bad]
           next == r.pos + 1
           n == IF r.pos < Len(r.op.items) /\ (ok \/ s.op.via = "ws")
                THEN [r EXCEPT !.pos = next, !.phase = "select"]
                ELSE [r EXCEPT !.phase = "done"]
<1>1. s \in Session /\ req' = [req EXCEPT ![q] = n]
    BY DEF TypeOK, NextItem, GoesOn, Op
<1>2. bad \in SUBSET Nat
    BY <1>1, SessionIs
<1> HIDE DEF s, bad
<1>3. /\ r \in Session /\ r.op = s.op /\ r.row = s.row /\ r.old = s.old
      /\ r.event = s.event /\ r.pos = s.pos /\ r.bad = IF ok THEN s.bad ELSE bad
    BY <1>1, <1>2 DEF Session
<1> HIDE DEF r
<1>4. next \in Nat
    BY <1>3, SessionIs
<1> HIDE DEF next
<1>5. CASE r.pos < Len(r.op.items) /\ (ok \/ s.op.via = "ws")
  <2>1. n = [r EXCEPT !.pos = next, !.phase = "select"]
      BY <1>5
  <2> HIDE DEF n
  <2>2. /\ n \in Session /\ n.op = r.op /\ n.row = r.row /\ n.old = r.old
        /\ n.event = r.event /\ n.bad = r.bad /\ n.phase = "select" /\ n.pos = next
      BY <1>3, <1>4, <2>1 DEF Session, Phase
  <2> QED
      BY <1>1, <1>3, <1>5, <2>2 DEF Becomes, s, bad, next, n
<1>6. CASE ~(r.pos < Len(r.op.items) /\ (ok \/ s.op.via = "ws"))
  <2>1. n = [r EXCEPT !.phase = "done"]
      BY <1>6
  <2> HIDE DEF n
  <2>2. /\ n \in Session /\ n.op = r.op /\ n.row = r.row /\ n.old = r.old
        /\ n.event = r.event /\ n.bad = r.bad /\ n.phase = "done" /\ n.pos = r.pos
      BY <1>3, <2>1 DEF Session, Phase
  <2> QED
      BY <1>1, <1>3, <1>6, <2>2 DEF Becomes, s, bad, n
<1> QED
    BY <1>5, <1>6

-----------------------------------------------------------------------------
(* Where requests are: Sessions                                            *)

(* A row stays, and a row is created by its request only. *)
TableGrows(q) ==
  /\ \A r \in Row : table[r] # None => table'[r] # None /\ table'[r].kind = table[r].kind
  /\ \A v \in Request : table'[v] # None => table[v] # None \/ v = q

LEMMA OthersStay ==
  ASSUME TypeOK, NEW q \in Request, TableGrows(q), NEW v \in Request, v # q,
         req'[v] = req[v], Placed(v), Born(v)
  PROVE  Placed(v)' /\ Born(v)'
<1>1. v \in Row
    BY Apart
<1>2. Placed(v)'
    BY <1>1 DEF Placed, TableGrows
<1> QED
    BY <1>2 DEF Born, TableGrows

LEMMA SessionsStay ==
  ASSUME TypeOK, Sessions, NEW q \in Request, TableGrows(q), NEW n, Becomes(q, n),
         Placed(q)', Born(q)'
  PROVE  Sessions'
<1> SUFFICES ASSUME NEW v \in Request PROVE Placed(v)' /\ Born(v)'
    BY DEF Sessions
<1>1. CASE v = q
    BY <1>1
<1>2. CASE v # q
    BY <1>2, BecomesIs, OthersStay DEF Sessions
<1> QED
    BY <1>1, <1>2

LEMMA SameTable ==
  ASSUME NEW q, table' = table
  PROVE  TableGrows(q)
BY DEF TableGrows

(* A request that goes on as what it is. *)
GoesTo(s, n) ==
  /\ n.op = s.op /\ n.row = s.row
  /\ s.op.does = "create" =>
       /\ n.phase \in {"refresh", "publish", "done", "unpublished", "failed"}
       /\ s.phase # "commit" => n.phase # "failed"
       /\ s.phase = "commit" => n.phase = "failed"
       /\ n.phase \in {"refresh", "publish"} => s.phase = "refresh"
  /\ s.op.does = "update" =>
       /\ n.phase \in {"commit", "refresh", "publish", "done", "unpublished", "failed"}
       /\ n.phase # "failed" => n.old \in Columns(s.op.kind)
  /\ s.op.does = "link" => n.phase \in {"done", "failed"}
  /\ s.op.does = "ingest" =>
       /\ n.phase \in {"select", "upsert", "reading", "publish", "done"}
       /\ n.pos \in 1..Len(s.op.items)
  /\ s.op.does # "ingest" /\ n.phase = "publish" => n.event \in Told

LEMMA SessionGoesOn ==
  ASSUME TypeOK, Sessions, NEW q \in Request, table' = table, NEW n, Becomes(q, n),
         req[q].op # None, GoesTo(req[q], n)
  PROVE  Sessions'
<1>1. req'[q] = n /\ Placed(q) /\ Born(q)
    BY BecomesIs DEF Sessions
<1>2. Placed(q)'
    BY <1>1 DEF Placed, GoesTo
<1>3. Born(q)'
    BY <1>1 DEF Born, GoesTo
<1> QED
    BY <1>2, <1>3, SameTable, SessionsStay

(* Facts about a request in a given phase. *)
LEMMA InPhase ==
  ASSUME TypeOK, Sessions, NEW q \in Request
  PROVE  /\ req[q] \in Session /\ Placed(q) /\ Born(q)
         /\ req[q].phase = "idle" <=> req[q].op = None
         /\ req[q].op # None =>
              req[q].op \in Operation /\ req[q].op.does \in {"create", "link", "update", "ingest"}
         /\ req[q].phase = "load" => req[q].op.does = "update"
         /\ req[q].phase \in {"select", "upsert", "reading"} => req[q].op.does = "ingest"
         /\ req[q].phase \in {"refresh", "unpublished"} => req[q].op.does \in {"create", "update"}
<1>1. req[q] \in Session /\ Placed(q) /\ Born(q)
    BY DEF TypeOK, Sessions
<1>2. req[q].op # None => req[q].op \in Operation
                          /\ req[q].op.does \in {"create", "link", "update", "ingest"}
    BY <1>1, SessionIs, OperationIs
<1> QED
    BY <1>1, <1>2 DEF Placed

LEMMA IssueSessions ==
  ASSUME TypeOK, Sessions, NEW q \in Request, Issue(q)
  PROVE  Sessions'
<1>1. PICK n \in Session :
           /\ Becomes(q, n) /\ req[q].phase = "idle"
           /\ n.op \in Operation /\ n.op # None /\ n.pos = 1 /\ n.bad = {}
           /\ n.op.does = "create" => n.phase = "commit" /\ n.row = q
           /\ n.op.does = "link" => n.phase = "commit"
           /\ n.op.does = "ingest" => n.phase = "select"
           /\ n.op.does = "update" =>
                /\ n.phase = "load" /\ n.row \in Row
                /\ table[n.row] # None /\ table[n.row].kind = n.op.kind
           /\ UNCHANGED <<database, client, silent, used>>
    BY IssueIs
<1>2. req'[q] = n /\ table' = table
    BY <1>1, BecomesIs DEF database
<1>3. table[q] = None
    BY <1>1, InPhase DEF Born
<1>4. n.op.does = "ingest" => 1 \in 1..Len(n.op.items)
  <2> SUFFICES ASSUME n.op.does = "ingest" PROVE 1 \in 1..Len(n.op.items)
      OBVIOUS
  <2>1. n.op.items \in Seq(Device) /\ n.op.items # <<>>
      BY <1>1, OperationIs
  <2> QED
      BY <2>1
<1>5. Placed(q)'
  <2>1. n.phase # "publish"
    <3>1. n.op.does \in {"create", "link", "update", "ingest"}
        BY <1>1, OperationIs
    <3> QED
        BY <1>1, <3>1
  <2> QED
      BY <1>1, <1>2, <1>4, <2>1 DEF Placed
<1>6. Born(q)'
    BY <1>2, <1>3 DEF Born
<1> QED
    BY <1>1, <1>2, <1>5, <1>6, SameTable, SessionsStay

-----------------------------------------------------------------------------
(* Commits                                                                 *)

(* What an update leaves: c are the row's columns after it. *)
Commits(q, n, c) ==
  LET s == req[q]
      t == table[s.row]
  IN  /\ Becomes(q, n) /\ n.phase = "refresh" /\ Like(n, s)
      /\ s.row \in Row /\ t \in Table /\ t.kind = s.op.kind /\ s.phase = "commit"
      /\ s.op # None /\ s.op \in Operation /\ s.op.does = "update"
      /\ s.old \in Columns(s.op.kind) /\ c \in Columns(s.op.kind)
      /\ table' \in [Row -> Table \cup {None}]
      /\ table'[s.row] \in Table /\ table'[s.row].kind = t.kind /\ table'[s.row].cols = c
      /\ \A r \in Row : r # s.row => table'[r] = table[r]
      /\ s.op.kind = "incident" =>
           c.notes = IF s.op.note THEN s.old.notes \cup {q} ELSE t.cols.notes
      /\ s.op.kind = "dashboard" => c.version = s.old.version + 1

LEMMA CommitUpdateIs ==
  ASSUME TypeOK, Sessions, NotesCopied, NEW q \in Request, CommitUpdate(q)
  PROVE  \E n \in Session, c \in Copy : Commits(q, n, c)
<1> DEFINE s == req[q]
           t == table[s.row]
           f == Flushed(t.cols, s.old, Updated(q))
           b == t.updated + 1
<1>1. s.phase = "commit" /\ s.op.does = "update" /\ Goes(q, "refresh")
    BY DEF CommitUpdate, At, Op
<1>2. PICK n \in Session : Becomes(q, n) /\ n.phase = "refresh" /\ Like(n, s)
    BY <1>1, GoesIs DEF Phase
<1>3. s.op # None /\ s.op \in Operation
    BY <1>1, InPhase
<1>4. /\ s.row \in Row /\ t # None /\ t.kind = s.op.kind /\ s.old \in Columns(s.op.kind)
    BY <1>1, <1>3, InPhase DEF Placed
<1>5. t \in Table /\ t.cols \in Columns(s.op.kind) /\ t.updated \in Nat
      /\ s.op.kind \in Kind
    BY <1>4, RowIs DEF TypeOK
<1>6. /\ Updated(q) \in Columns(s.op.kind)
      /\ s.op.kind = "incident" => Updated(q).notes =
           IF s.op.note THEN s.old.notes \cup {q} ELSE s.old.notes
      /\ s.op.kind = "dashboard" => Updated(q).version = s.old.version + 1
    BY <1>1, <1>3, <1>4, CopyIs
<1>7. s.op.kind = "incident" => q \notin s.old.notes
    BY <1>1, <1>3, <1>4 DEF NotesCopied, HasRead, Updates, Wrote, Committed
<1>8. s.op.kind = "dashboard" => s.old.version \in Nat
    BY <1>4 DEF Columns
<1>9. CASE Updated(q) = s.old
  <2>1. table' = table
      BY <1>9 DEF CommitUpdate
  <2>2. s.op.kind = "incident" /\ ~s.op.note
      BY <1>5, <1>6, <1>7, <1>8, <1>9 DEF Kind
  <2>3. t.cols \in Copy
      BY <1>5, RowIs
  <2>4. Commits(q, n, t.cols)
      BY <1>1, <1>2, <1>3, <1>4, <1>5, <2>1, <2>2 DEF Commits, TypeOK
  <2> QED
      BY <2>3, <2>4
<1>10. CASE Updated(q) # s.old
  <2>1. /\ f \in Columns(s.op.kind)
        /\ s.op.kind = "incident" =>
             f.notes = IF s.op.note THEN s.old.notes \cup {q} ELSE t.cols.notes
        /\ s.op.kind = "dashboard" => f.version = s.old.version + 1
    <3>1. CASE s.op.kind = "incident"
      <4>1. f \in Columns("incident")
            /\ f.notes = IF Updated(q).notes # s.old.notes THEN Updated(q).notes
                         ELSE t.cols.notes
          BY <1>4, <1>5, <1>6, <3>1, FlushedIncident
      <4> QED
          BY <1>6, <1>7, <3>1, <4>1
    <3>2. CASE s.op.kind = "dashboard"
      <4>1. f \in Columns("dashboard")
            /\ f.version = IF Updated(q).version # s.old.version THEN Updated(q).version
                           ELSE t.cols.version
          BY <1>4, <1>5, <1>6, <3>2, FlushedDashboard
      <4> QED
          BY <1>6, <1>8, <3>2, <4>1
    <3> QED
        BY <1>5, <3>1, <3>2 DEF Kind
  <2>2. table' = [table EXCEPT ![s.row].cols = f, ![s.row].updated = @ + 1]
      BY <1>10 DEF CommitUpdate
  <2> DEFINE u == [t EXCEPT !.cols = f, !.updated = b]
  <2>3. table' = [table EXCEPT ![s.row] = u]
    <3> HIDE DEF f
    <3>1. /\ [table EXCEPT ![s.row].cols = f][s.row].updated = t.updated
          /\ [table EXCEPT ![s.row].cols = f][s.row] = [t EXCEPT !.cols = f]
        BY <1>4, <1>5 DEF TypeOK, Table, RowOf
    <3> QED
        BY <1>4, <1>5, <2>2, <3>1 DEF TypeOK
  <2>4. b \in Nat /\ t.kind = s.op.kind
      BY <1>4, <1>5
  <2> HIDE DEF f, b
  <2>5. u \in Table /\ u.kind = s.op.kind /\ u.cols = f
    <3>1. CASE s.op.kind = "incident"
      <4>1. t \in RowOf("incident")
          BY <1>5, <2>4, <3>1 DEF Table, RowOf
      <4> HIDE DEF t
      <4> QED
          BY <2>1, <2>4, <3>1, <4>1 DEF Table, RowOf
    <3>2. CASE s.op.kind = "dashboard"
      <4>1. t \in RowOf("dashboard")
          BY <1>5, <2>4, <3>2 DEF Table, RowOf
      <4> HIDE DEF t
      <4> QED
          BY <2>1, <2>4, <3>2, <4>1 DEF Table, RowOf
    <3> QED
        BY <1>5, <3>1, <3>2 DEF Kind
  <2> HIDE DEF u
  <2>6. /\ table' \in [Row -> Table \cup {None}] /\ table'[s.row] = u
        /\ \A r \in Row : r # s.row => table'[r] = table[r]
      BY <1>4, <2>3, <2>5 DEF TypeOK
  <2>7. f \in Copy
      BY <1>5, <2>1 DEF Copy, Kind
  <2>8. Commits(q, n, f)
      BY <1>1, <1>2, <1>3, <1>4, <1>5, <2>1, <2>5, <2>6 DEF Commits
  <2> QED
      BY <2>7, <2>8
<1> QED
    BY <1>9, <1>10

LEMMA CommitUpdateSessions ==
  ASSUME TypeOK, Sessions, NEW q \in Request, NEW n, NEW c, Commits(q, n, c)
  PROVE  Sessions' /\ TableGrows(q)
<1>1. TableGrows(q)
    BY Apart DEF Commits, TableGrows
<1>2. Becomes(q, n) /\ req'[q] = n /\ Placed(q) /\ Born(q)
    BY BecomesIs DEF Commits, Sessions
<1>3. Placed(q)'
    BY <1>1, <1>2 DEF Commits, Like, Placed, TableGrows
<1>4. Born(q)'
  <2>1. table'[q] = table[q] \/ (q = req[q].row /\ table[q] # None)
      BY Apart DEF Commits
  <2> QED
      BY <1>2, <2>1 DEF Commits, Like, Born
<1> QED
    BY <1>1, <1>2, <1>3, <1>4, SessionsStay

(* A new row. *)
Creates(q, n) ==
  /\ Becomes(q, n) /\ n.phase = "refresh" /\ Like(n, req[q])
  /\ req[q].phase = "commit" /\ req[q].op # None /\ req[q].op.does = "create"
  /\ req[q].row = q /\ req[q].op.kind \in Kind
  /\ table[q] = None /\ table' \in [Row -> Table \cup {None}]
  /\ table'[q] = NewRow(req[q].op.kind)
  /\ \A r \in Row : r # q => table'[r] = table[r]

LEMMA CommitCreateIs ==
  ASSUME TypeOK, Sessions, NEW q \in Request, CommitCreate(q)
  PROVE  \E n \in Session : Creates(q, n)
<1> DEFINE s == req[q]
<1>1. /\ s.phase = "commit" /\ s.op.does = "create" /\ Goes(q, "refresh")
      /\ table' = [table EXCEPT ![q] = NewRow(s.op.kind)]
    BY DEF CommitCreate, At, Op
<1>2. PICK n \in Session : Becomes(q, n) /\ n.phase = "refresh" /\ Like(n, s)
    BY <1>1, GoesIs DEF Phase
<1>3. s.op # None /\ s.op \in Operation /\ s.row = q /\ table[q] = None
    BY <1>1, InPhase DEF Placed, Born
<1>4. s.op.kind \in Kind
    BY <1>1, <1>3, OperationIs
<1>5. NewRow(s.op.kind) \in Table
    BY <1>4, NewRowIs
<1>6. /\ table' \in [Row -> Table \cup {None}] /\ table'[q] = NewRow(s.op.kind)
      /\ \A r \in Row : r # q => table'[r] = table[r]
    BY <1>1, <1>5, Apart DEF TypeOK
<1> QED
    BY <1>1, <1>2, <1>3, <1>4, <1>6 DEF Creates

LEMMA CommitCreateSessions ==
  ASSUME TypeOK, Sessions, NEW q \in Request, NEW n, Creates(q, n)
  PROVE  Sessions' /\ TableGrows(q)
<1>1. TableGrows(q)
    BY Apart DEF Creates, TableGrows
<1>2. Becomes(q, n) /\ req'[q] = n /\ Placed(q)
    BY BecomesIs DEF Creates, Sessions
<1>3. table'[q] # None /\ table'[q].kind = req[q].op.kind
    BY NewRowIs DEF Creates
<1>4. Placed(q)' /\ Born(q)'
    BY <1>2, <1>3 DEF Creates, Like, Placed, Born
<1> QED
    BY <1>1, <1>2, <1>4, SessionsStay

-----------------------------------------------------------------------------
(* Notes and versions                                                      *)

LEMMA WroteIs ==
  ASSUME NEW q, NEW r
  PROVE  Wrote(q, r) <=> /\ req[q].op # None /\ req[q].op.does = "update"
                         /\ req[q].row = r /\ req[q].phase \in InDatabase
BY DEF Wrote, Committed, Op, InDatabase

(* What is in the database stays there, and a copy is made of the row. *)
Quiet(q, n) ==
  LET s == req[q] IN
  /\ table' = table /\ Becomes(q, n)
  /\ s.op # None /\ s.op.does = "update" /\ s.phase \in InDatabase =>
       n.op = s.op /\ n.row = s.row /\ n.old = s.old /\ n.phase \in InDatabase
  /\ n.op # None /\ n.op.does = "update" =>
       /\ n.phase \in InDatabase =>
            s.op # None /\ s.op.does = "update" /\ s.phase \in InDatabase
       /\ n.phase = "commit" => n.old = table[n.row].cols

LEMMA QuietWrites ==
  ASSUME TypeOK, NEW q \in Request, NEW n, Quiet(q, n), NEW v \in Request, NEW r
  PROVE  /\ Wrote(v, r)' <=> Wrote(v, r)
         /\ Wrote(v, r) => req'[v].old = req[v].old /\ req'[v].op = req[v].op
<1>1. /\ req'[q] = n /\ \A u \in Request : u # q => req'[u] = req[u]
    BY BecomesIs DEF Quiet
<1>2. Wrote(v, r)' <=> /\ req'[v].op # None /\ req'[v].op.does = "update"
                       /\ req'[v].row = r /\ req'[v].phase \in InDatabase
    BY DEF Wrote, Committed, Op, InDatabase
<1> QED
    BY <1>1, <1>2, WroteIs DEF Quiet

LEMMA QuietNotes ==
  ASSUME TypeOK, Sessions, NotesCopied, NotesKnown, NotesLost, Sessions',
         NEW q \in Request, NEW n, Quiet(q, n)
  PROVE  NotesCopied' /\ NotesKnown' /\ NotesLost'
<1>1. /\ req'[q] = n /\ table' = table
      /\ \A u \in Request : u # q => req'[u] = req[u]
    BY BecomesIs DEF Quiet
<1>2. ASSUME NEW r \in Row, table[r] # None, table[r].kind = "incident"
      PROVE  \A v \in table[r].cols.notes : v \in Request /\ Wrote(v, r)
  <2>1. table[r] \in Table
      BY <1>2 DEF TypeOK
  <2>2. table[r].cols.notes \subseteq Request
      BY <1>2, <2>1, RowIs DEF Columns
  <2> QED
      BY <1>2, <2>2 DEF NotesKnown
<1>3. NotesKnown'
    BY <1>1, <1>2, QuietWrites DEF NotesKnown
<1>4. NotesCopied'
  <2> SUFFICES ASSUME NEW v \in Request, NEW r \in Row,
                      Updates(v, r, "incident")', req'[v].phase \in HasRead,
                      NEW u \in req'[v].old.notes
               PROVE  Wrote(u, r)'
      BY DEF NotesCopied
  <2>1. CASE v = q
    <3>1. Placed(q)'
        BY DEF Sessions
    <3>2. n.op # None /\ n.op.does = "update" /\ n.op.kind = "incident" /\ n.row = r
        BY <1>1, <2>1 DEF Updates
    <3>3. table[r] # None /\ table[r].kind = "incident"
        BY <1>1, <3>1, <3>2 DEF Placed
    <3>4. CASE n.phase = "commit"
      <4>1. n.old = table[r].cols
          BY <1>1, <3>2, <3>4 DEF Quiet
      <4> QED
          BY <1>1, <1>2, <2>1, <3>3, <4>1, QuietWrites
    <3>5. CASE n.phase \in InDatabase
      <4>1. /\ req[q].op # None /\ req[q].op.does = "update"
            /\ req[q].phase \in InDatabase
            /\ n.op = req[q].op /\ n.row = req[q].row /\ n.old = req[q].old
          BY <3>2, <3>5 DEF Quiet
      <4>2. Updates(q, r, "incident") /\ req[q].phase \in HasRead
          BY <3>2, <4>1 DEF Updates, HasRead
      <4>3. u \in req[q].old.notes /\ Wrote(u, r)
          BY <1>1, <2>1, <4>1, <4>2 DEF NotesCopied
      <4>4. req[q].old \in Columns("incident")
          BY <4>1, <4>2 DEF Sessions, Placed, Updates, InDatabase
      <4>5. u \in Request
          BY <4>3, <4>4 DEF Columns
      <4> QED
          BY <4>3, <4>5, QuietWrites
    <3> QED
        BY <1>1, <2>1, <3>4, <3>5 DEF HasRead
  <2>2. CASE v # q
    <3>1. Updates(v, r, "incident") /\ req[v].phase \in HasRead /\ req'[v] = req[v]
        BY <1>1, <2>2 DEF Updates
    <3>2. u \in req[v].old.notes /\ Wrote(u, r)
        BY <3>1 DEF NotesCopied
    <3>3. req[v].old \in Columns("incident")
        BY <3>1 DEF Sessions, Placed, Updates, HasRead, InDatabase
    <3>4. u \in Request
        BY <3>2, <3>3 DEF Columns
    <3> QED
        BY <3>2, <3>4, QuietWrites
  <2> QED
      BY <2>1, <2>2
<1>5. NotesLost'
  <2> SUFFICES ASSUME NEW v \in Request, NEW r \in Row,
                      Updates(v, r, "incident")', Committed(v, r)', Op(v)'.note
               PROVE  \/ v \in table'[r].cols.notes
                      \/ \E u \in table'[r].cols.notes :
                           v \notin req'[u].old.notes /\ u \notin req'[v].old.notes
      BY DEF NotesLost, Op
  <2>1. Wrote(v, r)'
      BY DEF Wrote, Updates
  <2>2. Wrote(v, r) /\ req'[v].op = req[v].op /\ req'[v].old = req[v].old
      BY <2>1, QuietWrites
  <2>3. Updates(v, r, "incident") /\ Committed(v, r) /\ Op(v).note
      BY <2>2, WroteIs DEF Wrote, Updates, Op, Committed
  <2>4. table[r] # None /\ table[r].kind = "incident"
      BY <2>3 DEF Updates, Sessions, Placed
  <2>5. \/ v \in table[r].cols.notes
        \/ \E u \in table[r].cols.notes :
             v \notin req[u].old.notes /\ u \notin req[v].old.notes
      BY <2>3 DEF NotesLost
  <2> QED
      BY <1>1, <1>2, <2>2, <2>4, <2>5, QuietWrites
<1> QED
    BY <1>3, <1>4, <1>5

LEMMA QuietVersions ==
  ASSUME TypeOK, Sessions, Versions, Sessions', NEW q \in Request, NEW n, Quiet(q, n)
  PROVE  Versions'
<1>1. /\ req'[q] = n /\ table' = table
      /\ \A u \in Request : u # q => req'[u] = req[u]
    BY BecomesIs DEF Quiet
<1> SUFFICES ASSUME NEW r \in Row, table[r] # None, table[r].kind = "dashboard"
             PROVE  Overlap(r)' \/ InTurn(r)'
    BY <1>1 DEF Versions
<1>2. /\ Committers(r)' = Committers(r)
      /\ \A u \in Committers(r) : req'[u].old = req[u].old
    BY QuietWrites DEF Committers
<1>3. CASE Overlap(r)
    BY <1>2, <1>3 DEF Overlap
<1>4. CASE InTurn(r)
  <2> DEFINE C == Committers(r)
             k == table[r].cols.version
  <2>1. /\ k = 1 + Cardinality(C) /\ Cardinality(C) \in Nat
    <3>1. IsFiniteSet(C)
        BY PlatformAssumption, FS_Subset DEF Committers
    <3> QED
        BY <1>4, <3>1, FS_CardinalityType DEF InTurn
  <2>2. ASSUME NEW v \in Request, Updates(v, r, "dashboard")', req'[v].phase = "commit"
        PROVE  req'[v].old.version \in 1..k
    <3>1. CASE v = q
      <4>1. req'[v].old = table[r].cols
          BY <1>1, <2>2, <3>1 DEF Quiet, Updates
      <4> QED
          BY <2>1, <4>1
    <3>2. CASE v # q
        BY <1>1, <1>4, <2>2, <3>2 DEF InTurn, Updates
    <3> QED
        BY <3>1, <3>2
  <2>3. InTurn(r)'
      BY <1>1, <1>2, <1>4, <2>2 DEF InTurn
  <2> QED
      BY <2>3
<1> QED
    BY <1>3, <1>4 DEF Versions

(* After a commit of an update. *)
LEMMA CommitWrites ==
  ASSUME TypeOK, NEW q \in Request, NEW n, NEW c, Commits(q, n, c),
         NEW v \in Request, NEW r
  PROVE  /\ Wrote(v, r)' <=> Wrote(v, r) \/ (v = q /\ r = req[q].row)
         /\ ~Wrote(q, r)
         /\ req'[v].old = req[v].old /\ req'[v].op = req[v].op /\ req'[v].row = req[v].row
         /\ v # q => req'[v] = req[v]
<1>1. /\ req'[q] = n /\ \A u \in Request : u # q => req'[u] = req[u]
    BY BecomesIs DEF Commits
<1>2. Wrote(v, r)' <=> /\ req'[v].op # None /\ req'[v].op.does = "update"
                       /\ req'[v].row = r /\ req'[v].phase \in InDatabase
    BY DEF Wrote, Committed, Op, InDatabase
<1>3. n.op = req[q].op /\ n.row = req[q].row /\ n.old = req[q].old
      /\ n.phase \in InDatabase /\ req[q].phase \notin InDatabase
      /\ req[q].op # None /\ req[q].op.does = "update"
    BY DEF Commits, Like, InDatabase
<1> QED
    BY <1>1, <1>2, <1>3, WroteIs

LEMMA CommitNotes ==
  ASSUME TypeOK, Sessions, NotesCopied, NotesKnown, NotesLost,
         NEW q \in Request, NEW n, NEW c, Commits(q, n, c)
  PROVE  NotesCopied' /\ NotesKnown' /\ NotesLost'
<1> DEFINE s == req[q]
           t == table[s.row]
<1>1. ASSUME NEW r \in Row, table[r] # None, table[r].kind = "incident"
      PROVE  \A v \in table[r].cols.notes : v \in Request /\ Wrote(v, r)
  <2>1. table[r] \in Table
      BY <1>1 DEF TypeOK
  <2>2. table[r].cols.notes \subseteq Request
      BY <1>1, <2>1, RowIs DEF Columns
  <2> QED
      BY <1>1, <2>2 DEF NotesKnown
<1>2. ASSUME NEW v \in Request, NEW r \in Row, Updates(v, r, "incident"),
             req[v].phase \in HasRead
      PROVE  \A u \in req[v].old.notes : u \in Request /\ Wrote(u, r)
  <2>1. req[v].old \in Columns("incident")
      BY <1>2 DEF Sessions, Placed, Updates, HasRead, InDatabase
  <2> QED
      BY <1>2, <2>1 DEF NotesCopied, Columns
<1>3. /\ s.row \in Row /\ t # None /\ t.kind = s.op.kind /\ table'[s.row].cols = c
      /\ table'[s.row].kind = t.kind /\ req'[q].phase = "refresh"
      /\ \A r \in Row : r # s.row => table'[r] = table[r]
      /\ s.op.kind = "incident" => Updates(q, s.row, "incident") /\ s.phase = "commit"
    BY RowIs, BecomesIs DEF Commits, Updates
<1>4. NotesKnown'
  <2> SUFFICES ASSUME NEW r \in Row, table'[r] # None, table'[r].kind = "incident",
                      NEW v \in table'[r].cols.notes
               PROVE  Wrote(v, r)'
      BY DEF NotesKnown
  <2>1. CASE r # s.row
      BY <1>1, <1>3, <2>1, CommitWrites
  <2>2. CASE r = s.row
    <3>1. v \in s.old.notes \cup {q} \/ v \in t.cols.notes
        BY <1>3, <2>2 DEF Commits
    <3>2. v \in Request /\ (Wrote(v, r) \/ v = q)
        BY <1>1, <1>2, <1>3, <2>2, <3>1 DEF HasRead
    <3> QED
        BY <2>2, <3>2, CommitWrites
  <2> QED
      BY <2>1, <2>2
<1>5. NotesCopied'
  <2> SUFFICES ASSUME NEW v \in Request, NEW r \in Row,
                      Updates(v, r, "incident")', req'[v].phase \in HasRead,
                      NEW u \in req'[v].old.notes
               PROVE  Wrote(u, r)'
      BY DEF NotesCopied
  <2>1. Updates(v, r, "incident") /\ u \in req[v].old.notes
      BY CommitWrites DEF Updates
  <2>2. Updates(v, r, "incident") /\ req[v].phase \in HasRead /\ u \in req[v].old.notes
    <3>1. CASE v = q
      <4>1. req[q].phase = "commit"
          BY DEF Commits
      <4> QED
          BY <2>1, <3>1, <4>1 DEF HasRead
    <3>2. CASE v # q
        BY <2>1, <3>2, CommitWrites
    <3> QED
        BY <3>1, <3>2
  <2> QED
      BY <1>2, <2>2, CommitWrites
<1>6. NotesLost'
  <2> SUFFICES ASSUME NEW v \in Request, NEW r \in Row,
                      Updates(v, r, "incident")', Committed(v, r)', Op(v)'.note
               PROVE  \/ v \in table'[r].cols.notes
                      \/ \E u \in table'[r].cols.notes :
                           v \notin req'[u].old.notes /\ u \notin req'[v].old.notes
      BY DEF NotesLost, Op
  <2>1. Wrote(v, r)' /\ Updates(v, r, "incident") /\ Op(v).note
      BY CommitWrites DEF Wrote, Updates, Op
  <2>2. table[r] # None /\ table[r].kind = "incident"
      BY <2>1 DEF Updates, Sessions, Placed
  <2>3. ASSUME v # q \/ r # s.row
        PROVE  \/ v \in table[r].cols.notes
               \/ \E u \in table[r].cols.notes :
                    v \notin req[u].old.notes /\ u \notin req[v].old.notes
    <3>1. Wrote(v, r)
        BY <2>1, <2>3, CommitWrites
    <3> QED
        BY <2>1, <3>1 DEF NotesLost, Wrote
  <2>4. ASSUME NEW u \in table[r].cols.notes
        PROVE  u \in Request /\ req'[u].old = req[u].old
      BY <1>1, <2>2, <2>4, CommitWrites
  <2>5. CASE r # s.row
      BY <1>3, <2>3, <2>4, <2>5, CommitWrites
  <2>6. CASE r = s.row /\ ~s.op.note
    <3>1. v # q
        BY <2>1, <2>6 DEF Op
    <3>2. table'[r].cols.notes = table[r].cols.notes
        BY <1>3, <2>2, <2>6 DEF Commits
    <3> QED
        BY <2>3, <2>4, <3>1, <3>2, CommitWrites
  <2>7. CASE r = s.row /\ s.op.note
    <3>1. table'[r].cols.notes = s.old.notes \cup {q} /\ req'[q].old = s.old
        BY <1>3, <2>2, <2>7, CommitWrites DEF Commits
    <3>2. CASE v \in s.old.notes \cup {q}
        BY <2>7, <3>1, <3>2
    <3>3. CASE v \notin s.old.notes \cup {q}
      <4>1. v # q /\ Wrote(v, r) /\ ~Wrote(q, r)
          BY <2>1, <2>7, <3>3, CommitWrites
      <4>2. req[v].phase \in HasRead
          BY <4>1, WroteIs DEF HasRead
      <4>3. q \notin req[v].old.notes
          BY <1>2, <2>1, <4>1, <4>2
      <4>4. v \notin req'[q].old.notes /\ q \notin req'[v].old.notes
          BY <3>1, <3>3, <4>3, CommitWrites
      <4> QED
          BY <3>1, <4>4
    <3> QED
        BY <3>2, <3>3
  <2> QED
      BY <2>5, <2>6, <2>7
<1> QED
    BY <1>4, <1>5, <1>6

LEMMA CommitVersions ==
  ASSUME TypeOK, Sessions, Versions, NEW q \in Request, NEW n, NEW c, Commits(q, n, c)
  PROVE  Versions'
<1> DEFINE s == req[q]
           t == table[s.row]
<1>1. /\ s.row \in Row /\ t # None /\ t.kind = s.op.kind /\ table'[s.row].cols = c
      /\ table'[s.row].kind = t.kind /\ s.op # None /\ s.op.does = "update"
      /\ req'[q].phase = "refresh" /\ s.phase = "commit"
      /\ \A r \in Row : r # s.row => table'[r] = table[r]
    BY RowIs, BecomesIs DEF Commits
<1> SUFFICES ASSUME NEW r \in Row, table'[r] # None, table'[r].kind = "dashboard"
             PROVE  Overlap(r)' \/ InTurn(r)'
    BY DEF Versions
<1> DEFINE C == Committers(r)
           D == Committers(r)'
<1>2. table[r] # None /\ table[r].kind = "dashboard"
    BY <1>1
<1>3. /\ D = IF r = s.row THEN C \cup {q} ELSE C
      /\ q \notin C /\ C \subseteq Request
      /\ \A u \in Request : req'[u].old = req[u].old
    BY CommitWrites DEF Committers
<1>4. CASE Overlap(r)
    BY <1>3, <1>4 DEF Overlap
<1>5. CASE InTurn(r)
  <2> DEFINE k == Cardinality(C)
             m == table[r].cols.version
  <2>1. /\ IsFiniteSet(C) /\ k \in Nat /\ m = 1 + k
        /\ Cardinality(C \cup {q}) = k + 1
    <3>1. IsFiniteSet(C)
        BY <1>3, PlatformAssumption, FS_Subset
    <3> QED
        BY <1>3, <1>5, <3>1, FS_CardinalityType, FS_AddElement DEF InTurn
  <2>2. ASSUME NEW v \in Request, Updates(v, r, "dashboard")', req'[v].phase = "commit"
        PROVE  req'[v].old.version \in 1..m
    <3>1. v # q
        BY <1>1, <2>2
    <3> QED
        BY <1>5, <2>2, <3>1, CommitWrites DEF InTurn, Updates
  <2>3. \A l \in 1..k : \E u \in C : req[u].old.version = l
      BY <1>5 DEF InTurn
  <2>4. CASE r # s.row
      BY <1>1, <1>3, <1>5, <2>2, <2>4 DEF InTurn
  <2>5. CASE r = s.row
    <3> DEFINE o == s.old.version
    <3>1. table'[r].cols.version = o + 1 /\ o \in 1..m
        BY <1>1, <1>2, <1>5, <2>5 DEF Commits, InTurn, Updates
    <3>2. CASE o <= k
      <4>1. PICK u \in C : req[u].old.version = o
          BY <2>1, <2>3, <3>1, <3>2
      <4> QED
          BY <1>3, <2>5, <4>1 DEF Overlap
    <3>3. CASE o > k
      <4>1. o = m
          BY <2>1, <3>1, <3>3
      <4>2. Cardinality(D) = m
          BY <1>3, <2>1, <2>5
      <4>3. table'[r].cols.version = 1 + Cardinality(D)
          BY <2>1, <3>1, <4>1, <4>2
      <4>4. ASSUME NEW l \in 1..Cardinality(D)
            PROVE  \E u \in D : req'[u].old.version = l
        <5>1. CASE l <= k
          <6>1. PICK u \in C : req[u].old.version = l
              BY <2>1, <2>3, <5>1, <4>4, <4>2
          <6> QED
              BY <1>3, <6>1
        <5>2. CASE l > k
          <6>1. l = o
              BY <2>1, <4>1, <4>2, <4>4, <5>2
          <6> QED
              BY <1>3, <2>5, <6>1
        <5> QED
            BY <2>1, <4>2, <5>1, <5>2
      <4>5. \A v \in Request : Updates(v, r, "dashboard")' /\ req'[v].phase = "commit" =>
              req'[v].old.version \in 1..table'[r].cols.version
          BY <2>1, <2>2, <4>2, <4>3
      <4> QED
          BY <4>3, <4>4, <4>5 DEF InTurn
    <3> QED
        BY <2>1, <3>1, <3>2, <3>3
  <2> QED
      BY <2>4, <2>5
<1> QED
    BY <1>2, <1>4, <1>5 DEF Versions

(* After a row was created. *)
LEMMA CreateWrites ==
  ASSUME TypeOK, Sessions, NEW q \in Request, NEW n, Creates(q, n),
         NEW v \in Request, NEW r
  PROVE  /\ Wrote(v, r)' <=> Wrote(v, r)
         /\ req'[v].old = req[v].old /\ req'[v].op = req[v].op /\ req'[v].row = req[v].row
         /\ v # q => req'[v] = req[v]
         /\ req[v].op # None /\ req[v].op.does = "update" => req[v].row # q /\ v # q
<1>1. /\ req'[q] = n /\ \A u \in Request : u # q => req'[u] = req[u]
    BY BecomesIs DEF Creates
<1>2. Wrote(v, r)' <=> /\ req'[v].op # None /\ req'[v].op.does = "update"
                       /\ req'[v].row = r /\ req'[v].phase \in InDatabase
    BY DEF Wrote, Committed, Op, InDatabase
<1>3. n.op = req[q].op /\ n.row = req[q].row /\ n.old = req[q].old
      /\ req[q].op.does = "create" /\ table[q] = None
    BY DEF Creates, Like
<1>4. Placed(v)
    BY DEF Sessions
<1> QED
    BY <1>1, <1>2, <1>3, <1>4, WroteIs DEF Placed

LEMMA CreateNotes ==
  ASSUME TypeOK, Sessions, NotesCopied, NotesKnown, NotesLost, Versions,
         NEW q \in Request, NEW n, Creates(q, n)
  PROVE  NotesCopied' /\ NotesKnown' /\ NotesLost' /\ Versions'
<1>1. /\ \A r \in Row : r # q => table'[r] = table[r]
      /\ table'[q] # None
      /\ table'[q].kind = "incident" => table'[q].cols.notes = {}
      /\ table'[q].kind = "dashboard" => table'[q].cols.version = 1
    BY NewRowIs DEF Creates
<1>2. ASSUME NEW r \in Row, table[r] # None, table[r].kind = "incident"
      PROVE  \A v \in table[r].cols.notes : v \in Request /\ Wrote(v, r)
  <2>1. table[r] \in Table
      BY <1>2 DEF TypeOK
  <2>2. table[r].cols.notes \subseteq Request
      BY <1>2, <2>1, RowIs DEF Columns
  <2> QED
      BY <1>2, <2>2 DEF NotesKnown
<1>3. NotesKnown'
    BY <1>1, <1>2, CreateWrites DEF NotesKnown
<1>4. NotesCopied'
  <2> SUFFICES ASSUME NEW v \in Request, NEW r \in Row,
                      Updates(v, r, "incident")', req'[v].phase \in HasRead,
                      NEW u \in req'[v].old.notes
               PROVE  Wrote(u, r)'
      BY DEF NotesCopied
  <2>1. v # q /\ Updates(v, r, "incident")
      BY CreateWrites DEF Updates
  <2>2. req[v].phase \in HasRead /\ u \in req[v].old.notes
      BY <2>1, CreateWrites
  <2>3. req[v].old \in Columns("incident") /\ Wrote(u, r)
      BY <2>1, <2>2 DEF Sessions, Placed, Updates, NotesCopied, HasRead, InDatabase
  <2> QED
      BY <2>2, <2>3, CreateWrites DEF Columns
<1>5. NotesLost'
  <2> SUFFICES ASSUME NEW v \in Request, NEW r \in Row,
                      Updates(v, r, "incident")', Committed(v, r)', Op(v)'.note
               PROVE  \/ v \in table'[r].cols.notes
                      \/ \E u \in table'[r].cols.notes :
                           v \notin req'[u].old.notes /\ u \notin req'[v].old.notes
      BY DEF NotesLost, Op
  <2>1. Wrote(v, r)' /\ Updates(v, r, "incident") /\ Op(v).note
      BY CreateWrites DEF Wrote, Updates, Op
  <2>2. Wrote(v, r) /\ r # q
      BY <2>1, CreateWrites DEF Updates
  <2>3. table[r] # None /\ table[r].kind = "incident"
      BY <2>1 DEF Updates, Sessions, Placed
  <2>4. \/ v \in table[r].cols.notes
        \/ \E u \in table[r].cols.notes :
             v \notin req[u].old.notes /\ u \notin req[v].old.notes
      BY <2>1, <2>2 DEF NotesLost, Wrote
  <2> QED
      BY <1>1, <1>2, <2>2, <2>3, <2>4, CreateWrites
<1>6. Versions'
  <2> SUFFICES ASSUME NEW r \in Row, table'[r] # None, table'[r].kind = "dashboard"
               PROVE  Overlap(r)' \/ InTurn(r)'
      BY DEF Versions
  <2>1. /\ Committers(r)' = Committers(r) /\ Committers(r) \subseteq Request
        /\ \A u \in Request : req'[u].old = req[u].old
      BY CreateWrites DEF Committers
  <2>2. CASE r = q
    <3>1. Committers(r) = {}
        BY <2>2, CreateWrites, WroteIs DEF Committers
    <3>2. \A v \in Request : ~Updates(v, r, "dashboard")'
        BY <2>2, CreateWrites DEF Updates
    <3>3. Cardinality(Committers(r)') = 0 /\ 1..0 = {}
        BY <2>1, <3>1, FS_EmptySet
    <3> QED
        BY <1>1, <2>2, <3>2, <3>3 DEF InTurn
  <2>3. CASE r # q
    <3>1. table'[r] = table[r] /\ (Overlap(r) \/ InTurn(r))
        BY <1>1, <2>3 DEF Versions
    <3>2. CASE Overlap(r)
        BY <2>1, <3>2 DEF Overlap
    <3>3. CASE InTurn(r)
      <4>1. ASSUME NEW v \in Request, Updates(v, r, "dashboard")', req'[v].phase = "commit"
            PROVE  req'[v].old.version \in 1..table[r].cols.version
        <5>1. Updates(v, r, "dashboard") /\ v # q
            BY <4>1, CreateWrites DEF Updates
        <5> QED
            BY <3>3, <4>1, <5>1, CreateWrites DEF InTurn
      <4>2. \A v \in Request : Updates(v, r, "dashboard")' /\ req'[v].phase = "commit" =>
              req'[v].old.version \in 1..table'[r].cols.version
          BY <3>1, <4>1
      <4>3. \A k \in 1..Cardinality(Committers(r)) :
              \E u \in Committers(r)' : req'[u].old.version = k
          BY <2>1, <3>3 DEF InTurn
      <4> QED
          BY <2>1, <3>1, <3>3, <4>2, <4>3 DEF InTurn
    <3> QED
        BY <3>1, <3>2, <3>3
  <2> QED
      BY <2>2, <2>3
<1> QED
    BY <1>3, <1>4, <1>5, <1>6

-----------------------------------------------------------------------------
(* What a subscriber is told                                               *)

(* What a step may take from those who tell of a row, or of a reading: only *)
(* by having told it, or for good.                                         *)
StillTold(q, n) ==
  \A r \in Row : Telling(q, r) =>
    \/ Telling(q, r)'
    \/ r \in silent'
    \/ client.phase = "live" /\ client.channel = ChannelFor(table[r].kind) =>
         Message(r) \in client'.seen

Holds(q) == Ingests(q) /\ req[q].phase = "publish"
StillRead(q, n) ==
  Holds(q) => \/ Holds(q)' /\ n.pos = req[q].pos
              \/ <<q, req[q].pos>> \in silent'
              \/ client.phase = "live" /\ client.channel = "telemetry" =>
                   <<q, req[q].pos>> \in client'.seen

Grows == /\ silent \subseteq silent' /\ client.seen \subseteq client'.seen
         /\ client'.phase = client.phase /\ client'.channel = client.channel

LEMMA RowsStillTold ==
  ASSUME TypeOK, RowsTold, Grows, table' = table, client.phase = "live",
         NEW q \in Request, NEW n, Becomes(q, n), StillTold(q, n)
  PROVE  RowsTold'
<1> SUFFICES ASSUME NEW r \in Row, table[r] # None,
                    client.channel = ChannelFor(table[r].kind)
             PROVE  \/ Message(r) \in client'.seen \/ r \in silent'
                    \/ \E v \in Request : Telling(v, r)'
    BY DEF RowsTold, Grows, Message
<1>1. \A u \in Request : u # q => req'[u] = req[u]
    BY BecomesIs
<1>2. CASE Message(r) \in client.seen \/ r \in silent
    BY <1>2 DEF Grows
<1>3. ASSUME NEW v \in Request, Telling(v, r)
      PROVE  \/ Message(r) \in client'.seen \/ r \in silent'
             \/ \E u \in Request : Telling(u, r)'
  <2>1. CASE v = q
      BY <1>3, <2>1 DEF StillTold
  <2>2. CASE v # q
      BY <1>1, <1>3, <2>2 DEF Telling, Message
  <2> QED
      BY <2>1, <2>2
<1> QED
    BY <1>2, <1>3 DEF RowsTold

(* A row changes, and the one who changed it is going to tell. *)
LEMMA RowsChange ==
  ASSUME TypeOK, RowsTold, NEW q \in Request, NEW n, Becomes(q, n),
         UNCHANGED <<client, silent>>, NEW s \in Row,
         \A r \in Row : r # s => table'[r] = table[r],
         Telling(q, s)', ~\E r \in Row : Telling(q, r)
  PROVE  RowsTold'
<1>1. \A u \in Request : u # q => req'[u] = req[u]
    BY BecomesIs
<1> SUFFICES ASSUME NEW r \in Row, r # s, table[r] # None,
                    client.channel = ChannelFor(table[r].kind)
             PROVE  \/ Message(r) \in client.seen \/ r \in silent
                    \/ \E v \in Request : Telling(v, r)'
  <2>1. \A r \in Row : r # s => Message(r)' = Message(r)
      BY DEF Message
  <2> QED
      BY <2>1 DEF RowsTold
<1>2. \A v \in Request : Telling(v, r) => Telling(v, r)'
  <2> SUFFICES ASSUME NEW v \in Request, Telling(v, r) PROVE Telling(v, r)'
      OBVIOUS
  <2>1. v # q /\ table'[r] = table[r]
      OBVIOUS
  <2> QED
      BY <1>1, <2>1 DEF Telling, Message
<1> QED
    BY <1>2 DEF RowsTold

LEMMA ReadingsStillTold ==
  ASSUME TypeOK, ReadingsTold, Grows, client.phase = "live", NEW q \in Request, NEW n, Becomes(q, n),
         StillRead(q, n),
         \A i \in readings' : i \in readings \/ (Holds(q)' /\ i = <<q, n.pos>>)
  PROVE  ReadingsTold'
<1>1. req'[q] = n /\ \A u \in Request : u # q => req'[u] = req[u]
    BY BecomesIs
<1> SUFFICES ASSUME client.channel = "telemetry", NEW i \in readings'
             PROVE  \/ i \in client'.seen \cup silent'
                    \/ \E v \in Request : Holds(v)' /\ i = <<v, req'[v].pos>>
    BY DEF ReadingsTold, Grows, Holds, Ingests
<1>2. CASE i \notin readings
    BY <1>1, <1>2
<1>3. CASE i \in client.seen \cup silent
    BY <1>3 DEF Grows
<1>4. ASSUME NEW v \in Request, Holds(v), i = <<v, req[v].pos>>
      PROVE  \/ i \in client'.seen \cup silent'
             \/ \E u \in Request : Holds(u)' /\ i = <<u, req'[u].pos>>
  <2>1. CASE v = q
      BY <1>1, <1>4, <2>1 DEF StillRead
  <2>2. CASE v # q
    <3>1. Holds(v)' /\ req'[v].pos = req[v].pos
        BY <1>1, <1>4, <2>2 DEF Holds, Ingests
    <3> QED
        BY <1>4, <3>1
  <2> QED
      BY <2>1, <2>2
<1> QED
    BY <1>2, <1>3, <1>4 DEF ReadingsTold, Holds

LEMMA SubscribedStays ==
  ASSUME TypeOK, Subscribed, Grows, table' = table,
         NEW q \in Request, NEW n, Becomes(q, n), StillTold(q, n), StillRead(q, n),
         \A i \in readings' : i \in readings \/ (Holds(q)' /\ i = <<q, n.pos>>)
  PROVE  Subscribed'
<1> SUFFICES ASSUME client.phase = "live" PROVE RowsTold' /\ ReadingsTold'
    BY DEF Subscribed, Grows
<1> QED
    BY RowsStillTold, ReadingsStillTold DEF Subscribed

LEMMA SubscribedAgain ==
  ASSUME TypeOK, Subscribed, NEW q \in Request, NEW n, Becomes(q, n),
         UNCHANGED <<client, silent, readings>>, NEW s \in Row,
         \A r \in Row : r # s => table'[r] = table[r],
         Telling(q, s)', ~\E r \in Row : Telling(q, r), ~Holds(q)
  PROVE  Subscribed'
<1> SUFFICES ASSUME client.phase = "live" PROVE RowsTold' /\ ReadingsTold'
    BY DEF Subscribed
<1>1. RowsTold'
    BY RowsChange DEF Subscribed
<1>2. Grows /\ StillRead(q, n)
    BY DEF Grows, StillRead
<1>3. ReadingsTold'
    BY <1>2, ReadingsStillTold DEF Subscribed
<1> QED
    BY <1>1, <1>3

(* The dashboard itself. *)
LEMMA ClientTold ==
  ASSUME TypeOK, Subscribed, UNCHANGED <<table, readings, req>>, silent' = silent,
         Subscribe \/ Fetch \/ Disconnect
  PROVE  Subscribed'
<1>1. CASE Subscribe
  <2>1. client'.phase = "subscribed"
      BY <1>1 DEF Subscribe
  <2> QED
      BY <2>1 DEF Subscribed
<1>2. CASE Disconnect
  <2>1. client'.phase = "off"
      BY <1>2 DEF Disconnect, TypeOK
  <2> QED
      BY <2>1 DEF Subscribed
<1>3. CASE Fetch
  <2>1. client'.channel = client.channel /\ client'.seen = client.seen \cup Stored(client.channel)
      BY <1>3 DEF Fetch, TypeOK
  <2>2. RowsTold'
    <3> SUFFICES ASSUME NEW r \in Row, table[r] # None,
                        client.channel = ChannelFor(table[r].kind)
                 PROVE  Message(r) \in client'.seen
        BY <2>1 DEF RowsTold, Message
    <3>1. table[r].kind \in Kind
        BY RowIs DEF TypeOK
    <3>2. Message(r) \in StoredRows(table[r].kind)
        BY DEF StoredRows
    <3>3. Stored(client.channel) = StoredRows(table[r].kind)
        BY <3>1 DEF Stored, ChannelFor, Kind
    <3> QED
        BY <2>1, <3>2, <3>3
  <2>3. ReadingsTold'
      BY <2>1 DEF ReadingsTold, Stored, StoredReadings
  <2> QED
      BY <2>2, <2>3 DEF Subscribed
<1> QED
    BY <1>1, <1>2, <1>3

-----------------------------------------------------------------------------
(* Ingestion                                                               *)

(* Devices are never deleted and keep who inserted them; q may insert one. *)
DevicesGrow(q) ==
  \A d \in Device :
    /\ devices[d] # None => devices'[d] # None /\ devices'[d].first = devices[d].first
    /\ devices[d] = None /\ devices'[d] # None => devices'[d].first = q

ReadingsGrow(q) ==
  readings \subseteq readings' /\ \A i \in readings' : i \in readings \/ i[1] = q

ItemIs(q, p) == req[q].op.items[p] \in Device

LEMMA ItemsAre ==
  ASSUME TypeOK, Sessions, NEW q \in Request, Ingests(q)
  PROVE  /\ req[q].op.items \in Seq(Device) /\ Len(req[q].op.items) \in Nat
         /\ \A p \in 1..Len(req[q].op.items) : ItemIs(q, p)
         /\ req[q].pos \in 1..Len(req[q].op.items)
         /\ req[q].op.via \in {"http", "ws"}
         /\ req[q].phase \in {"select", "upsert", "reading", "publish", "done"}
<1>1. req[q].op \in Operation /\ Placed(q)
    BY InPhase DEF Ingests
<1>2. req[q].op.items \in Seq(Device) /\ req[q].op.via \in {"http", "ws"}
    BY <1>1, OperationIs DEF Ingests
<1> QED
    BY <1>1, <1>2 DEF Ingests, Placed, ItemIs

(* What others do leaves an ingestion what it is. *)
LEMMA IngestingStays ==
  ASSUME TypeOK, Sessions, NEW q \in Request, DevicesGrow(q), ReadingsGrow(q),
         used' = 0 => used = 0,
         NEW v \in Request, v # q, req'[v] = req[v], Ingests(v), Ingesting(v)
  PROVE  Ingesting(v)'
<1> DEFINE s == req[v]
<1>1. /\ \A p \in 1..Len(s.op.items) : s.op.items[p] \in Device
      /\ s.pos \in 1..Len(s.op.items)
    BY ItemsAre DEF ItemIs
<1>2. \A p : <<v, p>> \in readings' <=> <<v, p>> \in readings
    BY DEF ReadingsGrow
<1>3. \A b \in s.bad : b \in 1..Len(s.op.items)
  <2>1. \A b \in s.bad : b \in 1..s.pos
      BY DEF Ingesting
  <2>2. s.pos \in 1..Len(s.op.items) /\ Len(s.op.items) \in Nat
      BY <1>1, ItemsAre
  <2> HIDE DEF s
  <2> QED
      BY ONLY <2>1, <2>2
<1>4. \A i \in readings' : i[1] = v => i \in readings
    BY DEF ReadingsGrow
<1>5. s.phase = "upsert" => LET d == s.op.items[s.pos] IN
        IF s.found THEN devices'[d] # None ELSE devices'[d] = None \/ devices'[d].first # v
  <2>1. s.phase = "upsert" => LET d == s.op.items[s.pos] IN
          IF s.found THEN devices[d] # None ELSE devices[d] = None \/ devices[d].first # v
      BY DEF Ingesting
  <2> HIDE DEF s
  <2>2. s.op.items[s.pos] \in Device
      BY <1>1
  <2> QED
      BY ONLY <2>1, <2>2, DevicesGrow(q), v # q DEF DevicesGrow
<1>6. used' = 0 => \A b \in s.bad : /\ <<v, b>> \notin readings'
                                    /\ devices'[s.op.items[b]] # None
                                    /\ devices'[s.op.items[b]].first # v
    BY <1>1, <1>2, <1>3 DEF Ingesting, DevicesGrow
<1>7. s = req[v] /\ req'[v] = s
    OBVIOUS
<1>8. /\ \A p \in 1..Len(s.op.items) : p < s.pos /\ p \notin s.bad => <<v, p>> \in readings
      /\ \A i \in readings : i[1] = v => i[2] <= s.pos
      /\ s.phase \in {"select", "upsert", "reading"} => <<v, s.pos>> \notin readings
      /\ s.phase = "publish" => <<v, s.pos>> \in readings
      /\ \A b \in s.bad : b \in 1..s.pos /\ (s.phase # "done" => b # s.pos)
      /\ s.op.via = "http" /\ s.bad # {} => s.phase = "done" /\ s.bad = {s.pos}
      /\ s.phase = "done" /\ s.pos \notin s.bad =>
           s.pos = Len(s.op.items) /\ <<v, s.pos>> \in readings
    BY DEF Ingesting
<1> HIDE DEF s
<1>9. /\ \A p \in 1..Len(s.op.items) : p < s.pos /\ p \notin s.bad => <<v, p>> \in readings'
      /\ s.phase \in {"select", "upsert", "reading"} => <<v, s.pos>> \notin readings'
      /\ s.phase = "publish" => <<v, s.pos>> \in readings'
      /\ s.phase = "done" /\ s.pos \notin s.bad =>
           s.pos = Len(s.op.items) /\ <<v, s.pos>> \in readings'
    BY ONLY <1>2, <1>8
<1>10. \A i \in readings' : i[1] = v => i[2] <= s.pos
    BY ONLY <1>4, <1>8
<1> QED
    BY ONLY <1>5, <1>6, <1>7, <1>8, <1>9, <1>10 DEF Ingesting

LEMMA IngestionsGoOn ==
  ASSUME TypeOK, Sessions, Ingestions, NEW q \in Request, DevicesGrow(q), ReadingsGrow(q),
         used' = 0 => used = 0, NEW n, Becomes(q, n), Ingests(q), n.op = req[q].op,
         Ingesting(q)'
  PROVE  Ingestions'
<1>1. req'[q] = n /\ \A u \in Request : u # q => req'[u] = req[u]
    BY BecomesIs
<1>2. \A u \in Request : Ingests(u)' <=> Ingests(u)
    BY <1>1 DEF Ingests
<1>3. \A u \in Request : u # q /\ Ingests(u) => Ingesting(u)'
    BY <1>1, IngestingStays DEF Ingestions
<1>4. \A i \in readings' : Ingests(i[1])'
  <2> SUFFICES ASSUME NEW i \in readings' PROVE Ingests(i[1])'
      OBVIOUS
  <2>1. CASE i[1] = q
      BY <1>2, <2>1
  <2>2. CASE i[1] # q
    <3>1. i \in readings /\ Ingests(i[1]) /\ i[1] \in Request
        BY <2>2 DEF ReadingsGrow, Ingestions, TypeOK
    <3> QED
        BY <1>2, <3>1
  <2> QED
      BY <2>1, <2>2
<1> QED
    BY <1>2, <1>3, <1>4 DEF Ingestions

(* Requests that ingest nothing. *)
LEMMA IngestionsStay ==
  ASSUME TypeOK, Sessions, Ingestions, NEW q \in Request, UNCHANGED <<devices, readings>>,
         used' = 0 => used = 0, NEW n, Becomes(q, n), ~Ingests(q), ~Ingests(q)'
  PROVE  Ingestions'
<1>1. req'[q] = n /\ \A u \in Request : u # q => req'[u] = req[u]
    BY BecomesIs
<1>2. \A u \in Request : Ingests(u)' <=> Ingests(u)
    BY <1>1 DEF Ingests
<1>3. DevicesGrow(q) /\ ReadingsGrow(q)
    BY DEF DevicesGrow, ReadingsGrow
<1>4. \A u \in Request : u # q /\ Ingests(u) => Ingesting(u)'
    BY <1>1, <1>3, IngestingStays DEF Ingestions
<1>5. \A i \in readings : i[1] \in Request
    BY DEF TypeOK
<1> QED
    BY <1>2, <1>4, <1>5 DEF Ingestions

(* The first item of a new request. *)
LEMMA IngestionStarts ==
  ASSUME TypeOK, Sessions, Ingestions, NEW q \in Request, UNCHANGED <<devices, readings>>,
         used' = used, NEW n, Becomes(q, n), ~Ingests(q), Ingests(q)',
         n.phase = "select", n.pos = 1, n.bad = {}
  PROVE  Ingestions'
<1>1. req'[q] = n /\ \A u \in Request : u # q => req'[u] = req[u]
    BY BecomesIs
<1>2. DevicesGrow(q) /\ ReadingsGrow(q)
    BY DEF DevicesGrow, ReadingsGrow
<1>3. \A u \in Request : u # q /\ Ingests(u) => Ingesting(u)'
    BY <1>1, <1>2, IngestingStays DEF Ingestions
<1>4. \A i \in readings : i[1] # q /\ i[1] \in Request
    BY DEF Ingestions, TypeOK
<1>5. n.op.items \in Seq(Device) /\ Len(n.op.items) \in Nat
  <2>1. n.op \in Operation
      BY <1>1, SessionIs DEF Ingests, Becomes
  <2> QED
      BY <1>1, <2>1, OperationIs DEF Ingests
<1>6. Ingesting(q)'
    BY <1>1, <1>4, <1>5 DEF Ingesting
<1> QED
    BY <1>1, <1>3, <1>4, <1>6 DEF Ingestions, Ingests

(* The item is done: what stays so. *)
LEMMA IngestingNext ==
  ASSUME TypeOK, Sessions, NEW q \in Request, Ingests(q), Ingesting(q),
         req[q].phase \in {"select", "upsert", "reading", "publish"},
         UNCHANGED <<devices, readings>>, NEW ok \in BOOLEAN, NextItem(q, ok),
         ok => req[q].phase = "publish" /\ used' = used,
         ~ok /\ used' = 0 => /\ used = 0 /\ <<q, req[q].pos>> \notin readings
                             /\ devices[req[q].op.items[req[q].pos]] # None
                             /\ devices[req[q].op.items[req[q].pos]].first # q
  PROVE  /\ Ingesting(q)'
         /\ \E n : Becomes(q, n) /\ GoesTo(req[q], n) /\ n.old = req[q].old
<1> DEFINE s == req[q]
           len == Len(s.op.items)
<1>1. PICK n \in Session :
           /\ Becomes(q, n) /\ n.op = req[q].op /\ n.row = req[q].row
           /\ n.old = req[q].old /\ n.event = req[q].event
           /\ n.bad = IF ok THEN req[q].bad ELSE req[q].bad \cup {req[q].pos}
           /\ IF req[q].pos < Len(req[q].op.items) /\ (ok \/ req[q].op.via = "ws")
              THEN n.phase = "select" /\ n.pos = req[q].pos + 1
              ELSE n.phase = "done" /\ n.pos = req[q].pos
    BY NextItemIs
<1>2. req'[q] = n
    BY <1>1, BecomesIs
<1>3. /\ len \in Nat /\ s.pos \in 1..len /\ s.op.via \in {"http", "ws"}
      /\ s.op # None /\ s.op.does = "ingest" /\ s.pos \in Nat
    BY ItemsAre DEF Ingests
<1>4. \A i \in readings : i[1] = q => i[2] \in Nat /\ i[2] <= s.pos
    BY DEF Ingesting, TypeOK
<1>5. \A b \in s.bad : b \in 1..s.pos /\ b # s.pos
    BY DEF Ingesting
<1>6. s.op.via = "http" => s.bad = {}
    BY DEF Ingesting
<1>7. ok => <<q, s.pos>> \in readings
    BY DEF Ingesting
<1>8. \A p \in 1..len : p < s.pos /\ p \notin s.bad => <<q, p>> \in readings
    BY DEF Ingesting
<1>9. used = 0 => \A b \in s.bad : /\ <<q, b>> \notin readings
                                   /\ devices[s.op.items[b]] # None
                                   /\ devices[s.op.items[b]].first # q
    BY DEF Ingesting
<1>10. /\ n.pos \in 1..len /\ n.phase \in {"select", "done"}
       /\ n.phase = "select" => n.pos = s.pos + 1
       /\ n.phase = "done" => n.pos = s.pos
       /\ n.phase = "done" /\ ok => n.pos = len
       /\ n.phase = "done" \/ ok \/ s.op.via = "ws"
    BY <1>1, <1>3
<1>11. GoesTo(s, n)
    BY <1>1, <1>3, <1>10 DEF GoesTo
<1>12. n.bad = (IF ok THEN s.bad ELSE s.bad \cup {s.pos}) /\ n.op = s.op
    BY <1>1
<1>13. used' = 0 => used = 0
    OBVIOUS
<1>14. n.phase # "upsert"
    BY <1>10
<1> HIDE DEF s, len
<1>15. \A p \in 1..len : p < n.pos /\ p \notin n.bad => <<q, p>> \in readings
  <2> SUFFICES ASSUME NEW p \in 1..len, p < n.pos, p \notin n.bad PROVE <<q, p>> \in readings
      OBVIOUS
  <2>1. p < s.pos \/ p = s.pos
      BY <1>3, <1>10
  <2>2. p \notin s.bad
      BY <1>12
  <2> QED
      BY <1>7, <1>8, <1>12, <2>1, <2>2
<1>16. /\ \A i \in readings : i[1] = q => i[2] <= n.pos
       /\ n.phase = "select" => <<q, n.pos>> \notin readings
    BY <1>3, <1>4, <1>10
<1>17. \A b \in n.bad : b \in 1..n.pos /\ (n.phase # "done" => b # n.pos)
    BY <1>3, <1>5, <1>10, <1>12
<1>18. n.op.via = "http" /\ n.bad # {} => n.phase = "done" /\ n.bad = {n.pos}
    BY <1>6, <1>10, <1>12
<1>19. n.phase = "done" /\ n.pos \notin n.bad => n.pos = len /\ <<q, n.pos>> \in readings
    BY <1>7, <1>10, <1>12
<1>20. used' = 0 => \A b \in n.bad : /\ <<q, b>> \notin readings
                                     /\ devices[n.op.items[b]] # None
                                     /\ devices[n.op.items[b]].first # q
    BY <1>9, <1>12, <1>13 DEF s
<1>21. Ingesting(q)'
    BY <1>2, <1>10, <1>12, <1>14, <1>15, <1>16, <1>17, <1>18, <1>19, <1>20
    DEF Ingesting, len
<1> QED
    BY <1>1, <1>11, <1>21 DEF s

LEMMA IngestingSelects ==
  ASSUME TypeOK, Sessions, NEW q \in Request, Ingests(q), Ingesting(q), SelectDevice(q)
  PROVE  /\ Ingesting(q)'
         /\ \E n : Becomes(q, n) /\ GoesTo(req[q], n) /\ n.phase = "upsert"
<1> DEFINE s == req[q]
<1>1. PICK n \in Session :
           /\ Becomes(q, n) /\ n.phase = "upsert"
           /\ n.found = (devices[req[q].op.items[req[q].pos]] # None)
           /\ n.op = req[q].op /\ n.row = req[q].row /\ n.old = req[q].old
           /\ n.pos = req[q].pos /\ n.bad = req[q].bad
    BY SelectIs
<1>2. /\ req'[q] = n /\ s.phase = "select" /\ UNCHANGED <<devices, readings, used>>
    BY <1>1, BecomesIs DEF SelectDevice, At, database
<1>3. Ingesting(q)'
    BY <1>1, <1>2 DEF Ingesting
<1>4. GoesTo(s, n)
    BY <1>1, ItemsAre DEF GoesTo, Ingests
<1> QED
    BY <1>1, <1>3, <1>4

LEMMA IngestingStores ==
  ASSUME TypeOK, Sessions, NEW q \in Request, Ingests(q), Ingesting(q), StoreReading(q)
  PROVE  /\ Ingesting(q)'
         /\ \E n : Becomes(q, n) /\ GoesTo(req[q], n) /\ n.phase = "publish"
                   /\ n.pos = req[q].pos
<1> DEFINE s == req[q]
<1>1. PICK n \in Session : Becomes(q, n) /\ n.phase = "publish" /\ Like(n, s)
    BY GoesIs DEF StoreReading, Phase
<1>2. /\ req'[q] = n /\ s.phase = "reading" /\ UNCHANGED <<devices, used>>
      /\ readings' = readings \cup {<<q, s.pos>>}
    BY <1>1, BecomesIs DEF StoreReading, At
<1>3. s.pos \in Nat
    BY ItemsAre
<1>4. Ingesting(q)'
  <2>1. /\ \A p \in 1..Len(s.op.items) : p < s.pos /\ p \notin s.bad => <<q, p>> \in readings
        /\ \A i \in readings : i[1] = q => i[2] <= s.pos
        /\ \A b \in s.bad : b \in 1..s.pos /\ b # s.pos
        /\ ~(s.op.via = "http" /\ s.bad # {})
        /\ used = 0 => \A b \in s.bad : /\ <<q, b>> \notin readings
                                        /\ devices[s.op.items[b]] # None
                                        /\ devices[s.op.items[b]].first # q
      BY <1>2 DEF Ingesting
  <2>2. n.op = s.op /\ n.pos = s.pos /\ n.bad = s.bad /\ n.phase = "publish"
      BY <1>1 DEF Like
  <2> HIDE DEF s
  <2>3. /\ \A p \in 1..Len(n.op.items) : p < n.pos /\ p \notin n.bad => <<q, p>> \in readings'
        /\ \A i \in readings' : i[1] = q => i[2] <= n.pos
        /\ <<q, n.pos>> \in readings'
        /\ \A b \in n.bad : b \in 1..n.pos /\ b # n.pos
        /\ ~(n.op.via = "http" /\ n.bad # {})
      BY ONLY <1>2, <1>3, <2>1, <2>2
  <2>4. used' = 0 => \A b \in n.bad : /\ <<q, b>> \notin readings'
                                       /\ devices'[n.op.items[b]] # None
                                       /\ devices'[n.op.items[b]].first # q
      BY ONLY <1>2, <2>1, <2>2
  <2> QED
      BY ONLY <1>2, <2>2, <2>3, <2>4 DEF Ingesting
<1>5. GoesTo(s, n) /\ n.pos = s.pos
    BY <1>1, ItemsAre DEF GoesTo, Ingests, Like
<1> QED
    BY <1>1, <1>4, <1>5

(* The device is there, whoever inserted it. *)
LEMMA IngestingUpserts ==
  ASSUME TypeOK, Sessions, NEW q \in Request, Ingests(q), Ingesting(q), UpsertDevice(q),
         LET d == req[q].op.items[req[q].pos] IN req[q].found \/ devices[d] = None
  PROVE  /\ Ingesting(q)' /\ DevicesGrow(q)
         /\ devices' \in [Device -> DeviceRow \cup {None}]
         /\ \E n : Becomes(q, n) /\ GoesTo(req[q], n) /\ n.phase = "reading"
<1> DEFINE s == req[q]
           d == s.op.items[s.pos]
           first == IF s.found THEN devices[d].first ELSE q
           row == [first |-> first, last |-> q]
<1>1. /\ Goes(q, "reading") /\ s.phase = "upsert" /\ UNCHANGED <<readings, used>>
      /\ devices' = [devices EXCEPT ![d] =
           [first |-> IF s.found THEN @.first ELSE q, last |-> q]]
    BY DEF UpsertDevice, At, Item, Op
<1>2. PICK n \in Session : Becomes(q, n) /\ n.phase = "reading" /\ Like(n, s)
    BY <1>1, GoesIs DEF Phase
<1>3. req'[q] = n
    BY <1>2, BecomesIs
<1>4. d \in Device /\ \A p \in 1..Len(s.op.items) : s.op.items[p] \in Device
    BY ItemsAre DEF ItemIs
<1>5. s.found => devices[d] # None
    BY <1>1 DEF Ingesting
<1>6. first \in Request /\ row \in DeviceRow
  <2>1. s.found => devices[d] \in DeviceRow
      BY <1>4, <1>5 DEF TypeOK
  <2> HIDE DEF s, d
  <2>2. first \in Request
      BY <2>1 DEF DeviceRow
  <2> QED
      BY <2>2 DEF DeviceRow
<1>7. devices' = [devices EXCEPT ![d] = row]
    BY <1>1
<1>8. row # None /\ row.first = first
    BY <1>6, Apart
<1> HIDE DEF d, row
<1>9. /\ devices'[d] = row /\ \A e \in Device : e # d => devices'[e] = devices[e]
      /\ devices' \in [Device -> DeviceRow \cup {None}]
    BY <1>4, <1>6, <1>7 DEF TypeOK
<1>10. s.found \/ devices[d] = None
    BY DEF d
<1>11. DevicesGrow(q)
    BY <1>5, <1>8, <1>9, <1>10 DEF DevicesGrow
<1>12. \A b \in s.bad : b \in 1..Len(s.op.items)
  <2>1. \A b \in s.bad : b \in 1..s.pos
      BY DEF Ingesting
  <2>2. s.pos \in 1..Len(s.op.items) /\ Len(s.op.items) \in Nat
      BY ItemsAre
  <2> HIDE DEF s
  <2> QED
      BY ONLY <2>1, <2>2
<1>13. used = 0 => \A b \in s.bad : /\ devices'[s.op.items[b]] # None
                                    /\ devices'[s.op.items[b]].first # q
    BY <1>4, <1>11, <1>12 DEF Ingesting, DevicesGrow
<1>14. Ingesting(q)'
    BY <1>1, <1>2, <1>3, <1>13 DEF Ingesting, Like
<1>15. GoesTo(s, n)
    BY <1>2, ItemsAre DEF GoesTo, Ingests, Like
<1> QED
    BY <1>2, <1>9, <1>11, <1>14, <1>15

-----------------------------------------------------------------------------
(* Every step                                                              *)

Clients == [phase : {"off", "subscribed", "live"}, channel : Channel,
            seen : SUBSET (Told \cup (Request \X Nat))]

(* A request goes on and the tables of rows stay. *)
LEMMA Onward ==
  ASSUME Inv, NEW q \in Request, NEW n, table' = table, Becomes(q, n),
         req[q].op # None, GoesTo(req[q], n), Quiet(q, n),
         Grows, StillTold(q, n), StillRead(q, n),
         \A i \in readings' : i \in readings \/ (Holds(q)' /\ i = <<q, n.pos>>),
         Ingestions', client' \in Clients, used' \in Nat,
         devices' \in [Device -> DeviceRow \cup {None}]
  PROVE  Inv'
<1>1. Sessions'
    BY SessionGoesOn DEF Inv
<1>2. NotesCopied' /\ NotesKnown' /\ NotesLost' /\ Versions'
    BY <1>1, QuietNotes, QuietVersions DEF Inv
<1>3. Subscribed'
    BY SubscribedStays DEF Inv
<1>4. n.pos \in Nat
    BY SessionIs DEF Becomes
<1>5. TypeOK'
    BY <1>4, BecomesIs DEF Inv, TypeOK, Clients
<1> QED
    BY <1>1, <1>2, <1>3, <1>5 DEF Inv

(* A tool goes on: nothing but its own session changes. *)
LEMMA ToolGoesOn ==
  ASSUME Inv, NEW q \in Request, NEW n, table' = table, Becomes(q, n),
         UNCHANGED <<devices, readings>>, Grows, client' \in Clients,
         used' \in Nat, used' = 0 => used = 0,
         req[q].op # None, req[q].op.does # "ingest", GoesTo(req[q], n), Quiet(q, n),
         StillTold(q, n)
  PROVE  Inv'
<1>1. req'[q] = n /\ n.op = req[q].op
    BY BecomesIs DEF Inv, GoesTo
<1>2. ~Ingests(q) /\ ~Ingests(q)'
    BY <1>1 DEF Ingests
<1>3. Ingestions'
    BY <1>2, IngestionsStay DEF Inv
<1>4. StillRead(q, n)
    BY <1>2 DEF StillRead, Holds
<1> QED
    BY <1>3, <1>4, Onward DEF Inv, TypeOK

(* An ingestion goes on. *)
LEMMA IngestionGoes ==
  ASSUME Inv, NEW q \in Request, NEW n, table' = table, Becomes(q, n),
         Grows, client' \in Clients, used' \in Nat, used' = 0 => used = 0,
         Ingests(q), GoesTo(req[q], n), StillRead(q, n), Ingesting(q)',
         DevicesGrow(q), readings \subseteq readings',
         \A i \in readings' : i \in readings \/ (Holds(q)' /\ i = <<q, n.pos>>),
         devices' \in [Device -> DeviceRow \cup {None}]
  PROVE  Inv'
<1>1. req'[q] = n /\ n.op = req[q].op
    BY BecomesIs DEF Inv, GoesTo
<1>2. ReadingsGrow(q)
    BY DEF ReadingsGrow
<1>3. Ingestions'
    BY <1>1, <1>2, IngestionsGoOn DEF Inv
<1>4. Quiet(q, n)
    BY <1>1 DEF Quiet, Ingests
<1>5. StillTold(q, n)
    BY DEF StillTold, Telling, Ingests
<1> QED
    BY <1>3, <1>4, <1>5, Onward DEF Ingests

LEMMA IssueInv ==
  ASSUME Inv, NEW q \in Request, Issue(q)
  PROVE  Inv'
<1>1. PICK n \in Session :
           /\ Becomes(q, n) /\ req[q].phase = "idle"
           /\ n.op \in Operation /\ n.op # None /\ n.pos = 1 /\ n.bad = {}
           /\ n.op.does = "create" => n.phase = "commit" /\ n.row = q
           /\ n.op.does = "link" => n.phase = "commit"
           /\ n.op.does = "ingest" => n.phase = "select"
           /\ n.op.does = "update" =>
                /\ n.phase = "load" /\ n.row \in Row
                /\ table[n.row] # None /\ table[n.row].kind = n.op.kind
           /\ UNCHANGED <<database, client, silent, used>>
    BY IssueIs DEF Inv
<1>2. /\ req'[q] = n /\ req[q].op = None
      /\ UNCHANGED <<table, devices, readings, client, silent, used>>
    BY <1>1, BecomesIs, InPhase DEF database, Inv
<1>3. Sessions'
    BY IssueSessions DEF Inv
<1>4. Quiet(q, n)
    BY <1>1, <1>2 DEF Quiet, InDatabase
<1>5. NotesCopied' /\ NotesKnown' /\ NotesLost' /\ Versions'
    BY <1>3, <1>4, QuietNotes, QuietVersions DEF Inv
<1>6. Grows /\ StillTold(q, n) /\ StillRead(q, n) /\ ~Ingests(q)
    BY <1>2 DEF Grows, StillTold, Telling, StillRead, Holds, Ingests
<1>7. Subscribed'
    BY <1>1, <1>2, <1>6, SubscribedStays DEF Inv
<1>8. Ingestions'
  <2>1. CASE Ingests(q)'
    <3>1. n.phase = "select"
        BY <1>1, <1>2, <2>1 DEF Ingests
    <3> QED
        BY <1>1, <1>2, <1>6, <2>1, <3>1, IngestionStarts DEF Inv
  <2>2. CASE ~Ingests(q)'
      BY <1>1, <1>2, <1>6, <2>2, IngestionsStay DEF Inv
  <2> QED
      BY <2>1, <2>2
<1>9. TypeOK'
    BY <1>1, <1>2, BecomesIs DEF Inv, TypeOK
<1> QED
    BY <1>3, <1>5, <1>7, <1>8, <1>9 DEF Inv

LEMMA LoadInv ==
  ASSUME Inv, NEW q \in Request, Load(q)
  PROVE  Inv'
<1>1. req[q].phase = "load" /\ UNCHANGED <<table, devices, readings, client, silent, used>>
    BY DEF Load, At, database
<1>2. req[q].op # None /\ req[q].op.does = "update" /\ Placed(q)
    BY <1>1, InPhase DEF Inv
<1>3. PICK n \in Session :
           /\ Becomes(q, n) /\ n.phase = "commit" /\ n.old = table[req[q].row].cols
           /\ n.old \in Columns(req[q].op.kind)
           /\ n.op = req[q].op /\ n.row = req[q].row /\ n.pos = req[q].pos
           /\ n.bad = req[q].bad
    BY <1>2, LoadIs DEF Inv
<1>4. GoesTo(req[q], n)
    BY <1>2, <1>3 DEF GoesTo
<1>5. Quiet(q, n)
    BY <1>1, <1>3 DEF Quiet, InDatabase
<1>6. Grows /\ StillTold(q, n)
    BY <1>1 DEF Grows, StillTold, Telling
<1> QED
    BY <1>1, <1>2, <1>3, <1>4, <1>5, <1>6, ToolGoesOn DEF Inv, TypeOK, Clients

LEMMA CommitUpdateInv ==
  ASSUME Inv, NEW q \in Request, CommitUpdate(q)
  PROVE  Inv'
<1>1. UNCHANGED <<devices, readings, client, silent, used>>
    BY DEF CommitUpdate
<1>2. PICK n \in Session, c \in Copy : Commits(q, n, c)
    BY CommitUpdateIs DEF Inv
<1>3. Sessions' /\ NotesCopied' /\ NotesKnown' /\ NotesLost' /\ Versions'
    BY <1>2, CommitUpdateSessions, CommitNotes, CommitVersions DEF Inv
<1> DEFINE s == req[q].row
<1>4. /\ req'[q] = n /\ Becomes(q, n) /\ n.phase = "refresh" /\ n.op = req[q].op
      /\ n.row = s /\ s \in Row /\ req[q].phase = "commit"
      /\ req[q].op # None /\ req[q].op.does = "update"
      /\ table' \in [Row -> Table \cup {None}]
      /\ \A r \in Row : r # s => table'[r] = table[r]
    BY <1>2, BecomesIs DEF Commits, Like, Inv
<1>5. /\ Telling(q, s)' /\ ~Holds(q) /\ ~Ingests(q) /\ ~Ingests(q)'
      /\ ~\E r \in Row : Telling(q, r)
    BY <1>4 DEF Telling, Holds, Ingests
<1>6. Subscribed'
    BY <1>1, <1>4, <1>5, SubscribedAgain DEF Inv
<1>7. Ingestions'
    BY <1>1, <1>4, <1>5, IngestionsStay DEF Inv
<1>8. TypeOK'
    BY <1>1, <1>4, BecomesIs DEF Inv, TypeOK
<1> QED
    BY <1>3, <1>6, <1>7, <1>8 DEF Inv

LEMMA CommitCreateInv ==
  ASSUME Inv, NEW q \in Request, CommitCreate(q)
  PROVE  Inv'
<1>1. UNCHANGED <<devices, readings, client, silent, used>>
    BY DEF CommitCreate
<1>2. PICK n \in Session : Creates(q, n)
    BY CommitCreateIs DEF Inv
<1>3. Sessions' /\ NotesCopied' /\ NotesKnown' /\ NotesLost' /\ Versions'
    BY <1>2, CommitCreateSessions, CreateNotes DEF Inv
<1>4. /\ req'[q] = n /\ Becomes(q, n) /\ n.phase = "refresh" /\ n.op = req[q].op
      /\ n.row = q /\ q \in Row /\ req[q].phase = "commit"
      /\ req[q].op # None /\ req[q].op.does = "create"
      /\ table' \in [Row -> Table \cup {None}]
      /\ \A r \in Row : r # q => table'[r] = table[r]
    BY <1>2, BecomesIs, Apart DEF Creates, Like, Inv
<1>5. /\ Telling(q, q)' /\ ~Holds(q) /\ ~Ingests(q) /\ ~Ingests(q)'
      /\ ~\E r \in Row : Telling(q, r)
    BY <1>4 DEF Telling, Holds, Ingests
<1>6. Subscribed'
    BY <1>1, <1>4, <1>5, SubscribedAgain DEF Inv
<1>7. Ingestions'
    BY <1>1, <1>4, <1>5, IngestionsStay DEF Inv
<1>8. TypeOK'
    BY <1>1, <1>4, BecomesIs DEF Inv, TypeOK
<1> QED
    BY <1>3, <1>6, <1>7, <1>8 DEF Inv

LEMMA CommitEvidenceInv ==
  ASSUME Inv, NEW q \in Request, CommitEvidence(q)
  PROVE  Inv'
<1>1. /\ req[q].phase = "commit" /\ req[q].op.does = "link" /\ Goes(q, "done")
      /\ UNCHANGED <<table, devices, readings, client, silent, used>>
    BY DEF CommitEvidence, At, Op
<1>2. req[q].op # None
    BY <1>1, InPhase DEF Inv
<1>3. PICK n \in Session : Becomes(q, n) /\ n.phase = "done" /\ Like(n, req[q])
    BY <1>1, GoesIs DEF Phase, Inv
<1>4. GoesTo(req[q], n)
    BY <1>1, <1>3 DEF GoesTo, Like
<1>5. Quiet(q, n)
    BY <1>1, <1>3 DEF Quiet, Like
<1>6. Grows /\ StillTold(q, n)
    BY <1>1 DEF Grows, StillTold, Telling
<1> QED
    BY <1>1, <1>2, <1>3, <1>4, <1>5, <1>6, ToolGoesOn DEF Inv, TypeOK, Clients

(* A tool that read back or publishes has a row. *)
LEMMA HasRow ==
  ASSUME TypeOK, Sessions, NEW q \in Request, req[q].op # None,
         req[q].phase \in {"refresh", "publish"}, req[q].op.does # "ingest"
  PROVE  /\ req[q].op.does \in {"create", "update"}
         /\ req[q].row \in Row /\ table[req[q].row] # None
         /\ table[req[q].row].kind = req[q].op.kind /\ req[q].op.kind \in Kind
         /\ req[q].op.does = "update" => req[q].old \in Columns(req[q].op.kind)
         /\ req[q].phase = "publish" => req[q].event \in Told
<1>1. /\ req[q].op \in Operation /\ Placed(q)
      /\ req[q].op.does \in {"create", "link", "update", "ingest"}
    BY InPhase
<1>2. req[q].op.does \in {"create", "update"}
    BY <1>1 DEF Placed
<1>3. req[q].op.kind \in Kind
    BY <1>1, <1>2, OperationIs
<1> QED
    BY <1>1, <1>2, <1>3, Apart DEF Placed

LEMMA RefreshInv ==
  ASSUME Inv, NEW q \in Request, Refresh(q)
  PROVE  Inv'
<1> DEFINE s == req[q]
<1>1. /\ s.phase = "refresh"
      /\ UNCHANGED <<table, devices, readings, client, silent, used>>
    BY DEF Refresh, At, database
<1>2. s.op # None /\ s.op.does # "ingest"
    BY <1>1, InPhase DEF Inv
<1>3. /\ s.op.does \in {"create", "update"} /\ s.row \in Row /\ table[s.row] # None
      /\ s.op.does = "update" => s.old \in Columns(s.op.kind)
    BY <1>1, <1>2, HasRow DEF Inv
<1>4. PICK n \in Session :
           /\ Becomes(q, n) /\ n.phase = "publish" /\ n.event = Message(req[q].row)
           /\ n.op = req[q].op /\ n.row = req[q].row /\ n.old = req[q].old
           /\ n.pos = req[q].pos /\ n.bad = req[q].bad
    BY <1>3, RefreshIs DEF Inv
<1>5. req'[q] = n
    BY <1>4, BecomesIs DEF Inv
<1>6. GoesTo(s, n)
  <2>1. n.event \in Told
      BY <1>3, <1>4, MessageIs DEF Inv
  <2> QED
      BY <1>1, <1>3, <1>4, <2>1 DEF GoesTo
<1>7. Quiet(q, n)
    BY <1>1, <1>2, <1>4 DEF Quiet, InDatabase
<1>8. StillTold(q, n)
  <2> SUFFICES ASSUME NEW r \in Row, Telling(q, r) PROVE Telling(q, r)'
      BY DEF StillTold
  <2>1. r = s.row /\ Message(r)' = Message(r)
      BY <1>1 DEF Telling, Message
  <2> QED
      BY <1>2, <1>4, <1>5, <2>1 DEF Telling
<1>9. Grows
    BY <1>1 DEF Grows
<1> QED
    BY <1>1, <1>2, <1>4, <1>6, <1>7, <1>8, <1>9, ToolGoesOn DEF Inv, TypeOK, Clients

(* Whoever is subscribed receives the message. *)
LEMMA DeliveredIs ==
  ASSUME TypeOK, NEW c, NEW m \in Told \cup (Request \X Nat), Delivered(c, m)
  PROVE  /\ client' \in Clients /\ client'.phase = client.phase
         /\ client'.channel = client.channel /\ client.seen \subseteq client'.seen
         /\ client.phase = "live" /\ client.channel = c => m \in client'.seen
<1> DEFINE seen == client.seen \cup {m}
<1>1. client \in Clients /\ seen \in SUBSET (Told \cup (Request \X Nat))
    BY DEF TypeOK, Clients
<1>2. CASE client.phase # "off" /\ client.channel = c
  <2>1. client' = [client EXCEPT !.seen = seen]
      BY <1>2 DEF Delivered
  <2> HIDE DEF seen
  <2>2. /\ client' \in Clients /\ client'.phase = client.phase
        /\ client'.channel = client.channel /\ client'.seen = seen
      BY <1>1, <2>1 DEF Clients
  <2> QED
      BY <2>2 DEF seen
<1>3. CASE ~(client.phase # "off" /\ client.channel = c)
    BY <1>1, <1>3 DEF Delivered
<1> QED
    BY <1>2, <1>3

LEMMA PublishInv ==
  ASSUME Inv, NEW q \in Request, Publish(q)
  PROVE  Inv'
<1> DEFINE s == req[q]
<1>1. /\ s.phase = "publish" /\ s.op.does # "ingest" /\ Delivered(ChannelOf(q), s.event)
      /\ UNCHANGED <<table, devices, readings, silent, used>>
    BY DEF Publish, At, Op, database
<1>2. s.op # None
    BY <1>1, InPhase DEF Inv
<1>3. /\ s.op.does \in {"create", "update"} /\ s.row \in Row /\ table[s.row] # None
      /\ table[s.row].kind = s.op.kind /\ s.op.kind \in Kind
      /\ s.op.does = "update" => s.old \in Columns(s.op.kind)
      /\ s.event \in Told
    BY <1>1, <1>2, HasRow DEF Inv
<1>4. PICK n \in Session :
           /\ Becomes(q, n) /\ n.phase = "done"
           /\ n.op = req[q].op /\ n.row = req[q].row /\ n.old = req[q].old
           /\ n.pos = req[q].pos /\ n.bad = req[q].bad
    BY PublishIs DEF Inv
<1>5. GoesTo(s, n)
    BY <1>1, <1>3, <1>4 DEF GoesTo
<1>6. Quiet(q, n)
    BY <1>1, <1>2, <1>4 DEF Quiet, InDatabase
<1>7. ChannelOf(q) = ChannelFor(s.op.kind)
    BY <1>1 DEF ChannelOf, ChannelFor, Op
<1>8. /\ client' \in Clients /\ client'.phase = client.phase
      /\ client'.channel = client.channel /\ client.seen \subseteq client'.seen
      /\ client.phase = "live" /\ client.channel = ChannelFor(s.op.kind) =>
           s.event \in client'.seen
    BY <1>1, <1>3, <1>7, DeliveredIs DEF Inv
<1>9. Grows
    BY <1>1, <1>8 DEF Grows
<1>10. StillTold(q, n)
    BY <1>1, <1>3, <1>8 DEF StillTold, Telling
<1> QED
    BY <1>1, <1>2, <1>4, <1>5, <1>6, <1>8, <1>9, <1>10, ToolGoesOn DEF Inv, TypeOK

LEMMA SelectInv ==
  ASSUME Inv, NEW q \in Request, SelectDevice(q)
  PROVE  Inv'
<1>1. /\ req[q].phase = "select"
      /\ UNCHANGED <<table, devices, readings, client, silent, used>>
    BY DEF SelectDevice, At, database
<1>2. Ingests(q)
    BY <1>1, InPhase DEF Inv, Ingests
<1>3. Ingesting(q)' /\ \E n : Becomes(q, n) /\ GoesTo(req[q], n) /\ n.phase = "upsert"
    BY <1>2, IngestingSelects DEF Inv, Ingestions
<1>4. PICK n : Becomes(q, n) /\ GoesTo(req[q], n) /\ n.phase = "upsert"
    BY <1>3
<1>5. Grows /\ DevicesGrow(q) /\ StillRead(q, n)
    BY <1>1 DEF Grows, DevicesGrow, StillRead, Holds
<1> QED
    BY <1>1, <1>2, <1>3, <1>4, <1>5, IngestionGoes DEF Inv, TypeOK, Clients

LEMMA StoreReadingInv ==
  ASSUME Inv, NEW q \in Request, StoreReading(q)
  PROVE  Inv'
<1>1. /\ req[q].phase = "reading" /\ readings' = readings \cup {<<q, req[q].pos>>}
      /\ UNCHANGED <<table, devices, client, silent, used>>
    BY DEF StoreReading, At
<1>2. Ingests(q)
    BY <1>1, InPhase DEF Inv, Ingests
<1>3. /\ Ingesting(q)'
      /\ \E n : Becomes(q, n) /\ GoesTo(req[q], n) /\ n.phase = "publish" /\ n.pos = req[q].pos
    BY <1>2, IngestingStores DEF Inv, Ingestions
<1>4. PICK n : /\ Becomes(q, n) /\ GoesTo(req[q], n) /\ n.phase = "publish"
               /\ n.pos = req[q].pos
    BY <1>3
<1>5. Grows /\ DevicesGrow(q) /\ StillRead(q, n)
    BY <1>1 DEF Grows, DevicesGrow, StillRead, Holds
<1>6. Holds(q)'
    BY <1>2, <1>4, BecomesIs DEF Holds, Ingests, GoesTo, Inv
<1> QED
    BY <1>1, <1>2, <1>3, <1>4, <1>5, <1>6, IngestionGoes DEF Inv, TypeOK, Clients

LEMMA UpsertInv ==
  ASSUME Inv, NEW q \in Request, UpsertDevice(q)
  PROVE  Inv'
<1> DEFINE d == req[q].op.items[req[q].pos]
<1>1. /\ req[q].phase = "upsert" /\ UNCHANGED <<table, readings, client, silent, used>>
    BY DEF UpsertDevice, At
<1>2. Ingests(q) /\ Ingesting(q)
    BY <1>1, InPhase DEF Inv, Ingests, Ingestions
<1>3. Grows /\ \A n : StillRead(q, n)
    BY <1>1 DEF Grows, StillRead, Holds
<1>4. CASE ~req[q].found /\ devices[d] # None
  <2>1. NextItem(q, FALSE) /\ devices' = devices
      BY <1>4 DEF UpsertDevice, Item, Op
  <2>2. <<q, req[q].pos>> \notin readings /\ devices[d].first # q
      BY <1>1, <1>2, <1>4 DEF Ingesting
  <2>3. /\ Ingesting(q)'
        /\ \E n : Becomes(q, n) /\ GoesTo(req[q], n) /\ n.old = req[q].old
      BY <1>1, <1>2, <1>4, <2>1, <2>2, IngestingNext DEF Inv
  <2>4. PICK n : Becomes(q, n) /\ GoesTo(req[q], n)
      BY <2>3
  <2>5. DevicesGrow(q)
      BY <2>1 DEF DevicesGrow
  <2> QED
      BY <1>1, <1>2, <1>3, <2>1, <2>3, <2>4, <2>5, IngestionGoes DEF Inv, TypeOK, Clients
<1>5. CASE req[q].found \/ devices[d] = None
  <2>1. /\ Ingesting(q)' /\ DevicesGrow(q)
        /\ devices' \in [Device -> DeviceRow \cup {None}]
        /\ \E n : Becomes(q, n) /\ GoesTo(req[q], n) /\ n.phase = "reading"
      BY <1>2, <1>5, IngestingUpserts DEF Inv
  <2>2. PICK n : Becomes(q, n) /\ GoesTo(req[q], n)
      BY <2>1
  <2> QED
      BY <1>1, <1>2, <1>3, <2>1, <2>2, IngestionGoes DEF Inv, TypeOK, Clients
<1> QED
    BY <1>4, <1>5

LEMMA PublishReadingInv ==
  ASSUME Inv, NEW q \in Request, PublishReading(q)
  PROVE  Inv'
<1> DEFINE i == <<q, req[q].pos>>
<1>1. /\ req[q].phase = "publish" /\ req[q].op.does = "ingest"
      /\ Delivered("telemetry", i) /\ NextItem(q, TRUE)
      /\ UNCHANGED <<table, devices, readings, silent, used>>
    BY DEF PublishReading, At, Op, database
<1>2. Ingests(q) /\ Ingesting(q) /\ i \in Request \X Nat
  <2>1. req[q].op # None /\ req[q] \in Session
      BY <1>1, InPhase DEF Inv
  <2> QED
      BY <1>1, <2>1, SessionIs DEF Inv, Ingests, Ingestions
<1>3. /\ client' \in Clients /\ client'.phase = client.phase
      /\ client'.channel = client.channel /\ client.seen \subseteq client'.seen
      /\ client.phase = "live" /\ client.channel = "telemetry" => i \in client'.seen
  <2> HIDE DEF i
  <2> QED
      BY <1>1, <1>2, DeliveredIs DEF Inv
<1>4. /\ Ingesting(q)'
      /\ \E n : Becomes(q, n) /\ GoesTo(req[q], n) /\ n.old = req[q].old
    BY <1>1, <1>2, IngestingNext DEF Inv
<1>5. PICK n : Becomes(q, n) /\ GoesTo(req[q], n)
    BY <1>4
<1>6. Grows /\ DevicesGrow(q) /\ StillRead(q, n)
    BY <1>1, <1>3 DEF Grows, DevicesGrow, StillRead
<1> QED
    BY <1>1, <1>2, <1>3, <1>4, <1>5, <1>6, IngestionGoes DEF Inv, TypeOK

LEMMA FailsInv ==
  ASSUME Inv, NEW q \in Request, Fails(q)
  PROVE  Inv'
<1> DEFINE s == req[q]
<1>1. /\ s.phase \in {"load", "commit", "refresh", "select", "upsert", "reading", "publish"}
      /\ used' = used + 1 /\ UNCHANGED <<table, devices, readings, client>>
    BY DEF Fails, database
<1>2. s.op # None /\ Placed(q)
    BY <1>1, InPhase DEF Inv
<1>3. used' \in Nat /\ used' # 0
    BY <1>1 DEF Inv, TypeOK
<1>4. /\ s.op.does = "ingest" /\ s.phase = "publish" => silent' = silent \cup {<<q, s.pos>>}
      /\ s.op.does # "ingest" /\ s.phase \in {"refresh", "publish"} =>
           silent' = silent \cup {s.row}
      /\ silent \subseteq silent'
  <2>1. silent' = CASE s.op.does = "ingest" /\ s.phase = "publish" ->
                         silent \cup {<<q, s.pos>>}
                    [] s.op.does # "ingest" /\ s.phase \in {"refresh", "publish"} ->
                         silent \cup {s.row}
                    [] OTHER -> silent
      BY DEF Fails, At, Op
  <2> DEFINE reading == s.op.does = "ingest" /\ s.phase = "publish"
             told == s.op.does # "ingest" /\ s.phase \in {"refresh", "publish"}
             A == silent \cup {<<q, s.pos>>}
             B == silent \cup {s.row}
  <2>2. silent' = CASE reading -> A [] told -> B [] OTHER -> silent
      BY <2>1
  <2>3. silent \subseteq A /\ silent \subseteq B
      OBVIOUS
  <2> HIDE DEF A, B
  <2>4. CASE reading
    <3>1. silent' = A
        BY <2>2, <2>4
    <3> QED
        BY <2>3, <2>4, <3>1 DEF A
  <2>5. CASE ~reading /\ told
    <3>1. silent' = B
        BY <2>2, <2>5
    <3> QED
        BY <2>3, <2>5, <3>1 DEF B
  <2>6. CASE ~reading /\ ~told
    <3>1. silent' = silent
        BY <2>2, <2>6
    <3> QED
        BY <2>6, <3>1
  <2> QED
      BY <2>4, <2>5, <2>6
<1>5. Grows
    BY <1>1, <1>4 DEF Grows
<1>6. CASE s.op.does = "ingest"
  <2>1. Ingests(q) /\ Ingesting(q) /\ NextItem(q, FALSE)
      BY <1>2, <1>6 DEF Ingests, Inv, Ingestions, Fails, Op
  <2>2. s.phase \in {"select", "upsert", "reading", "publish"}
      BY <1>1, <2>1, ItemsAre DEF Inv
  <2>3. /\ Ingesting(q)'
        /\ \E n : Becomes(q, n) /\ GoesTo(req[q], n) /\ n.old = req[q].old
      BY <1>1, <1>3, <2>1, <2>2, IngestingNext DEF Inv
  <2>4. PICK n : Becomes(q, n) /\ GoesTo(req[q], n)
      BY <2>3
  <2>5. DevicesGrow(q) /\ StillRead(q, n)
      BY <1>1, <1>4, <1>6 DEF DevicesGrow, StillRead, Holds
  <2> QED
      BY <1>1, <1>3, <1>5, <2>1, <2>3, <2>4, <2>5, IngestionGoes DEF Inv, TypeOK, Clients
<1>7. CASE s.op.does # "ingest"
  <2> DEFINE p == IF s.phase \in {"refresh", "publish"} THEN "unpublished" ELSE "failed"
  <2>1. Goes(q, p) /\ p \in Phase
      BY <1>7 DEF Fails, Op, Phase
  <2> HIDE DEF p
  <2>2. PICK n \in Session : Becomes(q, n) /\ n.phase = p /\ Like(n, s)
      BY <2>1, GoesIs DEF Inv
  <2>3. GoesTo(s, n)
      BY <1>1, <1>2, <1>7, <2>2 DEF GoesTo, Like, Placed, p
  <2>4. Quiet(q, n)
      BY <1>1, <1>2, <2>2 DEF Quiet, Like, InDatabase, p
  <2>5. StillTold(q, n)
      BY <1>4, <1>7 DEF StillTold, Telling
  <2> QED
      BY <1>1, <1>2, <1>3, <1>5, <1>7, <2>2, <2>3, <2>4, <2>5, ToolGoesOn
      DEF Inv, TypeOK, Clients
<1> QED
    BY <1>6, <1>7

LEMMA VersionsStay ==
  ASSUME Versions, UNCHANGED <<table, req>>
  PROVE  Versions'
<1> SUFFICES ASSUME NEW r \in Row, table[r] # None, table[r].kind = "dashboard"
             PROVE  Overlap(r)' \/ InTurn(r)'
    BY DEF Versions
<1>1. Committers(r)' = Committers(r)
    BY DEF Committers, Wrote, Committed, Op
<1>2. CASE Overlap(r)
    BY <1>1, <1>2 DEF Overlap
<1>3. CASE InTurn(r)
  <2>1. \A v \in Request : Updates(v, r, "dashboard")' <=> Updates(v, r, "dashboard")
      BY DEF Updates
  <2> QED
      BY <1>1, <1>3, <2>1 DEF InTurn
<1> QED
    BY <1>2, <1>3 DEF Versions

LEMMA ClientInv ==
  ASSUME Inv, Subscribe \/ Fetch \/ Disconnect
  PROVE  Inv'
<1>1. UNCHANGED <<table, devices, readings, req, silent>>
    BY DEF Subscribe, Fetch, Disconnect, database
<1>2. used' \in Nat /\ (used' = 0 => used = 0)
  <2>1. used' = used \/ used' = used + 1
      BY DEF Subscribe, Fetch, Disconnect
  <2> QED
      BY <2>1 DEF Inv, TypeOK
<1>3. Subscribed'
    BY <1>1, ClientTold DEF Inv
<1>4. /\ Sessions' /\ NotesCopied' /\ NotesKnown' /\ NotesLost' /\ Versions'
  <2>1. Sessions'
      BY <1>1 DEF Inv, Sessions, Placed, Born
  <2>2. NotesCopied' /\ NotesKnown' /\ NotesLost'
      BY <1>1 DEF Inv, NotesCopied, NotesKnown, NotesLost, Updates, Wrote, Committed, Op
  <2>3. Versions'
      BY <1>1, VersionsStay DEF Inv
  <2> QED
      BY <2>1, <2>2, <2>3
<1>5. Ingestions'
  <2>1. Ingestions /\ (used' = 0 => used = 0) /\ UNCHANGED <<devices, readings, req>>
      BY <1>1, <1>2 DEF Inv
  <2>2. \A q \in Request : Ingests(q)' <=> Ingests(q)
      BY ONLY <2>1 DEF Ingests
  <2>3. ASSUME NEW q \in Request, Ingesting(q) PROVE Ingesting(q)'
      BY ONLY <2>1, <2>3 DEF Ingesting
  <2>4. \A i \in readings : Ingests(i[1])'
      BY ONLY <2>1 DEF Ingestions, Ingests
  <2> QED
      BY ONLY <2>1, <2>2, <2>3, <2>4 DEF Ingestions
<1>6. client' \in Clients
  <2>1. client \in Clients
      BY DEF Inv, TypeOK, Clients
  <2>2. CASE Subscribe
    <3>1. PICK c \in Channel : client' = [phase |-> "subscribed", channel |-> c,
                 seen |-> IF c = client.channel THEN client.seen ELSE {}]
        BY <2>2 DEF Subscribe
    <3> DEFINE seen == IF c = client.channel THEN client.seen ELSE {}
    <3>2. seen \in SUBSET (Told \cup (Request \X Nat))
        BY <2>1 DEF Clients
    <3>3. client' = [phase |-> "subscribed", channel |-> c, seen |-> seen]
        BY <3>1
    <3> HIDE DEF seen
    <3> QED
        BY <3>2, <3>3 DEF Clients
  <2>3. CASE Disconnect
      BY <2>1, <2>3 DEF Disconnect, Clients
  <2>4. CASE Fetch
    <3> DEFINE seen == client.seen \cup Stored(client.channel)
    <3>1. /\ client' = [client EXCEPT !.phase = "live", !.seen = seen]
        BY <2>4 DEF Fetch
    <3>2. Stored(client.channel) \subseteq Told \cup (Request \X Nat)
      <4>1. \A kind \in Kind : StoredRows(kind) \subseteq Told
          BY MessageIs DEF StoredRows, Inv
      <4>2. readings \subseteq Request \X Nat
          BY DEF Inv, TypeOK
      <4> QED
          BY <4>1, <4>2 DEF Stored, StoredReadings, Kind
    <3>3. seen \in SUBSET (Told \cup (Request \X Nat))
        BY <2>1, <3>2 DEF Clients
    <3> HIDE DEF seen
    <3> QED
        BY <2>1, <3>1, <3>3 DEF Clients
  <2> QED
      BY <2>2, <2>3, <2>4
<1>7. TypeOK'
    BY <1>1, <1>2, <1>6 DEF Inv, TypeOK, Clients
<1> QED
    BY <1>3, <1>4, <1>5, <1>7 DEF Inv

LEMMA InitInv == Init => Inv
<1> SUFFICES ASSUME Init PROVE Inv
    OBVIOUS
<1> DEFINE known == {Incident0, Dashboard0}
<1>1. /\ table \in [Row -> Table \cup {None}]
      /\ table[Incident0] = NewRow("incident") /\ table[Dashboard0] = NewRow("dashboard")
      /\ \A q \in Request : table[q] = None
  <2> DEFINE new(r) == CASE r = Incident0 -> NewRow("incident")
                         [] r = Dashboard0 -> NewRow("dashboard")
                         [] OTHER -> None
  <2>1. table = [r \in Row |-> new(r)]
      BY DEF Init
  <2>2. NewRow("incident") \in Table /\ NewRow("dashboard") \in Table
      BY NewRowIs DEF Kind
  <2>3. new(Incident0) = NewRow("incident") /\ new(Dashboard0) = NewRow("dashboard")
        /\ \A q \in Request : new(q) = None
      BY Apart
  <2>4. \A r \in Row : new(r) \in Table \cup {None}
      BY <2>2
  <2> HIDE DEF new
  <2> QED
      BY <2>1, <2>3, <2>4, Apart
<1>2. /\ req \in [Request -> Session] /\ readings = {}
      /\ \A q \in Request : req[q].op = None /\ req[q].phase = "idle"
    BY IdleIs DEF Init
<1>3. client = [phase |-> "off", channel |-> "incidents", seen |-> {}]
    BY DEF Init
<1>4. TypeOK
    BY <1>1, <1>2, <1>3 DEF Init, TypeOK, Channel
<1>5. Sessions
    BY <1>1, <1>2 DEF Sessions, Placed, Born
<1>6. Ingestions
    BY <1>2 DEF Ingestions, Ingests
<1>7. Subscribed
    BY <1>3 DEF Subscribed
<1>8. ASSUME NEW r \in Row, table[r] # None
      PROVE  /\ table[r].kind = "incident" => table[r].cols.notes = {}
             /\ table[r].kind = "dashboard" => table[r].cols.version = 1
  <2>1. r \in {Incident0, Dashboard0}
      BY <1>1, <1>8 DEF Row
  <2> QED
      BY <1>1, <2>1, NewRowIs DEF Kind
<1>9. NotesCopied /\ NotesKnown /\ NotesLost
    BY <1>2, <1>8 DEF NotesCopied, NotesKnown, NotesLost, Updates
<1>10. Versions
  <2> SUFFICES ASSUME NEW r \in Row, table[r] # None, table[r].kind = "dashboard"
               PROVE  InTurn(r)
      BY DEF Versions
  <2>1. Committers(r) = {} /\ \A v \in Request : ~Updates(v, r, "dashboard")
      BY <1>2 DEF Committers, Wrote, Updates
  <2>2. Cardinality(Committers(r)) = 0 /\ 1..0 = {}
      BY <2>1, FS_EmptySet
  <2> QED
      BY <1>8, <2>1, <2>2 DEF InTurn
<1> QED
    BY <1>4, <1>5, <1>6, <1>7, <1>9, <1>10 DEF Inv

LEMMA NextInv == Inv /\ [Next]_vars => Inv'
<1> SUFFICES ASSUME Inv, [Next]_vars PROVE Inv'
    OBVIOUS
<1>1. ASSUME NEW q \in Request, Issue(q) PROVE Inv'
    BY <1>1, IssueInv
<1>2. ASSUME NEW q \in Request, Handle(q) PROVE Inv'
    BY <1>2, LoadInv, CommitUpdateInv, CommitCreateInv, CommitEvidenceInv, RefreshInv,
       PublishInv, SelectInv, UpsertInv, StoreReadingInv, PublishReadingInv
    DEF Handle
<1>3. ASSUME NEW q \in Request, Fails(q) PROVE Inv'
    BY <1>3, FailsInv
<1>4. CASE Subscribe \/ Fetch \/ Disconnect
    BY <1>4, ClientInv
<1>5. CASE UNCHANGED vars
  <2>1. UNCHANGED <<table, devices, readings, req, client, silent, used>>
      BY <1>5 DEF vars
  <2>2. TypeOK' /\ Sessions' /\ Ingestions'
    <3>1. TypeOK /\ Sessions /\ Ingestions
        BY DEF Inv
    <3>2. TypeOK'
        BY ONLY <2>1, <3>1 DEF TypeOK
    <3>3. Sessions'
        BY ONLY <2>1, <3>1 DEF Sessions, Placed, Born
    <3>4. \A q \in Request : Ingests(q)' <=> Ingests(q)
        BY ONLY <2>1 DEF Ingests
    <3>5. ASSUME NEW q \in Request, Ingesting(q) PROVE Ingesting(q)'
        BY ONLY <2>1, <3>5 DEF Ingesting
    <3>6. \A i \in readings : Ingests(i[1])'
        BY ONLY <2>1, <3>1 DEF Ingestions, Ingests
    <3> QED
        BY ONLY <2>1, <3>1, <3>2, <3>3, <3>4, <3>5, <3>6 DEF Ingestions
  <2>3. Subscribed'
      BY <2>1 DEF Inv, Subscribed, RowsTold, ReadingsTold, Telling, Message, Ingests
  <2>4. NotesCopied' /\ NotesKnown' /\ NotesLost'
      BY <2>1 DEF Inv, NotesCopied, NotesKnown, NotesLost, Updates, Wrote, Committed, Op
  <2>5. Versions'
      BY <2>1, VersionsStay DEF Inv
  <2> QED
      BY <2>2, <2>3, <2>4, <2>5 DEF Inv
<1> QED
    BY <1>1, <1>2, <1>3, <1>4, <1>5 DEF Next

LEMMA InvAlways == Spec => []Inv
BY InitInv, NextInv, PTL DEF Spec

-----------------------------------------------------------------------------
(* Updates lose notes and versions only where they overlap: a note of a     *)
(* committed update (update_incident) is there, or the note of another is,  *)
(* and neither update had read the note of the other; a dashboard has a     *)
(* version for each update, or two updates read the same one                *)
(* (update_dashboard).                                                      *)
THEOREM LossNeedsOverlap == Spec => []LostOnlyInOverlap
<1>1. Inv => LostOnlyInOverlap
  <2> SUFFICES ASSUME Inv, NEW q \in Request, NEW r \in Row, Committed(q, r)
               PROVE  IF table[r].kind = "incident"
                      THEN Op(q).note => \/ q \in table[r].cols.notes
                                         \/ \E v \in table[r].cols.notes :
                                              /\ q \notin req[v].old.notes
                                              /\ v \notin req[q].old.notes
                      ELSE \/ table[r].cols.version =
                                1 + Cardinality({v \in Request : Committed(v, r)})
                           \/ \E u, v \in Request :
                                /\ u # v /\ Committed(u, r) /\ Committed(v, r)
                                /\ req[u].old.version = req[v].old.version
      BY DEF LostOnlyInOverlap
  <2>1. ASSUME NEW v \in Request, Committed(v, r) PROVE Wrote(v, r)
      BY <2>1, InPhase DEF Inv, Wrote, Committed
  <2>2. Wrote(q, r)
      BY <2>1
  <2>3. /\ table[r] # None /\ table[r].kind = req[q].op.kind
        /\ req[q].op.does = "update" /\ req[q].row = r /\ req[q].op # None
      BY <2>2, WroteIs DEF Inv, Sessions, Placed
  <2>4. table[r].kind \in Kind
      BY <2>3, RowIs DEF Inv, TypeOK
  <2>5. CASE table[r].kind = "incident"
      BY <2>3, <2>5 DEF Inv, NotesLost, Updates
  <2>6. CASE table[r].kind = "dashboard"
    <3>1. Committers(r) = {v \in Request : Committed(v, r)}
        BY <2>1 DEF Committers, Wrote
    <3>2. Overlap(r) \/ InTurn(r)
        BY <2>3, <2>6 DEF Inv, Versions
    <3> QED
        BY <2>6, <3>1, <3>2 DEF Overlap, InTurn
  <2> QED
      BY <2>4, <2>5, <2>6 DEF Kind
<1> QED
    BY <1>1, InvAlways, PTL

(* A dashboard that subscribed to a Redis channel before it read the rows   *)
(* (streams.py) is told of every later change, or the change was committed  *)
(* by a request that failed before it could publish.                        *)
THEOREM SubscribersAreTold == Spec => []SubscriberMissesNothing
<1>1. Inv => SubscriberMissesNothing
  <2> SUFFICES ASSUME Inv, client.phase = "live",
                      \A q \in Request : req[q].phase \notin {"refresh", "publish"},
                      NEW m \in Stored(client.channel)
               PROVE  \/ m \in client.seen
                      \/ IF client.channel = "telemetry" THEN m \in silent
                         ELSE m.row \in silent
      BY DEF SubscriberMissesNothing
  <2>1. RowsTold /\ ReadingsTold /\ client.channel \in Channel
      BY DEF Inv, Subscribed, TypeOK
  <2>2. CASE client.channel = "telemetry"
      BY <2>1, <2>2 DEF Stored, StoredReadings, ReadingsTold
  <2>3. CASE client.channel # "telemetry"
    <3>1. PICK kind \in Kind : /\ client.channel = ChannelFor(kind)
                               /\ m \in StoredRows(kind)
        BY <2>1, <2>3 DEF Stored, ChannelFor, Kind, Channel
    <3>2. PICK r \in Row : table[r] # None /\ table[r].kind = kind /\ m = Message(r)
        BY <3>1 DEF StoredRows
    <3>3. m.row = r
        BY <3>2, MessageIs DEF Inv
    <3>4. \A q \in Request : ~Telling(q, r)
        BY DEF Telling
    <3> QED
        BY <2>1, <2>3, <3>1, <3>2, <3>3, <3>4 DEF RowsTold
  <2> QED
      BY <2>2, <2>3
<1> QED
    BY <1>1, InvAlways, PTL

(* What the ingestion writer answers is what it did: an item is stored      *)
(* unless the answer counts it as failed, and without a fault it fails only *)
(* because another request inserted its device first.                       *)
THEOREM AnswersTellWhatIsStored == Spec => []IngestAnswers
<1>1. Inv => IngestAnswers
  <2> SUFFICES ASSUME Inv, NEW q \in Request, req[q].op # None, Op(q).does = "ingest"
        PROVE
          /\ \A p \in 1..Len(Op(q).items) :
               /\ p < req[q].pos /\ p \notin req[q].bad => <<q, p>> \in readings
               /\ p \in req[q].bad /\ used = 0 =>
                    /\ <<q, p>> \notin readings
                    /\ devices[Op(q).items[p]].first # q
          /\ At(q, "done") /\ req[q].bad = {} =>
               {<<q, p>> : p \in 1..Len(Op(q).items)} \subseteq readings
          /\ Op(q).via = "http" => \A b \in req[q].bad, p \in 1..Len(Op(q).items) :
                                     p > b => <<q, p>> \notin readings
      BY DEF IngestAnswers
  <2> DEFINE s == req[q]
             len == Len(s.op.items)
  <2>1. Ingests(q) /\ Ingesting(q) /\ Op(q) = s.op
      BY DEF Inv, Ingests, Ingestions, Op
  <2>2. len \in Nat /\ s.pos \in 1..len
      BY <2>1, ItemsAre DEF Inv
  <2>3. \A p \in 1..len :
          /\ p < s.pos /\ p \notin s.bad => <<q, p>> \in readings
          /\ p \in s.bad /\ used = 0 =>
               /\ <<q, p>> \notin readings
               /\ devices[s.op.items[p]].first # q
      BY <2>1 DEF Ingesting
  <2>4. s.phase = "done" /\ s.bad = {} => \A p \in 1..len : <<q, p>> \in readings
    <3>1. s.phase = "done" /\ s.bad = {} => s.pos = len /\ <<q, s.pos>> \in readings
        BY <2>1 DEF Ingesting
    <3>2. \A p \in 1..len : p < len \/ p = len
        BY <2>2
    <3> QED
        BY <2>3, <3>1, <3>2
  <2>5. s.op.via = "http" => \A b \in s.bad, p \in 1..len : p > b => <<q, p>> \notin readings
    <3> SUFFICES ASSUME s.op.via = "http", NEW b \in s.bad, NEW p \in 1..len, p > b,
                        <<q, p>> \in readings
                 PROVE  FALSE
        OBVIOUS
    <3>1. b = s.pos /\ p <= s.pos
        BY <2>1 DEF Ingesting
    <3> QED
        BY <2>2, <3>1
  <2> QED
      BY <2>1, <2>3, <2>4, <2>5 DEF At
<1> QED
    BY <1>1, InvAlways, PTL
=============================================================================
