---------------------------- MODULE BridgeProofs ----------------------------
(***************************************************************************)
(* Bridge, for any script, devices and keys and any number of resets,      *)
(* lives and faults: what the state file may claim, how often an           *)
(* observation is stored, what the cache of devices says and that a reset  *)
(* is a barrier.                                                           *)
(***************************************************************************)
EXTENDS Bridge, FiniteSetTheorems, WellFoundedInduction, TLAPS

Following == {"connect", "backoff", "open", "play", "forward", "forwarded"}
Phase == {"off", "ensure", "creating", "done"} \cup Following

Items == {MapEvent(EventAt(i[1], i[2], i[3]), m) : i \in Id, m \in Cache}
State == [key : Key \cup {None}, run : Run \cup {None}, gen : Gen \cup {None},
          cursor : Cursor \cup {None}]
Connection == [gen : Gen \cup {None}, seq : Seq0, fresh : BOOLEAN]
Memory == [phase : Phase, mode : Modes, run : Run \cup {None}, state : State,
           play : BOOLEAN, meta : Cache, informed : BOOLEAN, conn : Connection,
           item : Items \cup {None}]
SmRun == [made : BOOLEAN, gen : Gen, count : Seq0, status : {"running", "paused"}]

TypeOK ==
  /\ sm \in [Run -> SmRun]
  /\ disk \in State
  /\ proc \in Memory
  /\ rows \in [Id -> Nat]
  /\ late \subseteq Items /\ IsFiniteSet(late) /\ \A t \in late : t.external_event_id \in Id
  /\ used \in [lives : 0..MaxLives, faults : Nat, late : Nat]

(* What a run has published, and the observation after the cursor.         *)
Published(i) == \/ i[2] < sm[i[1]].gen
                \/ i[2] = sm[i[1]].gen /\ i[3] <= sm[i[1]].count
NextId == <<proc.run, proc.conn.gen, proc.conn.seq + 1>>
Done(i) == Forwardable(Script[i[3]]) => rows[i] > 0 \/ i \in failed \cup jumped

(* The state file: its cursor is one of the run that is followed. *)
Followed == IF proc.mode = "shared" THEN Shared ELSE disk.run
FileRight ==
  disk.cursor # None =>
    LET c == disk.cursor
    IN /\ c.run = Followed /\ c.gen = disk.gen
       /\ \A g \in Gen, n \in Seq0 :
            (g < c.gen \/ (g = c.gen /\ n <= c.seq)) => Published(<<c.run, g, n>>)

(* The memory agrees with it, but for a new key. *)
MemoryRight ==
  /\ proc.phase \in {"ensure"} \cup Following => proc.state = disk
  /\ proc.phase = "creating" =>
       proc.mode = "local" /\ proc.state.key \in Key /\ disk.run = None
  /\ proc.phase \in {"ensure", "creating"} => proc.meta = NoMeta /\ ~proc.informed
  /\ proc.phase \in Following => proc.run = Followed /\ proc.run \in Run

(* The stream that is read continues at the cursor. *)
InHand == {"forward", "forwarded"}
Reading == \/ proc.phase \in {"play"} \cup InHand
           \/ InStream /\ ~proc.conn.fresh
StreamRight ==
  /\ Reading =>
       /\ disk.cursor = [run |-> proc.run, gen |-> proc.conn.gen, seq |-> proc.conn.seq]
       /\ ~proc.conn.fresh
  /\ InStream /\ proc.conn.fresh => disk.cursor = None
  /\ proc.phase \notin InHand => proc.item = None
  /\ proc.phase \in InHand =>
       /\ NextId \in Id /\ Published(NextId)
       /\ proc.item # None
       /\ \E m \in Cache : proc.item = MapEvent(EventAt(NextId[1], NextId[2], NextId[3]), m)
  /\ proc.phase = "forwarded" => Done(NextId)

(* A life makes at most one run. *)
Made == {k \in Key : sm[k].made}
KeysLeft ==
  /\ Cardinality(Made) <= used.lives
  /\ proc.phase = "ensure" => Cardinality(Made) < used.lives
  /\ proc.phase = "creating" => Cardinality(Made) < used.lives \/ sm[proc.state.key].made

(* How often an observation was sent; it is not sent twice in a life.      *)
LateOf(i) == {t \in late : t.external_event_id = i}
Spent(i) == rows[i] + Cardinality(LateOf(i))
Passed(i) ==
  LET c == disk.cursor
  IN /\ i[1] = proc.run
     /\ IF c = None THEN Published(i)
        ELSE \/ i[2] < c.gen
             \/ i[2] = c.gen /\ i[3] <= c.seq
             \/ proc.phase = "forwarded" /\ i = NextId
SentOnce ==
  \A i \in Id :
    /\ Spent(i) <= used.lives
    /\ proc.phase \in {"ensure", "creating"} => Spent(i) < used.lives
    /\ proc.phase \in Following /\ Spent(i) = used.lives => Passed(i)

Inv == /\ TypeOK /\ FileRight /\ MemoryRight /\ StreamRight /\ KeysLeft /\ SentOnce
       /\ AccountedFor /\ CacheInStep

-----------------------------------------------------------------------------
(* The mapper                                                              *)

LEMMA MeasuredIs ==
  ASSUME NEW o, NEW m
  PROVE  LET t == MapMeasurement(o, m)
         IN /\ t.external_event_id = o.id /\ t.device.type \in DeviceTypes
            /\ t.metric_type \in MetricTypes /\ t.availability = None
            /\ t.quality = o.data.quality
<1>1. /\ TypeOfMetric(o.data.metric) \in DeviceTypes
      /\ MetricType(o.data.metric) \in MetricTypes
    BY DEF TypeOfMetric, DeviceTypes, MetricType, MetricTypes
<1> QED
    BY <1>1 DEF MapMeasurement, Item, Envelope

LEMMA ConnectivityIs ==
  ASSUME NEW o, NEW m
  PROVE  LET t == MapConnectivity(o, m)
         IN /\ t.external_event_id = o.id /\ t.device.type \in DeviceTypes
            /\ t.metric_type \in MetricTypes /\ t.availability \in Availabilities
            /\ t.quality = None
<1>1. TypeOfKind(m[o.device].kind) \in DeviceTypes /\ "system" \in MetricTypes
    BY DEF TypeOfKind, DeviceTypes, MetricTypes
<1>2. (IF o.data.connected = "yes" THEN "fresh" ELSE "disconnected") \in Availabilities
    BY DEF Availabilities
<1> QED
    BY <1>1, <1>2 DEF MapConnectivity, Item, Envelope

(* Every item is named after its observation and keeps to the contract, but *)
(* for the quality, which is the observation's.                             *)
LEMMA MappedIs ==
  ASSUME NEW o, NEW m, o.kind \in ObservationKinds
  PROVE  LET t == MapObservation(o, m)
         IN /\ t.external_event_id = o.id /\ t.device.type \in DeviceTypes
            /\ t.metric_type \in MetricTypes
            /\ t.availability \in Availabilities \cup {None}
            /\ t.quality = IF o.kind \in {"measurement", "people_count"}
                           THEN o.data.quality ELSE None
<1>1. CASE o.kind = "measurement"
    BY <1>1, MeasuredIs DEF MapObservation
<1>2. CASE o.kind = "camera"
    BY <1>2 DEF MapObservation, MapCamera, Item, Envelope, DeviceTypes, MetricTypes
<1>3. CASE o.kind = "access"
    BY <1>3 DEF MapObservation, MapAccess, Item, Envelope, DeviceTypes, MetricTypes
<1>4. CASE o.kind = "radio_transcript"
  <2>1. "radio" \in DeviceTypes /\ "radio_audio" \in MetricTypes
      BY DEF DeviceTypes, MetricTypes
  <2> QED
      BY <1>4, <2>1 DEF MapObservation, MapRadioTranscript, Item, Envelope
<1>5. CASE o.kind = "people_count"
  <2>1. "other" \in DeviceTypes /\ "occupancy" \in MetricTypes
      BY DEF DeviceTypes, MetricTypes
  <2> QED
      BY <1>5, <2>1 DEF MapObservation, MapPeopleCount, Item, Envelope
<1>6. CASE o.kind = "connectivity"
    BY <1>6, ConnectivityIs DEF MapObservation
<1> QED
    BY <1>1, <1>2, <1>3, <1>4, <1>5, <1>6 DEF ObservationKinds

LEMMA UnmappedIs ==
  ASSUME NEW o, NEW m, o.kind \notin ObservationKinds
  PROVE  MapObservation(o, m) = None
BY DEF MapObservation, ObservationKinds

LEMMA EventIs ==
  ASSUME NEW r, NEW g, NEW n \in 1..Len(Script)
  PROVE  LET e == EventAt(r, g, n)
         IN /\ e.kind = Script[n].kind
            /\ n \in Observations =>
                 /\ e.data.id = <<r, g, n>> /\ e.data.kind = Script[n].data.kind
                 /\ e.data.data = Script[n].data.data
            /\ n \notin Observations => e = Script[n]
<1>1. CASE n \in Observations
  <2> DEFINE s == Script[n] o == s.data i == <<r, g, n>>
  <2>1. {"kind", "data"} \subseteq DOMAIN s /\ {"id", "kind", "data"} \subseteq DOMAIN o
      BY <1>1, BridgeAssumption
  <2>2. EventAt(r, g, n) = [s EXCEPT !.data = [o EXCEPT !.id = i]]
      BY <1>1 DEF EventAt
  <2> HIDE DEF i
  <2>3. [o EXCEPT !.id = i].id = i /\ [o EXCEPT !.id = i].kind = o.kind
        /\ [o EXCEPT !.id = i].data = o.data
      BY <2>1
  <2> DEFINE p == [o EXCEPT !.id = i]
  <2> HIDE DEF o, p
  <2>4. [s EXCEPT !.data = p].kind = s.kind /\ [s EXCEPT !.data = p].data = p
      BY <2>1
  <2> QED
      BY <1>1, <2>2, <2>3, <2>4 DEF i, o, p
<1>2. CASE n \notin Observations
    BY <1>2 DEF EventAt
<1> QED
    BY <1>1, <1>2

(* What the mapper makes of an event of the script.                        *)
LEMMA ItemIs ==
  ASSUME NEW i \in Id, NEW m \in Cache
  PROVE  LET t == MapEvent(EventAt(i[1], i[2], i[3]), m)
         IN /\ t = None => ~Forwardable(Script[i[3]])
            /\ t # None => /\ t.external_event_id = i /\ i[3] \in Observations
                           /\ Forwardable(Script[i[3]]) => Accepts(t)
<1> DEFINE n == i[3] e == EventAt(i[1], i[2], n) s == Script[n]
<1>1. n \in 1..Len(Script) /\ i = <<i[1], i[2], n>>
    BY DEF Id
<1>2. e.kind = s.kind /\ (n \in Observations <=> s.kind = "observation.created")
    BY <1>1, EventIs DEF Observations
<1> HIDE DEF n, e, s
<1>3. CASE s.kind # "observation.created"
    BY <1>2, <1>3 DEF MapEvent, Forwardable, n, e, s
<1>4. CASE s.kind = "observation.created"
  <2>1. e.data.id = i /\ e.data.kind = s.data.kind /\ e.data.data = s.data.data
      BY <1>1, <1>2, <1>4, EventIs DEF n, e, s
  <2>2. MapEvent(e, m) = MapObservation(e.data, m)
        /\ MapEvent(s, Registry) = MapObservation(s.data, Registry)
      BY <1>2, <1>4 DEF MapEvent
  <2>3. CASE s.data.kind \notin ObservationKinds
      BY <2>1, <2>2, <2>3, UnmappedIs DEF Forwardable, n, e, s
  <2>4. CASE s.data.kind \in ObservationKinds
    <3>1. MapEvent(e, m) # None
        BY <1>2, <1>4, <2>4, BridgeAssumption DEF n, e, s
    <3> DEFINE t == MapEvent(e, m) u == MapEvent(s, Registry)
    <3>2. /\ t.external_event_id = i /\ t.device.type \in DeviceTypes
          /\ t.metric_type \in MetricTypes /\ t.availability \in Availabilities \cup {None}
          /\ t.quality = u.quality
        BY <2>1, <2>2, <2>4, MappedIs
    <3> QED
        BY <1>2, <1>4, <3>1, <3>2 DEF Forwardable, Accepts, n, e, s
  <2> QED
      BY <2>3, <2>4
<1> QED
    BY <1>3, <1>4

-----------------------------------------------------------------------------
(* Steps that leave the file and the platform alone                        *)

LEMMA MemoryIs ==
  ASSUME NEW p \in Memory
  PROVE  /\ p.phase \in Phase /\ p.mode \in Modes /\ p.run \in Run \cup {None}
         /\ p.state \in State /\ p.play \in BOOLEAN /\ p.meta \in Cache
         /\ p.informed \in BOOLEAN /\ p.conn \in Connection /\ p.item \in Items \cup {None}
         /\ p.conn.gen \in Gen \cup {None} /\ p.conn.seq \in Seq0 /\ p.conn.fresh \in BOOLEAN
BY DEF Memory, Connection

LEMMA CursorIs ==
  ASSUME NEW s \in State, s.cursor # None
  PROVE  /\ s.cursor \in Cursor /\ s.cursor.run \in Run /\ s.cursor.gen \in Gen
         /\ s.cursor.seq \in Seq0
BY DEF State, Cursor

(* The state machine only goes on. *)
SmGrows ==
  /\ sm' \in [Run -> SmRun]
  /\ \A r \in Run : \/ sm[r].gen < sm'[r].gen
                    \/ sm[r].gen = sm'[r].gen /\ sm[r].count <= sm'[r].count

LEMMA PublishedStays ==
  ASSUME TypeOK, SmGrows, NEW i, i[1] \in Run, i[2] \in Gen, i[3] \in Nat, Published(i)
  PROVE  Published(i)'
<1>1. /\ sm[i[1]].gen \in Int /\ sm[i[1]].count \in Int
      /\ sm'[i[1]].gen \in Int /\ sm'[i[1]].count \in Int
      /\ i[2] \in Int /\ i[3] \in Int
    BY SMTT(20), BridgeAssumption DEF TypeOK, SmGrows, SmRun, Gen, Seq0
<1>2. \/ sm[i[1]].gen < sm'[i[1]].gen
      \/ sm[i[1]].gen = sm'[i[1]].gen /\ sm[i[1]].count <= sm'[i[1]].count
    BY DEF SmGrows
<1> QED
    BY <1>1, <1>2 DEF Published

LEMMA FileStays ==
  ASSUME TypeOK, SmGrows, FileRight, disk' = disk, proc'.mode = proc.mode
  PROVE  FileRight'
<1> SUFFICES ASSUME disk.cursor # None PROVE FileRight'
    BY DEF FileRight
<1> DEFINE c == disk.cursor
<1>1. c.run \in Run /\ c.run = Followed /\ c.gen = disk.gen /\ Followed' = Followed
    BY CursorIs DEF FileRight, TypeOK, Followed
<1>2. ASSUME NEW g \in Gen, NEW n \in Seq0, g < c.gen \/ (g = c.gen /\ n <= c.seq)
      PROVE  Published(<<c.run, g, n>>)'
  <2>1. Published(<<c.run, g, n>>)
      BY <1>2 DEF FileRight
  <2>2. n \in Nat
      BY BridgeAssumption DEF Seq0
  <2> QED
      BY <1>1, <2>1, <2>2, PublishedStays
<1> QED
    BY <1>1, <1>2 DEF FileRight

LEMMA SpentSame ==
  ASSUME rows' = rows, late' = late
  PROVE  \A i \in Id : Spent(i)' = Spent(i)
BY DEF Spent, LateOf

LEMMA IdIs ==
  ASSUME NEW i \in Id
  PROVE  /\ i[1] \in Run /\ i[2] \in Gen /\ i[3] \in 1..Len(Script)
         /\ i[2] \in Int /\ i[3] \in Nat /\ i[3] \in Seq0
         /\ i = <<i[1], i[2], i[3]>>
BY BridgeAssumption DEF Id, Gen, Seq0

PlatformSame == UNCHANGED <<rows, late, failed, jumped>>
LivesSame == used' \in [lives : 0..MaxLives, faults : Nat, late : Nat]
             /\ used'.lives = used.lives
MadeSame == \A k \in Key : sm'[k].made = sm[k].made

(* The process does nothing, ends, or goes on with its stream.             *)
GoesQuietly ==
  /\ proc' \in Memory
  /\ proc'.mode = proc.mode /\ proc'.run = proc.run /\ proc'.state = proc.state
  /\ proc'.meta = proc.meta /\ proc'.informed = proc.informed /\ proc'.item = proc.item
  /\ \/ proc'.phase = proc.phase /\ proc'.conn = proc.conn
     \/ proc'.phase = "done" /\ proc.phase \notin InHand
     \/ /\ proc.phase \in Following \ InHand /\ proc'.phase \in Following \ InHand
        /\ Reading' => /\ disk.cursor = [run |-> proc.run, gen |-> proc'.conn.gen,
                                         seq |-> proc'.conn.seq]
                       /\ ~proc'.conn.fresh
        /\ InStream' /\ proc'.conn.fresh => disk.cursor = None

LEMMA KeysStay ==
  ASSUME Inv, MadeSame, LivesSame, GoesQuietly
  PROVE  KeysLeft'
<1>1. Made' = Made
    BY DEF Made, MadeSame
<1>2. proc'.phase \in {"ensure", "creating"} => proc'.phase = proc.phase
    BY DEF GoesQuietly, Following
<1>3. proc.phase = "creating" => sm'[proc'.state.key].made = sm[proc.state.key].made
    BY DEF Inv, MemoryRight, GoesQuietly, MadeSame
<1> QED
    BY <1>1, <1>2, <1>3 DEF Inv, KeysLeft, LivesSame

LEMMA Quietly ==
  ASSUME Inv, SmGrows, KeysLeft', PlatformSame, LivesSame, GoesQuietly, disk' = disk
  PROVE  Inv'
<1>1. TypeOK'
    BY DEF Inv, TypeOK, SmGrows, PlatformSame, LivesSame, GoesQuietly
<1>2. FileRight'
    BY FileStays DEF Inv, GoesQuietly
<1>3. Followed' = Followed
    BY DEF Followed, GoesQuietly
<1>4. MemoryRight'
    BY <1>3 DEF Inv, MemoryRight, GoesQuietly, Following, InHand
<1>5. StreamRight'
  <2>1. CASE proc'.phase = proc.phase /\ proc'.conn = proc.conn
    <3>1. NextId' = NextId /\ (Reading' <=> Reading) /\ (InStream' <=> InStream)
        BY <2>1 DEF NextId, Reading, InStream, GoesQuietly
    <3>2. NextId \in Id /\ Published(NextId) => Published(NextId)'
        BY <3>1, IdIs, PublishedStays DEF Inv
    <3>3. Done(NextId)' <=> Done(NextId)
        BY <3>1 DEF Done, PlatformSame
    <3> QED
        BY <2>1, <3>1, <3>2, <3>3 DEF Inv, StreamRight, GoesQuietly
  <2>2. CASE proc'.phase = "done" /\ proc.phase \notin InHand
      BY <2>2 DEF Inv, StreamRight, GoesQuietly, Reading, InStream, InHand
  <2>3. CASE proc.phase \in Following \ InHand /\ proc'.phase \in Following \ InHand
    <3>1. proc'.phase # "forwarded" /\ proc'.item = None
        BY <2>3 DEF Inv, StreamRight, GoesQuietly, InHand
    <3>2. CASE proc'.phase = proc.phase /\ proc'.conn = proc.conn
        BY <3>2, <2>1
    <3>3. CASE ~(proc'.phase = proc.phase /\ proc'.conn = proc.conn)
        BY <2>3, <3>1, <3>3 DEF StreamRight, GoesQuietly, Following
    <3> QED
        BY <3>2, <3>3
  <2> QED
      BY <2>1, <2>2, <2>3 DEF GoesQuietly
<1>6. SentOnce'
  <2> SUFFICES ASSUME NEW i \in Id
               PROVE  /\ Spent(i)' <= used'.lives
                      /\ proc'.phase \in {"ensure", "creating"} => Spent(i)' < used'.lives
                      /\ proc'.phase \in Following /\ Spent(i)' = used'.lives => Passed(i)'
      BY DEF SentOnce
  <2>1. Spent(i)' = Spent(i) /\ used'.lives = used.lives
      BY SpentSame DEF PlatformSame, LivesSame
  <2>2. proc'.phase \in {"ensure", "creating"} => proc'.phase = proc.phase
      BY DEF GoesQuietly, Following
  <2>3. proc'.phase \in Following => proc.phase \in Following
      BY DEF GoesQuietly, Following
  <2>4. proc'.phase \in Following /\ Passed(i) => Passed(i)'
    <3>1. proc.phase = "forwarded" /\ proc'.phase \in Following =>
            proc'.phase = "forwarded" /\ NextId' = NextId
        BY DEF GoesQuietly, NextId, Following, InHand
    <3>2. Published(i) => Published(i)'
        BY IdIs, PublishedStays DEF Inv
    <3> QED
        BY <3>1, <3>2 DEF Passed, GoesQuietly
  <2> QED
      BY <2>1, <2>2, <2>3, <2>4 DEF Inv, SentOnce
<1>7. AccountedFor'
    BY DEF Inv, AccountedFor, PlatformSame
<1>8. CacheInStep'
    BY DEF Inv, CacheInStep, GoesQuietly, Following
<1> QED
    BY <1>1, <1>2, <1>4, <1>5, <1>6, <1>7, <1>8 DEF Inv

-----------------------------------------------------------------------------
(* Steps that move the cursor                                              *)

LEMMA SentOnceStays ==
  ASSUME TypeOK, SentOnce, rows' = rows, late' = late, LivesSame,
         proc'.phase \in {"ensure", "creating"} => proc.phase \in {"ensure", "creating"},
         proc'.phase \in Following => proc.phase \in Following,
         \A i \in Id : proc'.phase \in Following /\ Passed(i) => Passed(i)'
  PROVE  SentOnce'
<1>1. \A i \in Id : Spent(i)' = Spent(i) /\ used'.lives = used.lives
    BY SpentSame DEF LivesSame
<1> QED
    BY <1>1 DEF SentOnce

(* What lies before a cursor of the followed run has been published.       *)
LEMMA PassedIsPublished ==
  ASSUME TypeOK, FileRight, StreamRight, NEW i \in Id, proc.phase \in Following,
         MemoryRight, Passed(i)
  PROVE  i[1] = proc.run /\ Published(i)
<1>1. CASE disk.cursor = None
    BY <1>1 DEF Passed
<1>2. CASE disk.cursor # None /\ ~(proc.phase = "forwarded" /\ i = NextId)
  <2>1. i[1] = proc.run /\ proc.run = disk.cursor.run
      BY <1>2 DEF Passed, FileRight, MemoryRight
  <2>2. i[2] < disk.cursor.gen \/ (i[2] = disk.cursor.gen /\ i[3] <= disk.cursor.seq)
      BY <1>2 DEF Passed
  <2>3. Published(<<disk.cursor.run, i[2], i[3]>>)
      BY <1>2, <2>2, IdIs DEF FileRight
  <2> QED
      BY <2>1, <2>3, IdIs
<1>3. CASE proc.phase = "forwarded" /\ i = NextId
    BY <1>3 DEF StreamRight, InHand, NextId
<1> QED
    BY <1>1, <1>2, <1>3

(* The cursor is given up, to begin anew with a snapshot.                  *)
DropsCursor ==
  /\ proc' \in Memory /\ disk' \in State
  /\ proc.phase \in Following \ InHand /\ proc'.phase = "connect"
  /\ proc'.mode = proc.mode /\ proc'.run = proc.run /\ proc'.state = disk'
  /\ proc'.item = proc.item
  /\ disk'.cursor = None /\ disk'.run = disk.run

LEMMA Drops ==
  ASSUME Inv, sm' = sm, PlatformSame, LivesSame, DropsCursor
  PROVE  Inv'
<1>1. TypeOK'
    BY DEF Inv, TypeOK, PlatformSame, LivesSame, DropsCursor
<1>2. FileRight' /\ AccountedFor' /\ CacheInStep'
    BY DEF FileRight, AccountedFor, CacheInStep, DropsCursor
<1>3. Followed' = Followed
    BY DEF Followed, DropsCursor
<1>4. MemoryRight'
    BY <1>3 DEF Inv, MemoryRight, DropsCursor, Following
<1>5. StreamRight'
    BY DEF Inv, StreamRight, DropsCursor, Reading, InStream, InHand
<1>6. KeysLeft'
    BY DEF Inv, KeysLeft, DropsCursor, Made, LivesSame
<1>7. SentOnce'
  <2>1. ASSUME NEW i \in Id, Passed(i) PROVE Passed(i)'
    <3>1. i[1] = proc.run /\ Published(i)
        BY <2>1, PassedIsPublished DEF Inv, DropsCursor
    <3> QED
        BY <3>1 DEF Passed, Published, DropsCursor
  <2> QED
      BY <2>1, SentOnceStays DEF Inv, DropsCursor, PlatformSame, Following
<1> QED
    BY <1>1, <1>2, <1>4, <1>5, <1>6, <1>7 DEF Inv

(* What the next event says of a device, both the cache and the state      *)
(* machine have it from there, and otherwise they have it as it was.       *)
InStep(r, g, n, d, m) ==
  LET k == n + 1
      after == MetaAfter(EventAt(r, g, k), m)
  IN \/ after[d] = StateAt(k)[d]
     \/ after[d] = m[d] /\ StateAt(k)[d] = StateAt(n)[d]

LEMMA StateAfter ==
  ASSUME NEW n \in Nat, n + 1 \in 1..Len(Script), NEW d \in Device, NEW m \in Cache,
         NEW r, NEW g
  PROVE  MetaAfter(EventAt(r, g, n + 1), m) \in Cache /\ InStep(r, g, n, d, m)
<1> DEFINE k == n + 1 s == Script[k] U == UpdatesOf(d, k) V == UpdatesOf(d, n)
<1>1. k \in 1..Len(Script) /\ Len(Script) \in Nat /\ Updates \subseteq Nat
      /\ EventAt(r, g, k).kind = s.kind
      /\ (k \notin Observations => EventAt(r, g, k) = s)
    BY BridgeAssumption, EventIs DEF Updates
<1>2. U = IF k \in Updates /\ s.data.device = d THEN V \cup {k} ELSE V
  <2>1. \A j \in Updates : j <= k <=> j <= n \/ j = k
      BY <1>1
  <2> QED
      BY <2>1 DEF UpdatesOf
<1>3. CASE k \in Updates
  <2>1. s.kind = "device.updated" /\ k \notin Observations
      BY <1>3 DEF Updates, Observations
  <2>2. MetaAfter(EventAt(r, g, k), m) = IF s.data.device = None THEN m
                                         ELSE [m EXCEPT ![s.data.device] = s.data.state]
      BY <1>1, <2>1 DEF MetaAfter, ApplyDeviceState
  <2>3. s.data.state \in DeviceStates /\ d # None
      BY <1>3, BridgeAssumption DEF DeviceStates
  <2>4. MetaAfter(EventAt(r, g, k), m) \in Cache
      BY <2>2, <2>3 DEF Cache
  <2>5. CASE s.data.device = d
    <3>1. MetaAfter(EventAt(r, g, k), m)[d] = s.data.state
        BY <2>2, <2>3, <2>5 DEF Cache
    <3>2. U = V \cup {k} /\ V \subseteq Nat /\ \A j \in V : j <= k
        BY <1>1, <1>2, <1>3, <2>5 DEF UpdatesOf
    <3> HIDE DEF U, V
    <3>3. k \in U /\ \A l \in U : l <= k
        BY <1>1, <3>2
    <3>4. Max(U) \in U /\ \A l \in U : Max(U) >= l
        BY <3>3 DEF Max
    <3>5. Max(U) = k
      <4>1. k \in Nat
          BY <1>1
      <4> HIDE DEF k
      <4>2. Max(U) \in V \cup {k} /\ Max(U) >= k
          BY <3>2, <3>3, <3>4
      <4>3. Max(U) \in Nat /\ Max(U) <= k
          BY <3>2, <4>1, <4>2
      <4> QED
          BY <4>1, <4>2, <4>3
    <3>6. StateAt(k)[d] = Script[Max(U)].data.state
        BY <3>3 DEF StateAt, U
    <3> QED
        BY <2>4, <2>5, <3>1, <3>5, <3>6 DEF InStep
  <2>6. CASE s.data.device # d
    <3>1. MetaAfter(EventAt(r, g, k), m)[d] = m[d]
        BY <2>2, <2>6 DEF Cache
    <3>2. StateAt(k)[d] = StateAt(n)[d]
        BY <1>2, <2>6 DEF StateAt
    <3> QED
        BY <2>4, <3>1, <3>2 DEF InStep
  <2> QED
      BY <2>5, <2>6
<1>4. CASE k \notin Updates
  <2>1. EventAt(r, g, k).kind # "device.updated"
      BY <1>1, <1>4 DEF Updates
  <2>2. MetaAfter(EventAt(r, g, k), m) = m
      BY <2>1 DEF MetaAfter
  <2>3. StateAt(k)[d] = StateAt(n)[d]
      BY <1>2, <1>4 DEF StateAt
  <2> QED
      BY <2>2, <2>3 DEF InStep
<1> QED
    BY <1>3, <1>4

LEMMA GreatestIs ==
  ASSUME NEW U \in SUBSET (1..Len(Script)), U # {}
  PROVE  Max(U) \in U
<1> DEFINE L == Len(Script) T == {L - y : y \in U}
<1>1. L \in Nat
    BY BridgeAssumption
<1> HIDE DEF L
<1>2. T \subseteq Nat /\ T # {}
  <2>1. \A y \in U : y \in 1..L
      BY DEF L
  <2>2. \A y \in U : L - y \in Nat
      BY <1>1, <2>1
  <2> QED
      BY <2>2
<1>3. PICK z \in T : \A y \in T : ~ (<<y, z>> \in OpToRel(<, Nat))
    BY <1>2, NatLessThanWellFounded, WFMin
<1>4. PICK x \in U : z = L - x
    BY <1>3
<1>5. \A y \in U : x >= y
  <2> SUFFICES ASSUME NEW y \in U PROVE x >= y
      OBVIOUS
  <2>1. L - y \in T /\ L - y \in Nat /\ z \in Nat
      BY <1>2, <1>3
  <2>2. ~(L - y < z)
      BY <1>3, <2>1 DEF OpToRel
  <2>3. x \in Int /\ y \in Int
      OBVIOUS
  <2> HIDE DEF T
  <2> QED
      BY <1>1, <1>4, <2>2, <2>3
<1> QED
    BY <1>5 DEF Max

LEMMA StateIs ==
  ASSUME NEW n
  PROVE  StateAt(n) \in Cache
<1> SUFFICES ASSUME NEW d \in Device
             PROVE  StateAt(n)[d] \in DeviceStates
    BY DEF StateAt, Cache
<1> DEFINE U == UpdatesOf(d, n)
<1>1. CASE U = {}
    BY <1>1 DEF StateAt, DeviceStates
<1>2. CASE U # {}
  <2>1. U \in SUBSET (1..Len(Script)) /\ U \subseteq Updates
      BY DEF UpdatesOf, Updates
  <2>2. Max(U) \in Updates
      BY <1>2, <2>1, GreatestIs
  <2> QED
      BY <1>2, <2>2 DEF StateAt, DeviceStates
<1> QED
    BY <1>1, <1>2

LEMMA NoMetaIs == NoMeta \in Cache /\ Unknown \in DeviceStates
BY DEF NoMeta, Cache, DeviceStates

LEMMA CursorSet ==
  ASSUME NEW r \in Run, NEW g \in Gen, NEW n \in Seq0
  PROVE  [run |-> r, gen |-> g, seq |-> n] \in Cursor /\ [run |-> r, gen |-> g, seq |-> n] # None
BY BridgeAssumption DEF Cursor

(* The followed run's cursor is where it is and all before is published.   *)
LEMMA FileSet ==
  ASSUME TypeOK, disk'.cursor # None, disk'.cursor.run \in Run,
         disk'.cursor.run = Followed', disk'.cursor.gen = disk'.gen,
         disk'.cursor.gen \in Gen, disk'.cursor.seq \in Seq0, sm' = sm,
         Published(<<disk'.cursor.run, disk'.cursor.gen, disk'.cursor.seq>>)
  PROVE  FileRight'
<1> DEFINE c == disk.cursor
<1>1. ASSUME NEW g \in Gen, NEW n \in Seq0, g < c'.gen \/ (g = c'.gen /\ n <= c'.seq)
      PROVE  Published(<<c.run, g, n>>)'
  <2> DEFINE w == sm[c'.run]
  <2>1. w.gen \in Int /\ w.count \in Int /\ w = sm'[c'.run]
      BY BridgeAssumption DEF TypeOK, SmRun, Gen, Seq0
  <2>2. g \in Int /\ n \in Int /\ c'.gen \in Int /\ c'.seq \in Int
      BY BridgeAssumption DEF Gen, Seq0
  <2>3. \/ c'.gen < w.gen
        \/ c'.gen = w.gen /\ c'.seq <= w.count
      BY DEF Published
  <2> HIDE DEF w
  <2>4. \/ g < w.gen
        \/ g = w.gen /\ n <= w.count
      BY <1>1, <2>1, <2>2, <2>3
  <2> QED
      BY <2>1, <2>4 DEF Published
<1> QED
    BY <1>1 DEF FileRight

(* One event further: it has been dealt with, and the cache knows of it.   *)
Advancing(n, s) ==
  /\ proc' \in Memory /\ disk' = s /\ proc'.state = s
  /\ s \in State /\ s.run = disk.run /\ s.gen = disk.gen
  /\ s.cursor = [run |-> proc.run, gen |-> proc.conn.gen, seq |-> n]
  /\ proc'.phase = "open" /\ proc'.mode = proc.mode /\ proc'.run = proc.run
  /\ proc'.informed = proc.informed /\ proc'.item = None
  /\ proc'.conn.gen = proc.conn.gen /\ proc'.conn.seq = n /\ proc'.conn.fresh = FALSE
  /\ proc'.meta = MetaAfter(NextEvent, proc.meta)

LEMMA Advances ==
  ASSUME Inv, sm' = sm, PlatformSame, LivesSame,
         Reading, proc.phase \in {"open", "forwarded"},
         NextId \in Id, Published(NextId), Done(NextId),
         NEW s, Advancing(proc.conn.seq + 1, s)
  PROVE  Inv'
<1> DEFINE n == proc.conn.seq + 1 c == s.cursor b == disk.cursor
<1>1. TypeOK'
    BY DEF Inv, TypeOK, PlatformSame, LivesSame, Advancing
<1>2. /\ b = [run |-> proc.run, gen |-> proc.conn.gen, seq |-> proc.conn.seq]
      /\ proc.run \in Run /\ proc.conn.gen \in Gen /\ proc.conn.seq \in Seq0
      /\ n \in 1..Len(Script) /\ n \in Seq0 /\ b # None /\ proc.run = Followed
      /\ proc.state = disk
  <2>1. /\ b = [run |-> proc.run, gen |-> proc.conn.gen, seq |-> proc.conn.seq]
        /\ proc.run \in Run /\ proc.run = Followed /\ proc.state = disk
      BY DEF Inv, StreamRight, MemoryRight, Following
  <2>2. proc.conn.gen \in Gen /\ n \in 1..Len(Script) /\ n \in Seq0
      BY IdIs DEF NextId
  <2>3. proc.conn.seq \in Seq0
      BY MemoryIs DEF Inv, TypeOK
  <2> QED
      BY <2>1, <2>2, <2>3, CursorSet
<1>3. /\ c # None /\ c.run = proc.run /\ c.gen = proc.conn.gen /\ c.seq = n
      /\ b.run = proc.run /\ b.gen = proc.conn.gen /\ b.seq = proc.conn.seq
    BY <1>2, CursorSet DEF Advancing
<1>4. FileRight'
  <2>1. Followed' = Followed /\ disk'.cursor = c /\ disk'.gen = disk.gen
      BY DEF Followed, Advancing
  <2>2. disk.gen = b.gen
      BY <1>2 DEF Inv, FileRight
  <2> QED
      BY <1>2, <1>3, <2>1, <2>2, FileSet DEF Inv, NextId
<1>5. MemoryRight'
  <2>1. Followed' = Followed
      BY DEF Followed, Advancing
  <2> QED
      BY <1>2, <2>1 DEF MemoryRight, Advancing, Following
<1>6. StreamRight'
    BY <1>2, <1>3 DEF StreamRight, Advancing, Reading, InStream, InHand
<1>7. KeysLeft'
    BY DEF Inv, KeysLeft, Advancing, Made, LivesSame
<1>8. SentOnce'
  <2>1. ASSUME NEW i \in Id, Passed(i) PROVE Passed(i)'
    <3>1. i[1] = proc.run
        BY <2>1 DEF Passed
    <3>2. CASE i[2] < b.gen \/ (i[2] = b.gen /\ i[3] <= b.seq)
      <4>1. i[3] \in Int /\ b.seq \in Int /\ c.seq = b.seq + 1 /\ c.gen = b.gen
          BY <1>2, <1>3, IdIs, BridgeAssumption DEF Seq0
      <4>2. i[2] < c.gen \/ (i[2] = c.gen /\ i[3] <= c.seq)
          BY <3>2, <4>1
      <4> QED
          BY <1>3, <3>1, <4>2 DEF Passed, Advancing
    <3>3. CASE i = NextId
      <4>1. i[2] = c.gen /\ i[3] = c.seq /\ i[3] <= c.seq
          BY <1>2, <1>3, <3>3, BridgeAssumption DEF NextId, Seq0
      <4> QED
          BY <1>3, <3>1, <4>1 DEF Passed, Advancing
    <3> QED
        BY <1>2, <2>1, <3>2, <3>3 DEF Passed
  <2> QED
      BY <2>1, SentOnceStays DEF Inv, Advancing, PlatformSame, Following
<1>9. AccountedFor'
  <2> SUFFICES ASSUME NEW k \in 1..n, Forwardable(Script[k])
               PROVE  LET i == <<proc.run, proc.conn.gen, k>>
                      IN rows[i] > 0 \/ i \in failed \cup jumped
      BY <1>3 DEF AccountedFor, PlatformSame, Advancing
  <2>1. CASE k = n
      BY <2>1 DEF Done, NextId
  <2>2. CASE k # n
    <3>1. k \in 1..b.seq
        BY <1>2, <1>3, <2>2, BridgeAssumption DEF Seq0
    <3> QED
        BY <1>2, <1>3, <3>1 DEF Inv, AccountedFor
  <2> QED
      BY <2>1, <2>2
<1>10. CacheInStep'
  <2> SUFFICES ASSUME NEW d \in Device
               PROVE  \/ proc'.meta[d] = StateAt(n)[d]
                      \/ ~proc.informed /\ proc'.meta[d] = Unknown
      BY <1>3 DEF CacheInStep, Advancing
  <2>1. \/ proc.meta[d] = StateAt(b.seq)[d]
        \/ ~proc.informed /\ proc.meta[d] = Unknown
      BY <1>2 DEF Inv, CacheInStep
  <2>2. proc.conn.seq \in Nat /\ b.seq = proc.conn.seq /\ proc.meta \in Cache
      BY <1>2, <1>3, MemoryIs, BridgeAssumption DEF Seq0, Inv, TypeOK
  <2>3. proc'.meta = MetaAfter(EventAt(proc.run, proc.conn.gen, n), proc.meta)
      BY DEF Advancing, NextEvent
  <2>4. \/ proc'.meta[d] = StateAt(n)[d]
        \/ proc'.meta[d] = proc.meta[d] /\ StateAt(n)[d] = StateAt(b.seq)[d]
    <3>1. InStep(proc.run, proc.conn.gen, proc.conn.seq, d, proc.meta)
        BY <1>2, <2>2, StateAfter
    <3> QED
        BY <2>2, <2>3, <3>1 DEF InStep
  <2> QED
      BY <2>1, <2>4
<1> QED
    BY <1>1, <1>4, <1>5, <1>6, <1>7, <1>8, <1>9, <1>10 DEF Inv

-----------------------------------------------------------------------------
(* The steps of the state machine and of a stream that is opened or lost   *)

LEMMA SmIs ==
  ASSUME TypeOK, NEW r \in Run
  PROVE  /\ sm[r] \in SmRun /\ sm[r].made \in BOOLEAN /\ sm[r].gen \in Gen
         /\ sm[r].count \in Seq0 /\ sm[r].gen \in Int /\ sm[r].count \in Int
         /\ sm[r].status \in {"running", "paused"}
BY BridgeAssumption DEF TypeOK, SmRun, Gen, Seq0

LEMMA SmSame ==
  ASSUME TypeOK, sm' = sm
  PROVE  SmGrows /\ MadeSame
BY SmIs DEF TypeOK, SmGrows, MadeSame

(* One run changes, and is further than it was. *)
LEMMA SmSteps ==
  ASSUME TypeOK, NEW r \in Run, NEW n \in SmRun, sm' = [sm EXCEPT ![r] = n],
         sm[r].gen < n.gen \/ (sm[r].gen = n.gen /\ sm[r].count <= n.count)
  PROVE  SmGrows /\ (n.made = sm[r].made => MadeSame)
<1>1. sm' \in [Run -> SmRun] /\ sm'[r] = n /\ \A q \in Run : q # r => sm'[q] = sm[q]
    BY DEF TypeOK
<1>2. \A q \in Run : sm[q].gen \in Int /\ sm[q].count \in Int
    BY SmIs
<1> QED
    BY <1>1, <1>2 DEF SmGrows, MadeSame, Run

LEMMA StaysQuiet ==
  ASSUME TypeOK, proc' = proc
  PROVE  GoesQuietly
BY DEF TypeOK, GoesQuietly

LEMMA UsedSame ==
  ASSUME TypeOK, used' = used \/ Fault
  PROVE  LivesSame
BY DEF TypeOK, LivesSame, Fault

LEMMA PublishStep ==
  ASSUME Inv, NEW r \in Run, Publish(r)
  PROVE  Inv'
<1> DEFINE c == sm[r].count + 1 n == [sm[r] EXCEPT !.count = c]
<1>1. sm' = [sm EXCEPT ![r] = n] /\ c \in Seq0 /\ sm[r].count <= c
    BY SmIs, BridgeAssumption DEF Publish, Inv, Seq0
<1>2. sm[r] \in SmRun
    BY SmIs DEF Inv
<1> HIDE DEF c
<1>3. n \in SmRun /\ n.gen = sm[r].gen /\ n.count = c /\ n.made = sm[r].made
    BY <1>1, <1>2 DEF SmRun
<1> HIDE DEF n
<1>4. SmGrows /\ MadeSame
    BY <1>1, <1>3, SmSteps DEF Inv
<1> QED
    BY <1>4, UsedSame, StaysQuiet, KeysStay, Quietly
    DEF Publish, Inv, platform, history, PlatformSame

LEMMA ResetStep ==
  ASSUME Inv, NEW r \in Run, ResetRun(r)
  PROVE  Inv'
<1> DEFINE g == sm[r].gen + 1
           st == IF r = Shared THEN "running" ELSE "paused"
           n == [made |-> TRUE, gen |-> g, count |-> 0, status |-> st]
<1>1. /\ sm' = [sm EXCEPT ![r] = n] /\ g \in Gen /\ sm[r].gen < g /\ 0 \in Seq0
      /\ st \in {"running", "paused"}
    BY SmIs, BridgeAssumption DEF ResetRun, Inv, Gen, Seq0
<1> HIDE DEF g, st
<1>3. n \in SmRun /\ n.gen = g /\ n.made = sm[r].made
    BY <1>1 DEF SmRun, ResetRun
<1> HIDE DEF n
<1>4. SmGrows /\ MadeSame
    BY <1>1, <1>3, SmSteps DEF Inv
<1> QED
    BY <1>4, UsedSame, StaysQuiet, KeysStay, Quietly
    DEF ResetRun, Inv, platform, history, PlatformSame

LEMMA OpenStep ==
  ASSUME Inv, Open
  PROVE  Inv'
<1> DEFINE c == proc.state.cursor
           o == IF c = None THEN [gen |-> sm[proc.run].gen, seq |-> 0, fresh |-> TRUE]
                ELSE [gen |-> c.gen, seq |-> c.seq, fresh |-> FALSE]
<1>1. proc' = [proc EXCEPT !.phase = "open", !.conn = o] /\ proc.phase = "connect"
    BY DEF Open
<1>2. proc.run \in Run /\ proc.run = Followed /\ c = disk.cursor
    BY <1>1 DEF Inv, MemoryRight, Following
<1>3. /\ o \in Connection
      /\ o.fresh \in BOOLEAN /\ (o.fresh => disk.cursor = None)
      /\ ~o.fresh => disk.cursor = [run |-> proc.run, gen |-> o.gen, seq |-> o.seq]
  <2>1. CASE c = None
    <3>1. sm[proc.run].gen \in Gen /\ 0 \in Seq0
        BY <1>2, SmIs, BridgeAssumption DEF Inv, Seq0
    <3> QED
        BY <1>2, <2>1, <3>1 DEF Connection
  <2>2. CASE c # None
    <3>1. disk.cursor \in Cursor /\ disk.cursor.run = proc.run
        BY <1>2, <2>2, CursorIs DEF Inv, FileRight, TypeOK
    <3>2. /\ disk.cursor = [run |-> proc.run, gen |-> disk.cursor.gen, seq |-> disk.cursor.seq]
          /\ disk.cursor.gen \in Gen /\ disk.cursor.seq \in Seq0
        BY <3>1 DEF Cursor
    <3> QED
        BY <1>2, <2>2, <3>2 DEF Connection
  <2> QED
      BY <2>1, <2>2
<1> HIDE DEF o, c
<1>4. /\ proc' \in Memory /\ proc'.phase = "open" /\ proc'.conn = o
      /\ proc'.mode = proc.mode /\ proc'.run = proc.run /\ proc'.state = proc.state
      /\ proc'.meta = proc.meta /\ proc'.informed = proc.informed /\ proc'.item = proc.item
    BY <1>1, <1>3 DEF Inv, TypeOK, Memory, Phase, Following
<1>5. GoesQuietly
  <2>1. proc'.phase \in Following \ InHand /\ proc.phase \in Following \ InHand
      BY <1>1, <1>4 DEF Following, InHand
  <2>2. Reading' => ~o.fresh
      BY <1>4 DEF Reading, InStream, InHand
  <2> QED
      BY <1>3, <1>4, <2>1, <2>2 DEF GoesQuietly
<1> QED
    BY <1>5, SmSame, UsedSame, KeysStay, Quietly
    DEF Open, Inv, platform, history, PlatformSame

(* The process ends or waits; nothing else happens but to the state machine. *)
Waits(p) == proc' = [proc EXCEPT !.phase = p, !.conn = Closed]

LEMMA WaitsIs ==
  ASSUME Inv, NEW p \in {"done", "backoff", "connect"}, Waits(p),
         proc.phase \in Following \ InHand
  PROVE  GoesQuietly
<1>1. Closed \in Connection /\ p \in Phase
    BY BridgeAssumption DEF Closed, Connection, Seq0, Phase, Following
<1>2. /\ proc' \in Memory /\ proc'.phase = p
      /\ proc'.mode = proc.mode /\ proc'.run = proc.run /\ proc'.state = proc.state
      /\ proc'.meta = proc.meta /\ proc'.informed = proc.informed /\ proc'.item = proc.item
  <2> HIDE DEF Closed
  <2> QED
      BY <1>1 DEF Inv, TypeOK, Memory, Waits
<1> QED
    BY <1>2 DEF GoesQuietly, Reading, InStream, InHand, Following

LEMMA WaitStep ==
  ASSUME Inv, GivesUp \/ Disconnected \/ BackedOff
  PROVE  Inv'
<1>1. proc.phase \in Following \ InHand
    BY DEF GivesUp, Disconnected, BackedOff, Following, InHand
<1>2. Waits("done") \/ Waits("backoff") \/ Waits("connect")
    BY DEF GivesUp, Disconnected, BackedOff, Waits, Reconnecting
<1>3. GoesQuietly
    BY <1>1, <1>2, WaitsIs
<1> QED
    BY <1>3, SmSame, UsedSame, KeysStay, Quietly
    DEF GivesUp, Disconnected, BackedOff, Inv, platform, history, PlatformSame

LEMMA CreateFailsStep ==
  ASSUME Inv, CreateFails
  PROVE  Inv'
<1>1. /\ proc' \in Memory /\ proc'.phase = "done"
      /\ proc'.mode = proc.mode /\ proc'.run = proc.run /\ proc'.state = proc.state
      /\ proc'.meta = proc.meta /\ proc'.informed = proc.informed /\ proc'.item = proc.item
    BY DEF CreateFails, Inv, TypeOK, Memory, Phase
<1>2. GoesQuietly
    BY <1>1 DEF CreateFails, GoesQuietly, InHand
<1> QED
    BY <1>2, SmSame, UsedSame, KeysStay, Quietly
    DEF CreateFails, Inv, platform, history, PlatformSame

LEMMA RunsOn ==
  ASSUME TypeOK, NEW r \in Run, sm' = sm \/ sm' = [sm EXCEPT ![r].status = "running"]
  PROVE  SmGrows /\ MadeSame
<1> DEFINE n == [sm[r] EXCEPT !.status = "running"]
<1>1. CASE sm' = sm
    BY <1>1, SmSame
<1>2. CASE sm' = [sm EXCEPT ![r].status = "running"]
  <2>1. sm[r] \in SmRun /\ sm' = [sm EXCEPT ![r] = n]
      BY <1>2, SmIs
  <2>2. n \in SmRun /\ n.gen = sm[r].gen /\ n.count = sm[r].count /\ n.made = sm[r].made
      BY <2>1 DEF SmRun
  <2>3. sm[r].count <= sm[r].count
      BY SmIs
  <2> HIDE DEF n
  <2> QED
      BY <2>1, <2>2, <2>3, SmSteps
<1> QED
    BY <1>1, <1>2

LEMMA PlayStep ==
  ASSUME Inv, Play
  PROVE  Inv'
<1>1. /\ proc' \in Memory /\ proc'.phase = "open" /\ proc'.conn = proc.conn
      /\ proc'.mode = proc.mode /\ proc'.run = proc.run /\ proc'.state = proc.state
      /\ proc'.meta = proc.meta /\ proc'.informed = proc.informed /\ proc'.item = proc.item
    BY DEF Play, Inv, TypeOK, Memory, Phase, Following
<1>2. /\ proc.phase = "play" /\ ~proc.conn.fresh
      /\ disk.cursor = [run |-> proc.run, gen |-> proc.conn.gen, seq |-> proc.conn.seq]
    BY DEF Play, Reading, Inv, StreamRight
<1>3. proc.run \in Run
    BY <1>2 DEF Inv, MemoryRight, Following
<1>4. SmGrows /\ MadeSame
    BY <1>3, RunsOn DEF Play, Inv
<1>5. ~proc'.conn.fresh
    BY <1>1, <1>2
<1>6. GoesQuietly
    BY <1>1, <1>2, <1>5 DEF GoesQuietly, Following, InHand
<1> QED
    BY <1>4, <1>6, UsedSame, KeysStay, Quietly
    DEF Play, Inv, platform, history, PlatformSame

LEMMA PlayFailsStep ==
  ASSUME Inv, PlayFails
  PROVE  Inv'
<1>1. proc.phase \in Following \ InHand /\ Waits("backoff")
    BY DEF PlayFails, Following, InHand, Waits
<1>2. GoesQuietly
    BY <1>1, WaitsIs
<1>3. proc.run \in Run
    BY <1>1 DEF Inv, MemoryRight
<1>4. SmGrows /\ MadeSame
    BY <1>3, RunsOn DEF PlayFails, Inv
<1> QED
    BY <1>2, <1>4, UsedSame, KeysStay, Quietly
    DEF PlayFails, Inv, platform, history, PlatformSame

-----------------------------------------------------------------------------
(* The steps that move the cursor or give it up                            *)

LEMMA CursorChanges ==
  ASSUME NEW s \in State, NEW c \in Cursor \cup {None}, NEW t, t = [s EXCEPT !.cursor = c]
  PROVE  t \in State /\ t.cursor = c /\ t.run = s.run /\ t.gen = s.gen
BY DEF State

Reconnected(n, p, s) ==
  \/ n = [Reconnecting(p) EXCEPT !.state = s]
  \/ n = [[Reconnecting(p) EXCEPT !.play = FALSE] EXCEPT !.state = s]

LEMMA ReconnectingIs ==
  ASSUME NEW p \in Memory, NEW s \in State, NEW n, Reconnected(n, p, s)
  PROVE  /\ n \in Memory /\ n.phase = "connect" /\ n.mode = p.mode /\ n.run = p.run
         /\ n.state = s /\ n.item = p.item
<1>1. Closed \in Connection /\ "connect" \in Phase
    BY BridgeAssumption DEF Closed, Connection, Seq0, Phase, Following
<1> HIDE DEF Closed
<1> DEFINE q == Reconnecting(p) r == [q EXCEPT !.play = FALSE]
<1>2. /\ q \in Memory /\ q.phase = "connect" /\ q.mode = p.mode /\ q.run = p.run
      /\ q.item = p.item
    BY <1>1 DEF Memory, Reconnecting
<1> HIDE DEF q
<1>3. /\ r \in Memory /\ r.phase = "connect" /\ r.mode = p.mode /\ r.run = p.run
      /\ r.item = p.item
    BY <1>2 DEF Memory
<1>4. n = [q EXCEPT !.state = s] \/ n = [r EXCEPT !.state = s]
    BY DEF q, Reconnected
<1> HIDE DEF r
<1> QED
    BY <1>2, <1>3, <1>4 DEF Memory

LEMMA DropStep ==
  ASSUME Inv, CursorExpired \/ StreamReset \/ HeartbeatBump
  PROVE  Inv'
<1>1. proc.phase \in Following \ InHand
    BY DEF CursorExpired, StreamReset, HeartbeatBump, InStream, Following, InHand
<1>2. proc.state = disk /\ proc.run \in Run /\ disk \in State /\ proc \in Memory
    BY <1>1 DEF Inv, MemoryRight, TypeOK
<1>3. sm[proc.run].gen \in Gen /\ None \in Cursor \cup {None} /\ FALSE \in BOOLEAN
    BY <1>2, SmIs DEF Inv
<1> DEFINE g == sm[proc.run].gen
           s == [disk EXCEPT !.cursor = None]
           t == [disk EXCEPT !.gen = g, !.cursor = None]
<1>4. /\ s \in State /\ s.cursor = None /\ s.run = disk.run
      /\ t \in State /\ t.cursor = None /\ t.run = disk.run
  <2> HIDE DEF g
  <2>1. g \in Gen
      BY <1>3 DEF g
  <2> QED
      BY <1>2, <2>1 DEF State
<1>5. \/ /\ disk' = s
         /\ proc' = [Reconnecting(proc) EXCEPT !.state = s]
      \/ /\ disk' = t
         /\ proc' = [[Reconnecting(proc) EXCEPT !.play = FALSE] EXCEPT !.state = t]
    BY <1>2 DEF CursorExpired, StreamReset, HeartbeatBump, SavedAs
<1> HIDE DEF s, t
<1>6. DropsCursor
  <2>1. /\ proc' \in Memory /\ proc'.phase = "connect" /\ proc'.mode = proc.mode
        /\ proc'.run = proc.run /\ proc'.state = disk' /\ proc'.item = proc.item
    <3>1. (disk' = s \/ disk' = t) /\ Reconnected(proc', proc, disk')
        BY <1>5 DEF Reconnected
    <3> QED
        BY <1>2, <1>4, <3>1, ReconnectingIs
  <2> QED
      BY <1>1, <1>4, <1>5, <2>1 DEF DropsCursor
<1>7. sm' = sm /\ PlatformSame /\ LivesSame
  <2>1. used' = used \/ Fault
      BY DEF CursorExpired, StreamReset, HeartbeatBump
  <2> QED
      BY <2>1, UsedSame
      DEF CursorExpired, StreamReset, HeartbeatBump, Inv, PlatformSame, platform, history
<1> QED
    BY <1>6, <1>7, Drops

(* The event after the cursor. *)
LEMMA NextIs ==
  ASSUME Inv, ReadsEvent
  PROVE  /\ Reading /\ NextId \in Id /\ Published(NextId)
         /\ proc.run \in Run /\ proc.conn.gen \in Gen /\ proc.conn.seq \in Nat
         /\ proc.conn.gen = sm[proc.run].gen /\ proc.meta \in Cache
<1>1. proc.phase = "open" /\ Reading /\ proc.conn.gen = sm[proc.run].gen
      /\ proc.conn.seq < sm[proc.run].count
    BY DEF ReadsEvent, InStream, Reading, Behind
<1>2. proc.run \in Run
    BY <1>1 DEF Inv, MemoryRight, Following
<1>3. proc.conn.seq \in Seq0 /\ proc.meta \in Cache
    BY MemoryIs DEF Inv, TypeOK
<1>4. sm[proc.run].gen \in Gen /\ sm[proc.run].count \in Seq0
    BY <1>2, SmIs DEF Inv
<1>5. proc.conn.seq + 1 \in 1..Len(Script) /\ proc.conn.seq \in Nat
      /\ proc.conn.seq + 1 <= sm[proc.run].count
    BY <1>1, <1>3, <1>4, BridgeAssumption DEF Seq0
<1> QED
    BY <1>1, <1>2, <1>3, <1>4, <1>5 DEF NextId, Id, Published

LEMMA AdvancedIs ==
  ASSUME Inv, NEW p \in Memory, Advanced(p), proc.phase \in Following, Reading,
         NextId \in Id, proc.run \in Run,
         p.state = proc.state, p.conn = proc.conn, p.run = proc.run, p.mode = proc.mode,
         p.informed = proc.informed, p.meta = MetaAfter(NextEvent, proc.meta)
  PROVE  \E s : Advancing(proc.conn.seq + 1, s)
<1> DEFINE n == proc.conn.seq + 1
           c == [run |-> proc.run, gen |-> proc.conn.gen, seq |-> n]
           s == [proc.state EXCEPT !.cursor = c]
           o == [proc.conn EXCEPT !.seq = n]
           q == [p EXCEPT !.phase = "open", !.conn = o, !.item = None]
           r == [q EXCEPT !.state = s]
<1>1. proc' = r /\ disk' = s
    BY DEF Advanced, SavedAs
<1>2. proc.conn.gen \in Gen /\ n \in Seq0 /\ c \in Cursor
    BY IdIs DEF NextId, Cursor
<1>3. /\ proc.state = disk /\ s \in State /\ s.cursor = c /\ s.run = disk.run
      /\ s.gen = disk.gen
  <2>1. proc.state = disk /\ disk \in State
      BY DEF Inv, TypeOK, MemoryRight
  <2> HIDE DEF c
  <2> QED
      BY <1>2, <2>1, CursorChanges
<1>4. o \in Connection /\ o.gen = proc.conn.gen /\ o.seq = n /\ o.fresh = proc.conn.fresh
    BY <1>2, MemoryIs DEF Inv, TypeOK, Connection
<1>5. proc.conn.fresh = FALSE
  <2>1. proc.conn.fresh \in BOOLEAN
      BY MemoryIs DEF Inv, TypeOK
  <2>2. ~proc.conn.fresh
      BY DEF Inv, StreamRight
  <2> QED
      BY <2>1, <2>2
<1> HIDE DEF s, o, c, n
<1>6. /\ q \in Memory /\ q.phase = "open" /\ q.conn = o /\ q.item = None /\ q.run = p.run
      /\ q.mode = p.mode /\ q.informed = p.informed /\ q.meta = p.meta
    BY <1>4 DEF Memory, Phase, Following
<1> HIDE DEF q
<1>7. /\ r \in Memory /\ r.phase = "open" /\ r.conn = o /\ r.item = None /\ r.run = p.run
      /\ r.mode = p.mode /\ r.informed = p.informed /\ r.meta = p.meta /\ r.state = s
    BY <1>3, <1>6 DEF Memory
<1> HIDE DEF r
<1> QED
    BY <1>1, <1>3, <1>4, <1>5, <1>7 DEF Advancing, c, n

LEMMA SkipStep ==
  ASSUME Inv, SkipEvent
  PROVE  Inv'
<1>1. ReadsEvent /\ MapEvent(NextEvent, proc.meta) = None
    BY DEF SkipEvent
<1>2. /\ Reading /\ NextId \in Id /\ Published(NextId) /\ proc.run \in Run
      /\ proc.meta \in Cache /\ proc.phase = "open" /\ proc.conn.seq \in Nat
    BY <1>1, NextIs DEF ReadsEvent, InStream
<1>3. Done(NextId)
  <2>1. NextEvent = EventAt(NextId[1], NextId[2], NextId[3])
      BY DEF NextEvent, NextId
  <2> QED
      BY <1>1, <1>2, <2>1, ItemIs DEF Done
<1> DEFINE m == MetaAfter(NextEvent, proc.meta)
           p == [proc EXCEPT !.meta = m]
<1>4. m \in Cache
  <2>1. proc.conn.seq + 1 \in 1..Len(Script)
      BY <1>2, IdIs DEF NextId
  <2>2. CASE Device = {}
    <3>1. m = proc.meta
      <4>1. proc.meta = [d \in {} |-> d]
          BY <1>2, <2>2 DEF Cache
      <4> QED
          BY <4>1 DEF MetaAfter, ApplyDeviceState
    <3> QED
        BY <1>2, <3>1
  <2>3. CASE Device # {}
    <3>1. PICK d \in Device : TRUE
        BY <2>3
    <3> QED
        BY <1>2, <2>1, <3>1, StateAfter DEF NextEvent
  <2> QED
      BY <2>2, <2>3
<1>5. Advanced(p)
    BY DEF SkipEvent
<1> HIDE DEF m
<1>6. /\ p \in Memory /\ p.state = proc.state /\ p.conn = proc.conn /\ p.run = proc.run
      /\ p.mode = proc.mode /\ p.informed = proc.informed /\ p.meta = m
    BY <1>4 DEF Inv, TypeOK, Memory
<1> HIDE DEF p
<1>7. PICK s : Advancing(proc.conn.seq + 1, s)
    BY <1>2, <1>5, <1>6, AdvancedIs DEF Following, m
<1> QED
    BY <1>2, <1>3, <1>7, UsedSame, Advances
    DEF SkipEvent, Inv, platform, history, PlatformSame

LEMMA SaveStep ==
  ASSUME Inv, SaveCursor
  PROVE  Inv'
<1>1. proc.phase = "forwarded" /\ Advanced(proc)
    BY DEF SaveCursor
<1>2. Reading /\ NextId \in Id /\ Published(NextId) /\ Done(NextId) /\ proc.run \in Run
    BY <1>1 DEF Reading, InHand, Following, Inv, StreamRight, MemoryRight
<1>3. MetaAfter(NextEvent, proc.meta) = proc.meta
  <2>1. PICK m \in Cache : /\ proc.item = MapEvent(EventAt(NextId[1], NextId[2], NextId[3]), m)
                           /\ proc.item # None
      BY <1>1 DEF Inv, StreamRight, InHand
  <2>2. NextId[3] \in Observations /\ NextEvent = EventAt(NextId[1], NextId[2], NextId[3])
      BY <1>2, <2>1, ItemIs DEF NextEvent, NextId
  <2>3. NextEvent.kind # "device.updated"
      BY <1>2, <2>2, IdIs, EventIs DEF Observations
  <2> QED
      BY <2>3 DEF MetaAfter
<1>4. PICK s : Advancing(proc.conn.seq + 1, s)
    BY <1>1, <1>2, <1>3, AdvancedIs DEF Following, Inv, TypeOK
<1> QED
    BY <1>1, <1>2, <1>4, UsedSame, Advances
    DEF SaveCursor, Inv, platform, history, PlatformSame

LEMMA SnapshotIs ==
  ASSUME Inv, Snapshot
  PROVE  LET r == proc.run
             at == [run |-> r, gen |-> sm[r].gen, seq |-> sm[r].count]
         IN /\ r \in Run /\ r = Followed /\ disk.cursor = None /\ proc.phase = "open"
            /\ sm[r].gen \in Gen /\ sm[r].count \in Seq0
            /\ disk' \in State /\ disk'.run = disk.run /\ disk'.gen = sm[r].gen
            /\ disk'.cursor = at
            /\ proc' \in Memory /\ proc'.state = disk' /\ proc'.phase \in {"open", "play"}
            /\ proc'.mode = proc.mode /\ proc'.run = r /\ proc'.item = None
            /\ proc'.conn = [gen |-> sm[r].gen, seq |-> sm[r].count, fresh |-> FALSE]
            /\ \A d \in Device : proc'.meta[d] = StateAt(sm[r].count)[d]
            /\ jumped' = jumped \cup {<<r, sm[r].gen, n>> : n \in 1..sm[r].count}
            /\ UNCHANGED <<sm, rows, late, failed, used>>
<1> DEFINE r == proc.run
           at == [run |-> r, gen |-> sm[r].gen, seq |-> sm[r].count]
           plays == proc.mode = "local" /\ ~proc.play /\ sm[r].status = "paused"
           m == ApplySnapshot(proc.meta, StateAt(at.seq))
           o == [gen |-> at.gen, seq |-> at.seq, fresh |-> FALSE]
           ph == IF plays THEN "play" ELSE proc.phase
           s == [proc.state EXCEPT !.gen = at.gen, !.cursor = at]
           q == [proc EXCEPT !.meta = m, !.informed = TRUE, !.conn = o, !.phase = ph]
           n == [q EXCEPT !.state = s]
<1>1. /\ proc' = n /\ disk' = s
      /\ jumped' = jumped \cup {<<r, at.gen, k>> : k \in 1..at.seq}
      /\ UNCHANGED <<sm, rows, late, failed, used>>
      /\ proc.phase = "open" /\ proc.conn.fresh
    BY DEF Snapshot, SavedAs, InStream, platform
<1>2. r \in Run /\ r = Followed /\ disk.cursor = None /\ proc.state = disk /\ disk \in State
    BY <1>1 DEF Inv, MemoryRight, StreamRight, Following, InStream, TypeOK
<1>3. /\ sm[r].gen \in Gen /\ sm[r].count \in Seq0 /\ at \in Cursor
      /\ at.gen = sm[r].gen /\ at.seq = sm[r].count
    BY <1>2, SmIs DEF Inv, Cursor
<1>4. m \in Cache /\ \A d \in Device : m[d] = StateAt(sm[r].count)[d]
  <2>1. StateAt(at.seq) \in Cache
      BY StateIs
  <2> QED
      BY <1>3, <2>1 DEF ApplySnapshot, Cache
<1>5. o \in Connection /\ o = [gen |-> sm[r].gen, seq |-> sm[r].count, fresh |-> FALSE]
    BY <1>3 DEF Connection
<1>6. ph \in {"open", "play"} /\ ph \in Phase
    BY <1>1 DEF Phase, Following
<1>7. s \in State /\ s.cursor = at /\ s.run = disk.run /\ s.gen = sm[r].gen
  <2> DEFINE g == at.gen
  <2>1. g \in Gen /\ g = sm[r].gen
      BY <1>3
  <2> HIDE DEF at, g
  <2> QED
      BY <1>2, <1>3, <2>1 DEF State, g
<1>8. proc.item = None
    BY <1>1 DEF Inv, StreamRight, InHand
<1>9. /\ q \in Memory /\ q.phase = ph /\ q.mode = proc.mode /\ q.run = r /\ q.item = None
      /\ q.conn = o /\ q.meta = m
  <2>1. proc \in Memory
      BY DEF Inv, TypeOK
  <2> HIDE DEF m, o, ph
  <2> QED
      BY <1>4, <1>5, <1>6, <1>8, <2>1 DEF Memory
<1> HIDE DEF q, s
<1>10. /\ n \in Memory /\ n.phase = ph /\ n.mode = proc.mode /\ n.run = r /\ n.item = None
       /\ n.conn = o /\ n.meta = m /\ n.state = s
    BY <1>7, <1>9 DEF Memory
<1> HIDE DEF n, m, o, ph
<1> QED
    BY <1>1, <1>2, <1>3, <1>4, <1>5, <1>6, <1>7, <1>10

LEMMA SnapshotStep ==
  ASSUME Inv, Snapshot
  PROVE  Inv'
<1> DEFINE r == proc.run g == sm[r].gen k == sm[r].count
           at == [run |-> r, gen |-> g, seq |-> k]
<1>1. /\ r \in Run /\ r = Followed /\ disk.cursor = None /\ proc.phase = "open"
      /\ g \in Gen /\ k \in Seq0
      /\ disk' \in State /\ disk'.run = disk.run /\ disk'.gen = g /\ disk'.cursor = at
    BY SnapshotIs
<1>2. /\ proc' \in Memory /\ proc'.state = disk' /\ proc'.phase \in {"open", "play"}
      /\ proc'.mode = proc.mode /\ proc'.run = r /\ proc'.item = None
      /\ proc'.conn = [gen |-> g, seq |-> k, fresh |-> FALSE]
    BY SnapshotIs
<1>3. /\ \A d \in Device : proc'.meta[d] = StateAt(k)[d]
      /\ jumped' = jumped \cup {<<r, g, n>> : n \in 1..k}
      /\ UNCHANGED <<sm, rows, late, failed, used>>
    BY SnapshotIs
<1>4. at # None /\ at.run = r /\ at.gen = g /\ at.seq = k
    BY <1>1, CursorSet
<1>5. TypeOK'
    BY <1>1, <1>2, <1>3 DEF Inv, TypeOK
<1>6. Followed' = Followed
    BY <1>1, <1>2 DEF Followed
<1>7. FileRight'
  <2>1. Published(<<r, g, k>>)
    <3>1. k <= k
        BY <1>1, SmIs DEF Inv
    <3> QED
        BY <3>1 DEF Published
  <2> QED
      BY <1>1, <1>3, <1>4, <1>6, <2>1, FileSet DEF Inv
<1>8. MemoryRight'
    BY <1>1, <1>2, <1>6 DEF MemoryRight, Following
<1>9. StreamRight'
    BY <1>1, <1>2, <1>4 DEF StreamRight, Reading, InStream, InHand
<1>10. KeysLeft'
    BY <1>2, <1>3 DEF Inv, KeysLeft, Made
<1>11. SentOnce'
  <2>1. ASSUME NEW i \in Id, Passed(i) PROVE Passed(i)'
    <3>1. i[1] = r /\ Published(i)
        BY <1>1, <2>1 DEF Passed
    <3>2. i[2] < g \/ (i[2] = g /\ i[3] <= k)
        BY <3>1 DEF Published
    <3> QED
        BY <1>1, <1>2, <1>4, <3>1, <3>2 DEF Passed
  <2>2. LivesSame
      BY <1>3, UsedSame DEF Inv
  <2> QED
      BY <1>1, <1>2, <1>3, <2>1, <2>2, SentOnceStays DEF Inv, Following
<1>12. AccountedFor'
    BY <1>1, <1>3, <1>4 DEF AccountedFor
<1>13. CacheInStep'
    BY <1>1, <1>2, <1>3, <1>4 DEF CacheInStep
<1> QED
    BY <1>5, <1>7, <1>8, <1>9, <1>10, <1>11, <1>12, <1>13 DEF Inv

-----------------------------------------------------------------------------
(* The steps of a life that has no run yet                                 *)

LEMMA SpentIs ==
  ASSUME TypeOK, NEW i \in Id
  PROVE  /\ Spent(i) \in Nat /\ rows[i] \in Nat /\ IsFiniteSet(LateOf(i))
         /\ Cardinality(LateOf(i)) \in Nat /\ used.lives \in Nat
<1>1. IsFiniteSet(LateOf(i))
    BY FS_Subset DEF TypeOK, LateOf
<1>2. Cardinality(LateOf(i)) \in Nat
    BY <1>1, FS_CardinalityType
<1> QED
    BY <1>1, <1>2, BridgeAssumption DEF TypeOK, Spent

LEMMA MadeIs ==
  /\ IsFiniteSet(Made) /\ Cardinality(Made) \in Nat
  /\ Cardinality(Made) < MaxLives => Made # Key
<1>1. IsFiniteSet(Made)
    BY BridgeAssumption, FS_Subset DEF Made
<1>2. Cardinality(Made) \in Nat /\ Cardinality(Key) \in Nat
    BY <1>1, BridgeAssumption, FS_CardinalityType
<1> QED
    BY <1>1, <1>2, BridgeAssumption

(* Before it follows a run, a life has sent nothing. *)
LEMMA NothingSent ==
  ASSUME TypeOK, SentOnce, rows' = rows, late' = late, LivesSame,
         proc.phase \in {"ensure", "creating"}
  PROVE  SentOnce'
<1>1. ASSUME NEW i \in Id PROVE Spent(i)' = Spent(i) /\ Spent(i) < used.lives
    BY SpentSame DEF SentOnce
<1>2. ASSUME NEW i \in Id
      PROVE  Spent(i)' < used'.lives /\ Spent(i)' <= used'.lives /\ Spent(i)' # used'.lives
    BY <1>1, SpentIs DEF LivesSame
<1> QED
    BY <1>2 DEF SentOnce

LEMMA UseRunStep ==
  ASSUME Inv, UseRun
  PROVE  Inv'
<1> DEFINE r == IF proc.mode = "shared" THEN Shared ELSE proc.state.run
<1>1. /\ proc.phase = "ensure" /\ proc' = [proc EXCEPT !.phase = "connect", !.run = r]
      /\ UNCHANGED <<sm, disk, rows, late, failed, jumped, used>>
    BY DEF UseRun, platform, history
<1>2. proc.state = disk /\ r = Followed /\ r \in Run
  <2>1. proc.state = disk
      BY <1>1 DEF Inv, MemoryRight
  <2> QED
      BY <2>1 DEF UseRun, Inv, TypeOK, State, Run, Followed
<1> HIDE DEF r
<1>3. /\ proc' \in Memory /\ proc'.phase = "connect" /\ proc'.run = r
      /\ proc'.mode = proc.mode /\ proc'.state = proc.state /\ proc'.meta = proc.meta
      /\ proc'.informed = proc.informed /\ proc'.item = proc.item
    BY <1>1, <1>2 DEF Inv, TypeOK, Memory, Phase, Following
<1>4. TypeOK'
    BY <1>1, <1>3 DEF Inv, TypeOK
<1>5. SmGrows /\ LivesSame
    BY <1>1, SmSame, UsedSame DEF Inv
<1>6. FileRight' /\ MemoryRight'
  <2>1. Followed' = Followed
      BY <1>1, <1>3 DEF Followed
  <2> QED
      BY <1>1, <1>2, <1>3, <1>5, <2>1, FileStays DEF Inv, MemoryRight
<1>7. StreamRight'
    BY <1>1, <1>3 DEF Inv, StreamRight, Reading, InStream, InHand
<1>8. KeysLeft' /\ AccountedFor'
    BY <1>1, <1>3 DEF Inv, KeysLeft, Made, AccountedFor
<1>9. SentOnce'
    BY <1>1, <1>5, NothingSent DEF Inv
<1>10. CacheInStep'
  <2>1. proc'.meta = NoMeta /\ ~proc'.informed
      BY <1>1, <1>3 DEF Inv, MemoryRight
  <2> QED
      BY <2>1 DEF CacheInStep, NoMeta
<1> QED
    BY <1>4, <1>6, <1>7, <1>8, <1>9, <1>10 DEF Inv

LEMMA AskStep ==
  ASSUME Inv, AskForRun
  PROVE  Inv'
<1> DEFINE k == KeyToUse(proc.state) s == [proc.state EXCEPT !.key = k]
<1>1. /\ proc.phase = "ensure" /\ proc.mode = "local" /\ proc.state.run = None
      /\ proc' = [proc EXCEPT !.phase = "creating", !.state = s]
      /\ UNCHANGED <<sm, disk, rows, late, failed, jumped, used>>
    BY DEF AskForRun, platform, history
<1>2. proc.state = disk /\ disk \in State
    BY <1>1 DEF Inv, MemoryRight, TypeOK
<1>3. k \in Key
  <2>1. Cardinality(Made) < used.lives /\ used.lives \in 0..MaxLives
      BY <1>1 DEF Inv, KeysLeft, TypeOK
  <2>2. Made # Key
      BY <2>1, MadeIs, BridgeAssumption
  <2>3. \E x \in Key : ~sm[x].made
      BY <2>2 DEF Made
  <2> QED
      BY <1>2, <2>3 DEF KeyToUse, State
<1> HIDE DEF k
<1>4. s \in State /\ s.key = k /\ s.run = disk.run
    BY <1>2, <1>3 DEF State
<1> HIDE DEF s
<1>5. /\ proc' \in Memory /\ proc'.phase = "creating" /\ proc'.run = proc.run
      /\ proc'.mode = proc.mode /\ proc'.state = s /\ proc'.meta = proc.meta
      /\ proc'.informed = proc.informed /\ proc'.item = proc.item
    BY <1>1, <1>4 DEF Inv, TypeOK, Memory, Phase
<1>6. TypeOK'
    BY <1>1, <1>5 DEF Inv, TypeOK
<1>7. SmGrows /\ LivesSame
    BY <1>1, SmSame, UsedSame DEF Inv
<1>8. FileRight' /\ MemoryRight'
    BY <1>1, <1>2, <1>3, <1>4, <1>5, <1>7, FileStays DEF Inv, MemoryRight, Following
<1>9. StreamRight'
    BY <1>1, <1>5 DEF Inv, StreamRight, Reading, InStream, InHand
<1>10. KeysLeft' /\ AccountedFor' /\ CacheInStep'
    BY <1>1, <1>5 DEF Inv, KeysLeft, Made, AccountedFor, CacheInStep
<1>11. SentOnce'
    BY <1>1, <1>7, NothingSent DEF Inv
<1> QED
    BY <1>6, <1>8, <1>9, <1>10, <1>11 DEF Inv

LEMMA CreatedStep ==
  ASSUME Inv, RunCreated
  PROVE  Inv'
<1> DEFINE k == proc.state.key n == [sm[k] EXCEPT !.made = TRUE]
<1>1. /\ proc.phase = "creating" /\ ~sm[k].made /\ k \in Key /\ k \in Run
      /\ UNCHANGED <<disk, proc, rows, late, failed, jumped, used>>
    BY DEF RunCreated, platform, history, Inv, MemoryRight, Run
<1>2. sm[k] \in SmRun /\ sm' = [sm EXCEPT ![k] = n]
    BY <1>1, SmIs DEF Inv, RunCreated
<1>3. n \in SmRun /\ n.made = TRUE /\ n.gen = sm[k].gen /\ n.count = sm[k].count
    BY <1>2 DEF SmRun
<1> HIDE DEF n
<1>4. SmGrows
  <2>1. sm[k].count <= sm[k].count
      BY <1>1, SmIs DEF Inv
  <2> QED
      BY <1>1, <1>2, <1>3, <2>1, SmSteps DEF Inv
<1>5. Made' = Made \cup {k} /\ k \notin Made
  <2>1. sm'[k].made /\ \A x \in Key : x # k => sm'[x] = sm[x]
      BY <1>1, <1>2, <1>3 DEF Inv, TypeOK, Run
  <2> HIDE DEF k
  <2> QED
      BY <1>1, <2>1 DEF Made
<1>6. Cardinality(Made') = Cardinality(Made) + 1
    BY <1>5, MadeIs, FS_AddElement
<1>7. KeysLeft'
  <2>1. Cardinality(Made) < used.lives /\ used.lives \in Nat /\ Cardinality(Made) \in Nat
      BY <1>1, MadeIs, BridgeAssumption DEF Inv, KeysLeft, TypeOK
  <2>2. Cardinality(Made)' <= used'.lives
      BY <1>1, <1>6, <2>1
  <2>3. proc'.phase = "creating" /\ sm'[proc'.state.key].made
      BY <1>1, <1>5 DEF Made
  <2> QED
      BY <2>2, <2>3 DEF KeysLeft
<1> QED
    BY <1>1, <1>4, <1>7, UsedSame, StaysQuiet, Quietly DEF Inv, PlatformSame

LEMMA AnsweredStep ==
  ASSUME Inv, RunAnswered
  PROVE  Inv'
<1> DEFINE k == proc.state.key g == sm[k].gen
           s == [key |-> k, run |-> k, gen |-> g, cursor |-> None]
           q == [proc EXCEPT !.phase = "connect", !.run = k]
<1>1. /\ proc.phase = "creating" /\ proc.mode = "local" /\ k \in Key /\ k \in Run
      /\ proc' = [q EXCEPT !.state = s] /\ disk' = s
      /\ UNCHANGED <<sm, rows, late, failed, jumped, used>>
    BY DEF RunAnswered, SavedAs, platform, history, Inv, MemoryRight, Run
<1>2. s \in State /\ s.cursor = None /\ s.run = k
    BY <1>1, SmIs DEF Inv, State
<1> HIDE DEF s
<1>3. /\ q \in Memory /\ q.phase = "connect" /\ q.run = k /\ q.mode = proc.mode
      /\ q.item = proc.item
    BY <1>1 DEF Inv, TypeOK, Memory, Phase, Following
<1> HIDE DEF q
<1>4. /\ proc' \in Memory /\ proc'.phase = "connect" /\ proc'.run = k
      /\ proc'.mode = proc.mode /\ proc'.item = proc.item /\ proc'.state = s
    BY <1>1, <1>2, <1>3 DEF Memory
<1>5. TypeOK'
    BY <1>1, <1>2, <1>4 DEF Inv, TypeOK
<1>6. FileRight' /\ AccountedFor' /\ CacheInStep'
    BY <1>1, <1>2, <1>4 DEF FileRight, AccountedFor, CacheInStep
<1>7. MemoryRight'
    BY <1>1, <1>2, <1>4 DEF MemoryRight, Followed
<1>8. StreamRight'
    BY <1>1, <1>4 DEF Inv, StreamRight, Reading, InStream, InHand
<1>9. KeysLeft'
    BY <1>1, <1>4 DEF Inv, KeysLeft, Made
<1>10. SentOnce'
  <2>1. LivesSame
      BY <1>1, UsedSame DEF Inv
  <2> QED
      BY <1>1, <2>1, NothingSent DEF Inv
<1> QED
    BY <1>5, <1>6, <1>7, <1>8, <1>9, <1>10 DEF Inv

-----------------------------------------------------------------------------
(* The steps that send an observation                                      *)

LEMMA TakeStep ==
  ASSUME Inv, TakeObservation
  PROVE  Inv'
<1> DEFINE t == MapEvent(NextEvent, proc.meta)
<1>1. /\ ReadsEvent /\ t # None /\ proc.phase = "open"
      /\ proc' = [proc EXCEPT !.phase = "forward", !.item = t]
      /\ UNCHANGED <<sm, disk, rows, late, failed, jumped, used>>
    BY DEF TakeObservation, platform, history, ReadsEvent, InStream
<1>2. Reading /\ NextId \in Id /\ Published(NextId) /\ proc.meta \in Cache
    BY <1>1, NextIs
<1>3. t = MapEvent(EventAt(NextId[1], NextId[2], NextId[3]), proc.meta)
    BY DEF NextEvent, NextId
<1>4. t \in Items
    BY <1>2, <1>3 DEF Items
<1> HIDE DEF t
<1>5. /\ proc' \in Memory /\ proc'.phase = "forward" /\ proc'.run = proc.run
      /\ proc'.mode = proc.mode /\ proc'.state = proc.state /\ proc'.meta = proc.meta
      /\ proc'.informed = proc.informed /\ proc'.item = t /\ proc'.conn = proc.conn
    BY <1>1, <1>4 DEF Inv, TypeOK, Memory, Phase, Following
<1>6. TypeOK'
    BY <1>1, <1>5 DEF Inv, TypeOK
<1>7. SmGrows /\ LivesSame
    BY <1>1, SmSame, UsedSame DEF Inv
<1>8. FileRight' /\ MemoryRight'
  <2>1. Followed' = Followed
      BY <1>1, <1>5 DEF Followed
  <2> QED
      BY <1>1, <1>5, <1>7, <2>1, FileStays DEF Inv, MemoryRight, Following
<1>9. StreamRight'
  <2>1. NextId' = NextId /\ Published(NextId)' = Published(NextId)
      BY <1>1, <1>5 DEF NextId, Published
  <2> QED
      BY <1>1, <1>2, <1>3, <1>5, <2>1 DEF Inv, StreamRight, InStream, InHand
<1>10. KeysLeft' /\ AccountedFor' /\ CacheInStep'
    BY <1>1, <1>5 DEF Inv, KeysLeft, Made, AccountedFor, CacheInStep
<1>11. SentOnce'
  <2>1. \A i \in Id : Passed(i) => Passed(i)'
      BY <1>1, <1>5 DEF Passed, Published
  <2> QED
      BY <1>1, <1>5, <1>7, <2>1, SentOnceStays DEF Inv, Following
<1> QED
    BY <1>6, <1>8, <1>9, <1>10, <1>11 DEF Inv

(* What is in hand has not been sent by this life. *)
LEMMA InHandIs ==
  ASSUME Inv, proc.phase \in InHand
  PROVE  /\ NextId \in Id /\ proc.item \in Items
         /\ proc.item.external_event_id = NextId
         /\ Forwardable(Script[NextId[3]]) => Accepts(proc.item)
         /\ proc.phase = "forward" => Spent(NextId) < used.lives
<1>1. NextId \in Id /\ proc.item # None /\ proc.item \in Items
    BY MemoryIs DEF Inv, StreamRight, TypeOK
<1>2. PICK m \in Cache : proc.item = MapEvent(EventAt(NextId[1], NextId[2], NextId[3]), m)
    BY DEF Inv, StreamRight
<1>3. /\ proc.item.external_event_id = NextId
      /\ Forwardable(Script[NextId[3]]) => Accepts(proc.item)
    BY <1>1, <1>2, ItemIs
<1>4. ASSUME proc.phase = "forward" PROVE Spent(NextId) < used.lives
  <2>1. disk.cursor = [run |-> proc.run, gen |-> proc.conn.gen, seq |-> proc.conn.seq]
      BY <1>4 DEF Inv, StreamRight, Reading, InHand
  <2>2. proc.run \in Run /\ proc.conn.gen \in Gen /\ proc.conn.seq \in Seq0
      BY <1>1, IdIs, MemoryIs DEF NextId, Inv, TypeOK
  <2>3. disk.cursor # None /\ disk.cursor.gen = NextId[2] /\ disk.cursor.seq + 1 = NextId[3]
      BY <2>1, <2>2, CursorSet DEF NextId
  <2>4. NextId[2] \in Int /\ NextId[3] \in Int /\ disk.cursor.seq \in Int
      BY <1>1, <2>1, <2>2, IdIs, BridgeAssumption DEF Seq0
  <2>5. ~Passed(NextId)
    <3> DEFINE i == NextId
    <3>1. ~(i[2] < disk.cursor.gen) /\ ~(i[3] <= disk.cursor.seq)
        BY <2>3, <2>4
    <3> QED
        BY <1>4, <2>3, <3>1 DEF Passed
  <2>6. Spent(NextId) <= used.lives /\ Spent(NextId) # used.lives
      BY <1>1, <1>4, <2>5 DEF Inv, SentOnce, Following
  <2> QED
      BY <1>1, <2>6, SpentIs DEF Inv
<1> QED
    BY <1>1, <1>3, <1>4

(* Sending an observation is counted once, in one place or the other. *)
Sends(j) ==
  /\ \A i \in Id : i # j => Spent(i)' = Spent(i)
  /\ Spent(j)' \in Nat /\ Spent(j)' <= Spent(j) + 1

LEMMA RowMore ==
  ASSUME TypeOK, NEW j \in Id, late' = late, rows' = [rows EXCEPT ![j] = @ + 1]
  PROVE  Sends(j) /\ rows' \in [Id -> Nat] /\ \A i \in Id : rows[i] <= rows'[i]
<1>1. /\ \A i \in Id : LateOf(i)' = LateOf(i)
      /\ rows' \in [Id -> Nat] /\ rows'[j] = rows[j] + 1
      /\ \A i \in Id : i # j => rows'[i] = rows[i]
    BY DEF TypeOK, LateOf
<1>2. \A i \in Id : rows[i] <= rows'[i]
    BY <1>1 DEF TypeOK
<1>3. Spent(j)' = rows[j] + 1 + Cardinality(LateOf(j))
    BY <1>1 DEF Spent
<1>4. Spent(j)' = Spent(j) + 1
  <2>1. rows[j] \in Nat /\ Cardinality(LateOf(j)) \in Nat
      BY SpentIs
  <2> QED
      BY <1>3, <2>1 DEF Spent
<1>5. \A i \in Id : i # j => Spent(i)' = Spent(i)
    BY <1>1 DEF Spent
<1>6. Spent(j) \in Nat
    BY SpentIs
<1> QED
    BY <1>1, <1>2, <1>4, <1>5, <1>6 DEF Sends

LEMMA LateMore ==
  ASSUME TypeOK, NEW t \in Items, t.external_event_id \in Id, rows' = rows,
         late' = late \cup {t}
  PROVE  /\ Sends(t.external_event_id)
         /\ late' \subseteq Items /\ IsFiniteSet(late')
         /\ \A u \in late' : u.external_event_id \in Id
<1> DEFINE j == t.external_event_id
<1>1. /\ late' \subseteq Items /\ IsFiniteSet(late')
      /\ \A u \in late' : u.external_event_id \in Id
    BY FS_AddElement DEF TypeOK
<1>2. \A i \in Id : i # j => LateOf(i)' = LateOf(i)
    BY DEF LateOf
<1>3. LateOf(j)' = LateOf(j) \cup {t}
    BY DEF LateOf
<1>4. /\ IsFiniteSet(LateOf(j)) /\ Cardinality(LateOf(j)) \in Nat /\ rows[j] \in Nat
      /\ Spent(j) \in Nat
    BY SpentIs
<1>5. /\ Cardinality(LateOf(j) \cup {t}) \in Nat
      /\ Cardinality(LateOf(j) \cup {t}) <= Cardinality(LateOf(j)) + 1
  <2> DEFINE S == LateOf(j)
  <2> HIDE DEF S
  <2>1. IsFiniteSet(S) /\ Cardinality(S) \in Nat
      BY <1>4 DEF S
  <2>2. /\ IsFiniteSet(S \cup {t})
        /\ Cardinality(S \cup {t}) = IF t \in S THEN Cardinality(S) ELSE Cardinality(S) + 1
      BY <2>1, FS_AddElement
  <2> QED
      BY <2>1, <2>2 DEF S
<1>6. \A i \in Id : i # j => Spent(i)' = Spent(i)
    BY <1>2 DEF Spent
<1>7. Spent(j)' = rows[j] + Cardinality(LateOf(j) \cup {t})
    BY <1>3 DEF Spent
<1>8. Spent(j)' \in Nat /\ Spent(j)' <= Spent(j) + 1
    BY <1>4, <1>5, <1>7 DEF Spent
<1> QED
    BY <1>1, <1>6, <1>8 DEF Sends

LEMMA SendsNothing ==
  ASSUME TypeOK, NEW j \in Id, rows' = rows, late' = late
  PROVE  Sends(j)
<1>1. \A i \in Id : Spent(i)' = Spent(i)
    BY SpentSame
<1>2. Spent(j) \in Nat
    BY SpentIs
<1> QED
    BY <1>1, <1>2 DEF Sends

(* More rows and more failures account for no less. *)
LEMMA AccountStays ==
  ASSUME TypeOK, AccountedFor, disk' = disk, rows' \in [Id -> Nat],
         \A i \in Id : rows[i] <= rows'[i],
         failed \subseteq failed', jumped \subseteq jumped'
  PROVE  /\ AccountedFor'
         /\ \A i \in Id : Done(i) => Done(i)'
<1>1. \A i \in Id : rows[i] > 0 => rows'[i] > 0
    BY DEF TypeOK
<1>2. \A i \in Id : Done(i) => Done(i)'
    BY <1>1 DEF Done
<1>3. AccountedFor'
  <2> SUFFICES ASSUME disk.cursor # None, NEW n \in 1..disk.cursor.seq, Forwardable(Script[n])
               PROVE  LET i == <<disk.cursor.run, disk.cursor.gen, n>>
                      IN rows'[i] > 0 \/ i \in failed' \cup jumped'
      BY DEF AccountedFor
  <2> DEFINE i == <<disk.cursor.run, disk.cursor.gen, n>>
  <2>1. rows[i] > 0 \/ i \in failed \cup jumped
      BY DEF AccountedFor
  <2>2. i \in Id
      BY CursorIs, BridgeAssumption DEF TypeOK, Id, Seq0
  <2> QED
      BY <1>1, <2>1, <2>2
<1> QED
    BY <1>2, <1>3

(* The request for the observation in hand has ended. *)
LEMMA Forwarded ==
  ASSUME Inv, proc.phase = "forward", proc' = [proc EXCEPT !.phase = "forwarded"],
         sm' = sm, disk' = disk, LivesSame, NEW j \in Id, j = NextId, Sends(j),
         rows' \in [Id -> Nat], \A i \in Id : rows[i] <= rows'[i],
         failed \subseteq failed', jumped' = jumped,
         late' \subseteq Items, IsFiniteSet(late'),
         \A t \in late' : t.external_event_id \in Id,
         Done(NextId)'
  PROVE  Inv'
<1>1. /\ proc' \in Memory /\ proc'.phase = "forwarded" /\ proc'.run = proc.run
      /\ proc'.mode = proc.mode /\ proc'.state = proc.state /\ proc'.meta = proc.meta
      /\ proc'.informed = proc.informed /\ proc'.item = proc.item /\ proc'.conn = proc.conn
    BY DEF Inv, TypeOK, Memory, Phase, Following
<1>2. TypeOK'
    BY <1>1 DEF Inv, TypeOK, LivesSame
<1>3. FileRight' /\ MemoryRight'
  <2>1. Followed' = Followed /\ SmGrows
      BY <1>1, SmSame DEF Followed, Inv
  <2> QED
      BY <1>1, <2>1, FileStays DEF Inv, MemoryRight, Following
<1>4. NextId' = NextId
    BY <1>1 DEF NextId
<1>5. StreamRight'
  <2>1. Published(NextId)' = Published(NextId)
      BY <1>4 DEF Published
  <2> QED
      BY <1>1, <1>4, <2>1 DEF Inv, StreamRight, Reading, InStream, InHand
<1>6. KeysLeft' /\ CacheInStep'
    BY <1>1 DEF Inv, KeysLeft, Made, LivesSame, CacheInStep
<1>7. AccountedFor'
    BY AccountStays DEF Inv
<1>8. SentOnce'
  <2> SUFFICES ASSUME NEW i \in Id
               PROVE  Spent(i)' <= used'.lives /\ (Spent(i)' = used'.lives => Passed(i)')
      BY <1>1 DEF SentOnce
  <2>1. CASE i = j
    <3>1. Spent(i) < used.lives /\ Spent(i) \in Nat /\ used.lives \in Nat
        BY <2>1, InHandIs, SpentIs DEF Inv, InHand
    <3>2. Spent(i)' <= used'.lives
      <4>1. Spent(i)' \in Nat /\ Spent(i)' <= Spent(i) + 1 /\ used'.lives = used.lives
          BY <2>1 DEF Sends, LivesSame
      <4> QED
          BY <3>1, <4>1
    <3>3. Passed(i)'
      <4>1. disk.cursor # None
        <5>1. disk.cursor = [run |-> proc.run, gen |-> proc.conn.gen, seq |-> proc.conn.seq]
            BY DEF Inv, StreamRight, Reading, InHand
        <5>2. proc.run \in Run /\ proc.conn.gen \in Gen /\ proc.conn.seq \in Seq0
            BY <2>1, IdIs, MemoryIs DEF NextId, Inv, TypeOK
        <5> QED
            BY <5>1, <5>2, CursorSet
      <4>2. i[1] = proc'.run
          BY <1>1, <2>1 DEF NextId
      <4> QED
          BY <1>1, <1>4, <2>1, <4>1, <4>2 DEF Passed
    <3> QED
        BY <3>2, <3>3
  <2>2. CASE i # j
    <3>1. Spent(i)' = Spent(i) /\ used'.lives = used.lives
        BY <2>2 DEF Sends, LivesSame
    <3>2. Passed(i) => Passed(i)'
        BY <1>1, <2>2 DEF Passed, Published
    <3> QED
        BY <3>1, <3>2 DEF Inv, SentOnce, Following
  <2> QED
      BY <2>1, <2>2
<1> QED
    BY <1>2, <1>3, <1>5, <1>6, <1>7, <1>8 DEF Inv

LEMMA ForwardStep ==
  ASSUME Inv, Forward
  PROVE  Inv'
<1>1. /\ proc.phase = "forward" /\ proc' = [proc EXCEPT !.phase = "forwarded"]
      /\ UNCHANGED <<sm, disk, late, failed, jumped, used>>
    BY DEF Forward, history
<1>2. PICK j \in Id : j = NextId
    BY <1>1, InHandIs DEF InHand
<1>3. proc.item.external_event_id = j /\ (Forwardable(Script[j[3]]) => Accepts(proc.item))
    BY <1>1, <1>2, InHandIs DEF InHand
<1>4. NextId' = j
    BY <1>1, <1>2 DEF Inv, TypeOK, Memory, NextId
<1>5. CASE Accepts(proc.item)
  <2>1. rows' = [rows EXCEPT ![j] = @ + 1]
      BY <1>3, <1>5 DEF Forward, StoreReading
  <2>2. Sends(j) /\ rows' \in [Id -> Nat] /\ \A i \in Id : rows[i] <= rows'[i]
      BY <1>1, <2>1, RowMore DEF Inv
  <2>3. rows'[j] > 0
      BY <2>1 DEF Inv, TypeOK
  <2>4. Done(NextId)'
      BY <1>4, <2>3 DEF Done
  <2> QED
      BY <1>1, <1>2, <2>2, <2>4, UsedSame, Forwarded DEF Inv, TypeOK
<1>6. CASE ~Accepts(proc.item)
  <2>1. rows' = rows
      BY <1>6 DEF Forward
  <2>2. Sends(j) /\ rows' \in [Id -> Nat] /\ \A i \in Id : rows[i] <= rows'[i]
      BY <1>1, <2>1, SendsNothing DEF Inv, TypeOK
  <2>3. Done(NextId)'
      BY <1>3, <1>4, <1>6 DEF Done
  <2> QED
      BY <1>1, <1>2, <2>2, <2>3, UsedSame, Forwarded DEF Inv, TypeOK
<1> QED
    BY <1>5, <1>6

LEMMA ForwardFailsStep ==
  ASSUME Inv, ForwardFails
  PROVE  Inv'
<1>1. /\ proc.phase = "forward" /\ proc' = [proc EXCEPT !.phase = "forwarded"]
      /\ UNCHANGED <<sm, disk, jumped, rows>>
      /\ failed' = failed \cup {proc.item.external_event_id}
    BY DEF ForwardFails, platform
<1>2. PICK j \in Id : j = NextId
    BY <1>1, InHandIs DEF InHand
<1>3. PICK t \in Items : t = proc.item /\ t.external_event_id = j
    BY <1>1, <1>2, InHandIs DEF InHand
<1>4. Done(NextId)'
  <2>1. NextId' = j
      BY <1>1, <1>2 DEF Inv, TypeOK, Memory, NextId
  <2> QED
      BY <1>1, <1>3, <2>1 DEF Done
<1>5. /\ Sends(j) /\ late' \subseteq Items /\ IsFiniteSet(late')
      /\ \A u \in late' : u.external_event_id \in Id
  <2>1. CASE late' = late
      BY <1>1, <2>1, SendsNothing DEF Inv, TypeOK
  <2>2. CASE late' = late \cup {t}
      BY <1>1, <1>3, <2>2, LateMore DEF Inv
  <2> QED
      BY <1>3, <2>1, <2>2 DEF ForwardFails, platform
<1>6. LivesSame
  <2> DEFINE f == used.faults + 1 l == used.late + 1
  <2>1. used' = [used EXCEPT !.faults = f] \/ used' = [used EXCEPT !.faults = f, !.late = l]
      BY DEF ForwardFails
  <2>2. f \in Nat /\ l \in Nat /\ used \in [lives : 0..MaxLives, faults : Nat, late : Nat]
      BY DEF Inv, TypeOK
  <2> HIDE DEF f, l
  <2> QED
      BY <2>1, <2>2 DEF LivesSame
<1>7. rows' \in [Id -> Nat] /\ \A i \in Id : rows[i] <= rows'[i]
    BY <1>1 DEF Inv, TypeOK
<1> QED
    BY <1>1, <1>2, <1>4, <1>5, <1>6, <1>7, Forwarded

LEMMA ArriveStep ==
  ASSUME Inv, Arrive
  PROVE  Inv'
<1>1. PICK t \in late :
        /\ late' = late \ {t}
        /\ IF Accepts(t) THEN UpsertDevice(t) /\ StoreReading(t)
           ELSE UNCHANGED <<rows, devices>>
    BY DEF Arrive
<1> DEFINE j == t.external_event_id
<1>2. UNCHANGED <<sm, disk, proc, failed, jumped, used>>
    BY DEF Arrive, history
<1>3. j \in Id /\ (rows' = rows \/ rows' = [rows EXCEPT ![j] = @ + 1])
    BY <1>1 DEF Inv, TypeOK, StoreReading
<1> HIDE DEF j
<1>4. /\ rows' \in [Id -> Nat] /\ \A i \in Id : rows[i] <= rows'[i]
      /\ rows'[j] <= rows[j] + 1 /\ \A i \in Id : i # j => rows'[i] = rows[i]
    BY <1>3 DEF Inv, TypeOK
<1>5. /\ late' \subseteq Items /\ IsFiniteSet(late')
      /\ \A u \in late' : u.external_event_id \in Id
    BY <1>1, FS_RemoveElement DEF Inv, TypeOK
<1>6. TypeOK'
    BY <1>2, <1>4, <1>5 DEF Inv, TypeOK
<1>7. ASSUME NEW i \in Id PROVE Spent(i)' <= Spent(i) /\ Spent(i)' \in Nat
  <2>1. CASE i # j
    <3>1. LateOf(i)' = LateOf(i)
        BY <1>1, <2>1 DEF LateOf, j
    <3>2. Spent(i)' = Spent(i)
        BY <1>4, <2>1, <3>1 DEF Spent
    <3> QED
        BY <3>2, SpentIs DEF Inv
  <2>2. CASE i = j
    <3>1. LateOf(j)' = LateOf(j) \ {t} /\ t \in LateOf(j)
        BY <1>1 DEF LateOf, j
    <3>2. /\ IsFiniteSet(LateOf(j)) /\ Cardinality(LateOf(j)) \in Nat
          /\ rows[j] \in Nat /\ rows'[j] \in Nat
        BY <1>3, <1>4, SpentIs DEF Inv
    <3>3. /\ Cardinality(LateOf(j) \ {t}) = Cardinality(LateOf(j)) - 1
          /\ Cardinality(LateOf(j) \ {t}) \in Nat
        BY <3>1, <3>2, FS_RemoveElement, FS_CardinalityType
    <3>4. Spent(j)' = rows'[j] + Cardinality(LateOf(j) \ {t})
        BY <3>1 DEF Spent
    <3> QED
        BY <1>4, <2>2, <3>2, <3>3, <3>4 DEF Spent
  <2> QED
      BY <2>1, <2>2
<1>8. FileRight' /\ MemoryRight' /\ KeysLeft' /\ CacheInStep'
  <2>1. SmGrows /\ Followed' = Followed
      BY <1>2, SmSame DEF Inv, Followed
  <2> QED
      BY <1>2, <2>1, FileStays DEF Inv, MemoryRight, KeysLeft, Made, CacheInStep
<1>9. AccountedFor' /\ \A i \in Id : Done(i) => Done(i)'
    BY <1>2, <1>4, AccountStays DEF Inv
<1>10. StreamRight'
  <2>1. NextId' = NextId /\ Published(NextId)' = Published(NextId)
        /\ (Reading' <=> Reading) /\ (InStream' <=> InStream)
      BY <1>2 DEF NextId, Published, Reading, InStream
  <2>2. NextId \in Id /\ Done(NextId) => Done(NextId)'
      BY <1>9, <2>1 DEF Done
  <2> QED
      BY <1>2, <2>1, <2>2 DEF Inv, StreamRight, InHand
<1>11. SentOnce'
  <2> SUFFICES ASSUME NEW i \in Id
               PROVE  /\ Spent(i)' <= used'.lives
                      /\ proc'.phase \in {"ensure", "creating"} => Spent(i)' < used'.lives
                      /\ proc'.phase \in Following /\ Spent(i)' = used'.lives => Passed(i)'
      BY DEF SentOnce
  <2>1. /\ Spent(i)' <= Spent(i) /\ Spent(i)' \in Nat /\ Spent(i) \in Nat
        /\ used.lives \in Nat /\ used' = used /\ proc' = proc
      BY <1>2, <1>7, SpentIs DEF Inv
  <2>2. /\ Spent(i) <= used.lives
        /\ proc.phase \in {"ensure", "creating"} => Spent(i) < used.lives
        /\ proc.phase \in Following /\ Spent(i) = used.lives => Passed(i)
      BY DEF Inv, SentOnce
  <2>3. Passed(i) => Passed(i)'
      BY <1>2 DEF Passed, Published, NextId
  <2>4. Spent(i)' = used.lives => Spent(i) = used.lives
      BY <2>1, <2>2
  <2>5. Spent(i)' <= used.lives /\ (Spent(i) < used.lives => Spent(i)' < used.lives)
      BY <2>1, <2>2
  <2> QED
      BY <2>1, <2>2, <2>3, <2>4, <2>5
<1> QED
    BY <1>6, <1>8, <1>9, <1>10, <1>11 DEF Inv

-----------------------------------------------------------------------------
(* Lives                                                                   *)

Dead(n, m) == n = [Off EXCEPT !.mode = m]
Begun(n, m, s) == n = [Off EXCEPT !.phase = "ensure", !.mode = m, !.state = s]

LEMMA OffIs ==
  ASSUME NEW m \in Modes, NEW s \in State, NEW n
  PROVE  /\ Dead(n, m) =>
              n \in Memory /\ n.phase = "off" /\ n.mode = m /\ n.item = None
         /\ Begun(n, m, s) =>
              /\ n \in Memory /\ n.phase = "ensure" /\ n.mode = m /\ n.item = None
              /\ n.state = s /\ n.meta = NoMeta /\ n.informed = FALSE
<1>1. /\ NoState \in State /\ Closed \in Connection /\ NoMeta \in Cache
      /\ "off" \in Phase /\ "ensure" \in Phase
    BY NoMetaIs, BridgeAssumption DEF NoState, State, Closed, Connection, Seq0, Phase
<1> HIDE DEF NoState, Closed, NoMeta
<1> QED
    BY <1>1 DEF Off, Memory, Dead, Begun

LEMMA StartStep ==
  ASSUME Inv, Start
  PROVE  Inv'
<1>1. /\ proc' \in Memory /\ proc'.phase = "ensure" /\ proc'.mode = proc.mode
      /\ proc'.item = None /\ proc'.state = disk /\ proc'.meta = NoMeta
      /\ proc'.informed = FALSE
  <2>1. proc.mode \in Modes /\ disk \in State
      BY MemoryIs DEF Inv, TypeOK
  <2>2. Begun(proc', proc.mode, disk)
      BY DEF Start, Begun
  <2> QED
      BY <2>1, <2>2, OffIs
<1>2. UNCHANGED <<sm, disk, rows, late, failed, jumped>>
    BY DEF Start, platform, history
<1>3. /\ used' \in [lives : 0..MaxLives, faults : Nat, late : Nat]
      /\ used'.lives = used.lives + 1 /\ used.lives \in Nat
  <2> DEFINE l == used.lives + 1
  <2>1. used.lives \in Nat /\ l \in 0..MaxLives
      BY BridgeAssumption DEF Start, Inv, TypeOK
  <2>2. used' = [used EXCEPT !.lives = l]
      BY DEF Start
  <2> HIDE DEF l
  <2>3. used' \in [lives : 0..MaxLives, faults : Nat, late : Nat] /\ used'.lives = l
      BY <2>1, <2>2 DEF Inv, TypeOK
  <2> QED
      BY <2>1, <2>3 DEF l
<1>4. TypeOK'
    BY <1>1, <1>2, <1>3 DEF Inv, TypeOK
<1>5. FileRight' /\ MemoryRight'
  <2>1. Followed' = Followed /\ SmGrows
      BY <1>1, <1>2, SmSame DEF Followed, Inv
  <2> QED
      BY <1>1, <1>2, <2>1, FileStays DEF Inv, MemoryRight, Following
<1>6. StreamRight' /\ CacheInStep'
    BY <1>1 DEF StreamRight, Reading, InStream, InHand, CacheInStep
<1>7. KeysLeft'
  <2>1. Cardinality(Made)' = Cardinality(Made) /\ Cardinality(Made) \in Nat
      BY <1>2, MadeIs DEF Made
  <2>2. Cardinality(Made) <= used.lives
      BY DEF Inv, KeysLeft
  <2> QED
      BY <1>1, <1>3, <2>1, <2>2 DEF KeysLeft
<1>8. SentOnce'
  <2>1. ASSUME NEW i \in Id PROVE Spent(i)' < used'.lives /\ Spent(i)' <= used'.lives
    <3>1. Spent(i)' = Spent(i) /\ Spent(i) \in Nat /\ Spent(i) <= used.lives
        BY <1>2, SpentSame, SpentIs DEF Inv, SentOnce
    <3> QED
        BY <1>3, <3>1
  <2> QED
      BY <1>1, <2>1 DEF SentOnce, Following
<1>9. AccountedFor'
    BY <1>2 DEF Inv, AccountedFor
<1> QED
    BY <1>4, <1>5, <1>6, <1>7, <1>8, <1>9 DEF Inv

LEMMA CrashStep ==
  ASSUME Inv, Crash
  PROVE  Inv'
<1>1. /\ proc' \in Memory /\ proc'.phase = "off" /\ proc'.mode = proc.mode
      /\ proc'.item = None
  <2>1. proc.mode \in Modes /\ disk \in State
      BY MemoryIs DEF Inv, TypeOK
  <2> QED
      BY <2>1, OffIs DEF Crash, Dead
<1>2. UNCHANGED <<sm, disk, rows, failed, jumped>>
    BY DEF Crash, history
<1>3. LivesSame
  <2>1. CASE used' = used
      BY <2>1, UsedSame DEF Inv
  <2>2. CASE used' = [used EXCEPT !.late = @ + 1]
      BY <2>2 DEF Inv, TypeOK, LivesSame
  <2> QED
      BY <2>1, <2>2 DEF Crash
<1>4. /\ late' \subseteq Items /\ IsFiniteSet(late')
      /\ \A u \in late' : u.external_event_id \in Id
      /\ \A i \in Id : Spent(i)' <= used.lives
  <2>1. CASE late' = late
    <3>1. \A i \in Id : Spent(i)' = Spent(i)
        BY <1>2, <2>1, SpentSame
    <3> QED
        BY <2>1, <3>1 DEF Inv, TypeOK, SentOnce
  <2>2. CASE proc.phase = "forward" /\ late' = late \cup {proc.item}
    <3>1. PICK j \in Id : j = NextId
        BY <2>2, InHandIs DEF InHand
    <3>2. PICK t \in Items : t = proc.item /\ t.external_event_id = j
        BY <2>2, <3>1, InHandIs DEF InHand
    <3>3. /\ Sends(j) /\ late' \subseteq Items /\ IsFiniteSet(late')
          /\ \A u \in late' : u.external_event_id \in Id
        BY <1>2, <2>2, <3>2, LateMore DEF Inv
    <3>4. Spent(j) < used.lives /\ Spent(j) \in Nat /\ used.lives \in Nat
        BY <2>2, <3>1, InHandIs, SpentIs DEF Inv, InHand
    <3>5. Spent(j)' <= used.lives
      <4>1. Spent(j)' \in Nat /\ Spent(j)' <= Spent(j) + 1
          BY <3>3 DEF Sends
      <4> QED
          BY <3>4, <4>1
    <3>6. ASSUME NEW i \in Id PROVE Spent(i)' <= used.lives
        BY <3>3, <3>5 DEF Sends, Inv, SentOnce
    <3> QED
        BY <3>3, <3>6
  <2> QED
      BY <2>1, <2>2 DEF Crash
<1>5. TypeOK'
    BY <1>1, <1>2, <1>3, <1>4 DEF Inv, TypeOK, LivesSame
<1>6. FileRight' /\ MemoryRight'
  <2>1. Followed' = Followed /\ SmGrows
      BY <1>1, <1>2, SmSame DEF Followed, Inv
  <2> QED
      BY <1>1, <1>2, <2>1, FileStays DEF Inv, MemoryRight, Following
<1>7. StreamRight' /\ CacheInStep'
    BY <1>1 DEF StreamRight, Reading, InStream, InHand, CacheInStep
<1>8. KeysLeft' /\ AccountedFor'
    BY <1>1, <1>2, <1>3 DEF Inv, KeysLeft, Made, LivesSame, AccountedFor
<1>9. SentOnce'
    BY <1>1, <1>3, <1>4 DEF SentOnce, LivesSame, Following
<1> QED
    BY <1>5, <1>6, <1>7, <1>8, <1>9 DEF Inv

-----------------------------------------------------------------------------
(* The invariant                                                           *)

LEMMA InitInv == Init => Inv
<1> SUFFICES ASSUME Init PROVE Inv
    OBVIOUS
<1>1. PICK m \in Modes : proc = [Off EXCEPT !.mode = m]
    BY DEF Init
<1>2. NoState \in State /\ NoState.cursor = None
    BY DEF NoState, State
<1>3. proc \in Memory /\ proc.phase = "off" /\ proc.item = None
    BY <1>1, <1>2, OffIs DEF Dead
<1>4. sm \in [Run -> SmRun] /\ \A k \in Key : sm[k].made = FALSE
  <2> DEFINE st(r) == IF r = Shared /\ proc.mode = "shared" THEN "running" ELSE "paused"
             md(r) == r = Shared /\ proc.mode = "shared"
  <2>1. sm = [r \in Run |-> [made |-> md(r), gen |-> 0, count |-> 0, status |-> st(r)]]
      BY DEF Init
  <2>2. 0 \in Gen /\ 0 \in Seq0
      BY BridgeAssumption DEF Gen, Seq0
  <2>3. ASSUME NEW r \in Run PROVE md(r) \in BOOLEAN /\ st(r) \in {"running", "paused"}
      OBVIOUS
  <2>4. ASSUME NEW k \in Key PROVE md(k) = FALSE /\ k \in Run
      BY BridgeAssumption DEF Run
  <2> HIDE DEF st, md
  <2> QED
      BY <2>1, <2>2, <2>3, <2>4 DEF SmRun
<1>5. TypeOK
  <2>1. /\ rows = [i \in Id |-> 0] /\ late = {} /\ disk = NoState
        /\ used = [lives |-> 0, faults |-> 0, late |-> 0]
      BY DEF Init
  <2>2. rows \in [Id -> Nat] /\ used \in [lives : 0..MaxLives, faults : Nat, late : Nat]
      BY <2>1, BridgeAssumption
  <2>3. late \subseteq Items /\ IsFiniteSet(late) /\ \A t \in late : t.external_event_id \in Id
      BY <2>1, FS_EmptySet
  <2> QED
      BY <1>2, <1>3, <1>4, <2>1, <2>2, <2>3 DEF TypeOK
<1>6. disk.cursor = None
    BY <1>2 DEF Init
<1>7. FileRight /\ MemoryRight /\ StreamRight /\ AccountedFor /\ CacheInStep
    BY <1>3, <1>6 DEF FileRight, MemoryRight, StreamRight, AccountedFor, CacheInStep,
         Following, Reading, InStream, InHand
<1>8. KeysLeft
  <2>1. Made = {}
      BY <1>4 DEF Made
  <2>2. Cardinality(Made) = 0 /\ used.lives = 0
      BY <2>1, FS_EmptySet DEF Init
  <2> QED
      BY <1>3, <2>2 DEF KeysLeft
<1>9. SentOnce
  <2>1. ASSUME NEW i \in Id PROVE Spent(i) = 0
    <3>1. LateOf(i) = {} /\ rows[i] = 0
        BY DEF Init, LateOf
    <3> QED
        BY <3>1, FS_EmptySet DEF Spent
  <2>2. used.lives = 0
      BY DEF Init
  <2> QED
      BY <1>3, <2>1, <2>2 DEF SentOnce, Following
<1> QED
    BY <1>5, <1>7, <1>8, <1>9 DEF Inv

LEMMA StutterStep ==
  ASSUME Inv, UNCHANGED vars
  PROVE  Inv'
BY SmSame, UsedSame, StaysQuiet, KeysStay, Quietly
   DEF Inv, vars, platform, history, PlatformSame

LEMMA NextInv == Inv /\ [Next]_vars => Inv'
<1> SUFFICES ASSUME Inv, [Next]_vars PROVE Inv'
    OBVIOUS
<1>1. CASE \E r \in Run : Publish(r) \/ ResetRun(r)
    BY <1>1, PublishStep, ResetStep
<1>2. CASE Start \/ Crash
    BY <1>2, StartStep, CrashStep
<1>3. CASE UseRun \/ AskForRun \/ RunCreated \/ RunAnswered \/ CreateFails
    BY <1>3, UseRunStep, AskStep, CreatedStep, AnsweredStep, CreateFailsStep
<1>4. CASE Open \/ GivesUp \/ Disconnected \/ BackedOff
    BY <1>4, OpenStep, WaitStep
<1>5. CASE CursorExpired \/ StreamReset \/ HeartbeatBump
    BY <1>5, DropStep
<1>6. CASE Snapshot \/ Play \/ PlayFails
    BY <1>6, SnapshotStep, PlayStep, PlayFailsStep
<1>7. CASE SkipEvent \/ TakeObservation \/ SaveCursor
    BY <1>7, SkipStep, TakeStep, SaveStep
<1>8. CASE Forward \/ ForwardFails \/ Arrive
    BY <1>8, ForwardStep, ForwardFailsStep, ArriveStep
<1>9. CASE UNCHANGED vars
    BY <1>9, StutterStep
<1> QED
    BY <1>1, <1>2, <1>3, <1>4, <1>5, <1>6, <1>7, <1>8, <1>9 DEF Next, Process

LEMMA InvAlways == Spec => []Inv
BY InitInv, NextInv, PTL DEF Spec

-----------------------------------------------------------------------------
(* Theorems                                                                *)

(* bridge._run_once, _forward and _save: whatever fails and whenever the   *)
(* process dies, an observation that the mapper and the contract take is   *)
(* never below the saved cursor unless it is on the platform, its request  *)
(* has failed, or it was older than the snapshot.                          *)
THEOREM CursorClaimsNoMore == Spec => []AccountedFor
<1>1. Inv => AccountedFor
    BY DEF Inv
<1> QED
    BY <1>1, InvAlways, PTL

(* No observation has more rows than the bridge has had lives: within one  *)
(* life it is sent once, however often streams break, cursors expire, the  *)
(* run is reset and requests are carried out late.                         *)
THEOREM SentOncePerLife == Spec => []OncePerLife
<1>1. Inv => OncePerLife
  <2> SUFFICES ASSUME Inv, NEW i \in Id PROVE rows[i] <= used.lives
      BY DEF OncePerLife
  <2>1. Spent(i) <= used.lives
      BY DEF Inv, SentOnce
  <2>2. rows[i] \in Nat /\ Cardinality(LateOf(i)) \in Nat /\ used.lives \in Nat
      BY SpentIs DEF Inv
  <2> QED
      BY <2>1, <2>2 DEF Spent
<1> QED
    BY <1>1, InvAlways, PTL

(* mapper.DeviceMeta: at the cursor the cache says of each device what the *)
(* state machine says there, and after a restart nothing until an update.  *)
THEOREM CacheGoesWithCursor == Spec => []CacheInStep
<1>1. Inv => CacheInStep
    BY DEF Inv
<1> QED
    BY <1>1, InvAlways, PTL

(* stream.reset and heartbeats: neither the cursor nor an observation that *)
(* is being forwarded is of another generation or run than the bridge's.   *)
THEOREM ResetIsBarrier == Spec => []GenerationBarrier
<1>1. Inv => GenerationBarrier
  <2> SUFFICES ASSUME Inv PROVE GenerationBarrier
      OBVIOUS
  <2>1. disk.cursor # None => disk.cursor.gen = disk.gen
      BY DEF Inv, FileRight
  <2>2. ASSUME proc.item # None
        PROVE  /\ proc.item.external_event_id[1] = proc.run
               /\ proc.item.external_event_id[2] = proc.state.gen
    <3>1. proc.phase \in InHand
        BY <2>2 DEF Inv, StreamRight
    <3>2. proc.item.external_event_id = NextId /\ NextId \in Id
        BY <3>1, InHandIs
    <3>3. disk.cursor = [run |-> proc.run, gen |-> proc.conn.gen, seq |-> proc.conn.seq]
        BY <3>1 DEF Inv, StreamRight, Reading
    <3>4. proc.run \in Run /\ proc.conn.gen \in Gen /\ proc.conn.seq \in Seq0
        BY <3>2, IdIs, MemoryIs DEF NextId, Inv, TypeOK
    <3>5. disk.cursor # None /\ disk.cursor.gen = proc.conn.gen
        BY <3>3, <3>4, CursorSet
    <3>6. proc.state = disk
        BY <3>1 DEF Inv, MemoryRight, InHand, Following
    <3> QED
        BY <2>1, <3>2, <3>5, <3>6 DEF NextId
  <2> QED
      BY <2>1, <2>2 DEF GenerationBarrier
<1> QED
    BY <1>1, InvAlways, PTL
=============================================================================
