---------------------------- MODULE LivePipeline ----------------------------
(***************************************************************************)
(* The dashboard's import (dashboard/live/pipeline.py): LivePipeline and   *)
(* the run() thread of its _Worker.  A worker reads a run of the state     *)
(* machine (snapshot, history, stream), stores each observation on the     *)
(* platform, posts it to the agent as an event with the id of the stored   *)
(* reading, and then moves the agent's clock.  A journal file remembers    *)
(* what became of each observation.                                        *)
(*                                                                         *)
(* Every request is a step; a worker whose stop flag is set finishes the   *)
(* request it is in and ends at its next one.  POST /ingest/telemetry is   *)
(* not idempotent and the platform commits its readings one by one, so it  *)
(* is a request of its own that may outlive the worker that sent it.       *)
(*                                                                         *)
(* External: the state machine, which replays a recording, so that the     *)
(* observation with sequence number o is received at scenario time At[o].  *)
(***************************************************************************)
EXTENDS Integers, FiniteSets

CONSTANTS
  Worker,
  None,
  MaxObs, MaxTime,   \* bounds: observations of a generation, scenario time
  MaxGen,            \* bound: resets of the run
  At,                \* received_sim_time_ms of each observation
  DeviceOf,          \* the device of each observation
  Unmapped,          \* observations the mapper has no telemetry for
  Foreign,           \* devices of other runs on the platform
  Returns,           \* the answers to an ingestion that may come, of Answers
  BatchMax,          \* observations in a batch of the stream (50)
  ChunkMax,          \* observations in a chunk of the history (100)
  MaxFaults, MaxLate, MaxCrashes, MaxLosses, MaxConnects,  \* bounds
  MaxBlind,          \* bound on blind failures, among the MaxFaults
  MaxUpsets          \* bound on crashes, losses and resets together

Obs == 1..MaxObs
Time == 0..MaxTime
Gen == 0..MaxGen
Flag == {"pending", "accepted", "reading", "posted"}
Answers == {"readings", "count", "malformed"}
Entry == [rec : [Obs -> SUBSET Flag], clock : Time]   \* of a journal

ASSUME PipelineAssumption ==
  /\ MaxObs \in Nat /\ MaxTime \in Nat /\ MaxGen \in Nat
  /\ At \in [Obs -> Time]
  /\ \A o, p \in Obs : o < p => At[o] <= At[p]
  /\ Unmapped \subseteq Obs
  /\ Returns \subseteq Answers /\ Returns # {}
  /\ BatchMax \in Nat \ {0} /\ ChunkMax \in Nat \ {0}
  /\ None \notin Gen /\ None \notin Worker /\ None \notin Entry

VARIABLES
  run,       \* the state machine: generation, scenario time, observations published
  rows,      \* telemetry readings stored for each observation, counted up to 2
  requests,  \* ingestion requests: who waits for it, generation, items to store
  events,    \* the events of each agent session state-<run>-g<generation>
  clock,     \* time_ms of each agent session, -1 where there is none
  journal,   \* the journal file of each generation
  worker,    \* the threads: their position and memory
  used       \* faults used up, for the bounds

vars == <<run, rows, requests, events, clock, journal, worker, used>>
outside == <<run, rows, requests, events, clock>>

NoRecords == [o \in Obs |-> {}]

Least(S) == CHOOSE o \in S : \A p \in S : o <= p
LatestAt(S) == IF S = {} THEN 0 ELSE At[CHOOSE o \in S : \A p \in S : p <= o]
Mark(rec, S, f) == [o \in Obs |-> IF o \in S THEN rec[o] \cup {f} ELSE rec[o]]

Off == [phase |-> "off", stop |-> "no", gen |-> None, rec |-> NoRecords,
        clock |-> 0, devices |-> {}, seq |-> 0, pending |-> {}, batch |-> {},
        recover |-> FALSE, sent |-> FALSE, after |-> 0, goal |-> 0,
        next |-> "stream", state |-> "connecting"]

Init ==
  /\ run = [gen |-> 0, time |-> 0, count |-> 0]
  /\ rows = [g \in Gen |-> [o \in Obs |-> 0]]
  /\ requests = {}
  /\ events = [g \in Gen |-> {}]
  /\ clock = [g \in Gen |-> -1]
  /\ journal = [g \in Gen |-> None]
  /\ worker = [w \in Worker |-> Off]
  /\ used = [fault |-> 0, late |-> 0, crash |-> 0, forget |-> 0, loss |-> 0,
             connect |-> 0, blind |-> 0]

Use(c, max) == used[c] < max /\ used' = [used EXCEPT ![c] = @ + 1]
(* What upsets the thread from outside; a reset of the run counts twice. *)
Upset(n) == 2 * run.gen + used.crash + used.forget + used.loss + n <= MaxUpsets

-----------------------------------------------------------------------------
(* The state machine.  It publishes what is due before its clock moves on. *)

Due == run.count < MaxObs /\ At[run.count + 1] <= run.time

Publish ==
  /\ Due
  /\ run' = [run EXCEPT !.count = @ + 1]
  /\ UNCHANGED <<rows, requests, events, clock, journal, worker, used>>

Advance ==
  /\ ~Due /\ run.time < MaxTime
  /\ run' = [run EXCEPT !.time = @ + 1]
  /\ UNCHANGED <<rows, requests, events, clock, journal, worker, used>>

ResetRun ==
  /\ run.gen < MaxGen /\ Upset(2)
  /\ run' = [gen |-> run.gen + 1, time |-> 0, count |-> 0]
  /\ UNCHANGED <<rows, requests, events, clock, journal, worker, used>>

(* ingest_telemetry commits one reading after the other. *)
Arrive ==
  /\ \E r \in requests :
       /\ r.items # {}
       /\ LET o == Least(r.items)
              rest == r.items \ {o}
              left == [r EXCEPT !.items = rest]
          IN /\ rows' = [rows EXCEPT ![r.gen][o] = IF @ < 2 THEN @ + 1 ELSE @]
             /\ requests' = (requests \ {r}) \cup
                  (IF rest = {} /\ r.from = None THEN {} ELSE {left})
  /\ UNCHANGED <<run, events, clock, journal, worker, used>>

-----------------------------------------------------------------------------
(* The worker's view of the batch it processes. *)

Entries(m) == {o \in m.batch \ Unmapped : "posted" \notin m.rec[o]}
Unresolved(m) == {o \in Entries(m) : "reading" \notin m.rec[o]}

UncertainIfAccepted(m) == {o \in Unresolved(m) : "accepted" \in m.rec[o]}
Uncertain(m) ==
  {o \in Unresolved(m) : m.recover \/ m.rec[o] \cap {"pending", "accepted"} # {}}

Resolved(m) ==
  [m EXCEPT !.phase = IF Unresolved(m) = {} THEN "post" ELSE "ingest"]

(* process(): what is uncertain is read back first; devices are looked up   *)
(* if none is known.                                                        *)
Begin(m, batch, recover, next, goal) ==
  LET n == [m EXCEPT !.batch = batch, !.recover = recover, !.sent = FALSE,
                     !.next = next, !.goal = goal]
  IN IF Uncertain(n) = {} THEN Resolved(n)
     ELSE [n EXCEPT !.phase = IF n.devices = {} THEN "devices" ELSE "readback"]

(* The thread's except clause: memory stays, and it starts over. *)
Error(m) ==
  [m EXCEPT !.phase = "connect", !.state = "error", !.pending = {},
            !.batch = {}, !.recover = FALSE, !.sent = FALSE, !.after = 0,
            !.goal = 0, !.next = "stream"]

(* check() lets a thread through that is not stopped; one whose flag is set  *)
(* during a request still handles that request's answer.                    *)
Asks(w, phase) == worker[w].phase = phase /\ worker[w].stop # "done"
Becomes(w, m) ==
  worker' = [worker EXCEPT ![w] =
    [m EXCEPT !.stop = IF @ = "requested" THEN "done" ELSE @]]

Save(m) == journal' = [journal EXCEPT ![m.gen] = [rec |-> m.rec, clock |-> m.clock]]

-----------------------------------------------------------------------------
(* connect(): a browser asks for the run.  Asking for another run in        *)
(* between stops the thread of this one, which the next connect replaces.   *)

Connect(w) ==
  /\ worker[w].phase = "off"
  /\ Use("connect", MaxConnects)
  /\ worker' = [v \in Worker |->
       CASE v = w -> [Off EXCEPT !.phase = "connect"]
         [] v # w /\ worker[v].phase # "off" /\ worker[v].stop = "no" ->
              [worker[v] EXCEPT !.stop = "requested"]
         [] OTHER -> worker[v]]
  /\ UNCHANGED <<outside, journal>>

(* Steps that make no request are not cut short by the stop flag. *)
Local(m) == \/ m.phase = "ingest"
            \/ m.phase = "post" /\ Entries(m) = {}
Stop(w) ==
  /\ worker[w].stop # "no"
  /\ worker[w].phase \notin {"off", "ingesting"} /\ ~Local(worker[w])
  /\ worker' = [worker EXCEPT ![w] = Off]
  /\ UNCHANGED <<outside, journal, used>>

(* The journal of the generation the snapshot names is loaded, unless the   *)
(* worker was there already.                                                *)
Loaded(m, g) ==
  IF m.gen = g THEN m
  ELSE [m EXCEPT !.gen = g, !.devices = {}, !.pending = {},
                 !.rec = IF journal[g] = None THEN NoRecords ELSE journal[g].rec,
                 !.clock = IF journal[g] = None THEN 0 ELSE journal[g].clock]

(* run() asks for a snapshot, and the stream may bring one. *)
Snapshot(w) ==
  /\ Asks(w, "connect") \/ Asks(w, "stream")
  /\ Becomes(w, [Loaded(worker[w], run.gen) EXCEPT
       !.phase = "session", !.state = "connecting",
       !.seq = run.count, !.goal = run.time])
  /\ UNCHANGED <<outside, journal, used>>

Started(g) == IF clock[g] = -1 THEN 0 ELSE clock[g]
StartSession(g) == clock' = [clock EXCEPT ![g] = Started(g)]

(* An agent whose clock is behind the journal has lost its database: what   *)
(* was posted is forgotten, so that it is posted again.                     *)
Repaired(m) ==
  IF Started(m.gen) < m.clock
  THEN [m EXCEPT !.rec = [o \in Obs |-> m.rec[o] \ {"posted"}],
                 !.clock = Started(m.gen)]
  ELSE m

OpenSession(w) ==
  /\ Asks(w, "session")
  /\ StartSession(worker[w].gen)
  /\ Becomes(w, [Repaired(worker[w]) EXCEPT !.phase = "history"])
  /\ UNCHANGED <<run, rows, requests, events, journal, used>>

(* backfill(): one chunk of the history up to the snapshot's time.  Pages   *)
(* and the chunks they are cut into are one thing here.                     *)
ChunkShort(m) ==
  {o \in 1..run.count : m.after < o /\ o < m.after + ChunkMax}
Chunk(m) ==
  {o \in 1..run.count : m.after < o /\ o <= m.after + ChunkMax}
AfterChunk(m) == IF m.after + ChunkMax < run.count THEN "history" ELSE "goal"
ReadHistory(w) ==
  /\ Asks(w, "history")
  /\ LET m == worker[w]
         n == [m EXCEPT !.after = m.after + ChunkMax]
         due == {o \in Chunk(m) : At[o] <= m.goal}
     IN Becomes(w,
          CASE m.gen # run.gen -> Error(m)
            [] m.gen = run.gen /\ due = {} -> [n EXCEPT !.phase = AfterChunk(m)]
            [] OTHER -> Begin(n, due, TRUE, AfterChunk(m), m.goal))
  /\ UNCHANGED <<outside, journal, used>>

-----------------------------------------------------------------------------
(* The stream *)

(* Observations are collected and processed when there are enough. *)
ReadEvent(w) ==
  /\ Asks(w, "stream")
  /\ worker[w].gen = run.gen /\ worker[w].seq < run.count
  /\ LET m == worker[w]
         waiting == m.pending \cup {m.seq + 1}
         n == [m EXCEPT !.seq = @ + 1, !.pending = waiting]
     IN Becomes(w, IF Cardinality(waiting) < BatchMax THEN n
                   ELSE Begin([n EXCEPT !.pending = {}], waiting, FALSE, "goal", 0))
  /\ UNCHANGED <<outside, journal, used>>

(* A heartbeat, or run.updated, carries the time between the observations   *)
(* before and after it in the stream.                                       *)
Heartbeat(w) ==
  /\ Asks(w, "stream")
  /\ worker[w].gen = run.gen
  /\ \E t \in 0..run.time :
       LET m == worker[w]
       IN /\ \A o \in 1..run.count : IF o <= m.seq THEN At[o] <= t ELSE t <= At[o]
          /\ Becomes(w, Begin([m EXCEPT !.pending = {}], m.pending, FALSE, "goal", t))
  /\ UNCHANGED <<outside, journal, used>>

(* A frame of another generation ends the stream, and so does the network. *)
StreamEnds(w) ==
  /\ Asks(w, "stream")
  /\ \/ worker[w].gen # run.gen /\ UNCHANGED used
     \/ worker[w].gen = run.gen /\ Use("fault", MaxFaults)
  /\ Becomes(w, [Error(worker[w]) EXCEPT !.state = "connecting"])
  /\ UNCHANGED <<outside, journal>>

-----------------------------------------------------------------------------
(* process() *)

Registered ==
  Foreign \cup UNION {{<<g, DeviceOf[o]>> : o \in {p \in Obs : rows[g][p] > 0}} : g \in Gen}

LoadDevices(w) ==
  /\ Asks(w, "devices")
  /\ Becomes(w, [worker[w] EXCEPT !.phase = "readback", !.devices = Registered])
  /\ UNCHANGED <<outside, journal, used>>

(* reconcile(): readings of devices it knows, read back from the platform. *)
Sought(m) == IF m.sent THEN Unresolved(m) ELSE Uncertain(m)
Found(m) ==
  {o \in Sought(m) : <<m.gen, DeviceOf[o]>> \in m.devices /\ rows[m.gen][o] > 0}
ReadBack(m, S) == [m EXCEPT !.rec = Mark(m.rec, S, "reading")]

ReadBackBeforeSending(w) ==
  /\ Asks(w, "readback") /\ ~worker[w].sent
  /\ Becomes(w, Resolved(ReadBack(worker[w], Found(worker[w]))))
  /\ UNCHANGED <<outside, journal, used>>

ReadBackAfterSending(w) ==
  /\ Asks(w, "readback") /\ worker[w].sent
  /\ LET m == ReadBack(worker[w], Found(worker[w]))
     IN /\ Save(m)
        /\ Becomes(w, IF Unresolved(m) = {} THEN Resolved(m) ELSE Error(m))
  /\ UNCHANGED <<outside, used>>

(* Accepted readings are waited for; what is missing is noted as pending    *)
(* and saved before it is sent.                                             *)
DoubtedTooLittle(rec, S) == rec
DoubtedTooMuch(rec, S) == Mark(rec, S, "accepted")
Doubted(rec, S) == Mark(rec, S, "pending")
AwaitsIds(m) == \E o \in Unresolved(m) : "accepted" \in m.rec[o]
PrepareIngest(w) ==
  /\ worker[w].phase = "ingest"
  /\ LET m == worker[w]
         n == [m EXCEPT !.rec = Doubted(m.rec, Unresolved(m)), !.phase = "send"]
     IN IF AwaitsIds(m)
        THEN /\ worker' = [worker EXCEPT ![w] = Error(m)]
             /\ UNCHANGED journal
        ELSE /\ Save(n)
             /\ worker' = [worker EXCEPT ![w] = n]
  /\ UNCHANGED <<outside, used>>

SendIngest(w) ==
  /\ Asks(w, "send")
  /\ requests' = requests \cup
       {[from |-> w, gen |-> worker[w].gen, items |-> Unresolved(worker[w])]}
  /\ Becomes(w, [worker[w] EXCEPT !.phase = "ingesting", !.sent = TRUE])
  /\ UNCHANGED <<run, rows, events, clock, journal, used>>

(* The answer acknowledges the batch.  It holds the readings, or it does     *)
(* not, and then they are looked up.                                        *)
Answered(w) ==
  /\ worker[w].phase = "ingesting"
  /\ \E r \in requests :
       /\ r.from = w /\ r.items = {}
       /\ requests' = requests \ {r}

Accepted(m) == Mark(m.rec, Unresolved(m), "accepted")
Acknowledged(m, returned) ==
  LET S == Unresolved(m)
  IN IF returned
     THEN [m EXCEPT !.rec = Mark(Accepted(m), S, "reading"), !.phase = "post",
                    !.devices = @ \cup {<<m.gen, DeviceOf[o]>> : o \in S}]
     ELSE [m EXCEPT !.rec = Accepted(m), !.phase = "devices"]

IngestAnswered(w) ==
  /\ Answered(w)
  /\ \E answer \in Returns \ {"malformed"} :
       LET m == Acknowledged(worker[w], answer = "readings")
       IN Save(m) /\ Becomes(w, m)
  /\ UNCHANGED <<run, rows, events, clock, used>>

(* A reading in the answer that is no object or lacks one raises an error   *)
(* between the mark and the save: the memory says accepted, the journal     *)
(* does not, and nothing is looked up.                                      *)
IngestMalformed(w) ==
  /\ Answered(w) /\ "malformed" \in Returns
  /\ Becomes(w, Error([worker[w] EXCEPT !.rec = Accepted(worker[w])]))
  /\ UNCHANGED <<run, rows, events, clock, journal, used>>

(* A thread that starts over keeps the devices it knew.  It fails blindly    *)
(* when it sent a reading of a device that is not in its list, and the list  *)
(* is not empty: the next round uses the list as it is and cannot find that  *)
(* reading.                                                                 *)
Blind(m) ==
  /\ m.devices # {}
  /\ \E o \in Unresolved(m) :
       "accepted" \notin m.rec[o] /\ <<m.gen, DeviceOf[o]>> \notin m.devices
Blindness(m) == IF Blind(m) THEN 1 ELSE 0

(* Of a request that ends without its answer the readings may be there, come *)
(* later or never come.  n counts blind failures.                           *)
GivesUp(w, n) ==
  /\ worker[w].phase = "ingesting"
  /\ used.fault < MaxFaults
  /\ LET R == {r \in requests : r.from = w}
     IN \/ /\ requests' = requests \ R
           /\ used' = [used EXCEPT !.fault = @ + 1, !.blind = @ + n]
        \/ /\ \E r \in R : r.items # {}
           /\ used.late < MaxLate
           /\ requests' = (requests \ R) \cup {[r EXCEPT !.from = None] : r \in R}
           /\ used' = [used EXCEPT !.fault = @ + 1, !.blind = @ + n, !.late = @ + 1]
  /\ UNCHANGED <<run, rows, events, clock, journal>>

(* A timeout, an HTTP error, a body that is no JSON or a count that is not   *)
(* the batch's: the readings are looked up among all devices.               *)
IngestLost(w) ==
  /\ GivesUp(w, 0)
  /\ Becomes(w, [worker[w] EXCEPT !.phase = "devices"])

(* An answer cut short (IncompleteRead), one that does not start as HTTP      *)
(* (BadStatusLine) or one whose body is no object is no PipelineError: the   *)
(* inner except misses it, and the thread starts over.                      *)
IngestCut(w) ==
  LET n == Blindness(worker[w])
  IN /\ used.blind + n <= MaxBlind
     /\ GivesUp(w, n)
     /\ Becomes(w, Error(worker[w]))

-----------------------------------------------------------------------------
(* The agent *)

Posted(m, o) ==
  [m EXCEPT !.rec[o] = (@ \cup {"posted"}) \ {"pending"}]

(* An agent without the session refuses events and clock. *)
PostEvent(w) ==
  /\ Asks(w, "post") /\ Entries(worker[w]) # {}
  /\ LET m == worker[w]
         o == Least(Entries(m))
     IN IF clock[m.gen] = -1
        THEN /\ Becomes(w, Error(m))
             /\ UNCHANGED events
        ELSE /\ events' = [events EXCEPT ![m.gen] = @ \cup {o}]
             /\ Becomes(w, Posted(m, o))
  /\ UNCHANGED <<run, rows, requests, clock, journal, used>>

EventsDone(w) ==
  /\ worker[w].phase = "post" /\ Entries(worker[w]) = {}
  /\ Save(worker[w])
  /\ worker' = [worker EXCEPT ![w].phase = "tick"]
  /\ UNCHANGED <<outside, used>>

(* tick() after the batch, to its last publication time, then to the time   *)
(* the snapshot or the heartbeat named.                                     *)
Target(m) == IF m.phase = "tick" THEN LatestAt(m.batch) ELSE m.goal
Ticked(m) ==
  IF m.phase = "tick"
  THEN [m EXCEPT !.phase = m.next, !.batch = {}, !.recover = FALSE, !.sent = FALSE,
                 !.next = "stream"]
  ELSE [m EXCEPT !.phase = "stream", !.state = "live", !.after = 0, !.goal = 0]

TickNotNeeded(w) ==
  /\ worker[w].phase \in {"tick", "goal"}
  /\ Target(worker[w]) <= worker[w].clock
  /\ worker' = [worker EXCEPT ![w] = Ticked(worker[w])]
  /\ UNCHANGED <<outside, journal, used>>

Tick(w) ==
  /\ Asks(w, "tick") \/ Asks(w, "goal")
  /\ LET m == worker[w]
         t == Target(m)
         n == [Ticked(m) EXCEPT !.clock = t]
     IN /\ t > m.clock
        /\ IF clock[m.gen] = -1 \/ t < clock[m.gen]
           THEN /\ Becomes(w, Error(m))
                /\ UNCHANGED <<clock, journal>>
           ELSE /\ clock' = [clock EXCEPT ![m.gen] = t]
                /\ Save(n)
                /\ Becomes(w, n)
  /\ UNCHANGED <<run, rows, requests, events, used>>

-----------------------------------------------------------------------------
(* Faults *)

TickDue(m) == m.phase \in {"tick", "goal"} /\ Target(m) > m.clock

(* A request fails without effect, *)
RequestFails(w) ==
  /\ worker[w].stop # "done"
  /\ LET m == worker[w]
     IN \/ m.phase \in {"connect", "session", "history"}
        \/ m.phase = "post" /\ Entries(m) # {}
        \/ TickDue(m)
  /\ Use("fault", MaxFaults)
  /\ Becomes(w, Error(worker[w]))
  /\ UNCHANGED <<outside, journal>>

(* or it is the one for the devices, perhaps after an ingestion without its  *)
(* answer,                                                                  *)
DevicesFail(w) ==
  /\ Asks(w, "devices")
  /\ LET n == Blindness(worker[w])
     IN /\ used.fault < MaxFaults /\ used.blind + n <= MaxBlind
        /\ used' = [used EXCEPT !.fault = @ + 1, !.blind = @ + n]
  /\ Becomes(w, Error(worker[w]))
  /\ UNCHANGED <<outside, journal>>

(* or after some devices' readings were read back, *)
ReadBackFails(w) ==
  /\ Asks(w, "readback")
  /\ Use("fault", MaxFaults)
  /\ \E D \in SUBSET {DeviceOf[o] : o \in Sought(worker[w])} :
       LET m == worker[w]
           answered == {o \in Found(m) : DeviceOf[o] \in D}
       IN Becomes(w, Error(ReadBack(m, answered)))
  /\ UNCHANGED <<outside, journal>>

(* or it takes effect and its answer is lost. *)
AnswerLost(w) ==
  /\ worker[w].stop # "done"
  /\ Use("fault", MaxFaults)
  /\ LET m == worker[w]
     IN \/ /\ m.phase = "session"
           /\ StartSession(m.gen)
           /\ UNCHANGED events
        \/ /\ m.phase = "post" /\ Entries(m) # {} /\ clock[m.gen] # -1
           /\ events' = [events EXCEPT ![m.gen] = @ \cup {Least(Entries(m))}]
           /\ UNCHANGED clock
        \/ /\ TickDue(m) /\ clock[m.gen] # -1 /\ Target(m) >= clock[m.gen]
           /\ clock' = [clock EXCEPT ![m.gen] = Target(m)]
           /\ UNCHANGED events
  /\ Becomes(w, Error(worker[w]))
  /\ UNCHANGED <<run, rows, requests, journal>>

(* The gateway dies: memory is gone, the journal and its requests stay. *)
Crash ==
  /\ \E w \in Worker : worker[w].phase # "off"
  /\ Upset(1) /\ used.crash < MaxCrashes
  /\ worker' = [w \in Worker |-> Off]
  /\ LET R == {r \in requests : r.from # None}
     IN \/ /\ requests' = requests \ R
           /\ used' = [used EXCEPT !.crash = @ + 1]
        \/ /\ \E r \in R : r.items # {}
           /\ used.late < MaxLate
           /\ requests' = (requests \ R) \cup
                {[r EXCEPT !.from = None] : r \in {q \in R : q.items # {}}}
           /\ used' = [used EXCEPT !.crash = @ + 1, !.late = @ + 1]
  /\ UNCHANGED <<run, rows, events, clock, journal>>

(* The agent starts again with an empty database. *)
AgentForgets ==
  /\ Upset(1) /\ Use("forget", MaxLosses)
  /\ events' = [g \in Gen |-> {}]
  /\ clock' = [g \in Gen |-> -1]
  /\ UNCHANGED <<run, rows, requests, journal, worker>>

(* The gateway restarts without its work directory. *)
JournalLost ==
  /\ \A w \in Worker : worker[w].phase = "off"
  /\ Upset(1) /\ Use("loss", MaxLosses)
  /\ journal' = [g \in Gen |-> None]
  /\ UNCHANGED <<outside, worker>>

-----------------------------------------------------------------------------
Thread(w) ==
  \/ Snapshot(w) \/ OpenSession(w) \/ ReadHistory(w)
  \/ ReadEvent(w) \/ Heartbeat(w)
  \/ LoadDevices(w) \/ ReadBackBeforeSending(w) \/ ReadBackAfterSending(w)
  \/ PrepareIngest(w) \/ SendIngest(w) \/ IngestAnswered(w) \/ IngestMalformed(w)
  \/ PostEvent(w) \/ EventsDone(w) \/ TickNotNeeded(w) \/ Tick(w)

Next ==
  \/ Publish \/ Advance \/ ResetRun \/ Arrive
  \/ \E w \in Worker :
       \/ Connect(w) \/ Stop(w) \/ Thread(w)
       \/ StreamEnds(w) \/ IngestLost(w) \/ IngestCut(w)
       \/ RequestFails(w) \/ DevicesFail(w) \/ ReadBackFails(w) \/ AnswerLost(w)
  \/ Crash \/ AgentForgets \/ JournalLost

Spec == Init /\ [][Next]_vars

(* A thread loops until it is stopped: every request is cut off after 12 s,  *)
(* a failed round is repeated after 2 s, and the platform carries out what   *)
(* reached it.  The stream's frames take turns: heartbeats do not hold back  *)
(* events for ever, nor the other way round.  Nothing is assumed of          *)
(* browsers, resets or faults.                                               *)
Fairness ==
  /\ WF_vars(Arrive)
  /\ \A w \in Worker :
       /\ WF_vars(Thread(w))
       /\ SF_vars(ReadEvent(w)) /\ SF_vars(Heartbeat(w))
       /\ WF_vars(Stop(w))
       /\ WF_vars(StreamEnds(w) /\ worker[w].gen # run.gen)

FairSpec == Spec /\ Fairness

-----------------------------------------------------------------------------
(* Properties *)

(* The README of the dashboard: an ambiguous ingestion is checked against    *)
(* what is stored, and a reading that was accepted is not sent again.  Each  *)
(* observation is stored at most once.  A finding refutes it.                *)
StoredOnce == \A g \in Gen, o \in Obs : rows[g][o] <= 1

(* What is true of it: no blind failure, no second reading.  With one thread *)
(* at a time and no late ingestion, a reading that was sent is found on the  *)
(* platform before it is sent again, whatever else failed, crashed or was    *)
(* lost between sending and noting, as often as it likes.                    *)
StoredOnceUnlessBlind == used.blind = 0 => StoredOnce

(* The agent's clock passes a time only when it has every observation        *)
(* published before it: tick() comes after process().  The agent concludes   *)
(* that a confirmation is missing from what it has read up to its clock, so  *)
(* an observation that came after it would be a false alarm.  Nothing is     *)
(* said of an agent that lost its database: at clock 0 the repair misses it. *)
EvidenceBeforeClock == used.forget = 0 =>
  \A g \in Gen, o \in Obs \ Unmapped : At[o] < clock[g] => o \in events[g]

(* What a thread or the journal believes is so: a reading it has an id for   *)
(* or knows to be accepted is stored, and an event it counts as posted is    *)
(* with the agent.                                                           *)
Believes(g, rec) ==
  \A o \in Obs : /\ rec[o] \cap {"accepted", "reading"} # {} => rows[g][o] > 0
                 /\ "posted" \in rec[o] => o \in events[g]
JournalTruthful == used.forget = 0 =>
  /\ \A g \in Gen : journal[g] # None => Believes(g, journal[g].rec)
  /\ \A w \in Worker : worker[w].gen # None => Believes(worker[w].gen, worker[w].rec)

(* "Persist uncertainty before a non-idempotent endpoint receives any        *)
(* bytes": the journal knows of every observation that is stored or on its   *)
(* way, so a restart reads it back before it sends anything, as long as the  *)
(* journal is kept.                                                          *)
DoubtRecorded == used.loss = 0 =>
  \A g \in Gen, o \in Obs :
    (rows[g][o] > 0 \/ \E r \in requests : r.gen = g /\ o \in r.items) =>
      journal[g] # None /\ journal[g].rec[o] # {}

(* Whatever is published while a thread imports the run reaches the agent,   *)
(* through the stream or, after any interruption, through the history,       *)
(* unless the run is reset, the thread ended, or the agent or the journal lost *)
(* its data: from that the worker may not recover.                           *)
Importing(g) == \E w \in Worker : worker[w].phase # "off" /\ run.gen = g
Delivered ==
  \A g \in Gen, o \in Obs \ Unmapped :
    (Importing(g) /\ o <= run.count) ~>
      (o \in events[g] \/ ~Importing(g) \/ used.forget + used.loss > 0)
=============================================================================
