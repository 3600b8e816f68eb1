------------------------------- MODULE Bridge -------------------------------
(***************************************************************************)
(* The platform's bridge to the state machine (platform/app/adapter):      *)
(* Bridge.run_forever with its state file and StateMachineClient.  It      *)
(* finds or creates a run, starts it, follows its stream and forwards      *)
(* each observation to POST /ingest/telemetry, then moves its cursor.      *)
(*                                                                         *)
(* Every await is a step, so that the process can die at each of them;     *)
(* what it keeps is the state file.  Waiting times are left out.           *)
(*                                                                         *)
(* External: the state machine, as the client uses it.  A run replays      *)
(* Script; a reset starts its next generation.  POST /runs gives the same  *)
(* run for the same key, so a run has the name of its key.                 *)
(***************************************************************************)
EXTENDS Mapper, Sequences, FiniteSetsExt

CONSTANTS
  Key,               \* idempotency keys, fresh uuid4s; also the runs they create
  Shared,            \* the externally agreed run
  Modes,             \* configurations: "local", "shared"
  Script,            \* the events of a generation, templates without their id
  Registry,          \* DeviceState of each device at the start
  MaxGen, MaxLives, MaxFaults, MaxLate   \* bounds

Run == Key \cup {Shared}
Seq0 == 0..Len(Script)
Gen == 0..MaxGen
Id == Run \X Gen \X (1..Len(Script))
Cursor == [run : Run, gen : Gen, seq : Seq0]

Updates == {n \in 1..Len(Script) : Script[n].kind = "device.updated"}
Observations == {n \in 1..Len(Script) : Script[n].kind = "observation.created"}

EventAt(r, g, n) ==
  IF n \in Observations THEN [Script[n] EXCEPT !.data.id = <<r, g, n>>] ELSE Script[n]

(* What is known of a device, and what the cache can hold.                 *)
DeviceStates ==
  {Unknown} \cup {Registry[d] : d \in Device} \cup {Script[n].data.state : n \in Updates}
Cache == [Device -> DeviceStates]

ASSUME BridgeAssumption ==
  /\ Shared \notin Key /\ None \notin Run \cup Gen \cup Cursor \cup Device
  /\ Modes \subseteq {"local", "shared"} /\ Modes # {}
  /\ IsFiniteSet(Key) /\ Cardinality(Key) >= MaxLives   \* there is always a fresh one
  /\ MaxGen \in Nat /\ MaxLives \in Nat /\ MaxFaults \in Nat /\ MaxLate \in Nat
  /\ Len(Script) \in Nat /\ DOMAIN Registry = Device
  /\ \A n \in 1..Len(Script) : {"kind", "data"} \subseteq DOMAIN Script[n]
  /\ \A n \in Observations :
       {"id", "kind", "device", "room", "data"} \subseteq DOMAIN Script[n].data
  /\ \A i \in Id, m \in Cache :   \* an item is not None
       i[3] \in Observations /\ Script[i[3]].data.kind \in ObservationKinds =>
         MapEvent(EventAt(i[1], i[2], i[3]), m) # None

VARIABLES
  sm,       \* the state machine: each run's generation, status, events published
  disk,     \* the state file
  proc,     \* the process: configuration, phase and memory
  rows,     \* readings stored on the platform for each observation
  devices,  \* rows of the platform's devices table
  late,     \* forwarded items the bridge gave up on, not yet carried out
  failed, jumped,  \* observations not forwarded: request failed, before a snapshot
  used      \* lives and faults used up, for the bounds

vars == <<sm, disk, proc, rows, devices, late, failed, jumped, used>>
platform == <<rows, devices, late>>
history == <<failed, jumped>>

-----------------------------------------------------------------------------
(* The state machine *)

(* A device as the state machine describes it after n events: as its last  *)
(* update says, or else as it was registered.                              *)
UpdatesOf(d, n) == {k \in Updates : k <= n /\ Script[k].data.device = d}
StateAt(n) ==
  [d \in Device |->
     LET U == UpdatesOf(d, n)
     IN IF U = {} THEN Registry[d] ELSE Script[Max(U)].data.state]

Publish(r) ==
  /\ sm[r].status = "running" /\ sm[r].count < Len(Script)
  /\ sm' = [sm EXCEPT ![r].count = @ + 1]
  /\ UNCHANGED <<disk, proc, platform, history, used>>

(* The shared run's owner plays it again; a local run waits for the bridge. *)
ResetRun(r) ==
  /\ sm[r].made /\ sm[r].gen < MaxGen
  /\ sm' = [sm EXCEPT ![r] = [made |-> TRUE, gen |-> @.gen + 1, count |-> 0,
                             status |-> IF r = Shared THEN "running" ELSE "paused"]]
  /\ UNCHANGED <<disk, proc, platform, history, used>>

-----------------------------------------------------------------------------
(* The process *)

NoState == [key |-> None, run |-> None, gen |-> None, cursor |-> None]
NoMeta == [d \in Device |-> Unknown]
Closed == [gen |-> None, seq |-> 0, fresh |-> FALSE]

Off == [phase |-> "off", mode |-> None, run |-> None, state |-> NoState,
        play |-> FALSE, meta |-> NoMeta, informed |-> FALSE,
        conn |-> Closed, item |-> None]

Init ==
  /\ disk = NoState
  /\ proc \in {[Off EXCEPT !.mode = m] : m \in Modes}
  /\ sm = LET agreed == [r \in Run |-> r = Shared /\ proc.mode = "shared"]
          IN [r \in Run |-> [made |-> agreed[r], gen |-> 0, count |-> 0,
                             status |-> IF agreed[r] THEN "running" ELSE "paused"]]
  /\ rows = [i \in Id |-> 0]
  /\ devices = [d \in Device |-> None]
  /\ late = {} /\ failed = {} /\ jumped = {}
  /\ used = [lives |-> 0, faults |-> 0, late |-> 0]

Fault == used.faults < MaxFaults /\ used' = [used EXCEPT !.faults = @ + 1]

(* self._state is changed, saved and used before anything is awaited.      *)
SavedAs(p, s) == proc' = [p EXCEPT !.state = s] /\ disk' = s

Start ==
  /\ proc.phase \in {"off", "done"}
  /\ used.lives < MaxLives
  /\ used' = [used EXCEPT !.lives = @ + 1]
  /\ proc' = [Off EXCEPT !.phase = "ensure", !.mode = proc.mode, !.state = disk]
  /\ UNCHANGED <<sm, disk, platform, history>>

UseRun ==
  /\ proc.phase = "ensure"
  /\ proc.mode = "shared" \/ proc.state.run # None
  /\ proc' = [proc EXCEPT !.phase = "connect",
                !.run = IF proc.mode = "shared" THEN Shared ELSE proc.state.run]
  /\ UNCHANGED <<sm, disk, platform, history, used>>

KeyToUse(s) == IF s.key # None THEN s.key ELSE CHOOSE k \in Key : ~sm[k].made

(* The key is put into memory; it reaches the file with the run's id.      *)
AskForRun ==
  /\ proc.phase = "ensure"
  /\ proc.mode = "local" /\ proc.state.run = None
  /\ proc' = [proc EXCEPT !.phase = "creating", !.state.key = KeyToUse(proc.state)]
  /\ UNCHANGED <<sm, disk, platform, history, used>>

RunCreated ==
  /\ proc.phase = "creating" /\ ~sm[proc.state.key].made
  /\ sm' = [sm EXCEPT ![proc.state.key].made = TRUE]
  /\ UNCHANGED <<disk, proc, platform, history, used>>

RunAnswered ==
  /\ proc.phase = "creating" /\ sm[proc.state.key].made
  /\ LET k == proc.state.key
     IN SavedAs([proc EXCEPT !.phase = "connect", !.run = k],
                [key |-> k, run |-> k, gen |-> sm[k].gen, cursor |-> None])
  /\ UNCHANGED <<sm, platform, history, used>>

(* No error of this request is retried: run_forever returns.               *)
CreateFails ==
  /\ proc.phase = "creating"
  /\ Fault
  /\ proc' = [proc EXCEPT !.phase = "done"]
  /\ UNCHANGED <<sm, disk, platform, history>>

-----------------------------------------------------------------------------
(* StateMachineClient.stream and the ways it ends *)

Open ==
  /\ proc.phase = "connect"
  /\ LET c == proc.state.cursor
     IN proc' = [proc EXCEPT !.phase = "open",
                   !.conn = IF c = None
                            THEN [gen |-> sm[proc.run].gen, seq |-> 0, fresh |-> TRUE]
                            ELSE [gen |-> c.gen, seq |-> c.seq, fresh |-> FALSE]]
  /\ UNCHANGED <<sm, disk, platform, history, used>>

Reconnecting(p) == [p EXCEPT !.phase = "connect", !.conn = Closed]

(* Slip: the expired cursor is tried again.                                *)
CursorExpiredKept ==
  /\ proc.phase \in {"connect", "open"} /\ proc.state.cursor # None
  /\ IF proc.state.cursor.gen = sm[proc.run].gen THEN Fault ELSE UNCHANGED used
  /\ proc' = Reconnecting(proc)
  /\ UNCHANGED <<sm, disk, platform, history>>

(* 410 CURSOR_EXPIRED: always possible for a cursor of an old generation.  *)
CursorExpired ==
  /\ proc.phase \in {"connect", "open"} /\ proc.state.cursor # None
  /\ IF proc.state.cursor.gen = sm[proc.run].gen THEN Fault ELSE UNCHANGED used
  /\ SavedAs(Reconnecting(proc), [proc.state EXCEPT !.cursor = None])
  /\ UNCHANGED <<sm, platform, history>>

(* 401, 403 or RUN_EXPIRED. *)
GivesUp ==
  /\ proc.phase \in {"connect", "open"}
  /\ Fault
  /\ proc' = [proc EXCEPT !.phase = "done", !.conn = Closed]
  /\ UNCHANGED <<sm, disk, platform, history>>

(* Any other error, or the end of the stream: back off and try again.      *)
Disconnected ==
  /\ proc.phase \in {"connect", "open"}
  /\ Fault
  /\ proc' = [proc EXCEPT !.phase = "backoff", !.conn = Closed]
  /\ UNCHANGED <<sm, disk, platform, history>>

BackedOff ==
  /\ proc.phase = "backoff"
  /\ proc' = Reconnecting(proc)
  /\ UNCHANGED <<sm, disk, platform, history, used>>

-----------------------------------------------------------------------------
(* The frames of Bridge._run_once *)

InStream == proc.phase = "open"
Behind == proc.conn.gen # sm[proc.run].gen

(* What was published before the snapshot is never sent.  The state is     *)
(* saved first, then a paused run of our own is started.                   *)
Snapshot ==
  /\ InStream /\ proc.conn.fresh
  /\ LET r == proc.run
         at == [run |-> r, gen |-> sm[r].gen, seq |-> sm[r].count]
         plays == proc.mode = "local" /\ ~proc.play /\ sm[r].status = "paused"
     IN /\ SavedAs([proc EXCEPT !.meta = ApplySnapshot(@, StateAt(at.seq)),
                      !.informed = TRUE,
                      !.conn = [gen |-> at.gen, seq |-> at.seq, fresh |-> FALSE],
                      !.phase = IF plays THEN "play" ELSE @],
                   [proc.state EXCEPT !.gen = at.gen, !.cursor = at])
        /\ jumped' = jumped \cup {<<r, at.gen, n>> : n \in 1..at.seq}
  /\ UNCHANGED <<sm, platform, failed, used>>

(* The command of the snapshot's generation; a refusal counts as sent.     *)
Play ==
  /\ proc.phase = "play"
  /\ sm' = IF sm[proc.run].gen = proc.state.gen
           THEN [sm EXCEPT ![proc.run].status = "running"] ELSE sm
  /\ proc' = [proc EXCEPT !.phase = "open", !.play = TRUE]
  /\ UNCHANGED <<disk, platform, history, used>>

(* A transport error is not caught there: the stream is given up.          *)
PlayFails ==
  /\ proc.phase = "play"
  /\ Fault
  /\ \/ UNCHANGED sm
     \/ /\ sm[proc.run].gen = proc.state.gen
        /\ sm' = [sm EXCEPT ![proc.run].status = "running"]
  /\ proc' = [proc EXCEPT !.phase = "backoff", !.conn = Closed]
  /\ UNCHANGED <<disk, platform, history>>

ReadsEvent ==
  /\ InStream /\ ~proc.conn.fresh /\ ~Behind
  /\ proc.conn.seq < sm[proc.run].count

NextEvent == EventAt(proc.run, proc.conn.gen, proc.conn.seq + 1)

(* Slip: the cursor stays where it was when the stream was opened.         *)
AdvancedUnsaved(p) ==
  /\ proc' = [p EXCEPT !.phase = "open", !.conn.seq = @ + 1, !.item = None]
  /\ UNCHANGED disk

(* The cursor of the event just handled is stored.                         *)
Advanced(p) ==
  LET n == p.conn.seq + 1
  IN SavedAs([p EXCEPT !.phase = "open", !.conn.seq = n, !.item = None],
             [p.state EXCEPT !.cursor = [run |-> p.run, gen |-> p.conn.gen, seq |-> n]])

(* Slip: device.updated is skipped like the other summaries.               *)
SkipEventUnread ==
  /\ ReadsEvent /\ MapEvent(NextEvent, proc.meta) = None
  /\ Advanced(proc)
  /\ UNCHANGED <<sm, platform, history, used>>

(* An event with nothing to forward: the cache changes, the cursor moves.  *)
SkipEvent ==
  /\ ReadsEvent /\ MapEvent(NextEvent, proc.meta) = None
  /\ Advanced([proc EXCEPT !.meta = MetaAfter(NextEvent, @)])
  /\ UNCHANGED <<sm, platform, history, used>>

(* Slip: the cursor is stored before the observation is forwarded.         *)
TakeObservationSavingFirst ==
  /\ ReadsEvent /\ MapEvent(NextEvent, proc.meta) # None
  /\ SavedAs([proc EXCEPT !.phase = "forward", !.item = MapEvent(NextEvent, proc.meta)],
             [proc.state EXCEPT !.cursor.seq = @ + 1])
  /\ UNCHANGED <<sm, platform, history, used>>

TakeObservation ==
  /\ ReadsEvent /\ MapEvent(NextEvent, proc.meta) # None
  /\ proc' = [proc EXCEPT !.phase = "forward", !.item = MapEvent(NextEvent, proc.meta)]
  /\ UNCHANGED <<sm, disk, platform, history, used>>

(* The platform's side of the request: the device first, then the reading. *)
UpsertDevice(t) ==
  devices' = [devices EXCEPT ![t.device.external_id[2]] = t.device]
StoreReading(t) == rows' = [rows EXCEPT ![t.external_event_id] = @ + 1]

Forward ==
  /\ proc.phase = "forward"
  /\ IF Accepts(proc.item)
     THEN UpsertDevice(proc.item) /\ StoreReading(proc.item)
     ELSE UNCHANGED <<rows, devices>>
  /\ proc' = [proc EXCEPT !.phase = "forwarded"]
  /\ UNCHANGED <<sm, disk, late, history, used>>

(* No answer, or an error: it is logged, and the cursor moves all the same. *)
(* Of the platform's two commits none or one was made, or the request is    *)
(* carried out after the bridge's ten seconds.                              *)
ForwardFails ==
  /\ proc.phase = "forward"
  /\ used.faults < MaxFaults
  /\ failed' = failed \cup {proc.item.external_event_id}
  /\ proc' = [proc EXCEPT !.phase = "forwarded"]
  /\ \/ /\ used' = [used EXCEPT !.faults = @ + 1]
        /\ UNCHANGED platform
     \/ /\ Accepts(proc.item) /\ UpsertDevice(proc.item)
        /\ used' = [used EXCEPT !.faults = @ + 1]
        /\ UNCHANGED <<rows, late>>
     \/ /\ used.late < MaxLate
        /\ late' = late \cup {proc.item}
        /\ used' = [used EXCEPT !.faults = @ + 1, !.late = @ + 1]
        /\ UNCHANGED <<rows, devices>>
  /\ UNCHANGED <<sm, disk, jumped>>

Arrive ==
  /\ \E t \in late :
       /\ late' = late \ {t}
       /\ IF Accepts(t) THEN UpsertDevice(t) /\ StoreReading(t)
          ELSE UNCHANGED <<rows, devices>>
  /\ UNCHANGED <<sm, disk, proc, history, used>>

SaveCursor ==
  /\ proc.phase = "forwarded"
  /\ Advanced(proc)
  /\ UNCHANGED <<sm, platform, history, used>>

(* Slip: the new generation is stored, the cursor of the old one stays.    *)
StreamResetKeepingCursor ==
  /\ InStream /\ ~proc.conn.fresh /\ Behind
  /\ SavedAs([Reconnecting(proc) EXCEPT !.play = FALSE],
             [proc.state EXCEPT !.gen = sm[proc.run].gen])
  /\ UNCHANGED <<sm, platform, history, used>>

(* stream.reset: the new generation is known, its first snapshot is next.  *)
StreamReset ==
  /\ InStream /\ ~proc.conn.fresh /\ Behind
  /\ SavedAs([Reconnecting(proc) EXCEPT !.play = FALSE],
             [proc.state EXCEPT !.gen = sm[proc.run].gen, !.cursor = None])
  /\ UNCHANGED <<sm, platform, history, used>>

(* A heartbeat of another generation; one of the same has no effect.       *)
HeartbeatBump ==
  /\ InStream /\ ~proc.conn.fresh
  /\ sm[proc.run].gen # proc.state.gen
  /\ SavedAs(Reconnecting(proc), [proc.state EXCEPT !.cursor = None])
  /\ UNCHANGED <<sm, platform, history, used>>

(* The process dies; the request it waits for may still be carried out.    *)
Crash ==
  /\ proc.phase \notin {"off", "done"}
  /\ used.lives < MaxLives
  /\ proc' = [Off EXCEPT !.mode = proc.mode]
  /\ \/ UNCHANGED <<late, used>>
     \/ /\ proc.phase = "forward" /\ used.late < MaxLate
        /\ late' = late \cup {proc.item}
        /\ used' = [used EXCEPT !.late = @ + 1]
  /\ UNCHANGED <<sm, disk, rows, devices, history>>

-----------------------------------------------------------------------------
Process ==
  \/ UseRun \/ AskForRun \/ RunAnswered \/ Open \/ BackedOff
  \/ Snapshot \/ Play \/ SkipEvent \/ TakeObservation \/ Forward \/ SaveCursor
  \/ StreamReset

Next ==
  \/ \E r \in Run : Publish(r) \/ ResetRun(r)
  \/ Start \/ Process \/ RunCreated \/ CreateFails
  \/ CursorExpired \/ GivesUp \/ Disconnected \/ PlayFails
  \/ ForwardFails \/ Arrive \/ HeartbeatBump \/ Crash

Spec == Init /\ [][Next]_vars

(* The event loop runs, requests end within their timeouts, the container   *)
(* is started again after a crash (restart: on-failure), though not after   *)
(* run_forever returned, and a running run publishes its script.            *)
Fairness ==
  /\ WF_vars(Process) /\ WF_vars(RunCreated)
  /\ WF_vars(proc.phase = "off" /\ Start)
  /\ \A r \in Run : WF_vars(Publish(r))

FairSpec == Spec /\ Fairness

-----------------------------------------------------------------------------
(* Properties *)

(* The state file never claims more than was done: each observation up to  *)
(* its cursor is on the platform, or its request failed, or it was older   *)
(* than a snapshot the bridge read on, at the start, after a reset or when *)
(* its cursor had expired.  Only kinds the mapper skips and qualities the  *)
(* contract does not know are passed over silently (Bridge._run_once, the  *)
(* order of _forward and _save).                                           *)
Forwardable(e) ==
  LET t == MapEvent(e, Registry)
  IN t # None /\ (t.quality \in Qualities \cup {None})

AccountedFor ==
  disk.cursor # None =>
    \A n \in 1..disk.cursor.seq :
      LET i == <<disk.cursor.run, disk.cursor.gen, n>>
      IN Forwardable(Script[n]) => rows[i] > 0 \/ i \in failed \cup jumped

(* An observation is stored twice only because the process that forwarded  *)
(* it was restarted before the cursor was saved: never within one life,    *)
(* however often the stream is lost or the cursor expires.                 *)
OncePerLife == \A i \in Id : rows[i] <= used.lives

(* The cache of device names and types goes with the cursor: it says of a  *)
(* device what the state machine said at that point of the stream, or      *)
(* nothing; after a restart with a cursor no snapshot fills it, and a      *)
(* device is unknown until its next device.updated (mapper.DeviceMeta).    *)
CacheInStep ==
  LET c == proc.state.cursor
  IN proc.phase \in {"connect", "open", "play", "forward", "forwarded", "backoff"}
       /\ c # None
     => \A d \in Device : \/ proc.meta[d] = StateAt(c.seq)[d]
                          \/ ~proc.informed /\ proc.meta[d] = Unknown

(* A reset is a barrier: the cursor used to resume, and everything that is *)
(* forwarded, is of the generation the bridge last learned of, and of the  *)
(* run it follows.                                                         *)
GenerationBarrier ==
  /\ disk.cursor # None => disk.cursor.gen = disk.gen
  /\ proc.item # None => /\ proc.item.external_event_id[1] = proc.run
                         /\ proc.item.external_event_id[2] = proc.state.gen

(* Unless run_forever returned, the bridge reaches the end of what was     *)
(* published of the last generation, through disconnections, resets,       *)
(* expired cursors and crashes.                                            *)
CatchesUp ==
  <>[](\/ proc.phase = "done"
       \/ /\ proc.run # None
          /\ proc.state.cursor = [run |-> proc.run, gen |-> sm[proc.run].gen,
                                  seq |-> sm[proc.run].count])

(* docker-compose.yml: "restarts resume the same State Machine run instead *)
(* of starting a new one".  Violated: the key is saved with the answer to  *)
(* create_run, so a bridge that dies before it creates a second run.       *)
OneRun == Cardinality({k \in Key : sm[k].made}) <= 1

(* Bridge._maybe_play: play is sent "the first time we see the run paused  *)
(* (covers both a freshly created run and resuming after our own           *)
(* restart)".  Violated: the cursor is saved before play is sent, and a    *)
(* process that resumes with a cursor gets no snapshot.                    *)
RunIsPlayed == <>(proc.phase = "done" \/ \E k \in Key : sm[k].status = "running")
=============================================================================
