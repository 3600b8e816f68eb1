-------------------------- MODULE LivePipelineProofs ------------------------
(***************************************************************************)
(* LivePipeline, for any recording, batch sizes, threads, faults and       *)
(* resets: what a thread and its journal believe is so, and the agent's    *)
(* clock never passes an observation it was not told of.  For one thread,  *)
(* the journal knows of all it ever sent, and no observation is stored     *)
(* twice before a second request has failed or one has come late.          *)
(***************************************************************************)
EXTENDS LivePipeline, NaturalsInduction, WellFoundedInduction, TLAPS

Processing == {"devices", "readback", "ingest", "send", "ingesting", "post", "tick"}
Phase == {"off", "connect", "session", "history", "goal", "stream"} \cup Processing
Counter == {"fault", "late", "crash", "forget", "loss", "connect", "blind"}
Place == Foreign \cup (Gen \X {DeviceOf[o] : o \in Obs})
Records == [Obs -> SUBSET Flag]

Memory ==
  [phase : Phase, stop : {"no", "requested", "done"}, gen : Gen \cup {None},
   rec : Records, clock : Time, devices : SUBSET Place, seq : Nat,
   pending : SUBSET Obs, batch : SUBSET Obs, recover : BOOLEAN, sent : BOOLEAN,
   after : Nat, goal : Time, next : {"stream", "history", "goal"},
   state : {"connecting", "error", "live"}]
Request == [from : Worker \cup {None}, gen : Gen, items : SUBSET Obs]

TypeOK ==
  /\ run \in [gen : Gen, time : Time, count : 0..MaxObs]
  /\ rows \in [Gen -> [Obs -> 0..2]]
  /\ requests \subseteq Request
  /\ events \in [Gen -> SUBSET Obs]
  /\ clock \in [Gen -> Time \cup {-1}]
  /\ \A g \in Gen : journal[g] # None => journal[g] \in Entry
  /\ DOMAIN journal = Gen
  /\ worker \in [Worker -> Memory]
  /\ used \in [Counter -> Nat]

(* The state machine publishes what is due before its clock moves on.      *)
RunRight ==
  \A o \in Obs : IF o <= run.count THEN At[o] <= run.time ELSE At[o] >= run.time

-----------------------------------------------------------------------------
(* What is true of a thread's memory m, whatever the others do; ev and rw   *)
(* are the events and rows, r the run.                                      *)

(* Its generation, and what it has read of the stream. *)
Placed(m, r) ==
  /\ m.gen # None => m.gen <= r.gen
  /\ m.gen = r.gen => m.seq <= r.count
  /\ m.gen = None => m.phase \in {"off", "connect"}
  /\ \A o \in m.pending : o <= m.seq

(* The time it is to bring the agent's clock to lies behind no observation  *)
(* it has not read.                                                         *)
Bounded(m) ==
  /\ m.phase \in Processing => m.next \in {"history", "goal"}
  /\ m.phase \notin Processing \cup {"history"} => m.after = 0 \/ m.phase = "goal"
  /\ m.phase \in Processing \cup {"session", "history", "goal"} =>
       \A o \in Obs : o > m.seq => At[o] >= m.goal
  /\ \/ m.phase \in {"session", "history"}
     \/ m.phase \in Processing /\ m.next = "history"
     => \A o \in Obs : o <= m.seq => At[o] <= m.goal
  /\ m.phase \in Processing =>
       \A o \in m.batch : /\ o <= m.seq \/ At[o] <= m.goal
                          /\ m.next = "history" => o <= m.after

(* What it counts as read was told to the agent, or is in its hands.       *)
Told(m, ev) ==
  \A o \in Obs \ Unmapped : o <= m.seq =>
    /\ m.phase = "history" /\ o <= m.after => o \in ev[m.gen]
    /\ m.phase \in Processing /\ (m.next = "goal" \/ o <= m.after) =>
         o \in ev[m.gen] \cup m.batch
    /\ m.phase = "goal" => o \in ev[m.gen]
    /\ m.phase = "stream" => o \in ev[m.gen] \cup m.pending
BatchTold(m, ev) == m.phase = "tick" => m.batch \ Unmapped \subseteq ev[m.gen]

(* Believes, of any events and rows. *)
StoredRight(rec, rw) ==
  \A o \in Obs : rec[o] \cap {"accepted", "reading"} # {} => rw[o] > 0
PostedRight(rec, ev) == \A o \in Obs : "posted" \in rec[o] => o \in ev
PostedStored(rec) == \A o \in Obs : "posted" \in rec[o] => "reading" \in rec[o]

(* What it knows of its records. *)
Recorded(m) == /\ PostedStored(m.rec)
               /\ m.phase \in {"post", "tick"} => Unresolved(m) = {}
               /\ m.phase = "tick" => Entries(m) = {}

ThreadRight(m, r, rw) ==
  /\ Placed(m, r) /\ Bounded(m) /\ Recorded(m)
  /\ m.gen # None => StoredRight(m.rec, rw[m.gen])
ThreadsRight == \A w \in Worker : ThreadRight(worker[w], run, rows)

ThreadTells(m, ev) ==
  m.gen # None => Told(m, ev) /\ BatchTold(m, ev) /\ PostedRight(m.rec, ev[m.gen])
ThreadsTell == \A w \in Worker : ThreadTells(worker[w], events)

(* A request somebody waits for carries what is not stored yet.            *)
Carries(r, m, rw) ==
  /\ m.phase = "ingesting" /\ r.gen = m.gen
  /\ \A o \in Unresolved(m) : o \in r.items \/ rw[r.gen][o] > 0
RequestsRight ==
  /\ \A r \in requests : r.from # None => Carries(r, worker[r.from], rows)
  /\ \A r, q \in requests : r.from # None /\ r.from = q.from => r = q

JournalsRight ==
  \A g \in Gen : journal[g] # None =>
    PostedStored(journal[g].rec) /\ StoredRight(journal[g].rec, rows[g])
JournalsTell ==
  \A g \in Gen : journal[g] # None => PostedRight(journal[g].rec, events[g])

Reached == \A g \in Gen, o \in Obs \ Unmapped : At[o] < clock[g] => o \in events[g]

Inv == /\ TypeOK /\ RunRight /\ ThreadsRight /\ RequestsRight /\ JournalsRight
       /\ used.forget = 0 => ThreadsTell /\ JournalsTell /\ Reached


-----------------------------------------------------------------------------
(* The operators on a thread's memory                                      *)

(* Nothing but the stop flag and what no invariant is about. *)
Alike(m, n) == /\ n.phase = m.phase /\ n.gen = m.gen /\ n.rec = m.rec /\ n.seq = m.seq
               /\ n.pending = m.pending /\ n.batch = m.batch /\ n.after = m.after
               /\ n.goal = m.goal /\ n.next = m.next

LEMMA Ranges == /\ 0 \in Time /\ 0 \in Gen /\ NoRecords \in Records
                /\ \A o \in Obs : At[o] \in Time
                /\ \A t \in Time : t \in Int
                /\ None \notin Gen /\ None \notin Entry /\ None \notin Worker
BY PipelineAssumption DEF Time, Gen, NoRecords, Records, Obs

LEMMA MemoryIs ==
  ASSUME NEW m \in Memory
  PROVE  /\ m.phase \in Phase /\ m.gen \in Gen \cup {None} /\ m.rec \in Records
         /\ m.clock \in Time /\ m.seq \in Nat /\ m.pending \subseteq Obs
         /\ m.batch \subseteq Obs /\ m.after \in Nat /\ m.goal \in Time
         /\ m.next \in {"stream", "history", "goal"}
         /\ m.devices \subseteq Place
BY DEF Memory

LEMMA OffIs == /\ Off \in Memory /\ Off.phase = "off" /\ Off.gen = None
               /\ Off.pending = {} /\ Off.after = 0 /\ Off.rec = NoRecords
BY Ranges DEF Off, Memory, Phase

LEMMA StopIs ==
  ASSUME NEW m \in Memory, NEW s \in {"no", "requested", "done"}
  PROVE  [m EXCEPT !.stop = s] \in Memory /\ Alike(m, [m EXCEPT !.stop = s])
BY DEF Memory, Alike

LEMMA PhaseIs ==
  ASSUME NEW m \in Memory, NEW p \in Phase
  PROVE  LET n == [m EXCEPT !.phase = p]
         IN  /\ n \in Memory /\ n.phase = p
             /\ n.gen = m.gen /\ n.rec = m.rec /\ n.seq = m.seq
             /\ n.pending = m.pending /\ n.batch = m.batch /\ n.after = m.after
             /\ n.goal = m.goal /\ n.next = m.next /\ n.clock = m.clock
BY DEF Memory

LEMMA ErrorIs ==
  ASSUME NEW m \in Memory
  PROVE  LET e == Error(m)
         IN  /\ e \in Memory /\ e.phase = "connect" /\ e.pending = {} /\ e.batch = {}
             /\ e.after = 0 /\ e.goal = 0 /\ e.gen = m.gen /\ e.rec = m.rec
             /\ e.seq = m.seq /\ e.clock = m.clock
BY Ranges DEF Error, Memory, Phase

(* What is still to be done depends on the batch and the records only. *)
LEMMA SameWork ==
  ASSUME NEW m, NEW n, n.rec = m.rec, n.batch = m.batch
  PROVE  Entries(n) = Entries(m) /\ Unresolved(n) = Unresolved(m)
BY DEF Entries, Unresolved

LEMMA WorkIs ==
  ASSUME NEW m \in Memory
  PROVE  /\ Unresolved(m) \subseteq Entries(m) /\ Entries(m) \subseteq m.batch \ Unmapped
         /\ Entries(m) \subseteq Obs
         /\ \A o \in Entries(m) : o \notin Unresolved(m) => "reading" \in m.rec[o]
         /\ \A o \in m.batch \ Unmapped : o \notin Entries(m) => "posted" \in m.rec[o]
BY MemoryIs DEF Entries, Unresolved

LEMMA ResolvedIs ==
  ASSUME NEW m \in Memory
  PROVE  LET n == Resolved(m)
         IN  /\ n \in Memory /\ n.phase \in {"post", "ingest"}
             /\ n.phase = "post" => Unresolved(n) = {}
             /\ n.gen = m.gen /\ n.rec = m.rec /\ n.seq = m.seq
             /\ n.pending = m.pending /\ n.batch = m.batch /\ n.after = m.after
             /\ n.goal = m.goal /\ n.next = m.next /\ n.clock = m.clock
<1> DEFINE p == IF Unresolved(m) = {} THEN "post" ELSE "ingest"
           n == [m EXCEPT !.phase = p]
<1>1. Resolved(m) = n
    BY DEF Resolved
<1>2. p \in Phase /\ p \in {"post", "ingest"}
    BY DEF Phase, Processing
<1>3. n \in Memory /\ n.phase = p /\ n.rec = m.rec /\ n.batch = m.batch
      /\ n.gen = m.gen /\ n.seq = m.seq /\ n.pending = m.pending /\ n.after = m.after
      /\ n.goal = m.goal /\ n.next = m.next /\ n.clock = m.clock
  <2> HIDE DEF p
  <2> QED
      BY <1>2, PhaseIs
<1>4. Unresolved(n) = Unresolved(m)
  <2> HIDE DEF n
  <2> QED
      BY <1>3, SameWork
<1>5. n.phase = "post" => Unresolved(n) = {}
    BY <1>3, <1>4
<1> HIDE DEF n
<1> QED
    BY <1>1, <1>2, <1>3, <1>5

(* What process() starts with. *)
Begun(b, m, B, nx, go) ==
  /\ b \in Memory /\ b.phase \in {"devices", "readback", "post", "ingest"}
  /\ b.phase = "post" => Unresolved(b) = {}
  /\ b.gen = m.gen /\ b.rec = m.rec /\ b.seq = m.seq
  /\ b.pending = m.pending /\ b.batch = B /\ b.after = m.after
  /\ b.goal = go /\ b.next = nx /\ b.clock = m.clock

LEMMA BeginIs ==
  ASSUME NEW m \in Memory, NEW B \in SUBSET Obs, NEW rc \in BOOLEAN,
         NEW nx \in {"goal", "history"}, NEW go \in Time
  PROVE  Begun(Begin(m, B, rc, nx, go), m, B, nx, go)
<1> DEFINE n == [m EXCEPT !.batch = B, !.recover = rc, !.sent = FALSE,
                          !.next = nx, !.goal = go]
           p == IF n.devices = {} THEN "devices" ELSE "readback"
<1>1. n \in Memory /\ n.batch = B /\ n.next = nx /\ n.goal = go /\ n.gen = m.gen
      /\ n.rec = m.rec /\ n.seq = m.seq /\ n.pending = m.pending /\ n.after = m.after
      /\ n.clock = m.clock
    BY DEF Memory
<1>2. Begin(m, B, rc, nx, go) = IF Uncertain(n) = {} THEN Resolved(n)
                                ELSE [n EXCEPT !.phase = p]
    BY DEF Begin
<1> HIDE DEF n
<1>3. p \in {"devices", "readback"} /\ p \in Phase
    BY DEF Phase, Processing
<1> HIDE DEF p
<1>4. CASE Uncertain(n) = {}
    BY <1>1, <1>2, <1>4, ResolvedIs DEF Begun
<1>5. CASE Uncertain(n) # {}
  <2> DEFINE c == [n EXCEPT !.phase = p]
  <2>1. /\ c \in Memory /\ c.phase = p /\ c.gen = n.gen /\ c.rec = n.rec /\ c.seq = n.seq
        /\ c.pending = n.pending /\ c.batch = n.batch /\ c.after = n.after
        /\ c.goal = n.goal /\ c.next = n.next /\ c.clock = n.clock
      BY <1>1, <1>3, PhaseIs
  <2>2. Begin(m, B, rc, nx, go) = c
      BY <1>2, <1>5
  <2> HIDE DEF c
  <2> QED
      BY <1>1, <1>3, <2>1, <2>2 DEF Begun
<1> QED
    BY <1>4, <1>5

LEMMA MarkIs ==
  ASSUME NEW rec \in Records, NEW S, NEW f \in Flag
  PROVE  /\ Mark(rec, S, f) \in Records
         /\ \A o \in Obs : Mark(rec, S, f)[o] = IF o \in S THEN rec[o] \cup {f} ELSE rec[o]
BY DEF Mark, Records

LEMMA RecIs ==
  ASSUME NEW m \in Memory, NEW rec \in Records
  PROVE  LET n == [m EXCEPT !.rec = rec]
         IN  /\ n \in Memory /\ n.rec = rec /\ n.phase = m.phase
             /\ n.gen = m.gen /\ n.seq = m.seq
             /\ n.pending = m.pending /\ n.batch = m.batch /\ n.after = m.after
             /\ n.goal = m.goal /\ n.next = m.next /\ n.clock = m.clock
BY DEF Memory

LEMMA ReadBackIs ==
  ASSUME NEW m \in Memory, NEW S
  PROVE  LET n == ReadBack(m, S)
         IN  /\ n \in Memory /\ n.rec = Mark(m.rec, S, "reading") /\ n.phase = m.phase
             /\ n.gen = m.gen /\ n.seq = m.seq
             /\ n.pending = m.pending /\ n.batch = m.batch /\ n.after = m.after
             /\ n.goal = m.goal /\ n.next = m.next /\ n.clock = m.clock
BY RecIs, MarkIs, MemoryIs DEF ReadBack, Flag

-----------------------------------------------------------------------------
(* What is true of a memory stays true, and of what is made of it          *)

(* What every step does to the world: it goes on. *)
GoesOn ==
  /\ run.gen <= run'.gen /\ (run'.gen = run.gen => run.count <= run'.count)
  /\ \A g \in Gen, o \in Obs : rows[g][o] > 0 => rows'[g][o] > 0
  /\ used'.forget = 0 => used.forget = 0 /\ \A g \in Gen : events[g] \subseteq events'[g]

LEMMA RightStays ==
  ASSUME TypeOK, GoesOn, run'.gen \in Gen, run'.count \in Nat,
         NEW m \in Memory, ThreadRight(m, run, rows)
  PROVE  ThreadRight(m, run', rows')
<1>1. run.gen \in Gen /\ run.count \in Nat /\ m.seq \in Nat /\ m.gen \in Gen \cup {None}
    BY MemoryIs DEF TypeOK
<1>2. Placed(m, run')
  <2>1. m.gen # None => m.gen <= run'.gen
      BY <1>1, PipelineAssumption DEF ThreadRight, Placed, GoesOn, Gen
  <2>2. m.gen = run'.gen => m.seq <= run'.count
      BY <1>1, Ranges, PipelineAssumption DEF ThreadRight, Placed, GoesOn, Gen
  <2> QED
      BY <2>1, <2>2 DEF ThreadRight, Placed
<1>3. m.gen # None => StoredRight(m.rec, rows'[m.gen])
    BY <1>1 DEF ThreadRight, StoredRight, GoesOn
<1> QED
    BY <1>2, <1>3 DEF ThreadRight

LEMMA TellsStays ==
  ASSUME NEW m \in Memory, ThreadTells(m, events),
         \A g \in Gen : events[g] \subseteq events'[g]
  PROVE  ThreadTells(m, events')
<1> SUFFICES ASSUME m.gen # None
             PROVE  Told(m, events') /\ BatchTold(m, events') /\ PostedRight(m.rec, events'[m.gen])
    BY DEF ThreadTells
<1>1. m.gen \in Gen
    BY MemoryIs
<1>2. events[m.gen] \subseteq events'[m.gen]
    BY <1>1
<1> QED
    BY <1>2 DEF ThreadTells, Told, BatchTold, PostedRight

LEMMA AlikeRight ==
  ASSUME NEW m, NEW n, Alike(m, n), NEW r, NEW rw, ThreadRight(m, r, rw)
  PROVE  ThreadRight(n, r, rw)
<1>1. Entries(n) = Entries(m) /\ Unresolved(n) = Unresolved(m)
    BY SameWork DEF Alike
<1> QED
    BY <1>1 DEF Alike, ThreadRight, Placed, Bounded, Recorded

LEMMA AlikeTells ==
  ASSUME NEW m, NEW n, Alike(m, n), NEW ev, ThreadTells(m, ev)
  PROVE  ThreadTells(n, ev)
BY DEF Alike, ThreadTells, Told, BatchTold

(* A thread that failed, and one that has just begun. *)
LEMMA ErrorRight ==
  ASSUME NEW m \in Memory, ThreadRight(m, run, rows)
  PROVE  ThreadRight(Error(m), run, rows)
<1>1. /\ Error(m).phase = "connect" /\ Error(m).pending = {} /\ Error(m).after = 0
      /\ Error(m).gen = m.gen /\ Error(m).rec = m.rec /\ Error(m).seq = m.seq
    BY ErrorIs
<1> QED
    BY <1>1 DEF ThreadRight, Placed, Bounded, Recorded, Processing

LEMMA ErrorTells ==
  ASSUME NEW m \in Memory, NEW ev, m.gen # None => PostedRight(m.rec, ev[m.gen])
  PROVE  ThreadTells(Error(m), ev)
<1>1. /\ Error(m).phase = "connect" /\ Error(m).gen = m.gen /\ Error(m).rec = m.rec
    BY ErrorIs
<1> QED
    BY <1>1 DEF ThreadTells, Told, BatchTold, Processing

LEMMA IdleRight ==
  ASSUME NEW m \in Memory, m.phase \in {"off", "connect"}, m.gen = None, m.pending = {},
         m.after = 0, m.rec = NoRecords,
         NEW r, r.gen \in Gen, NEW rw, NEW ev
  PROVE  ThreadRight(m, r, rw) /\ ThreadTells(m, ev)
<1>1. Placed(m, r)
    BY Ranges DEF Placed
<1>2. Bounded(m)
    BY DEF Bounded, Processing
<1>3. Recorded(m)
    BY DEF Recorded, PostedStored, NoRecords
<1>4. ThreadTells(m, ev)
    BY DEF ThreadTells
<1> QED
    BY <1>1, <1>2, <1>3, <1>4 DEF ThreadRight

(* A batch is begun: what the thread has read and the agent does not have is *)
(* in it.                                                                    *)
LEMMA BeginRight ==
  ASSUME NEW m \in Memory, ThreadRight(m, run, rows), m.gen # None,
         NEW n \in Memory, n.gen = m.gen, n.rec = m.rec, n.seq \in Nat,
         Placed(n, run),
         NEW B \in SUBSET Obs, NEW rc \in BOOLEAN,
         NEW nx \in {"goal", "history"}, NEW go \in Time,
         \A o \in Obs : o > n.seq => At[o] >= go,
         nx = "history" => \A o \in Obs : o <= n.seq => At[o] <= go,
         \A o \in B : (o <= n.seq \/ At[o] <= go) /\ (nx = "history" => o <= n.after)
  PROVE  /\ Begin(n, B, rc, nx, go) \in Memory
         /\ ThreadRight(Begin(n, B, rc, nx, go), run, rows)
<1> DEFINE b == Begin(n, B, rc, nx, go)
<1>0. Begun(b, n, B, nx, go)
    BY BeginIs
<1> HIDE DEF b
<1>1. /\ b \in Memory /\ b.phase \in {"devices", "readback", "post", "ingest"}
      /\ b.phase = "post" => Unresolved(b) = {}
      /\ b.gen = m.gen /\ b.rec = m.rec /\ b.seq = n.seq
      /\ b.pending = n.pending /\ b.batch = B /\ b.after = n.after
      /\ b.goal = go /\ b.next = nx
    BY <1>0 DEF Begun
<1>2. Placed(b, run)
    BY <1>1 DEF Placed
<1>3. Bounded(b)
    BY <1>1 DEF Bounded, Processing
<1>4. Recorded(b)
    BY <1>1 DEF Recorded, ThreadRight
<1>5. StoredRight(b.rec, rows[b.gen])
    BY <1>1 DEF ThreadRight
<1> QED
    BY <1>1, <1>2, <1>3, <1>4, <1>5 DEF ThreadRight, b

LEMMA BeginTells ==
  ASSUME NEW n \in Memory, NEW B \in SUBSET Obs, NEW rc \in BOOLEAN,
         NEW nx \in {"goal", "history"}, NEW go \in Time,
         NEW ev, PostedRight(n.rec, ev[n.gen]),
         \A o \in Obs \ Unmapped :
           o <= n.seq /\ (nx = "goal" \/ o <= n.after) => o \in ev[n.gen] \cup B
  PROVE  ThreadTells(Begin(n, B, rc, nx, go), ev)
<1> DEFINE b == Begin(n, B, rc, nx, go)
<1>0. Begun(b, n, B, nx, go)
    BY BeginIs
<1> HIDE DEF b
<1>1. /\ b.phase \in {"devices", "readback", "post", "ingest"}
      /\ b.gen = n.gen /\ b.rec = n.rec /\ b.seq = n.seq
      /\ b.batch = B /\ b.after = n.after /\ b.next = nx
    BY <1>0 DEF Begun
<1>2. Told(b, ev)
    BY <1>1 DEF Told, Processing
<1>3. BatchTold(b, ev) /\ PostedRight(b.rec, ev[b.gen])
    BY <1>1 DEF BatchTold
<1> QED
    BY <1>2, <1>3 DEF ThreadTells, b

(* The batch goes on to its next request. *)
Onward(m, n) ==
  /\ m.phase \in Processing /\ n.phase \in Processing
  /\ n.gen = m.gen /\ n.seq = m.seq /\ n.pending = m.pending /\ n.batch = m.batch
  /\ n.after = m.after /\ n.goal = m.goal /\ n.next = m.next

LEMMA OnwardRight ==
  ASSUME NEW m \in Memory, NEW n \in Memory, ThreadRight(m, run, rows), Onward(m, n),
         PostedStored(n.rec), StoredRight(n.rec, rows[n.gen]),
         n.phase \in {"post", "tick"} => Unresolved(n) = {},
         n.phase = "tick" => Entries(n) = {}
  PROVE  ThreadRight(n, run, rows)
<1>1. Placed(n, run)
    BY DEF ThreadRight, Placed, Onward, Processing
<1>2. Bounded(n)
  <2>1. n.phase \notin {"session", "history", "goal"}
      BY DEF Onward, Processing
  <2>2. Bounded(m)
      BY DEF ThreadRight
  <2> QED
      BY <2>1, <2>2 DEF Bounded, Onward
<1>3. Recorded(n)
    BY DEF Recorded
<1> QED
    BY <1>1, <1>2, <1>3 DEF ThreadRight

LEMMA OnwardTells ==
  ASSUME NEW m \in Memory, NEW n \in Memory, NEW ev, ThreadTells(m, ev), Onward(m, n),
         PostedRight(n.rec, ev[n.gen]), n.phase = "tick" => Entries(n) = {}
  PROVE  ThreadTells(n, ev)
<1> SUFFICES ASSUME n.gen # None PROVE Told(n, ev) /\ BatchTold(n, ev)
    BY DEF ThreadTells
<1>1. Told(n, ev)
    BY DEF ThreadTells, Told, Onward, Processing
<1>2. BatchTold(n, ev)
  <2> SUFFICES ASSUME Entries(n) = {}, NEW o \in n.batch \ Unmapped
               PROVE  o \in ev[n.gen]
      BY DEF BatchTold
  <2>1. o \in Obs
      BY MemoryIs
  <2>2. "posted" \in n.rec[o]
      BY WorkIs
  <2> QED
      BY <2>1, <2>2 DEF PostedRight
<1> QED
    BY <1>1, <1>2

-----------------------------------------------------------------------------
(* A step of one thread: it becomes n, the others stay                     *)

Moves(w, n) == Becomes(w, n) \/ worker' = [worker EXCEPT ![w] = n]

LEMMA MovesIs ==
  ASSUME TypeOK, NEW w \in Worker, NEW n \in Memory, Moves(w, n)
  PROVE  /\ worker' \in [Worker -> Memory] /\ Alike(n, worker'[w])
         /\ \A v \in Worker : v # w => worker'[v] = worker[v]
<1> DEFINE s == IF n.stop = "requested" THEN "done" ELSE n.stop
           k == [n EXCEPT !.stop = s]
<1>1. s \in {"no", "requested", "done"}
    BY DEF Memory
<1>2. k \in Memory /\ Alike(n, k)
  <2> HIDE DEF s
  <2> QED
      BY <1>1, StopIs
<1>3. n \in Memory /\ Alike(n, n)
    BY DEF Alike
<1>4. CASE Becomes(w, n)
  <2>1. worker' = [worker EXCEPT ![w] = k]
      BY <1>4 DEF Becomes
  <2> HIDE DEF k
  <2> QED
      BY <2>1, <1>2 DEF TypeOK
<1>5. CASE worker' = [worker EXCEPT ![w] = n]
    BY <1>3, <1>5 DEF TypeOK
<1> QED
    BY <1>4, <1>5 DEF Moves

LEMMA Threads ==
  ASSUME Inv, GoesOn, run' = run, rows' = rows,
         NEW w \in Worker, NEW n \in Memory, Moves(w, n), ThreadRight(n, run, rows),
         used'.forget = 0 => ThreadTells(n, events')
  PROVE  worker' \in [Worker -> Memory] /\ ThreadsRight'
         /\ (used'.forget = 0 => ThreadsTell')
<1>1. /\ worker' \in [Worker -> Memory] /\ Alike(n, worker'[w])
      /\ \A v \in Worker : v # w => worker'[v] = worker[v]
    BY MovesIs DEF Inv
<1>2. ThreadsRight'
  <2> SUFFICES ASSUME NEW v \in Worker PROVE ThreadRight(worker'[v], run, rows)
      BY DEF ThreadsRight
  <2>1. CASE v = w
      BY <1>1, <2>1, AlikeRight
  <2>2. CASE v # w
      BY <1>1, <2>2 DEF Inv, ThreadsRight
  <2> QED
      BY <2>1, <2>2
<1>3. ASSUME used'.forget = 0 PROVE ThreadsTell'
  <2> SUFFICES ASSUME NEW v \in Worker PROVE ThreadTells(worker'[v], events')
      BY DEF ThreadsTell
  <2>1. CASE v = w
      BY <1>1, <1>3, <2>1, AlikeTells
  <2>2. CASE v # w
    <3>1. used.forget = 0 /\ \A g \in Gen : events[g] \subseteq events'[g]
        BY <1>3 DEF GoesOn
    <3>2. worker[v] \in Memory /\ ThreadTells(worker[v], events)
        BY <3>1 DEF Inv, TypeOK, ThreadsTell
    <3> QED
        BY <3>1, <3>2, <1>1, <2>2, TellsStays
  <2> QED
      BY <2>1, <2>2
<1> QED
    BY <1>1, <1>2, <1>3

(* A thread that waits for no answer has no request. *)
LEMMA RequestsStay ==
  ASSUME Inv, requests' = requests, rows' = rows,
         NEW w \in Worker, worker[w].phase # "ingesting",
         \A v \in Worker : v # w => worker'[v] = worker[v]
  PROVE  RequestsRight'
<1>1. ASSUME NEW r \in requests, r.from # None
      PROVE  r.from \in Worker /\ Carries(r, worker[r.from], rows)
    BY <1>1 DEF Inv, TypeOK, RequestsRight, Request
<1>2. ASSUME NEW r \in requests, r.from # None
      PROVE  Carries(r, worker'[r.from], rows)
  <2>1. r.from \in Worker /\ Carries(r, worker[r.from], rows)
      BY <1>1, <1>2
  <2>2. r.from # w
      BY <2>1 DEF Carries
  <2> QED
      BY <2>1, <2>2
<1> QED
    BY <1>2 DEF Inv, RequestsRight

(* What a thread saves is right, and so is the journal. *)
LEMMA Saves ==
  ASSUME TypeOK, JournalsRight, NEW s \in Memory, s.gen \in Gen, Save(s), rows' = rows,
         PostedStored(s.rec), StoredRight(s.rec, rows[s.gen])
  PROVE  /\ DOMAIN journal' = Gen
         /\ \A g \in Gen : journal'[g] # None => journal'[g] \in Entry
         /\ JournalsRight'
<1> DEFINE e == [rec |-> s.rec, clock |-> s.clock]
<1>1. journal' = [journal EXCEPT ![s.gen] = e] /\ e.rec = s.rec
    BY DEF Save
<1>2. e \in Entry
    BY MemoryIs DEF Entry, Records
<1> HIDE DEF e
<1>3. \A g \in Gen : journal'[g] = IF g = s.gen THEN e ELSE journal[g]
    BY <1>1 DEF TypeOK
<1> QED
    BY <1>1, <1>2, <1>3 DEF TypeOK, JournalsRight

LEMMA SavesTell ==
  ASSUME TypeOK, JournalsTell, NEW s \in Memory, s.gen \in Gen, Save(s),
         \A g \in Gen : events[g] \subseteq events'[g], PostedRight(s.rec, events'[s.gen])
  PROVE  JournalsTell'
<1> DEFINE e == [rec |-> s.rec, clock |-> s.clock]
<1>1. journal' = [journal EXCEPT ![s.gen] = e] /\ e.rec = s.rec
    BY DEF Save
<1> HIDE DEF e
<1>2. \A g \in Gen : journal'[g] = IF g = s.gen THEN e ELSE journal[g]
    BY <1>1 DEF TypeOK
<1> QED
    BY <1>1, <1>2 DEF JournalsTell, PostedRight

LEMMA UseIs ==
  ASSUME TypeOK, NEW c \in Counter, NEW max, Use(c, max)
  PROVE  /\ used' \in [Counter -> Nat] /\ (c # "forget" => used'.forget = used.forget)
         /\ (c = "forget" => used'.forget # 0) /\ (c # "loss" => used'.loss = used.loss)
         /\ (c = "loss" => used'.loss # 0)
BY DEF TypeOK, Use, Counter

(* A step of a thread that waits for no answer and changes nothing else.   *)
LEMMA Quiet ==
  ASSUME Inv, UNCHANGED <<outside, journal>>,
         used' \in [Counter -> Nat], used'.forget = used.forget,
         NEW w \in Worker, worker[w].phase # "ingesting",
         NEW n \in Memory, Moves(w, n), ThreadRight(n, run, rows),
         used.forget = 0 => ThreadTells(n, events)
  PROVE  Inv'
<1>1. GoesOn
    BY PipelineAssumption DEF GoesOn, outside, Inv, TypeOK, Gen
<1>2. worker' \in [Worker -> Memory] /\ ThreadsRight' /\ (used'.forget = 0 => ThreadsTell')
    BY <1>1, Threads DEF outside
<1>3. RequestsRight'
    BY MovesIs, RequestsStay DEF Inv, outside
<1>4. TypeOK'
    BY <1>2 DEF Inv, TypeOK, outside
<1> QED
    BY <1>2, <1>3, <1>4 DEF Inv, outside, RunRight, JournalsRight, JournalsTell, Reached

(* The same, of one that saves what it knows. *)
LEMMA QuietSave ==
  ASSUME Inv, UNCHANGED <<outside, used>>,
         NEW w \in Worker, worker[w].phase # "ingesting",
         NEW n \in Memory, Moves(w, n), ThreadRight(n, run, rows),
         used.forget = 0 => ThreadTells(n, events),
         NEW s \in Memory, s.gen \in Gen, Save(s), PostedStored(s.rec),
         StoredRight(s.rec, rows[s.gen]),
         used.forget = 0 => PostedRight(s.rec, events[s.gen])
  PROVE  Inv'
<1>1. GoesOn
    BY PipelineAssumption DEF GoesOn, outside, Inv, TypeOK, Gen
<1>2. worker' \in [Worker -> Memory] /\ ThreadsRight' /\ (used'.forget = 0 => ThreadsTell')
    BY <1>1, Threads DEF outside
<1>3. RequestsRight'
    BY MovesIs, RequestsStay DEF Inv, outside
<1>4. /\ DOMAIN journal' = Gen
      /\ \A g \in Gen : journal'[g] # None => journal'[g] \in Entry
      /\ JournalsRight'
    BY Saves DEF Inv, outside
<1>5. TypeOK'
    BY <1>2, <1>4 DEF Inv, TypeOK, outside
<1>6. used.forget = 0 => JournalsTell'
    BY SavesTell DEF Inv, outside
<1> QED
    BY <1>2, <1>3, <1>4, <1>5, <1>6 DEF Inv, outside, RunRight, Reached

-----------------------------------------------------------------------------
(* The steps of a thread                                                   *)

LEMMA Here ==
  ASSUME Inv, NEW w \in Worker
  PROVE  /\ worker[w] \in Memory /\ ThreadRight(worker[w], run, rows)
         /\ used.forget = 0 => ThreadTells(worker[w], events)
         /\ worker[w].phase \notin {"off", "connect"} => worker[w].gen \in Gen
         /\ worker[w].gen \in Gen => worker[w].gen # None
         /\ run.gen \in Gen /\ run.count \in 0..MaxObs /\ run.time \in Time
BY MemoryIs, Ranges DEF Inv, TypeOK, ThreadsRight, ThreadsTell, ThreadRight, Placed

LEMMA LoadedIs ==
  ASSUME Inv, NEW m \in Memory, NEW g \in Gen, ThreadRight(m, run, rows)
  PROVE  LET n == Loaded(m, g)
         IN  /\ n \in Memory /\ n.gen = g /\ n.after = m.after
             /\ m.gen # g => n.pending = {}
             /\ m.gen = g => n.pending = m.pending
             /\ PostedStored(n.rec) /\ StoredRight(n.rec, rows[g])
             /\ m.gen = g => n.rec = m.rec
             /\ m.gen # g => n.rec = IF journal[g] = None THEN NoRecords ELSE journal[g].rec
<1>1. CASE m.gen = g
    BY <1>1, Ranges DEF Loaded, ThreadRight, Recorded
<1>2. CASE m.gen # g
  <2> DEFINE rec == IF journal[g] = None THEN NoRecords ELSE journal[g].rec
             c == IF journal[g] = None THEN 0 ELSE journal[g].clock
  <2>1. rec \in Records /\ c \in Time
      BY Ranges DEF Inv, TypeOK, Entry, Records
  <2>2. PostedStored(rec) /\ StoredRight(rec, rows[g])
      BY DEF Inv, JournalsRight, PostedStored, StoredRight, NoRecords
  <2>3. Loaded(m, g) = [m EXCEPT !.gen = g, !.devices = {}, !.pending = {},
                                 !.rec = rec, !.clock = c]
      BY <1>2 DEF Loaded
  <2> DEFINE n == Loaded(m, g)
  <2>4. /\ n \in Memory /\ n.gen = g /\ n.after = m.after /\ n.pending = {}
        /\ n.rec = rec
    <3> HIDE DEF rec, c
    <3>1. m \in Memory /\ g \in Gen
        OBVIOUS
    <3>2. n = [m EXCEPT !.gen = g, !.devices = {}, !.pending = {},
                        !.rec = rec, !.clock = c]
        BY <2>3
    <3> HIDE DEF n
    <3> QED
        BY ONLY <2>1, <3>1, <3>2 DEF Memory
  <2> HIDE DEF n
  <2> QED
      BY <1>2, <2>2, <2>4 DEF n
<1> QED
    BY <1>1, <1>2

Shown(m, c, t) == [m EXCEPT !.phase = "session", !.state = "connecting",
                            !.seq = c, !.goal = t]
LEMMA ShownIs ==
  ASSUME NEW m \in Memory, NEW c \in 0..MaxObs, NEW t \in Time
  PROVE  /\ Shown(m, c, t) \in Memory
         /\ Shown(m, c, t).phase = "session" /\ Shown(m, c, t).gen = m.gen
         /\ Shown(m, c, t).seq = c /\ Shown(m, c, t).goal = t
         /\ Shown(m, c, t).pending = m.pending /\ Shown(m, c, t).after = m.after
         /\ Shown(m, c, t).rec = m.rec
<1>1. c \in Nat /\ "session" \in Phase
    BY PipelineAssumption DEF Phase
<1> QED
    BY <1>1 DEF Memory, Shown

LEMMA SnapshotStep ==
  ASSUME Inv, NEW w \in Worker, Snapshot(w)
  PROVE  Inv'
<1> DEFINE m == worker[w]
           l == Loaded(m, run.gen)
           n == Shown(l, run.count, run.time)
<1>1. /\ m \in Memory /\ ThreadRight(m, run, rows)
      /\ used.forget = 0 => ThreadTells(m, events)
      /\ run.gen \in Gen /\ run.count \in 0..MaxObs /\ run.time \in Time
    BY Here
<1>2. m.phase \in {"connect", "stream"}
    BY DEF Snapshot, Asks
<1>3. /\ l \in Memory /\ l.gen = run.gen /\ l.after = m.after
      /\ m.gen # run.gen => l.pending = {}
      /\ m.gen = run.gen => l.pending = m.pending
      /\ PostedStored(l.rec) /\ StoredRight(l.rec, rows[run.gen])
      /\ m.gen = run.gen => l.rec = m.rec
      /\ m.gen # run.gen =>
           l.rec = IF journal[run.gen] = None THEN NoRecords ELSE journal[run.gen].rec
    BY <1>1, LoadedIs
<1>4. Moves(w, n) /\ UNCHANGED <<outside, journal, used>>
    BY DEF Snapshot, Moves, Shown
<1> HIDE DEF l
<1>5. /\ n \in Memory /\ n.phase = "session" /\ n.gen = run.gen /\ n.seq = run.count
      /\ n.goal = run.time /\ n.pending = l.pending /\ n.after = l.after /\ n.rec = l.rec
    BY <1>1, <1>3, ShownIs
<1> HIDE DEF n
<1>6. m.after = 0 /\ m.seq \in Nat
    BY <1>1, <1>2, MemoryIs DEF ThreadRight, Bounded, Processing
<1>7. Placed(n, run)
  <2>1. ASSUME NEW o \in l.pending PROVE o <= n.seq
    <3>1. m.gen = run.gen /\ o \in m.pending
        BY <1>3, <2>1
    <3>2. o <= m.seq /\ m.seq <= run.count /\ o \in Obs
        BY <1>1, <3>1, MemoryIs DEF ThreadRight, Placed
    <3> QED
        BY <1>1, <1>5, <1>6, <3>2 DEF Obs
  <2> QED
      BY <1>1, <1>5, <2>1, PipelineAssumption DEF Placed, Gen
<1>8. Bounded(n)
  <2>1. \A o \in Obs : IF o <= n.seq THEN At[o] <= n.goal ELSE At[o] >= n.goal
      BY <1>5 DEF Inv, RunRight
  <2>2. \A o \in Obs : o > n.seq => ~(o <= n.seq)
      BY <1>1, <1>5 DEF Obs
  <2> QED
      BY <1>3, <1>5, <1>6, <2>1, <2>2 DEF Bounded, Processing
<1>9. ThreadRight(n, run, rows)
    BY <1>3, <1>5, <1>7, <1>8 DEF ThreadRight, Recorded
<1>10. ASSUME used.forget = 0 PROVE ThreadTells(n, events)
  <2>1. PostedRight(l.rec, events[run.gen])
    <3>1. CASE m.gen = run.gen
        BY <1>1, <1>3, <1>10, <3>1, Ranges DEF ThreadTells
    <3>2. CASE m.gen # run.gen
        BY <1>1, <1>3, <1>10, <3>2 DEF Inv, JournalsTell, PostedRight, NoRecords
    <3> QED
        BY <3>1, <3>2
  <2> QED
      BY <1>5, <2>1 DEF ThreadTells, Told, BatchTold, Processing
<1>11. used' \in [Counter -> Nat] /\ used'.forget = used.forget
    BY <1>4 DEF Inv, TypeOK
<1>12. worker[w].phase # "ingesting" /\ UNCHANGED <<outside, journal>>
    BY <1>2, <1>4
<1> QED
    BY <1>4, <1>5, <1>9, <1>10, <1>11, <1>12, Quiet

LEMMA StartedIs ==
  ASSUME Inv, NEW g \in Gen, StartSession(g)
  PROVE  /\ clock' \in [Gen -> Time \cup {-1}] /\ Started(g) \in Time
         /\ \A h \in Gen : clock'[h] = clock[h] \/ clock'[h] = 0
BY Ranges DEF Inv, TypeOK, StartSession, Started

(* No clock that was started anew passes anything. *)
LEMMA ReachedAnew ==
  ASSUME Inv, Reached, UNCHANGED events,
         \A h \in Gen : clock'[h] = clock[h] \/ clock'[h] = 0
  PROVE  Reached'
<1> SUFFICES ASSUME NEW g \in Gen, NEW o \in Obs \ Unmapped, At[o] < clock'[g]
             PROVE  o \in events[g]
    BY DEF Reached
<1>1. At[o] \in Nat
    BY PipelineAssumption DEF Time, Obs
<1> QED
    BY <1>1 DEF Reached

LEMMA RepairedIs ==
  ASSUME NEW m \in Memory, Started(m.gen) \in Time
  PROVE  LET n == Repaired(m)
         IN  /\ n \in Memory /\ n.phase = m.phase /\ n.gen = m.gen /\ n.seq = m.seq
             /\ n.pending = m.pending /\ n.after = m.after /\ n.goal = m.goal
             /\ n.next = m.next /\ n.batch = m.batch
             /\ \A o \in Obs : n.rec[o] = m.rec[o] \/ n.rec[o] = m.rec[o] \ {"posted"}
<1> DEFINE rec == [o \in Obs |-> m.rec[o] \ {"posted"}]
<1>1. rec \in Records /\ \A o \in Obs : rec[o] = m.rec[o] \ {"posted"}
    BY DEF Memory, Records
<1>2. Repaired(m) = IF Started(m.gen) < m.clock
                    THEN [m EXCEPT !.rec = rec, !.clock = Started(m.gen)] ELSE m
    BY DEF Repaired
<1> HIDE DEF rec
<1>3. CASE Started(m.gen) < m.clock
  <2> DEFINE n == [m EXCEPT !.rec = rec, !.clock = Started(m.gen)]
  <2>1. /\ n \in Memory /\ n.phase = m.phase /\ n.gen = m.gen /\ n.seq = m.seq
        /\ n.pending = m.pending /\ n.after = m.after /\ n.goal = m.goal
        /\ n.next = m.next /\ n.batch = m.batch /\ n.rec = rec
      BY <1>1 DEF Memory
  <2>2. Repaired(m) = n
      BY <1>2, <1>3
  <2> HIDE DEF n
  <2> QED
      BY <1>1, <2>1, <2>2
<1>4. CASE ~(Started(m.gen) < m.clock)
  <2>1. Repaired(m) = m
      BY <1>2, <1>4
  <2> QED
      BY <2>1
<1> QED
    BY <1>3, <1>4

LEMMA OpenSessionStep ==
  ASSUME Inv, NEW w \in Worker, OpenSession(w)
  PROVE  Inv'
<1> DEFINE m == worker[w]
           l == Repaired(m)
           n == [l EXCEPT !.phase = "history"]
<1>1. /\ m \in Memory /\ ThreadRight(m, run, rows) /\ m.gen \in Gen /\ m.gen # None
      /\ m.phase = "session" /\ (used.forget = 0 => ThreadTells(m, events))
    BY Here DEF OpenSession, Asks
<1>2. /\ UNCHANGED <<run, rows, requests, events, journal, used>>
      /\ Moves(w, n) /\ StartSession(m.gen)
    BY DEF OpenSession, Moves
<1>3. Started(m.gen) \in Time /\ clock' \in [Gen -> Time \cup {-1}]
      /\ \A h \in Gen : clock'[h] = clock[h] \/ clock'[h] = 0
    BY <1>1, <1>2, StartedIs
<1>4. /\ l \in Memory /\ l.gen = m.gen /\ l.seq = m.seq
      /\ l.pending = m.pending /\ l.after = m.after /\ l.goal = m.goal
      /\ l.next = m.next /\ l.batch = m.batch
      /\ \A o \in Obs : l.rec[o] = m.rec[o] \/ l.rec[o] = m.rec[o] \ {"posted"}
    BY <1>1, <1>3, RepairedIs
<1> HIDE DEF l
<1>5. /\ n \in Memory /\ n.phase = "history" /\ n.gen = m.gen /\ n.seq = m.seq
      /\ n.pending = m.pending /\ n.after = m.after /\ n.goal = m.goal /\ n.rec = l.rec
    BY <1>4, PhaseIs DEF Phase
<1> HIDE DEF n
<1>6. Placed(n, run)
    BY <1>1, <1>5 DEF ThreadRight, Placed
<1>7. m.after = 0
    BY <1>1 DEF ThreadRight, Bounded, Processing
<1>8. Bounded(n)
    BY <1>1, <1>5, <1>7 DEF ThreadRight, Bounded, Processing
<1>9. PostedStored(n.rec) /\ StoredRight(n.rec, rows[n.gen])
    BY <1>1, <1>4, <1>5 DEF ThreadRight, Recorded, PostedStored, StoredRight
<1>10. ThreadRight(n, run, rows)
    BY <1>5, <1>6, <1>8, <1>9 DEF ThreadRight, Recorded
<1>11. ASSUME used.forget = 0 PROVE ThreadTells(n, events)
  <2>1. PostedRight(n.rec, events[n.gen])
      BY <1>1, <1>4, <1>5, <1>11 DEF ThreadTells, PostedRight
  <2> QED
      BY <1>5, <1>7, <2>1 DEF ThreadTells, Told, BatchTold, Processing, Obs
<1>12. GoesOn
    BY <1>2, PipelineAssumption DEF GoesOn, Inv, TypeOK, Gen
<1>13. /\ worker' \in [Worker -> Memory] /\ ThreadsRight'
       /\ (used'.forget = 0 => ThreadsTell')
    BY <1>2, <1>5, <1>10, <1>11, <1>12, Threads
<1>14. RequestsRight'
  <2>1. \A v \in Worker : v # w => worker'[v] = worker[v]
      BY <1>2, <1>5, MovesIs DEF Inv
  <2> QED
      BY <1>1, <1>2, <2>1, RequestsStay
<1>15. TypeOK'
    BY <1>2, <1>3, <1>13 DEF Inv, TypeOK
<1>16. Reached => Reached'
    BY <1>2, <1>3, ReachedAnew
<1> QED
    BY <1>2, <1>13, <1>14, <1>15, <1>16 DEF Inv, RunRight, JournalsRight, JournalsTell

-----------------------------------------------------------------------------
(* The history and the stream *)

(* A thread that fails, whatever it was at, and changes nothing else. *)
LEMMA FailsStep ==
  ASSUME Inv, UNCHANGED <<outside, journal>>,
         used' \in [Counter -> Nat], used'.forget = used.forget,
         NEW w \in Worker, worker[w].phase # "ingesting", Moves(w, Error(worker[w]))
  PROVE  Inv'
<1>1. /\ worker[w] \in Memory /\ ThreadRight(worker[w], run, rows)
      /\ used.forget = 0 => ThreadTells(worker[w], events)
    BY Here
<1>2. Error(worker[w]) \in Memory /\ ThreadRight(Error(worker[w]), run, rows)
    BY <1>1, ErrorIs, ErrorRight
<1>3. used.forget = 0 => ThreadTells(Error(worker[w]), events)
    BY <1>1, ErrorTells DEF ThreadTells
<1> QED
    BY <1>2, <1>3, Quiet

AfterIs(m, n) ==
  /\ n \in Memory /\ n.gen = m.gen /\ n.rec = m.rec /\ n.seq = m.seq
  /\ n.pending = m.pending /\ n.batch = m.batch /\ n.goal = m.goal /\ n.next = m.next
  /\ n.after = m.after + ChunkMax /\ n.phase = m.phase

LEMMA NextChunk ==
  ASSUME NEW m \in Memory
  PROVE  AfterIs(m, [m EXCEPT !.after = m.after + ChunkMax])
<1> DEFINE a == m.after + ChunkMax
<1>1. a \in Nat
    BY MemoryIs, PipelineAssumption
<1> HIDE DEF a
<1>2. AfterIs(m, [m EXCEPT !.after = a]) <=>
      LET n == [m EXCEPT !.after = a]
      IN /\ n \in Memory /\ n.gen = m.gen /\ n.rec = m.rec /\ n.seq = m.seq
         /\ n.pending = m.pending /\ n.batch = m.batch /\ n.goal = m.goal /\ n.next = m.next
         /\ n.after = a /\ n.phase = m.phase
    BY DEF AfterIs, a
<1>3. [m EXCEPT !.after = a] \in Memory
    BY <1>1 DEF Memory
<1>4. AfterIs(m, [m EXCEPT !.after = a])
    BY <1>1, <1>2, <1>3 DEF Memory
<1> QED
    BY <1>4 DEF a

LEMMA ReadHistoryStep ==
  ASSUME Inv, NEW w \in Worker, ReadHistory(w)
  PROVE  Inv'
<1> DEFINE m == worker[w]
           n == [m EXCEPT !.after = m.after + ChunkMax]
           due == {o \in Chunk(m) : At[o] <= m.goal}
           nx == AfterChunk(m)
           p == [n EXCEPT !.phase = nx]
           b == Begin(n, due, TRUE, nx, m.goal)
<1>1. /\ m \in Memory /\ ThreadRight(m, run, rows) /\ m.gen \in Gen /\ m.gen # None
      /\ m.phase = "history" /\ (used.forget = 0 => ThreadTells(m, events))
      /\ run.count \in 0..MaxObs
    BY Here DEF ReadHistory, Asks
<1>2. /\ UNCHANGED <<outside, journal>> /\ used' \in [Counter -> Nat]
      /\ used'.forget = used.forget /\ m.phase # "ingesting"
    BY <1>1 DEF ReadHistory, Inv, TypeOK
<1>3. CASE m.gen # run.gen
  <2>1. Moves(w, Error(m))
      BY <1>3 DEF ReadHistory, Moves
  <2> QED
      BY <1>2, <2>1, FailsStep
<1> SUFFICES ASSUME m.gen = run.gen PROVE Inv'
    BY <1>3
<1>4. AfterIs(m, n)
    BY <1>1, NextChunk
<1>5. nx \in {"history", "goal"} /\ (nx = "goal" => m.after + ChunkMax >= run.count)
    BY <1>1, MemoryIs, PipelineAssumption DEF AfterChunk
<1>6. /\ m.seq \in Nat /\ m.after \in Nat /\ m.goal \in Time /\ m.seq <= run.count
      /\ \A o \in Obs : o > m.seq => At[o] >= m.goal
      /\ \A o \in Obs : o <= m.seq => At[o] <= m.goal
      /\ \A o \in m.pending : o <= m.seq
    BY <1>1, MemoryIs DEF ThreadRight, Placed, Bounded
(* What the chunk reaches is due as far as it was read.                    *)
<1>7. ASSUME NEW o \in Obs, o <= m.seq, m.after < o, o <= m.after + ChunkMax
      PROVE  o \in due
    BY <1>1, <1>6, <1>7, PipelineAssumption DEF Chunk, Obs
<1>8. \A o \in due : o \in Obs /\ At[o] <= m.goal /\ o <= m.after + ChunkMax
    BY <1>1, PipelineAssumption DEF Chunk, Obs
<1>9. used.forget = 0 =>
        /\ PostedRight(m.rec, events[m.gen])
        /\ \A o \in Obs \ Unmapped : o <= m.seq /\ o <= m.after => o \in events[m.gen]
    BY <1>1 DEF ThreadTells, Told
<1> HIDE DEF n, due, nx
<1>10. CASE due = {}
  <2>1. Moves(w, p)
      BY <1>10 DEF ReadHistory, Moves, n, due, nx
  <2>2. /\ p \in Memory /\ p.phase = nx /\ p.gen = m.gen /\ p.rec = m.rec
        /\ p.seq = m.seq /\ p.pending = m.pending /\ p.goal = m.goal
        /\ p.after = m.after + ChunkMax
    <3>1. nx \in Phase
        BY <1>5 DEF Phase
    <3> QED
        BY <1>4, <3>1, PhaseIs DEF AfterIs
  <2> HIDE DEF p
  <2>3. Placed(p, run) /\ Bounded(p)
      BY <1>1, <1>5, <1>6, <2>2 DEF ThreadRight, Placed, Bounded, Processing
  <2>4. ThreadRight(p, run, rows)
      BY <1>1, <1>5, <2>2, <2>3 DEF ThreadRight, Recorded
  <2>5. ASSUME used.forget = 0 PROVE ThreadTells(p, events)
    <3>1. ASSUME NEW o \in Obs \ Unmapped, o <= m.seq,
                 nx = "history" => o <= m.after + ChunkMax
          PROVE  o \in events[m.gen]
      <4>1. o \in Nat /\ o <= m.after + ChunkMax
          BY <1>1, <1>5, <1>6, <3>1, PipelineAssumption DEF Obs
      <4>2. ~(m.after < o)
          BY <1>7, <1>10, <3>1, <4>1
      <4> QED
          BY <1>6, <1>9, <2>5, <3>1, <4>1, <4>2
    <3>2. Told(p, events)
        BY <1>5, <2>2, <3>1 DEF Told, Processing
    <3> QED
        BY <1>5, <1>9, <2>2, <2>5, <3>2 DEF ThreadTells, BatchTold
  <2> QED
      BY <1>2, <2>1, <2>2, <2>4, <2>5, Quiet
<1>11. CASE due # {}
  <2>1. Moves(w, b)
      BY <1>11 DEF ReadHistory, Moves, n, due, nx
  <2>2. Placed(n, run)
      BY <1>1, <1>4 DEF AfterIs, ThreadRight, Placed
  <2>3. b \in Memory /\ ThreadRight(b, run, rows)
    <3>1. n \in Memory /\ n.gen = m.gen /\ n.rec = m.rec /\ n.seq = m.seq /\ n.seq \in Nat
          /\ n.after = m.after + ChunkMax
        BY <1>4, <1>6 DEF AfterIs
    <3>2. due \in SUBSET Obs /\ \A o \in due : (o <= n.seq \/ At[o] <= m.goal)
                                              /\ (nx = "history" => o <= n.after)
        BY <1>8, <3>1
    <3>3. /\ \A o \in Obs : o > n.seq => At[o] >= m.goal
          /\ \A o \in Obs : o <= n.seq => At[o] <= m.goal
        BY <1>6, <3>1
    <3> HIDE DEF b, m
    <3> QED
        BY <1>1, <1>5, <1>6, <2>2, <3>1, <3>2, <3>3, BeginRight DEF b
  <2>4. ASSUME used.forget = 0 PROVE ThreadTells(b, events)
    <3>1. n \in Memory /\ n.gen = m.gen /\ n.rec = m.rec /\ n.seq = m.seq
          /\ n.after = m.after + ChunkMax
        BY <1>4 DEF AfterIs
    <3>2. ASSUME NEW o \in Obs \ Unmapped, o <= n.seq, nx = "goal" \/ o <= n.after
          PROVE  o \in events[n.gen] \cup due
      <4>1. o \in Nat /\ o <= m.after + ChunkMax /\ o <= m.seq
          BY <1>1, <1>5, <1>6, <3>1, <3>2, PipelineAssumption DEF Obs
      <4>2. CASE m.after < o
          BY <1>7, <3>2, <4>1, <4>2
      <4>3. CASE ~(m.after < o)
          BY <1>6, <1>9, <2>4, <3>1, <3>2, <4>1, <4>3
      <4> QED
          BY <4>2, <4>3
    <3>3. PostedRight(n.rec, events[n.gen]) /\ due \in SUBSET Obs
        BY <1>8, <1>9, <2>4, <3>1
    <3> HIDE DEF b, m
    <3> QED
        BY <1>5, <1>6, <3>1, <3>2, <3>3, BeginTells DEF b
  <2> HIDE DEF b
  <2> QED
      BY <1>2, <2>1, <2>3, <2>4, Quiet
<1> QED
    BY <1>10, <1>11

LEMMA ReadEventStep ==
  ASSUME Inv, NEW w \in Worker, ReadEvent(w)
  PROVE  Inv'
<1> DEFINE m == worker[w]
           waiting == m.pending \cup {m.seq + 1}
           n == [m EXCEPT !.seq = m.seq + 1, !.pending = waiting]
           k == [n EXCEPT !.pending = {}]
           b == Begin(k, waiting, FALSE, "goal", 0)
<1>1. /\ m \in Memory /\ ThreadRight(m, run, rows) /\ m.gen \in Gen /\ m.gen # None
      /\ m.phase = "stream" /\ (used.forget = 0 => ThreadTells(m, events))
      /\ run.count \in 0..MaxObs /\ m.gen = run.gen /\ m.seq < run.count
    BY Here DEF ReadEvent, Asks
<1>2. /\ UNCHANGED <<outside, journal>> /\ used' \in [Counter -> Nat]
      /\ used'.forget = used.forget /\ m.phase # "ingesting"
    BY <1>1 DEF ReadEvent, Inv, TypeOK
<1>3. /\ m.seq \in Nat /\ m.seq + 1 \in Obs /\ waiting \subseteq Obs
      /\ \A o \in waiting : o <= m.seq + 1
      /\ m.after = 0
    BY <1>1, MemoryIs, PipelineAssumption DEF ThreadRight, Placed, Bounded, Processing, Obs
<1>4. used.forget = 0 =>
        /\ PostedRight(m.rec, events[m.gen])
        /\ \A o \in Obs \ Unmapped : o <= m.seq + 1 => o \in events[m.gen] \cup waiting
  <2> SUFFICES ASSUME used.forget = 0, NEW o \in Obs \ Unmapped, o <= m.seq + 1
               PROVE  PostedRight(m.rec, events[m.gen]) /\ o \in events[m.gen] \cup waiting
      BY <1>1 DEF ThreadTells
  <2>1. o <= m.seq \/ o = m.seq + 1
      BY <1>3 DEF Obs
  <2> QED
      BY <1>1, <2>1 DEF ThreadTells, Told
<1>5. Moves(w, n) \/ Moves(w, b)
    BY DEF ReadEvent, Moves
<1> HIDE DEF waiting
<1>6. /\ n \in Memory /\ n.gen = m.gen /\ n.rec = m.rec /\ n.seq = m.seq + 1
      /\ n.pending = waiting /\ n.phase = m.phase /\ n.after = m.after
  <2> DEFINE s == m.seq + 1
  <2>1. s \in Nat
      BY <1>3
  <2>2. n = [m EXCEPT !.seq = s, !.pending = waiting]
      OBVIOUS
  <2> HIDE DEF s, n
  <2>3. /\ n \in Memory /\ n.gen = m.gen /\ n.rec = m.rec /\ n.seq = s
        /\ n.pending = waiting /\ n.phase = m.phase /\ n.after = m.after
      BY <1>1, <1>3, <2>1, <2>2 DEF Memory
  <2> QED
      BY <2>3 DEF s
<1> HIDE DEF n
<1>7. /\ k \in Memory /\ k.gen = m.gen /\ k.rec = m.rec /\ k.seq = m.seq + 1
      /\ k.pending = {} /\ k.phase = m.phase
    BY <1>6 DEF Memory
<1> HIDE DEF k
<1>8. CASE Moves(w, n)
  <2>1. Placed(n, run) /\ Bounded(n)
      BY <1>1, <1>3, <1>6 DEF ThreadRight, Placed, Bounded, Processing
  <2>2. ThreadRight(n, run, rows)
      BY <1>1, <1>6, <2>1 DEF ThreadRight, Recorded
  <2>3. used.forget = 0 => ThreadTells(n, events)
      BY <1>1, <1>4, <1>6 DEF ThreadTells, Told, BatchTold, Processing
  <2> QED
      BY <1>2, <1>6, <1>8, <2>2, <2>3, Quiet
<1>9. CASE Moves(w, b)
  <2>1. Placed(k, run) /\ k.seq \in Nat
      BY <1>1, <1>3, <1>7 DEF ThreadRight, Placed
  <2>2. /\ waiting \in SUBSET Obs /\ 0 \in Time
        /\ \A o \in waiting : (o <= k.seq \/ At[o] <= 0) /\ ("goal" = "history" => o <= k.after)
        /\ \A o \in Obs : o > k.seq => At[o] >= 0
      BY <1>3, <1>7, Ranges DEF Time
  <2>3. b \in Memory /\ ThreadRight(b, run, rows)
    <3> HIDE DEF m
    <3> QED
        BY <1>1, <1>7, <2>1, <2>2, BeginRight
  <2>4. used.forget = 0 => ThreadTells(b, events)
    <3> HIDE DEF m
    <3> QED
        BY <1>4, <1>7, <2>2, BeginTells
  <2> HIDE DEF b
  <2> QED
      BY <1>2, <1>9, <2>3, <2>4, Quiet
<1> QED
    BY <1>5, <1>8, <1>9

LEMMA HeartbeatStep ==
  ASSUME Inv, NEW w \in Worker, Heartbeat(w)
  PROVE  Inv'
<1> DEFINE m == worker[w]
           k == [m EXCEPT !.pending = {}]
<1>1. /\ m \in Memory /\ ThreadRight(m, run, rows) /\ m.gen \in Gen /\ m.gen # None
      /\ m.phase = "stream" /\ (used.forget = 0 => ThreadTells(m, events))
      /\ run.count \in 0..MaxObs /\ m.gen = run.gen /\ run.time \in Time
    BY Here DEF Heartbeat, Asks
<1>2. /\ UNCHANGED <<outside, journal>> /\ used' \in [Counter -> Nat]
      /\ used'.forget = used.forget /\ m.phase # "ingesting"
    BY <1>1 DEF Heartbeat, Inv, TypeOK
<1>3. PICK t \in 0..run.time :
        /\ \A o \in 1..run.count : IF o <= m.seq THEN At[o] <= t ELSE t <= At[o]
        /\ Becomes(w, Begin(k, m.pending, FALSE, "goal", t))
    BY DEF Heartbeat
<1> DEFINE b == Begin(k, m.pending, FALSE, "goal", t)
<1>4. /\ m.seq \in Nat /\ m.pending \in SUBSET Obs /\ (\A o \in m.pending : o <= m.seq)
      /\ m.after = 0 /\ m.seq <= run.count
    BY <1>1, MemoryIs DEF ThreadRight, Placed, Bounded, Processing
<1>5. t \in Time
    BY <1>1, PipelineAssumption DEF Time
<1>6. \A o \in Obs : o > m.seq => At[o] >= t
  <2> SUFFICES ASSUME NEW o \in Obs, o > m.seq PROVE At[o] >= t
      OBVIOUS
  <2>1. CASE o <= run.count
      BY <1>1, <1>3, <1>4, <2>1 DEF Obs
  <2>2. CASE ~(o <= run.count)
    <3>1. At[o] >= run.time /\ At[o] \in Time
        BY <2>2, Ranges DEF Inv, RunRight
    <3> QED
        BY <1>1, <1>3, <1>5, <3>1 DEF Time
  <2> QED
      BY <2>1, <2>2
<1>7. used.forget = 0 =>
        /\ PostedRight(m.rec, events[m.gen])
        /\ \A o \in Obs \ Unmapped : o <= m.seq => o \in events[m.gen] \cup m.pending
    BY <1>1 DEF ThreadTells, Told
<1>8. Moves(w, b)
    BY <1>3 DEF Moves
<1>9. /\ k \in Memory /\ k.gen = m.gen /\ k.rec = m.rec /\ k.seq = m.seq
      /\ k.pending = {} /\ k.phase = m.phase
    BY <1>1 DEF Memory
<1> HIDE DEF k
<1>10. Placed(k, run) /\ k.seq \in Nat
    BY <1>1, <1>4, <1>9 DEF ThreadRight, Placed
<1>11. /\ \A o \in m.pending : (o <= k.seq \/ At[o] <= t) /\ ("goal" = "history" => o <= k.after)
       /\ \A o \in Obs : o > k.seq => At[o] >= t
    BY <1>4, <1>6, <1>9
<1>12. b \in Memory /\ ThreadRight(b, run, rows)
  <2> HIDE DEF m
  <2> QED
      BY <1>1, <1>4, <1>5, <1>9, <1>10, <1>11, BeginRight
<1>13. used.forget = 0 => ThreadTells(b, events)
  <2> HIDE DEF m
  <2> QED
      BY <1>4, <1>5, <1>7, <1>9, BeginTells
<1> HIDE DEF b
<1> QED
    BY <1>2, <1>8, <1>12, <1>13, Quiet

LEMMA StateIs ==
  ASSUME NEW m \in Memory, NEW s \in {"connecting", "error", "live"}
  PROVE  [m EXCEPT !.state = s] \in Memory /\ Alike(m, [m EXCEPT !.state = s])
BY DEF Memory, Alike

LEMMA StreamEndsStep ==
  ASSUME Inv, NEW w \in Worker, StreamEnds(w)
  PROVE  Inv'
<1> DEFINE e == Error(worker[w])
           n == [e EXCEPT !.state = "connecting"]
<1>1. /\ worker[w] \in Memory /\ ThreadRight(worker[w], run, rows)
      /\ used.forget = 0 => ThreadTells(worker[w], events)
    BY Here
<1>2. e \in Memory /\ ThreadRight(e, run, rows)
    BY <1>1, ErrorIs, ErrorRight
<1>3. used.forget = 0 => ThreadTells(e, events)
    BY <1>1, ErrorTells DEF ThreadTells
<1>4. /\ Moves(w, n) /\ worker[w].phase # "ingesting" /\ UNCHANGED <<outside, journal>>
    BY DEF StreamEnds, Moves, Asks
<1>5. used' \in [Counter -> Nat] /\ used'.forget = used.forget
    BY UseIs DEF StreamEnds, Inv, TypeOK, Counter
<1> HIDE DEF e
<1>6. n \in Memory /\ Alike(e, n)
    BY <1>2, StateIs
<1> HIDE DEF n
<1>7. ThreadRight(n, run, rows)
    BY <1>2, <1>6, AlikeRight
<1>8. used.forget = 0 => ThreadTells(n, events)
    BY <1>3, <1>6, AlikeTells
<1> QED
    BY <1>4, <1>5, <1>6, <1>7, <1>8, Quiet

-----------------------------------------------------------------------------
(* process() *)

LEMMA MarkRight ==
  ASSUME NEW rec \in Records, NEW S, NEW f \in {"pending", "accepted", "reading"},
         PostedStored(rec)
  PROVE  /\ Mark(rec, S, f) \in Records /\ PostedStored(Mark(rec, S, f))
         /\ \A ev : PostedRight(rec, ev) => PostedRight(Mark(rec, S, f), ev)
<1>1. f \in Flag
    BY DEF Flag
<1>2. Mark(rec, S, f) \in Records
    BY <1>1, MarkIs
<1>3. \A o \in Obs : Mark(rec, S, f)[o] = IF o \in S THEN rec[o] \cup {f} ELSE rec[o]
    BY <1>1, MarkIs
<1>4. ASSUME NEW o \in Obs
      PROVE  /\ "posted" \in Mark(rec, S, f)[o] => "posted" \in rec[o]
             /\ "reading" \in rec[o] => "reading" \in Mark(rec, S, f)[o]
  <2>1. f # "posted"
      OBVIOUS
  <2>2. Mark(rec, S, f)[o] = rec[o] \/ Mark(rec, S, f)[o] = rec[o] \cup {f}
      BY <1>3
  <2> QED
      BY <2>1, <2>2
<1>5. PostedStored(Mark(rec, S, f))
    BY <1>4 DEF PostedStored
<1>6. ASSUME NEW ev, PostedRight(rec, ev) PROVE PostedRight(Mark(rec, S, f), ev)
    BY <1>4, <1>6 DEF PostedRight
<1> QED
    BY <1>2, <1>5, <1>6

LEMMA MarkStored ==
  ASSUME NEW rec \in Records, NEW S, NEW f \in {"pending", "accepted", "reading"}, NEW rw,
         StoredRight(rec, rw), f = "pending" \/ \A o \in Obs : o \in S => rw[o] > 0
  PROVE  StoredRight(Mark(rec, S, f), rw)
<1>1. f \in Flag
    BY DEF Flag
<1>2. \A o \in Obs : Mark(rec, S, f)[o] = IF o \in S THEN rec[o] \cup {f} ELSE rec[o]
    BY <1>1, MarkIs
<1> QED
    BY <1>2 DEF StoredRight

(* What a thread in process() knows, and what it knows when it goes on.    *)
LEMMA InProcess ==
  ASSUME Inv, NEW w \in Worker, worker[w].phase \in Processing
  PROVE  /\ worker[w] \in Memory /\ worker[w].gen \in Gen /\ worker[w].gen # None
         /\ ThreadRight(worker[w], run, rows) /\ worker[w].rec \in Records
         /\ PostedStored(worker[w].rec) /\ StoredRight(worker[w].rec, rows[worker[w].gen])
         /\ used.forget = 0 => /\ ThreadTells(worker[w], events)
                               /\ PostedRight(worker[w].rec, events[worker[w].gen])
BY Here, MemoryIs DEF Processing, ThreadRight, ThreadTells, Recorded

LEMMA LookedUp ==
  ASSUME NEW m \in Memory, NEW D \in SUBSET Place
  PROVE  LET n == [m EXCEPT !.phase = "readback", !.devices = D]
         IN  /\ n \in Memory /\ n.phase = "readback" /\ n.rec = m.rec /\ n.gen = m.gen
             /\ n.seq = m.seq /\ n.pending = m.pending /\ n.batch = m.batch
             /\ n.after = m.after /\ n.goal = m.goal /\ n.next = m.next
BY DEF Memory, Phase, Processing

LEMMA LoadDevicesStep ==
  ASSUME Inv, NEW w \in Worker, LoadDevices(w)
  PROVE  Inv'
<1> DEFINE m == worker[w]
           n == [m EXCEPT !.phase = "readback", !.devices = Registered]
<1>0. m.phase = "devices" /\ m.phase \in Processing
    BY DEF LoadDevices, Asks, Processing
<1>1. /\ m \in Memory /\ m.gen \in Gen
      /\ ThreadRight(m, run, rows) /\ PostedStored(m.rec) /\ StoredRight(m.rec, rows[m.gen])
      /\ used.forget = 0 => ThreadTells(m, events) /\ PostedRight(m.rec, events[m.gen])
    BY <1>0, InProcess
<1>2. Registered \subseteq Place
    BY DEF Registered, Place
<1>3. Moves(w, n) /\ UNCHANGED <<outside, journal, used>>
    BY DEF LoadDevices, Moves
<1>4. /\ n \in Memory /\ n.phase = "readback" /\ n.rec = m.rec /\ n.gen = m.gen
      /\ n.seq = m.seq /\ n.pending = m.pending /\ n.batch = m.batch
      /\ n.after = m.after /\ n.goal = m.goal /\ n.next = m.next
  <2> HIDE DEF m
  <2> QED
      BY <1>1, <1>2, LookedUp
<1> HIDE DEF n
<1>5. Onward(m, n)
    BY <1>0, <1>4 DEF Onward, Processing
<1>6. ThreadRight(n, run, rows) /\ (used.forget = 0 => ThreadTells(n, events))
  <2> HIDE DEF m
  <2> QED
      BY <1>1, <1>4, <1>5, OnwardRight, OnwardTells
<1>7. used' \in [Counter -> Nat] /\ used'.forget = used.forget
    BY <1>3 DEF Inv, TypeOK
<1>8. worker[w].phase # "ingesting" /\ UNCHANGED <<outside, journal>>
    BY <1>0, <1>3
<1> QED
    BY <1>3, <1>4, <1>6, <1>7, <1>8, Quiet

(* Readings are there when they are found. *)
LEMMA FoundIs ==
  ASSUME Inv, NEW m \in Memory, m.gen \in Gen, PostedStored(m.rec),
         StoredRight(m.rec, rows[m.gen]), NEW S \in SUBSET Found(m)
  PROVE  LET n == ReadBack(m, S)
         IN  /\ n \in Memory /\ n.phase = m.phase
             /\ n.gen = m.gen /\ n.seq = m.seq
             /\ n.pending = m.pending /\ n.batch = m.batch /\ n.after = m.after
             /\ n.goal = m.goal /\ n.next = m.next
             /\ PostedStored(n.rec) /\ StoredRight(n.rec, rows[m.gen])
             /\ \A ev : PostedRight(m.rec, ev) => PostedRight(n.rec, ev)
<1>1. \A o \in Obs : o \in S => rows[m.gen][o] > 0
    BY DEF Found
<1>2. m.rec \in Records
    BY MemoryIs
<1>3. /\ PostedStored(Mark(m.rec, S, "reading"))
      /\ StoredRight(Mark(m.rec, S, "reading"), rows[m.gen])
      /\ \A ev : PostedRight(m.rec, ev) => PostedRight(Mark(m.rec, S, "reading"), ev)
    BY <1>1, <1>2, MarkRight, MarkStored
<1> QED
    BY <1>3, ReadBackIs

LEMMA ReadBackBeforeStep ==
  ASSUME Inv, NEW w \in Worker, ReadBackBeforeSending(w)
  PROVE  Inv'
<1> DEFINE m == worker[w]
           k == ReadBack(m, Found(m))
           n == Resolved(k)
<1>0. m.phase = "readback" /\ m.phase \in Processing
    BY DEF ReadBackBeforeSending, Asks, Processing
<1>1. /\ m \in Memory /\ m.gen \in Gen
      /\ ThreadRight(m, run, rows) /\ PostedStored(m.rec) /\ StoredRight(m.rec, rows[m.gen])
      /\ used.forget = 0 => ThreadTells(m, events) /\ PostedRight(m.rec, events[m.gen])
    BY <1>0, InProcess
<1>2. Moves(w, n) /\ UNCHANGED <<outside, journal, used>>
    BY DEF ReadBackBeforeSending, Moves
<1>3. /\ k \in Memory /\ k.phase = m.phase /\ k.gen = m.gen /\ k.seq = m.seq
      /\ k.pending = m.pending /\ k.batch = m.batch /\ k.after = m.after
      /\ k.goal = m.goal /\ k.next = m.next
      /\ PostedStored(k.rec) /\ StoredRight(k.rec, rows[m.gen])
      /\ \A ev : PostedRight(m.rec, ev) => PostedRight(k.rec, ev)
  <2> HIDE DEF m
  <2> QED
      BY <1>1, FoundIs
<1> HIDE DEF k
<1>4. /\ n \in Memory /\ n.phase \in {"post", "ingest"}
      /\ n.phase = "post" => Unresolved(n) = {}
      /\ n.gen = k.gen /\ n.rec = k.rec /\ n.seq = k.seq
      /\ n.pending = k.pending /\ n.batch = k.batch /\ n.after = k.after
      /\ n.goal = k.goal /\ n.next = k.next
    BY <1>3, ResolvedIs
<1> HIDE DEF n
<1>5. Onward(m, n)
    BY <1>0, <1>3, <1>4 DEF Onward, Processing
<1>6. ThreadRight(n, run, rows) /\ (used.forget = 0 => ThreadTells(n, events))
  <2> HIDE DEF m
  <2> QED
      BY <1>1, <1>3, <1>4, <1>5, OnwardRight, OnwardTells
<1>7. used' \in [Counter -> Nat] /\ used'.forget = used.forget
    BY <1>2 DEF Inv, TypeOK
<1>8. worker[w].phase # "ingesting" /\ UNCHANGED <<outside, journal>>
    BY <1>0, <1>2
<1> QED
    BY <1>2, <1>4, <1>6, <1>7, <1>8, Quiet

LEMMA ReadBackAfterStep ==
  ASSUME Inv, NEW w \in Worker, ReadBackAfterSending(w)
  PROVE  Inv'
<1> DEFINE m == worker[w]
           k == ReadBack(m, Found(m))
<1>0. m.phase = "readback" /\ m.phase \in Processing
    BY DEF ReadBackAfterSending, Asks, Processing
<1>1. /\ m \in Memory /\ m.gen \in Gen
      /\ ThreadRight(m, run, rows) /\ PostedStored(m.rec) /\ StoredRight(m.rec, rows[m.gen])
      /\ used.forget = 0 => ThreadTells(m, events) /\ PostedRight(m.rec, events[m.gen])
    BY <1>0, InProcess
<1>2. /\ Moves(w, IF Unresolved(k) = {} THEN Resolved(k) ELSE Error(k))
      /\ Save(k) /\ UNCHANGED <<outside, used>>
    BY DEF ReadBackAfterSending, Moves
<1>3. /\ k \in Memory /\ k.phase = m.phase /\ k.gen = m.gen /\ k.seq = m.seq
      /\ k.pending = m.pending /\ k.batch = m.batch /\ k.after = m.after
      /\ k.goal = m.goal /\ k.next = m.next
      /\ PostedStored(k.rec) /\ StoredRight(k.rec, rows[m.gen])
      /\ \A ev : PostedRight(m.rec, ev) => PostedRight(k.rec, ev)
  <2> HIDE DEF m
  <2> QED
      BY <1>1, FoundIs
<1> HIDE DEF k
<1>4. Onward(m, k) /\ k.phase = "readback"
    BY <1>0, <1>3 DEF Onward, Processing
<1>5. ThreadRight(k, run, rows) /\ (used.forget = 0 => ThreadTells(k, events))
  <2> HIDE DEF m
  <2> QED
      BY <1>1, <1>3, <1>4, OnwardRight, OnwardTells
<1>6. /\ k.gen \in Gen /\ StoredRight(k.rec, rows[k.gen])
      /\ used.forget = 0 => PostedRight(k.rec, events[k.gen])
      /\ worker[w].phase # "ingesting"
    BY <1>0, <1>1, <1>3
<1>7. CASE Unresolved(k) = {}
  <2> DEFINE n == Resolved(k)
  <2>1. /\ n \in Memory /\ n.phase \in {"post", "ingest"}
        /\ n.phase = "post" => Unresolved(n) = {}
        /\ n.gen = k.gen /\ n.rec = k.rec /\ n.seq = k.seq
        /\ n.pending = k.pending /\ n.batch = k.batch /\ n.after = k.after
        /\ n.goal = k.goal /\ n.next = k.next
      BY <1>3, ResolvedIs
  <2>2. Moves(w, n)
      BY <1>2, <1>7
  <2> HIDE DEF n
  <2>3. Onward(k, n)
      BY <1>4, <2>1 DEF Onward, Processing
  <2>4. ThreadRight(n, run, rows) /\ (used.forget = 0 => ThreadTells(n, events))
    <3> HIDE DEF m
    <3> QED
        BY <1>3, <1>5, <1>6, <2>1, <2>3, OnwardRight, OnwardTells
  <2> HIDE DEF m
  <2> QED
      BY <1>2, <1>3, <1>6, <2>1, <2>2, <2>4, QuietSave
<1>8. CASE Unresolved(k) # {}
  <2> DEFINE n == Error(k)
  <2>1. n \in Memory /\ ThreadRight(n, run, rows)
      BY <1>3, <1>5, ErrorIs, ErrorRight
  <2>2. used.forget = 0 => ThreadTells(n, events)
      BY <1>3, <1>6, ErrorTells
  <2>3. Moves(w, n)
      BY <1>2, <1>8
  <2> HIDE DEF m, n
  <2> QED
      BY <1>2, <1>3, <1>6, <2>1, <2>2, <2>3, QuietSave
<1> QED
    BY <1>7, <1>8

LEMMA PrepareIngestStep ==
  ASSUME Inv, NEW w \in Worker, PrepareIngest(w)
  PROVE  Inv'
<1> DEFINE m == worker[w]
           rec == Mark(m.rec, Unresolved(m), "pending")
           n == [m EXCEPT !.rec = rec, !.phase = "send"]
<1>0. m.phase = "ingest" /\ m.phase \in Processing /\ m.phase # "ingesting"
    BY DEF PrepareIngest, Processing
<1>1. /\ m \in Memory /\ m.gen \in Gen /\ m.rec \in Records
      /\ ThreadRight(m, run, rows) /\ PostedStored(m.rec) /\ StoredRight(m.rec, rows[m.gen])
      /\ used.forget = 0 => ThreadTells(m, events) /\ PostedRight(m.rec, events[m.gen])
    BY <1>0, InProcess
<1>2. UNCHANGED <<outside, used>>
    BY DEF PrepareIngest
<1>3. CASE AwaitsIds(m)
  <2>1. Moves(w, Error(m)) /\ UNCHANGED <<outside, journal>>
      BY <1>2, <1>3 DEF PrepareIngest, Moves
  <2>2. used' \in [Counter -> Nat] /\ used'.forget = used.forget
      BY <1>2 DEF Inv, TypeOK
  <2> QED
      BY <1>0, <2>1, <2>2, FailsStep
<1>4. CASE ~AwaitsIds(m)
  <2>1. Moves(w, n) /\ Save(n)
      BY <1>4 DEF PrepareIngest, Moves, Doubted
  <2>2. /\ rec \in Records /\ PostedStored(rec) /\ StoredRight(rec, rows[m.gen])
        /\ \A ev : PostedRight(m.rec, ev) => PostedRight(rec, ev)
    <3> HIDE DEF m
    <3> QED
        BY <1>1, MarkRight, MarkStored
  <2> HIDE DEF rec
  <2>3. /\ n \in Memory /\ n.phase = "send" /\ n.rec = rec /\ n.gen = m.gen
        /\ n.seq = m.seq /\ n.pending = m.pending /\ n.batch = m.batch
        /\ n.after = m.after /\ n.goal = m.goal /\ n.next = m.next
      BY <1>1, <2>2 DEF Memory, Phase, Processing
  <2> HIDE DEF n
  <2>4. Onward(m, n)
      BY <1>0, <2>3 DEF Onward, Processing
  <2>5. ThreadRight(n, run, rows) /\ (used.forget = 0 => ThreadTells(n, events))
    <3> HIDE DEF m
    <3> QED
        BY <1>1, <2>2, <2>3, <2>4, OnwardRight, OnwardTells
  <2>6. /\ n.gen \in Gen /\ PostedStored(n.rec) /\ StoredRight(n.rec, rows[n.gen])
        /\ used.forget = 0 => PostedRight(n.rec, events[n.gen])
      BY <1>1, <2>2, <2>3
  <2> QED
      BY <1>0, <1>2, <2>1, <2>3, <2>5, <2>6, QuietSave
<1> QED
    BY <1>3, <1>4

(* Requests that others wait for, or nobody.                               *)
LEMMA RequestsLeft ==
  ASSUME Inv, NEW w \in Worker, rows' = rows,
         \A v \in Worker : v # w => worker'[v] = worker[v],
         \A r \in requests' : r.from # None => r \in requests /\ r.from # w
  PROVE  RequestsRight'
<1>1. ASSUME NEW r \in requests', r.from # None
      PROVE  Carries(r, worker'[r.from], rows)
  <2>1. r \in requests /\ r.from # w
      BY <1>1
  <2>2. r.from \in Worker /\ Carries(r, worker[r.from], rows)
      BY <1>1, <2>1 DEF Inv, TypeOK, RequestsRight, Request
  <2> QED
      BY <2>1, <2>2
<1>2. \A r, q \in requests' : r.from # None /\ r.from = q.from => r = q
    BY DEF Inv, RequestsRight
<1> QED
    BY <1>1, <1>2 DEF RequestsRight

(* A thread that waits for no answer sends a request.                      *)
LEMMA SendIngestStep ==
  ASSUME Inv, NEW w \in Worker, SendIngest(w)
  PROVE  Inv'
<1> DEFINE m == worker[w]
           n == [m EXCEPT !.phase = "ingesting", !.sent = TRUE]
           s == [from |-> w, gen |-> m.gen, items |-> Unresolved(m)]
<1>0. m.phase = "send" /\ m.phase \in Processing
    BY DEF SendIngest, Asks, Processing
<1>1. /\ m \in Memory /\ m.gen \in Gen
      /\ ThreadRight(m, run, rows) /\ PostedStored(m.rec) /\ StoredRight(m.rec, rows[m.gen])
      /\ used.forget = 0 => ThreadTells(m, events) /\ PostedRight(m.rec, events[m.gen])
    BY <1>0, InProcess
<1>2. /\ Moves(w, n) /\ requests' = requests \cup {s}
      /\ UNCHANGED <<run, rows, events, clock, journal, used>>
    BY DEF SendIngest, Moves
<1>3. /\ n \in Memory /\ n.phase = "ingesting" /\ n.rec = m.rec /\ n.gen = m.gen
      /\ n.seq = m.seq /\ n.pending = m.pending /\ n.batch = m.batch
      /\ n.after = m.after /\ n.goal = m.goal /\ n.next = m.next
    BY <1>1 DEF Memory, Phase, Processing
<1> HIDE DEF n
<1>4. Onward(m, n)
    BY <1>0, <1>3 DEF Onward, Processing
<1>5. ThreadRight(n, run, rows) /\ (used.forget = 0 => ThreadTells(n, events))
  <2> HIDE DEF m
  <2> QED
      BY <1>1, <1>3, <1>4, OnwardRight, OnwardTells
<1>6. GoesOn
    BY <1>2, PipelineAssumption DEF GoesOn, Inv, TypeOK, Gen
<1>7. /\ worker' \in [Worker -> Memory] /\ ThreadsRight'
      /\ (used'.forget = 0 => ThreadsTell')
    BY <1>2, <1>3, <1>5, <1>6, Threads
<1>8. Alike(n, worker'[w]) /\ \A v \in Worker : v # w => worker'[v] = worker[v]
    BY <1>2, <1>3, MovesIs DEF Inv
<1>9. s \in Request /\ s.from = w /\ s.gen = m.gen /\ s.items = Unresolved(m)
    BY <1>1, WorkIs DEF Request
<1>10. Unresolved(worker'[w]) = Unresolved(m) /\ worker'[w].phase = "ingesting"
       /\ worker'[w].gen = m.gen
    BY <1>3, <1>8, SameWork DEF Alike
<1> HIDE DEF s, m
<1>11. RequestsRight'
  <2>1. ASSUME NEW r \in requests, r.from # None
        PROVE  r.from # w /\ r.from \in Worker /\ Carries(r, worker[r.from], rows)
    <3>1. r.from \in Worker /\ Carries(r, worker[r.from], rows)
        BY <2>1 DEF Inv, TypeOK, RequestsRight, Request
    <3>2. r.from # w
        BY <1>0, <3>1 DEF Carries, m
    <3> QED
        BY <3>1, <3>2
  <2>2. ASSUME NEW r \in requests', r.from # None
        PROVE  Carries(r, worker'[r.from], rows)
    <3>1. CASE r \in requests
        BY <1>8, <2>1, <2>2, <3>1
    <3>2. CASE r = s
        BY <1>9, <1>10, <3>2 DEF Carries
    <3> QED
        BY <1>2, <2>2, <3>1, <3>2
  <2>3. ASSUME NEW r \in requests', NEW q \in requests', r.from # None, r.from = q.from
        PROVE  r = q
    <3>1. CASE r \in requests /\ q \in requests
        BY <2>3, <3>1 DEF Inv, RequestsRight
    <3>2. CASE r = s /\ q = s
        BY <3>2
    <3>3. CASE r = s /\ q \in requests
        BY <1>9, <2>1, <2>3, <3>3
    <3>4. CASE r \in requests /\ q = s
        BY <1>9, <2>1, <2>3, <3>4
    <3> QED
        BY <1>2, <2>3, <3>1, <3>2, <3>3, <3>4
  <2> QED
      BY <1>2, <2>2, <2>3 DEF RequestsRight
<1>12. TypeOK'
    BY <1>2, <1>7, <1>9 DEF Inv, TypeOK
<1> QED
    BY <1>2, <1>7, <1>11, <1>12 DEF Inv, RunRight, JournalsRight, JournalsTell, Reached

(* What the answer says is so.                                             *)
LEMMA AcknowledgedIs ==
  ASSUME NEW m \in Memory, m.gen \in Gen, PostedStored(m.rec), NEW rw, StoredRight(m.rec, rw),
         m.phase \in Processing,
         \A o \in Unresolved(m) : rw[o] > 0, NEW returned \in BOOLEAN
  PROVE  /\ Acknowledged(m, returned) \in Memory /\ Onward(m, Acknowledged(m, returned))
         /\ PostedStored(Acknowledged(m, returned).rec)
         /\ StoredRight(Acknowledged(m, returned).rec, rw)
         /\ \A ev : PostedRight(m.rec, ev) => PostedRight(Acknowledged(m, returned).rec, ev)
         /\ Acknowledged(m, returned).phase \in {"post", "devices"}
         /\ Acknowledged(m, returned).phase = "post" =>
              Unresolved(Acknowledged(m, returned)) = {}
<1> DEFINE S == Unresolved(m)
           acc == Mark(m.rec, S, "accepted")
           rec == Mark(acc, S, "reading")
           dev == m.devices \cup {<<m.gen, DeviceOf[o]>> : o \in S}
<1>1. m.rec \in Records /\ S \subseteq Obs /\ (\A o \in S : rw[o] > 0) /\ m.devices \subseteq Place
    BY MemoryIs, WorkIs
<1>2. /\ acc \in Records /\ PostedStored(acc) /\ StoredRight(acc, rw)
      /\ \A ev : PostedRight(m.rec, ev) => PostedRight(acc, ev)
    BY <1>1, MarkRight, MarkStored
<1>3. /\ rec \in Records /\ PostedStored(rec) /\ StoredRight(rec, rw)
      /\ \A ev : PostedRight(m.rec, ev) => PostedRight(rec, ev)
  <2> HIDE DEF acc
  <2>1. /\ rec \in Records /\ PostedStored(rec)
        /\ \A ev : PostedRight(acc, ev) => PostedRight(rec, ev)
      BY <1>2, MarkRight
  <2>2. StoredRight(rec, rw)
      BY <1>1, <1>2, MarkStored
  <2> QED
      BY <1>2, <2>1, <2>2
<1>4. dev \subseteq Place
    BY <1>1 DEF Place
<1>5. CASE returned
  <2> DEFINE n == [m EXCEPT !.rec = rec, !.phase = "post", !.devices = dev]
  <2>1. Acknowledged(m, returned) = n
      BY <1>5 DEF Acknowledged, Accepted
  <2>2. \A o \in S : "reading" \in rec[o]
    <3> HIDE DEF S
    <3>1. \A o \in Obs : rec[o] = IF o \in S THEN acc[o] \cup {"reading"} ELSE acc[o]
      <4> HIDE DEF acc
      <4> QED
          BY DEF Mark
    <3> QED
        BY <1>1, <3>1
  <2>3. \A o \in Obs : "posted" \in m.rec[o] \/ "reading" \in m.rec[o] =>
                         "posted" \in rec[o] \/ "reading" \in rec[o]
    <3>1. \A o \in Obs : rec[o] = IF o \in S THEN acc[o] \cup {"reading"} ELSE acc[o]
      <4> HIDE DEF acc, S
      <4> QED
          BY DEF Mark
    <3>2. \A o \in Obs : acc[o] = IF o \in S THEN m.rec[o] \cup {"accepted"} ELSE m.rec[o]
      <4> HIDE DEF S
      <4> QED
          BY DEF Mark
    <3> HIDE DEF rec, acc, S
    <3> QED
        BY <3>1, <3>2
  <2> HIDE DEF rec, dev
  <2>4. /\ n \in Memory /\ n.rec = rec /\ n.phase = "post" /\ n.gen = m.gen
        /\ n.seq = m.seq /\ n.pending = m.pending /\ n.batch = m.batch
        /\ n.after = m.after /\ n.goal = m.goal /\ n.next = m.next
      BY <1>3, <1>4 DEF Memory, Phase, Processing
  <2> HIDE DEF n
  <2>5. Unresolved(n) = {}
    <3> SUFFICES ASSUME NEW o \in n.batch \ Unmapped, "posted" \notin n.rec[o],
                        "reading" \notin n.rec[o]
                 PROVE  FALSE
        BY DEF Unresolved, Entries
    <3>1. o \in Obs
        BY <2>4, MemoryIs
    <3>2. o \in S
        BY <2>3, <2>4, <3>1 DEF Unresolved, Entries
    <3> QED
        BY <2>2, <2>4, <3>2
  <2>6. Onward(m, n)
      BY <2>4 DEF Onward, Processing
  <2> QED
      BY <1>3, <2>1, <2>4, <2>5, <2>6
<1>6. CASE ~returned
  <2> DEFINE n == [m EXCEPT !.rec = acc, !.phase = "devices"]
  <2>1. Acknowledged(m, returned) = n
      BY <1>6 DEF Acknowledged, Accepted
  <2> HIDE DEF acc
  <2>2. /\ n \in Memory /\ n.rec = acc /\ n.phase = "devices" /\ n.gen = m.gen
        /\ n.seq = m.seq /\ n.pending = m.pending /\ n.batch = m.batch
        /\ n.after = m.after /\ n.goal = m.goal /\ n.next = m.next
      BY <1>2 DEF Memory, Phase, Processing
  <2> HIDE DEF n
  <2>3. Onward(m, n)
      BY <2>2 DEF Onward, Processing
  <2> QED
      BY <1>2, <2>1, <2>2, <2>3
<1> QED
    BY <1>5, <1>6

LEMMA AnswerIs ==
  ASSUME NEW w, IngestAnswered(w)
  PROVE  \E returned : /\ returned \in BOOLEAN
                       /\ Save(Acknowledged(worker[w], returned))
                       /\ Becomes(w, Acknowledged(worker[w], returned))
<1>1. PICK answer : LET n == Acknowledged(worker[w], answer = "readings")
                    IN Save(n) /\ Becomes(w, n)
    BY DEF IngestAnswered
<1>2. PICK returned : returned = (answer = "readings")
    OBVIOUS
<1>3. returned \in BOOLEAN
    BY <1>2
<1>4. Save(Acknowledged(worker[w], returned)) /\ Becomes(w, Acknowledged(worker[w], returned))
    BY <1>1, <1>2
<1> QED
    BY <1>3, <1>4

LEMMA IngestAnsweredStep ==
  ASSUME Inv, NEW w \in Worker, IngestAnswered(w)
  PROVE  Inv'
<1> DEFINE m == worker[w]
<1>0. m.phase = "ingesting" /\ m.phase \in Processing
      /\ UNCHANGED <<run, rows, events, clock, used>>
    BY DEF IngestAnswered, Answered, Processing
<1>1. /\ m \in Memory /\ m.gen \in Gen
      /\ ThreadRight(m, run, rows) /\ PostedStored(m.rec) /\ StoredRight(m.rec, rows[m.gen])
      /\ used.forget = 0 => ThreadTells(m, events) /\ PostedRight(m.rec, events[m.gen])
    BY <1>0, InProcess
<1>2. PICK r \in requests : r.from = w /\ r.items = {} /\ requests' = requests \ {r}
    BY DEF IngestAnswered, Answered
<1>3. PICK returned : /\ returned \in BOOLEAN
                      /\ Save(Acknowledged(m, returned))
                      /\ Becomes(w, Acknowledged(m, returned))
    BY AnswerIs
<1> DEFINE n == Acknowledged(m, returned)
<1>4. returned \in BOOLEAN
    BY <1>3
<1>5. \A o \in Unresolved(m) : rows[m.gen][o] > 0
    BY <1>2, Ranges DEF Inv, RequestsRight, Carries
<1>6. /\ n \in Memory /\ Onward(m, n) /\ PostedStored(n.rec) /\ StoredRight(n.rec, rows[m.gen])
      /\ \A ev : PostedRight(m.rec, ev) => PostedRight(n.rec, ev)
      /\ n.phase \in {"post", "devices"} /\ (n.phase = "post" => Unresolved(n) = {})
  <2> HIDE DEF m
  <2> QED
      BY <1>0, <1>1, <1>4, <1>5, AcknowledgedIs
<1>7. Moves(w, n) /\ Save(n)
    BY <1>3 DEF Moves
<1> HIDE DEF n
<1>8. n.gen = m.gen
    BY <1>6 DEF Onward
<1>9. ThreadRight(n, run, rows) /\ (used.forget = 0 => ThreadTells(n, events))
  <2> HIDE DEF m
  <2> QED
      BY <1>1, <1>6, <1>8, OnwardRight, OnwardTells
<1>10. GoesOn
    BY <1>0, PipelineAssumption DEF GoesOn, Inv, TypeOK, Gen
<1>11. /\ worker' \in [Worker -> Memory] /\ ThreadsRight'
       /\ (used'.forget = 0 => ThreadsTell')
    BY <1>0, <1>6, <1>7, <1>9, <1>10, Threads
<1>12. /\ DOMAIN journal' = Gen
       /\ \A g \in Gen : journal'[g] # None => journal'[g] \in Entry
       /\ JournalsRight'
    BY <1>0, <1>1, <1>6, <1>7, <1>8, Saves DEF Inv
<1>13. used.forget = 0 => JournalsTell'
    BY <1>0, <1>1, <1>6, <1>7, <1>8, SavesTell DEF Inv
<1>14. RequestsRight'
  <2>1. \A v \in Worker : v # w => worker'[v] = worker[v]
      BY <1>6, <1>7, MovesIs DEF Inv
  <2>2. \A q \in requests' : q \in requests /\ q.from # w
      BY <1>2, Ranges DEF Inv, RequestsRight
  <2> QED
      BY <1>0, <2>1, <2>2, RequestsLeft
<1>15. TypeOK'
    BY <1>0, <1>2, <1>11, <1>12 DEF Inv, TypeOK
<1> QED
    BY <1>0, <1>11, <1>12, <1>13, <1>14, <1>15 DEF Inv, RunRight, Reached

(* Requests nobody waits for any more.                                     *)
Orphaned(R) == {[r EXCEPT !.from = None] : r \in R}
LEMMA OrphanedIs ==
  ASSUME NEW R \in SUBSET Request
  PROVE  Orphaned(R) \subseteq Request /\ \A q \in Orphaned(R) : q.from = None
<1> SUFFICES ASSUME NEW r \in R
             PROVE  [r EXCEPT !.from = None] \in Request /\ [r EXCEPT !.from = None].from = None
    BY DEF Orphaned
<1> QED
    BY DEF Request

LEMMA LateIs ==
  ASSUME TypeOK, NEW c \in Counter \ {"forget", "loss", "late"}
  PROVE  /\ used' = [used EXCEPT ![c] = @ + 1] =>
              used' \in [Counter -> Nat] /\ used'.forget = used.forget
                                         /\ used'.loss = used.loss
         /\ used' = [used EXCEPT ![c] = @ + 1, !.late = @ + 1] =>
              used' \in [Counter -> Nat] /\ used'.forget = used.forget
                                         /\ used'.loss = used.loss
<1> DEFINE f == [used EXCEPT ![c] = used[c] + 1]
<1>1. f \in [Counter -> Nat] /\ f.forget = used.forget /\ f.loss = used.loss
      /\ f.late = used.late
    BY DEF TypeOK, Counter
<1> DEFINE h == [f EXCEPT !.late = used.late + 1]
<1>2. h = [used EXCEPT ![c] = @ + 1, !.late = @ + 1]
    OBVIOUS
<1> HIDE DEF f
<1>3. h \in [Counter -> Nat] /\ h.forget = used.forget /\ h.loss = used.loss
    BY <1>1 DEF TypeOK, Counter
<1> HIDE DEF h
<1> QED
    BY <1>1, <1>2, <1>3 DEF f

(* What a failure, blind or not, leaves of the counters.                    *)
LEMMA FailureIs ==
  ASSUME TypeOK, NEW c \in {0, 1}, NEW f,
         f = [used EXCEPT !.fault = used.fault + 1, !.blind = used.blind + c]
  PROVE  /\ f \in [Counter -> Nat] /\ f.forget = used.forget /\ f.loss = used.loss
         /\ f.fault = used.fault + 1 /\ f.blind = used.blind + c /\ f.late = used.late
<1>1. used \in [Counter -> Nat]
    BY DEF TypeOK
<1>2. used.fault \in Nat /\ used.blind \in Nat
    BY ONLY <1>1 DEF Counter
<1>3. used.fault + 1 \in Nat /\ used.blind + c \in Nat
  <2>1. c = 0 \/ c = 1
      OBVIOUS
  <2> QED
      BY ONLY <1>2, <2>1
<1>4. PICK x : x = used.fault + 1
    OBVIOUS
<1>5. PICK y : y = used.blind + c
    OBVIOUS
<1>6. x \in Nat /\ y \in Nat /\ f = [used EXCEPT !.fault = x, !.blind = y]
    BY <1>3, <1>4, <1>5
<1>7. f \in [Counter -> Nat]
    BY ONLY <1>1, <1>6 DEF Counter
<1>8. /\ f.forget = used.forget /\ f.loss = used.loss
      /\ f.fault = x /\ f.blind = y /\ f.late = used.late
    BY ONLY <1>1, <1>6 DEF Counter
<1> QED
    BY ONLY <1>4, <1>5, <1>7, <1>8

(* What becomes of a request without an answer, and of the counters.       *)
Mine(w) == {r \in requests : r.from = w}
LEMMA GivesUpIs ==
  ASSUME TypeOK, NEW w \in Worker, NEW c \in {0, 1}, GivesUp(w, c)
  PROVE  /\ worker[w].phase = "ingesting" /\ UNCHANGED <<run, rows, events, clock, journal>>
         /\ used' \in [Counter -> Nat] /\ used'.forget = used.forget
         /\ used'.loss = used.loss /\ used'.fault = used.fault + 1
         /\ used'.blind = used.blind + c
         /\ requests' \subseteq (requests \ Mine(w)) \cup Orphaned(Mine(w))
         /\ \/ used'.late = used.late /\ requests' = requests \ Mine(w)
            \/ used'.late = used.late + 1
<1>1. worker[w].phase = "ingesting" /\ UNCHANGED <<run, rows, events, clock, journal>>
    BY DEF GivesUp
<1>2. PICK f : f = [used EXCEPT !.fault = used.fault + 1, !.blind = used.blind + c]
    OBVIOUS
<1>3. /\ f \in [Counter -> Nat] /\ f.forget = used.forget /\ f.loss = used.loss
      /\ f.fault = used.fault + 1 /\ f.blind = used.blind + c /\ f.late = used.late
    BY <1>2, FailureIs
<1>4. PICK h : h = [f EXCEPT !.late = used.late + 1]
    OBVIOUS
<1>5. /\ h \in [Counter -> Nat] /\ h.forget = used.forget /\ h.loss = used.loss
      /\ h.fault = used.fault + 1 /\ h.blind = used.blind + c /\ h.late = used.late + 1
    BY <1>3, <1>4 DEF TypeOK, Counter
<1>6. h = [used EXCEPT !.fault = @ + 1, !.blind = @ + c, !.late = @ + 1]
    BY <1>2, <1>4
<1>7. \/ used' = f /\ requests' = requests \ Mine(w)
      \/ used' = h /\ requests' = (requests \ Mine(w)) \cup Orphaned(Mine(w))
    BY <1>2, <1>6 DEF GivesUp, Mine, Orphaned
<1> QED
    BY <1>1, <1>3, <1>5, <1>7

LEMMA GivesUpStep ==
  ASSUME Inv, NEW w \in Worker, NEW c \in {0, 1}, GivesUp(w, c),
         NEW n \in Memory, Moves(w, n), ThreadRight(n, run, rows),
         used.forget = 0 => ThreadTells(n, events)
  PROVE  Inv'
<1>1. /\ UNCHANGED <<run, rows, events, clock, journal>>
      /\ used' \in [Counter -> Nat] /\ used'.forget = used.forget
      /\ requests' \subseteq (requests \ Mine(w)) \cup Orphaned(Mine(w))
    BY GivesUpIs DEF Inv
<1>2. GoesOn
    BY <1>1, PipelineAssumption DEF GoesOn, Inv, TypeOK, Gen
<1>3. /\ worker' \in [Worker -> Memory] /\ ThreadsRight'
      /\ (used'.forget = 0 => ThreadsTell')
    BY <1>1, <1>2, Threads
<1>4. /\ Mine(w) \in SUBSET Request /\ Orphaned(Mine(w)) \subseteq Request
      /\ \A q \in Orphaned(Mine(w)) : q.from = None
  <2>1. Mine(w) \in SUBSET Request
      BY DEF Inv, TypeOK, Mine
  <2> QED
      BY <2>1, OrphanedIs
<1>5. requests' \subseteq Request
    BY <1>1, <1>4 DEF Inv, TypeOK
<1>6. RequestsRight'
  <2>1. \A v \in Worker : v # w => worker'[v] = worker[v]
      BY MovesIs DEF Inv
  <2>2. \A q \in requests' : q.from # None => q \in requests /\ q.from # w
      BY <1>1, <1>4 DEF Mine
  <2> QED
      BY <1>1, <2>1, <2>2, RequestsLeft
<1>7. TypeOK'
    BY <1>1, <1>3, <1>5 DEF Inv, TypeOK
<1> QED
    BY <1>1, <1>3, <1>6, <1>7 DEF Inv, RunRight, JournalsRight, JournalsTell, Reached

LEMMA IngestLostStep ==
  ASSUME Inv, NEW w \in Worker, IngestLost(w)
  PROVE  Inv'
<1> DEFINE m == worker[w]
           n == [m EXCEPT !.phase = "devices"]
<1>1. GivesUp(w, 0) /\ Moves(w, n) /\ m.phase = "ingesting"
    BY DEF IngestLost, Moves, GivesUp
<1>2. m.phase \in Processing
    BY <1>1 DEF Processing
<1>3. /\ m \in Memory /\ m.gen \in Gen
      /\ ThreadRight(m, run, rows) /\ PostedStored(m.rec) /\ StoredRight(m.rec, rows[m.gen])
      /\ used.forget = 0 => ThreadTells(m, events) /\ PostedRight(m.rec, events[m.gen])
    BY <1>2, InProcess
<1>4. /\ n \in Memory /\ n.phase = "devices" /\ n.rec = m.rec /\ n.gen = m.gen
      /\ n.seq = m.seq /\ n.pending = m.pending /\ n.batch = m.batch
      /\ n.after = m.after /\ n.goal = m.goal /\ n.next = m.next
    BY <1>3 DEF Memory, Phase, Processing
<1> HIDE DEF n
<1>5. Onward(m, n)
    BY <1>2, <1>4 DEF Onward, Processing
<1>6. ThreadRight(n, run, rows) /\ (used.forget = 0 => ThreadTells(n, events))
  <2> HIDE DEF m
  <2> QED
      BY <1>3, <1>4, <1>5, OnwardRight, OnwardTells
<1> QED
    BY <1>1, <1>4, <1>6, GivesUpStep

(* An error that no inner except catches: the thread starts over.          *)
LEMMA IngestCutIs ==
  ASSUME NEW w \in Worker, IngestCut(w)
  PROVE  /\ Moves(w, Error(worker[w]))
         /\ \E c \in {0, 1} : GivesUp(w, c) /\ (c = 0 => ~Blind(worker[w]))
<1>1. Moves(w, Error(worker[w]))
    BY DEF IngestCut, Moves
<1>2. PICK c : c = Blindness(worker[w])
    OBVIOUS
<1>3. GivesUp(w, c)
    BY <1>2 DEF IngestCut
<1>4. c \in {0, 1} /\ (c = 0 => ~Blind(worker[w]))
    BY <1>2 DEF Blindness
<1> QED
    BY <1>1, <1>3, <1>4

LEMMA DevicesFailIs ==
  ASSUME TypeOK, NEW w \in Worker, DevicesFail(w)
  PROVE  /\ worker[w].phase = "devices" /\ UNCHANGED <<outside, journal>>
         /\ Moves(w, Error(worker[w]))
         /\ used' \in [Counter -> Nat] /\ used'.forget = used.forget
         /\ used'.loss = used.loss /\ used'.late = used.late
         /\ \E c \in {0, 1} : used'.blind = used.blind + c /\ (c = 0 => ~Blind(worker[w]))
<1>1. /\ worker[w].phase = "devices" /\ UNCHANGED <<outside, journal>>
      /\ Moves(w, Error(worker[w]))
    BY DEF DevicesFail, Asks, Moves
<1>2. PICK c : c = Blindness(worker[w])
    OBVIOUS
<1>3. c \in {0, 1} /\ (c = 0 => ~Blind(worker[w]))
    BY <1>2 DEF Blindness
<1>4. used' = [used EXCEPT !.fault = used.fault + 1, !.blind = used.blind + c]
    BY <1>2 DEF DevicesFail
<1> QED
    BY <1>1, <1>3, <1>4, FailureIs

LEMMA IngestCutStep ==
  ASSUME Inv, NEW w \in Worker, IngestCut(w)
  PROVE  Inv'
<1>1. PICK c \in {0, 1} : GivesUp(w, c)
    BY IngestCutIs
<1>2. /\ worker[w] \in Memory /\ ThreadRight(worker[w], run, rows)
      /\ used.forget = 0 => ThreadTells(worker[w], events)
    BY Here
<1>3. Error(worker[w]) \in Memory /\ ThreadRight(Error(worker[w]), run, rows)
    BY <1>2, ErrorIs, ErrorRight
<1>4. used.forget = 0 => ThreadTells(Error(worker[w]), events)
    BY <1>2, ErrorTells DEF ThreadTells
<1>5. Moves(w, Error(worker[w]))
    BY IngestCutIs
<1> QED
    BY <1>1, <1>3, <1>4, <1>5, GivesUpStep

(* A malformed answer leaves the memory of an acknowledgement and an error. *)
LEMMA MalformedIs ==
  ASSUME NEW m \in Memory
  PROVE  Error([m EXCEPT !.rec = Accepted(m)]) = Error(Acknowledged(m, FALSE))
<1>1. PICK acc : acc = Accepted(m)
    OBVIOUS
<1>2. Acknowledged(m, FALSE) = [m EXCEPT !.rec = acc, !.phase = "devices"]
    BY <1>1 DEF Acknowledged
<1>3. Error([m EXCEPT !.rec = acc]) = Error([m EXCEPT !.rec = acc, !.phase = "devices"])
    BY DEF Error, Memory
<1> QED
    BY <1>1, <1>2, <1>3

(* What IngestMalformed does, in the words of the acknowledgement.         *)
LEMMA MalformedMoves ==
  ASSUME TypeOK, NEW w \in Worker, IngestMalformed(w)
  PROVE  /\ worker[w].phase = "ingesting"
         /\ UNCHANGED <<run, rows, events, clock, journal, used>>
         /\ Moves(w, Error(Acknowledged(worker[w], FALSE)))
         /\ \E r \in requests : r.from = w /\ r.items = {} /\ requests' = requests \ {r}
<1>1. worker[w] \in Memory
    BY DEF TypeOK
<1>2. Becomes(w, Error([worker[w] EXCEPT !.rec = Accepted(worker[w])]))
    BY DEF IngestMalformed
<1>3. Becomes(w, Error(Acknowledged(worker[w], FALSE)))
    BY <1>1, <1>2, MalformedIs
<1> QED
    BY <1>3 DEF IngestMalformed, Answered, Moves

LEMMA IngestMalformedStep ==
  ASSUME Inv, NEW w \in Worker, IngestMalformed(w)
  PROVE  Inv'
<1> PICK m : m = worker[w]
    OBVIOUS
<1> PICK k : k = Acknowledged(m, FALSE)
    OBVIOUS
<1>1. /\ m.phase = "ingesting" /\ m.phase \in Processing
      /\ UNCHANGED <<run, rows, events, clock, journal, used>> /\ Moves(w, Error(k))
    BY MalformedMoves DEF Inv, Processing
<1>2. /\ m \in Memory /\ m.gen \in Gen
      /\ ThreadRight(m, run, rows) /\ PostedStored(m.rec) /\ StoredRight(m.rec, rows[m.gen])
      /\ used.forget = 0 => ThreadTells(m, events) /\ PostedRight(m.rec, events[m.gen])
    BY <1>1, InProcess
<1>3. PICK r \in requests : r.from = w /\ r.items = {} /\ requests' = requests \ {r}
    BY MalformedMoves DEF Inv
<1>4. \A o \in Unresolved(m) : rows[m.gen][o] > 0
    BY <1>3, Ranges DEF Inv, RequestsRight, Carries
<1>5. /\ k \in Memory /\ Onward(m, k) /\ PostedStored(k.rec) /\ StoredRight(k.rec, rows[m.gen])
      /\ \A ev : PostedRight(m.rec, ev) => PostedRight(k.rec, ev)
      /\ k.phase \in {"post", "devices"} /\ (k.phase = "post" => Unresolved(k) = {})
    BY <1>1, <1>2, <1>4, AcknowledgedIs
<1>6. k.gen = m.gen
    BY <1>5 DEF Onward
<1>7. ThreadRight(k, run, rows)
    BY <1>2, <1>5, <1>6, OnwardRight
<1>8. Error(k) \in Memory /\ ThreadRight(Error(k), run, rows)
    BY <1>5, <1>7, ErrorIs, ErrorRight
<1>9. used.forget = 0 => ThreadTells(Error(k), events)
    BY <1>2, <1>5, <1>6, ErrorTells
<1>10. GoesOn
    BY <1>1, PipelineAssumption DEF GoesOn, Inv, TypeOK, Gen
<1>11. /\ worker' \in [Worker -> Memory] /\ ThreadsRight'
       /\ (used'.forget = 0 => ThreadsTell')
    BY <1>1, <1>8, <1>9, <1>10, Threads
<1>12. RequestsRight'
  <2>1. \A v \in Worker : v # w => worker'[v] = worker[v]
      BY <1>1, <1>8, MovesIs DEF Inv
  <2>2. \A q \in requests' : q \in requests /\ q.from # w
      BY <1>3, Ranges DEF Inv, RequestsRight
  <2> QED
      BY <1>1, <2>1, <2>2, RequestsLeft
<1>13. TypeOK'
    BY <1>1, <1>3, <1>11 DEF Inv, TypeOK
<1> QED
    BY <1>1, <1>11, <1>12, <1>13 DEF Inv, RunRight, JournalsRight, JournalsTell, Reached

-----------------------------------------------------------------------------
(* The agent: events and ticks *)

LEMMA LeastIs ==
  ASSUME NEW S \in SUBSET Obs, S # {}
  PROVE  Least(S) \in S
<1>1. S \subseteq Nat
    BY PipelineAssumption DEF Obs
<1>2. PICK x \in S : \A y \in S : ~ (<<y, x>> \in OpToRel(<, Nat))
    BY <1>1, NatLessThanWellFounded, WFMin
<1>3. ASSUME NEW y \in S PROVE x <= y
  <2>1. x \in Nat /\ y \in Nat
      BY <1>1
  <2>2. ~(y < x)
      BY <1>2, <2>1 DEF OpToRel
  <2> QED
      BY <2>1, <2>2
<1> QED
    BY <1>3 DEF Least

LEMMA GreatestIs ==
  ASSUME NEW S \in SUBSET Obs, S # {}
  PROVE  \E x \in S : LatestAt(S) = At[x]
<1> DEFINE T == {MaxObs - y : y \in S}
<1>1. T \subseteq Nat /\ T # {}
  <2>1. \A y \in S : MaxObs - y \in Nat
      BY PipelineAssumption DEF Obs
  <2> QED
      BY <2>1
<1>2. PICK z \in T : \A y \in T : ~ (<<y, z>> \in OpToRel(<, Nat))
    BY <1>1, NatLessThanWellFounded, WFMin
<1>3. PICK x \in S : z = MaxObs - x
    BY <1>2
<1>4. \A y \in S : y <= x
  <2> SUFFICES ASSUME NEW y \in S PROVE y <= x
      OBVIOUS
  <2>1. MaxObs - y \in T /\ MaxObs - y \in Nat /\ z \in Nat
      BY <1>1, <1>2
  <2>2. ~(MaxObs - y < z)
      BY <1>2, <2>1 DEF OpToRel
  <2>3. x \in Int /\ y \in Int /\ MaxObs \in Int
    <3>1. MaxObs \in Nat
        BY PipelineAssumption
    <3>2. x \in Obs /\ y \in Obs
        BY <1>3
    <3> QED
        BY ONLY <3>1, <3>2 DEF Obs
  <2>4. ~(MaxObs - y < MaxObs - x)
      BY <1>3, <2>2
  <2> HIDE DEF T
  <2> QED
      BY <2>3, <2>4
<1> DEFINE c == CHOOSE o \in S : \A p \in S : p <= o
<1>5. c \in S
    BY <1>4
<1> QED
    BY <1>5 DEF LatestAt

(* Where a batch, or the snapshot or heartbeat after it, brings the clock   *)
(* to, the agent was told of all before.                                    *)
LEMMA TargetIs ==
  ASSUME Inv, NEW w \in Worker, worker[w].phase \in {"tick", "goal"}
  PROVE  /\ Target(worker[w]) \in Time
         /\ used.forget = 0 => \A o \in Obs \ Unmapped :
              At[o] < Target(worker[w]) => o \in events[worker[w].gen]
<1> DEFINE m == worker[w]
<1>1. /\ m \in Memory /\ m.gen \in Gen /\ m.gen # None
      /\ Placed(m, run) /\ Bounded(m) /\ m.batch \in SUBSET Obs /\ m.seq \in Nat
      /\ m.goal \in Time /\ m.after \in Nat
      /\ used.forget = 0 => Told(m, events) /\ BatchTold(m, events)
    BY Here, MemoryIs DEF ThreadRight, ThreadTells
<1>2. ASSUME NEW o \in Obs, NEW x \in Obs
      PROVE  /\ At[o] \in Nat /\ At[x] \in Nat /\ o \in Nat /\ x \in Nat
             /\ x <= o => At[x] <= At[o]
  <2>1. At[o] \in Nat /\ At[x] \in Nat /\ o \in Nat /\ x \in Nat
      BY PipelineAssumption DEF Time, Obs
  <2>2. x < o => At[x] <= At[o]
      BY PipelineAssumption
  <2> QED
      BY <2>1, <2>2
<1>3. CASE m.phase = "goal"
  <2>1. Target(m) = m.goal
      BY <1>3 DEF Target
  <2>2. ASSUME used.forget = 0, NEW o \in Obs \ Unmapped, At[o] < m.goal
        PROVE  o \in events[m.gen]
    <3>1. o <= m.seq
        BY <1>1, <1>2, <1>3, <2>2, Ranges DEF Bounded, Time
    <3> QED
        BY <1>1, <1>3, <2>2, <3>1 DEF Told
  <2> QED
      BY <1>1, <2>1, <2>2
<1>4. CASE m.phase = "tick"
  <2>1. Target(m) = LatestAt(m.batch) /\ m.phase \in Processing
      BY <1>4 DEF Target, Processing
  <2>2. CASE m.batch = {}
    <3>1. Target(m) = 0
        BY <2>1, <2>2 DEF LatestAt
    <3> QED
        BY <1>2, <3>1, Ranges
  <2>3. CASE m.batch # {}
    <3>1. PICK x \in m.batch : Target(m) = At[x]
        BY <1>1, <2>1, <2>3, GreatestIs
    <3>2. x \in Obs
        BY <1>1
    <3>3. ASSUME used.forget = 0, NEW o \in Obs \ Unmapped, At[o] < At[x]
          PROVE  o \in events[m.gen]
      <4>1. ~(x <= o) /\ o \in Nat /\ x \in Nat /\ At[o] \in Nat /\ At[x] \in Nat
          BY <1>2, <3>2, <3>3
      <4>2. o <= m.seq
        <5>1. CASE x <= m.seq
            BY <1>1, <4>1, <5>1
        <5>2. CASE At[x] <= m.goal
            BY <1>1, <2>1, <3>3, <4>1, <5>2, Ranges DEF Bounded, Time
        <5> QED
            BY <1>1, <2>1, <5>1, <5>2 DEF Bounded
      <4>3. m.next = "goal" \/ o <= m.after
          BY <1>1, <2>1, <4>1 DEF Bounded
      <4>4. o \in events[m.gen] \cup m.batch
          BY <1>1, <2>1, <3>3, <4>2, <4>3 DEF Told
      <4> QED
          BY <1>1, <1>4, <3>3, <4>4 DEF BatchTold
    <3> QED
        BY <3>1, <3>2, <3>3, Ranges
  <2> QED
      BY <2>2, <2>3
<1> QED
    BY <1>3, <1>4

(* The clock goes to the target, whether or not the thread learns of it.    *)
LEMMA ReachedTarget ==
  ASSUME Inv, NEW w \in Worker, worker[w].phase \in {"tick", "goal"},
         clock' = [clock EXCEPT ![worker[w].gen] = Target(worker[w])],
         events' = events
  PROVE  /\ clock' \in [Gen -> Time \cup {-1}]
         /\ used.forget = 0 => Reached'
<1>1. worker[w].gen \in Gen
    BY Here
<1>2. Target(worker[w]) \in Time
    BY TargetIs
<1>3. clock' \in [Gen -> Time \cup {-1}]
    BY <1>2 DEF Inv, TypeOK
<1>4. ASSUME used.forget = 0, NEW g \in Gen, NEW o \in Obs \ Unmapped, At[o] < clock'[g]
      PROVE  o \in events[g]
  <2>1. CASE g = worker[w].gen
      BY <1>1, <1>4, <2>1, TargetIs DEF Inv, TypeOK
  <2>2. CASE g # worker[w].gen
      BY <1>4, <2>2 DEF Inv, TypeOK, Reached
  <2> QED
      BY <2>1, <2>2
<1> QED
    BY <1>3, <1>4 DEF Reached

LEMMA EventsDoneStep ==
  ASSUME Inv, NEW w \in Worker, EventsDone(w)
  PROVE  Inv'
<1> DEFINE m == worker[w]
           n == [m EXCEPT !.phase = "tick"]
<1>0. m.phase = "post" /\ m.phase \in Processing /\ m.phase # "ingesting" /\ Entries(m) = {}
    BY DEF EventsDone, Processing
<1>1. /\ m \in Memory /\ m.gen \in Gen
      /\ ThreadRight(m, run, rows) /\ PostedStored(m.rec) /\ StoredRight(m.rec, rows[m.gen])
      /\ used.forget = 0 => ThreadTells(m, events) /\ PostedRight(m.rec, events[m.gen])
    BY <1>0, InProcess
<1>2. worker' = [worker EXCEPT ![w] = n] /\ Save(m) /\ UNCHANGED <<outside, used>>
    BY DEF EventsDone
<1>3. Moves(w, n)
    BY <1>2 DEF Moves
<1>4. /\ n \in Memory /\ n.phase = "tick" /\ n.rec = m.rec /\ n.gen = m.gen
      /\ n.seq = m.seq /\ n.pending = m.pending /\ n.batch = m.batch
      /\ n.after = m.after /\ n.goal = m.goal /\ n.next = m.next
    BY <1>1 DEF Memory, Phase, Processing
<1> HIDE DEF n
<1>5. Onward(m, n)
    BY <1>0, <1>4 DEF Onward, Processing
<1>6. Entries(n) = {} /\ Unresolved(n) = {}
    BY <1>0, <1>4, SameWork DEF Unresolved
<1>7. ThreadRight(n, run, rows) /\ (used.forget = 0 => ThreadTells(n, events))
  <2> HIDE DEF m
  <2> QED
      BY <1>1, <1>4, <1>5, <1>6, OnwardRight, OnwardTells
<1>8. worker[w].phase # "ingesting"
    BY <1>0
<1> HIDE DEF m
<1> QED
    BY <1>1, <1>2, <1>3, <1>4, <1>7, <1>8, QuietSave

LEMMA PostedIs ==
  ASSUME NEW m \in Memory, PostedStored(m.rec), NEW o \in Obs, o \in Entries(m),
         Unresolved(m) = {}
  PROVE  /\ Posted(m, o) \in Memory /\ Posted(m, o).phase = m.phase
         /\ Posted(m, o).gen = m.gen /\ Posted(m, o).seq = m.seq
         /\ Posted(m, o).pending = m.pending /\ Posted(m, o).batch = m.batch
         /\ Posted(m, o).after = m.after /\ Posted(m, o).goal = m.goal
         /\ Posted(m, o).next = m.next
         /\ PostedStored(Posted(m, o).rec) /\ Unresolved(Posted(m, o)) = {}
         /\ \A rw : StoredRight(m.rec, rw) => StoredRight(Posted(m, o).rec, rw)
         /\ \A ev : PostedRight(m.rec, ev) /\ o \in ev => PostedRight(Posted(m, o).rec, ev)
<1> DEFINE rec == [m.rec EXCEPT ![o] = (m.rec[o] \cup {"posted"}) \ {"pending"}]
           n == [m EXCEPT !.rec = rec]
<1>1. Posted(m, o) = n
    BY DEF Posted
<1>2. m.rec \in Records
    BY MemoryIs
<1>3. rec \in Records
    BY <1>2 DEF Records, Flag
<1>4. \A p \in Obs : rec[p] = IF p = o THEN (m.rec[o] \cup {"posted"}) \ {"pending"}
                              ELSE m.rec[p]
    BY <1>2 DEF Records
<1>5. "reading" \in m.rec[o] /\ "posted" \notin m.rec[o]
    BY WorkIs DEF Entries
<1> HIDE DEF rec
<1>6. /\ n \in Memory /\ n.rec = rec /\ n.phase = m.phase /\ n.gen = m.gen /\ n.seq = m.seq
      /\ n.pending = m.pending /\ n.batch = m.batch /\ n.after = m.after
      /\ n.goal = m.goal /\ n.next = m.next
    BY <1>3 DEF Memory
<1> HIDE DEF n
<1>7. PostedStored(rec)
    BY <1>4, <1>5 DEF PostedStored
<1>8. Unresolved(n) = {}
  <2> SUFFICES ASSUME NEW p \in n.batch \ Unmapped, "posted" \notin n.rec[p],
                      "reading" \notin n.rec[p]
               PROVE  FALSE
      BY DEF Unresolved, Entries
  <2>1. p \in Obs
      BY <1>6, MemoryIs
  <2> QED
      BY <1>4, <1>5, <1>6, <2>1 DEF Unresolved, Entries
<1>9. ASSUME NEW rw, StoredRight(m.rec, rw) PROVE StoredRight(rec, rw)
  <2> SUFFICES ASSUME NEW p \in Obs, rec[p] \cap {"accepted", "reading"} # {}
               PROVE  rw[p] > 0
      BY DEF StoredRight
  <2>1. m.rec[p] \cap {"accepted", "reading"} # {}
      BY <1>4
  <2> QED
      BY <1>9, <2>1 DEF StoredRight
<1>10. ASSUME NEW ev, PostedRight(m.rec, ev), o \in ev PROVE PostedRight(rec, ev)
    BY <1>4, <1>10 DEF PostedRight
<1> QED
    BY <1>1, <1>6, <1>7, <1>8, <1>9, <1>10

(* A request had its effect and the thread fails, as if it had not.         *)
LEMMA FailsAfter ==
  ASSUME Inv, UNCHANGED <<run, rows, requests, journal>>,
         used' \in [Counter -> Nat], used'.forget = used.forget,
         NEW w \in Worker, worker[w].phase # "ingesting", Moves(w, Error(worker[w])),
         events' \in [Gen -> SUBSET Obs], \A g \in Gen : events[g] \subseteq events'[g],
         clock' \in [Gen -> Time \cup {-1}], used.forget = 0 => Reached'
  PROVE  Inv'
<1> DEFINE n == Error(worker[w])
<1>1. /\ worker[w] \in Memory /\ ThreadRight(worker[w], run, rows)
      /\ used.forget = 0 => ThreadTells(worker[w], events)
    BY Here
<1>2. n \in Memory /\ ThreadRight(n, run, rows)
    BY <1>1, ErrorIs, ErrorRight
<1>3. ASSUME used.forget = 0 PROVE ThreadTells(n, events')
  <2>1. ThreadTells(n, events)
      BY <1>1, <1>3, ErrorTells DEF ThreadTells
  <2> HIDE DEF n
  <2> QED
      BY <1>2, <2>1, TellsStays
<1> HIDE DEF n
<1>4. GoesOn
    BY PipelineAssumption DEF GoesOn, Inv, TypeOK, Gen
<1>5. Moves(w, n)
    BY DEF n
<1>6. /\ worker' \in [Worker -> Memory] /\ ThreadsRight'
      /\ (used'.forget = 0 => ThreadsTell')
    BY <1>2, <1>3, <1>4, <1>5, Threads
<1>7. RequestsRight'
  <2>1. \A v \in Worker : v # w => worker'[v] = worker[v]
      BY <1>2, <1>5, MovesIs DEF Inv
  <2> QED
      BY <2>1, RequestsStay
<1>8. TypeOK'
    BY <1>6 DEF Inv, TypeOK
<1>9. used.forget = 0 => JournalsTell'
    BY DEF Inv, JournalsTell, PostedRight
<1> QED
    BY <1>6, <1>7, <1>8, <1>9 DEF Inv, RunRight, JournalsRight

(* The agent has one event more. *)
LEMMA ToldMore ==
  ASSUME Inv, NEW g \in Gen, NEW o \in Obs,
         events' = [events EXCEPT ![g] = @ \cup {o}]
  PROVE  /\ events' \in [Gen -> SUBSET Obs] /\ \A h \in Gen : events[h] \subseteq events'[h]
         /\ o \in events'[g]
         /\ Reached /\ clock' = clock => Reached'
<1>1. /\ events' \in [Gen -> SUBSET Obs] /\ \A h \in Gen : events[h] \subseteq events'[h]
      /\ o \in events'[g]
    BY DEF Inv, TypeOK
<1> QED
    BY <1>1 DEF Reached

LEMMA PostEventStep ==
  ASSUME Inv, NEW w \in Worker, PostEvent(w)
  PROVE  Inv'
<1> DEFINE m == worker[w]
           o == Least(Entries(m))
           n == Posted(m, o)
<1>0. /\ m.phase = "post" /\ m.phase \in Processing /\ m.phase # "ingesting"
      /\ Entries(m) # {} /\ UNCHANGED <<run, rows, requests, clock, journal, used>>
    BY DEF PostEvent, Asks, Processing
<1>1. /\ m \in Memory /\ m.gen \in Gen /\ m.gen # None
      /\ ThreadRight(m, run, rows) /\ PostedStored(m.rec) /\ StoredRight(m.rec, rows[m.gen])
      /\ used.forget = 0 => ThreadTells(m, events) /\ PostedRight(m.rec, events[m.gen])
    BY <1>0, InProcess
<1>2. used' \in [Counter -> Nat] /\ used'.forget = used.forget
    BY <1>0 DEF Inv, TypeOK
<1>3. CASE clock[m.gen] = -1
  <2>1. Moves(w, Error(m)) /\ UNCHANGED <<outside, journal>>
      BY <1>0, <1>3 DEF PostEvent, Moves, outside
  <2> QED
      BY <1>0, <1>2, <2>1, FailsStep
<1>4. CASE clock[m.gen] # -1
  <2>1. Moves(w, n) /\ events' = [events EXCEPT ![m.gen] = @ \cup {o}]
      BY <1>4 DEF PostEvent, Moves
  <2>2. o \in Entries(m) /\ o \in Obs /\ Unresolved(m) = {}
      BY <1>0, <1>1, LeastIs, WorkIs DEF ThreadRight, Recorded
  <2> HIDE DEF o
  <2>3. /\ n \in Memory /\ n.phase = m.phase /\ n.gen = m.gen /\ n.seq = m.seq
        /\ n.pending = m.pending /\ n.batch = m.batch /\ n.after = m.after
        /\ n.goal = m.goal /\ n.next = m.next
        /\ PostedStored(n.rec) /\ Unresolved(n) = {}
        /\ \A rw : StoredRight(m.rec, rw) => StoredRight(n.rec, rw)
        /\ \A ev : PostedRight(m.rec, ev) /\ o \in ev => PostedRight(n.rec, ev)
    <3> HIDE DEF m
    <3> QED
        BY <1>1, <2>2, PostedIs
  <2> HIDE DEF n
  <2>4. Onward(m, n)
      BY <1>0, <2>3 DEF Onward
  <2>5. n.phase # "tick"
      BY <1>0, <2>3
  <2>6. ThreadRight(n, run, rows)
    <3> HIDE DEF m
    <3> QED
        BY <1>1, <2>3, <2>4, <2>5, OnwardRight
  <2>7. /\ events' \in [Gen -> SUBSET Obs] /\ \A h \in Gen : events[h] \subseteq events'[h]
        /\ o \in events'[m.gen]
        /\ Reached => Reached'
      BY <1>0, <1>1, <2>1, <2>2, ToldMore
  <2>8. ASSUME used.forget = 0 PROVE ThreadTells(n, events')
    <3>1. ThreadTells(m, events')
      <4> HIDE DEF m
      <4> QED
          BY <1>1, <2>7, <2>8, TellsStays
    <3>2. PostedRight(n.rec, events'[n.gen])
        BY <1>1, <2>3, <2>7, <2>8, <3>1 DEF ThreadTells
    <3> HIDE DEF m
    <3> QED
        BY <1>1, <2>3, <2>4, <2>5, <3>1, <3>2, OnwardTells
  <2>9. GoesOn
    <3>1. run' = run /\ rows' = rows /\ used' = used
        BY <1>0
    <3>2. run.gen <= run.gen /\ run.count <= run.count
        BY PipelineAssumption DEF Inv, TypeOK, Gen
    <3> QED
        BY <2>7, <3>1, <3>2 DEF GoesOn
  <2>10. /\ worker' \in [Worker -> Memory] /\ ThreadsRight'
         /\ (used'.forget = 0 => ThreadsTell')
      BY <1>0, <2>1, <2>3, <2>6, <2>8, <2>9, Threads
  <2>11. RequestsRight'
    <3>1. \A v \in Worker : v # w => worker'[v] = worker[v]
        BY <2>1, <2>3, MovesIs DEF Inv
    <3> QED
        BY <1>0, <3>1, RequestsStay
  <2>12. TypeOK'
      BY <1>0, <2>7, <2>10 DEF Inv, TypeOK
  <2>13. used.forget = 0 => JournalsTell'
      BY <1>0, <2>7 DEF Inv, JournalsTell, PostedRight
  <2> QED
      BY <1>0, <2>7, <2>10, <2>11, <2>12, <2>13 DEF Inv, RunRight, JournalsRight
<1> QED
    BY <1>3, <1>4

LEMMA TickedIs ==
  ASSUME Inv, NEW w \in Worker, worker[w].phase \in {"tick", "goal"}
  PROVE  LET n == Ticked(worker[w])
         IN  /\ n \in Memory /\ n.gen = worker[w].gen /\ n.rec = worker[w].rec
             /\ ThreadRight(n, run, rows)
             /\ used.forget = 0 => ThreadTells(n, events)
<1> DEFINE m == worker[w]
           n == Ticked(m)
<1>1. /\ m \in Memory /\ m.gen \in Gen /\ m.gen # None
      /\ ThreadRight(m, run, rows)
      /\ used.forget = 0 => ThreadTells(m, events)
    BY Here
<1>2. CASE m.phase = "tick"
  <2>1. n = [m EXCEPT !.phase = m.next, !.batch = {}, !.recover = FALSE, !.sent = FALSE,
                      !.next = "stream"]
      BY <1>2 DEF Ticked
  <2>2. m.next \in {"history", "goal"} /\ m.phase \in Processing /\ m.next \in Phase
      BY <1>1, <1>2 DEF ThreadRight, Bounded, Processing, Phase
  <2>3. /\ n \in Memory /\ n.phase = m.next /\ n.rec = m.rec /\ n.gen = m.gen
        /\ n.seq = m.seq /\ n.pending = m.pending /\ n.batch = {}
        /\ n.after = m.after /\ n.goal = m.goal /\ n.next = "stream"
    <3> HIDE DEF n
    <3> QED
        BY <1>1, <2>1, <2>2 DEF Memory
  <2> HIDE DEF n
  <2>4. Placed(n, run)
      BY <1>1, <2>3 DEF ThreadRight, Placed
  <2>5. Bounded(n)
    <3>1. n.phase \notin Processing /\ n.phase \notin {"session", "stream"}
        BY <2>2, <2>3 DEF Processing
    <3>2. Bounded(m)
        BY <1>1 DEF ThreadRight
    <3> QED
        BY <2>2, <2>3, <3>1, <3>2 DEF Bounded
  <2>6. ThreadRight(n, run, rows)
      BY <1>1, <2>2, <2>3, <2>4, <2>5 DEF ThreadRight, Recorded
  <2>7. ASSUME used.forget = 0 PROVE ThreadTells(n, events)
    <3>1. Told(m, events) /\ BatchTold(m, events) /\ PostedRight(m.rec, events[m.gen])
        BY <1>1, <2>7 DEF ThreadTells
    <3>2. \A o \in Obs \ Unmapped : o <= m.seq /\ (m.next = "goal" \/ o <= m.after) =>
            o \in events[m.gen]
        BY <1>2, <2>2, <3>1 DEF Told, BatchTold
    <3>3. Told(n, events)
        BY <2>2, <2>3, <3>2 DEF Told, Processing
    <3> QED
        BY <2>2, <2>3, <3>1, <3>3 DEF ThreadTells, BatchTold
  <2> QED
      BY <2>3, <2>6, <2>7 DEF n
<1>3. CASE m.phase = "goal"
  <2>1. n = [m EXCEPT !.phase = "stream", !.state = "live", !.after = 0, !.goal = 0]
      BY <1>3 DEF Ticked
  <2>3. /\ n \in Memory /\ n.phase = "stream" /\ n.rec = m.rec /\ n.gen = m.gen
        /\ n.seq = m.seq /\ n.pending = m.pending /\ n.batch = m.batch
        /\ n.after = 0 /\ n.goal = 0 /\ n.next = m.next
    <3> HIDE DEF n
    <3> QED
        BY <1>1, <2>1, Ranges DEF Memory, Phase
  <2> HIDE DEF n
  <2>4. Placed(n, run)
      BY <1>1, <2>3 DEF ThreadRight, Placed
  <2>5. Bounded(n)
      BY <2>3 DEF Bounded, Processing
  <2>6. ThreadRight(n, run, rows)
      BY <1>1, <2>3, <2>4, <2>5 DEF ThreadRight, Recorded
  <2>7. ASSUME used.forget = 0 PROVE ThreadTells(n, events)
    <3>1. Told(m, events) /\ PostedRight(m.rec, events[m.gen])
        BY <1>1, <2>7 DEF ThreadTells
    <3>2. Told(n, events)
        BY <1>3, <2>3, <3>1 DEF Told, Processing
    <3> QED
        BY <2>3, <3>1, <3>2 DEF ThreadTells, BatchTold
  <2> QED
      BY <2>3, <2>6, <2>7 DEF n
<1> QED
    BY <1>2, <1>3

LEMMA TickNotNeededStep ==
  ASSUME Inv, NEW w \in Worker, TickNotNeeded(w)
  PROVE  Inv'
<1> DEFINE n == Ticked(worker[w])
<1>0. /\ worker[w].phase \in {"tick", "goal"} /\ worker[w].phase # "ingesting"
      /\ UNCHANGED <<outside, journal, used>> /\ Moves(w, n)
    BY DEF TickNotNeeded, Moves
<1>1. /\ n \in Memory /\ ThreadRight(n, run, rows)
      /\ used.forget = 0 => ThreadTells(n, events)
    BY <1>0, TickedIs
<1>2. used' \in [Counter -> Nat] /\ used'.forget = used.forget
    BY <1>0 DEF Inv, TypeOK
<1>3. UNCHANGED <<outside, journal>>
    BY <1>0
<1> HIDE DEF n
<1> QED
    BY <1>0, <1>1, <1>2, <1>3, Quiet

LEMMA ClockIs ==
  ASSUME NEW m \in Memory, NEW t \in Time
  PROVE  LET n == [m EXCEPT !.clock = t]
         IN  n \in Memory /\ Alike(m, n)
BY DEF Memory, Alike

LEMMA TickStep ==
  ASSUME Inv, NEW w \in Worker, Tick(w)
  PROVE  Inv'
<1> DEFINE m == worker[w]
           t == Target(m)
           k == Ticked(m)
           n == [k EXCEPT !.clock = t]
<1>0. /\ m.phase \in {"tick", "goal"} /\ worker[w].phase # "ingesting"
      /\ UNCHANGED <<run, rows, requests, events, used>>
    BY DEF Tick, Asks
<1>1. m \in Memory /\ m.gen \in Gen /\ m.gen # None
    BY <1>0, Here
<1>2. used' \in [Counter -> Nat] /\ used'.forget = used.forget
    BY <1>0 DEF Inv, TypeOK
<1>3. CASE clock[m.gen] = -1 \/ t < clock[m.gen]
  <2>1. Moves(w, Error(m)) /\ UNCHANGED <<outside, journal>>
      BY <1>0, <1>3 DEF Tick, Moves, outside
  <2> QED
      BY <1>0, <1>2, <2>1, FailsStep
<1>4. CASE ~(clock[m.gen] = -1 \/ t < clock[m.gen])
  <2>1. clock' = [clock EXCEPT ![m.gen] = t] /\ Save(n) /\ Moves(w, n)
      BY <1>4 DEF Tick, Moves
  <2>2. /\ clock' \in [Gen -> Time \cup {-1}] /\ t \in Time
        /\ used.forget = 0 => Reached'
      BY <1>0, <2>1, ReachedTarget, TargetIs
  <2>3. /\ k \in Memory /\ k.gen = m.gen /\ k.rec = m.rec /\ ThreadRight(k, run, rows)
        /\ used.forget = 0 => ThreadTells(k, events)
      BY <1>0, TickedIs
  <2> HIDE DEF k, t
  <2>4. n \in Memory /\ Alike(k, n)
      BY <2>2, <2>3, ClockIs
  <2> HIDE DEF n
  <2>5. ThreadRight(n, run, rows) /\ n.gen = m.gen /\ n.rec = m.rec
      BY <2>3, <2>4, AlikeRight DEF Alike
  <2>6. used.forget = 0 => ThreadTells(n, events)
      BY <2>3, <2>4, AlikeTells
  <2>7. GoesOn
    <3>1. run' = run /\ rows' = rows /\ used' = used /\ events' = events
        BY <1>0
    <3>2. run.gen <= run.gen /\ run.count <= run.count
        BY PipelineAssumption DEF Inv, TypeOK, Gen
    <3> QED
        BY <3>1, <3>2 DEF GoesOn
  <2>8. /\ worker' \in [Worker -> Memory] /\ ThreadsRight'
        /\ (used'.forget = 0 => ThreadsTell')
      BY <1>0, <2>1, <2>4, <2>5, <2>6, <2>7, Threads
  <2>9. RequestsRight'
    <3>1. \A v \in Worker : v # w => worker'[v] = worker[v]
        BY <2>1, <2>4, MovesIs DEF Inv
    <3> QED
        BY <1>0, <3>1, RequestsStay
  <2>10. /\ PostedStored(n.rec) /\ StoredRight(n.rec, rows[n.gen]) /\ n.gen \in Gen
         /\ used.forget = 0 => PostedRight(n.rec, events[n.gen])
      BY <1>1, <2>3, <2>5 DEF ThreadRight, Recorded, ThreadTells
  <2>11. /\ DOMAIN journal' = Gen
         /\ \A g \in Gen : journal'[g] # None => journal'[g] \in Entry
         /\ JournalsRight'
      BY <1>0, <2>1, <2>4, <2>10, Saves DEF Inv
  <2>12. used.forget = 0 => JournalsTell'
      BY <1>0, <2>1, <2>4, <2>10, SavesTell DEF Inv
  <2>13. TypeOK'
      BY <1>0, <2>2, <2>8, <2>11 DEF Inv, TypeOK
  <2> QED
      BY <1>0, <2>2, <2>8, <2>9, <2>11, <2>12, <2>13 DEF Inv, RunRight
<1> QED
    BY <1>3, <1>4

-----------------------------------------------------------------------------
(* Faults *)

LEMMA RequestFailsStep ==
  ASSUME Inv, NEW w \in Worker, RequestFails(w)
  PROVE  Inv'
<1>1. Moves(w, Error(worker[w])) /\ UNCHANGED <<outside, journal>>
    BY DEF RequestFails, Moves
<1>2. worker[w].phase # "ingesting"
    BY DEF RequestFails, TickDue
<1>3. used' \in [Counter -> Nat] /\ used'.forget = used.forget
    BY UseIs DEF RequestFails, Inv, Counter
<1> QED
    BY <1>1, <1>2, <1>3, FailsStep

LEMMA DevicesFailStep ==
  ASSUME Inv, NEW w \in Worker, DevicesFail(w)
  PROVE  Inv'
<1>1. /\ Moves(w, Error(worker[w])) /\ UNCHANGED <<outside, journal>>
      /\ worker[w].phase # "ingesting"
      /\ used' \in [Counter -> Nat] /\ used'.forget = used.forget
    BY DevicesFailIs DEF Inv
<1> QED
    BY <1>1, FailsStep

LEMMA ReadBackFailsStep ==
  ASSUME Inv, NEW w \in Worker, ReadBackFails(w)
  PROVE  Inv'
<1> DEFINE m == worker[w]
<1>0. m.phase = "readback" /\ m.phase \in Processing /\ m.phase # "ingesting"
      /\ UNCHANGED <<outside, journal>>
    BY DEF ReadBackFails, Asks, Processing
<1>1. /\ m \in Memory /\ m.gen \in Gen
      /\ ThreadRight(m, run, rows) /\ PostedStored(m.rec) /\ StoredRight(m.rec, rows[m.gen])
      /\ used.forget = 0 => ThreadTells(m, events) /\ PostedRight(m.rec, events[m.gen])
    BY <1>0, InProcess
<1>2. PICK S \in SUBSET Found(m) : Becomes(w, Error(ReadBack(m, S)))
    BY DEF ReadBackFails
<1> DEFINE k == ReadBack(m, S)
<1>3. /\ k \in Memory /\ k.phase = m.phase /\ k.gen = m.gen /\ k.seq = m.seq
      /\ k.pending = m.pending /\ k.batch = m.batch /\ k.after = m.after
      /\ k.goal = m.goal /\ k.next = m.next
      /\ PostedStored(k.rec) /\ StoredRight(k.rec, rows[m.gen])
      /\ \A ev : PostedRight(m.rec, ev) => PostedRight(k.rec, ev)
  <2> HIDE DEF m
  <2> QED
      BY <1>1, FoundIs
<1> DEFINE n == Error(k)
<1>4. Moves(w, n)
    BY <1>2 DEF Moves
<1> HIDE DEF k
<1>5. Onward(m, k) /\ k.phase = "readback"
    BY <1>0, <1>3 DEF Onward, Processing
<1>6. ThreadRight(k, run, rows) /\ (used.forget = 0 => ThreadTells(k, events))
  <2> HIDE DEF m
  <2> QED
      BY <1>1, <1>3, <1>5, OnwardRight, OnwardTells
<1>7. n \in Memory /\ ThreadRight(n, run, rows)
    BY <1>3, <1>6, ErrorIs, ErrorRight
<1>8. used.forget = 0 => ThreadTells(n, events)
    BY <1>1, <1>3, ErrorTells
<1>9. used' \in [Counter -> Nat] /\ used'.forget = used.forget
    BY UseIs DEF ReadBackFails, Inv, Counter
<1> HIDE DEF n
<1> QED
    BY <1>0, <1>4, <1>7, <1>8, <1>9, Quiet

LEMMA AnswerLostStep ==
  ASSUME Inv, NEW w \in Worker, AnswerLost(w)
  PROVE  Inv'
<1> DEFINE m == worker[w]
<1>1. Moves(w, Error(m)) /\ UNCHANGED <<run, rows, requests, journal>>
    BY DEF AnswerLost, Moves
<1>2. used' \in [Counter -> Nat] /\ used'.forget = used.forget
    BY UseIs DEF AnswerLost, Inv, Counter
<1>3. m.phase \in {"session", "post", "tick", "goal"} /\ m.phase # "ingesting"
    BY DEF AnswerLost, TickDue
<1>4. m \in Memory /\ m.gen \in Gen
    BY <1>3, Here
<1>5. /\ clock \in [Gen -> Time \cup {-1}] /\ events \in [Gen -> SUBSET Obs]
      /\ used.forget = 0 => Reached
    BY DEF Inv, TypeOK
<1>6. CASE /\ m.phase = "session"
           /\ StartSession(m.gen)
           /\ UNCHANGED events
  <2>1. clock' \in [Gen -> Time \cup {-1}] /\ (Reached => Reached')
      BY <1>4, <1>6, StartedIs, ReachedAnew
  <2>2. events' \in [Gen -> SUBSET Obs] /\ \A g \in Gen : events[g] \subseteq events'[g]
      BY <1>5, <1>6
  <2> QED
      BY <1>1, <1>2, <1>3, <1>5, <2>1, <2>2, FailsAfter
<1>7. CASE /\ m.phase = "post" /\ Entries(m) # {}
           /\ events' = [events EXCEPT ![m.gen] = @ \cup {Least(Entries(m))}]
           /\ UNCHANGED clock
  <2> DEFINE o == Least(Entries(m))
  <2>1. o \in Obs
      BY <1>4, <1>7, LeastIs, WorkIs
  <2>2. /\ events' \in [Gen -> SUBSET Obs] /\ \A h \in Gen : events[h] \subseteq events'[h]
        /\ Reached => Reached'
      BY <1>4, <1>7, <2>1, ToldMore
  <2>3. clock' \in [Gen -> Time \cup {-1}]
      BY <1>5, <1>7
  <2> QED
      BY <1>1, <1>2, <1>3, <1>5, <2>2, <2>3, FailsAfter
<1>8. CASE /\ TickDue(m)
           /\ clock' = [clock EXCEPT ![m.gen] = Target(m)]
           /\ UNCHANGED events
  <2>1. m.phase \in {"tick", "goal"}
      BY <1>8 DEF TickDue
  <2>2. clock' \in [Gen -> Time \cup {-1}] /\ (used.forget = 0 => Reached')
      BY <1>8, <2>1, ReachedTarget
  <2>3. events' \in [Gen -> SUBSET Obs] /\ \A g \in Gen : events[g] \subseteq events'[g]
      BY <1>5, <1>8
  <2> QED
      BY <1>1, <1>2, <1>3, <2>2, <2>3, FailsAfter
<1> QED
    BY <1>6, <1>7, <1>8 DEF AnswerLost

-----------------------------------------------------------------------------
(* Threads begin and end *)

LEMMA ConnectStep ==
  ASSUME Inv, NEW w \in Worker, Connect(w)
  PROVE  Inv'
<1> DEFINE c == [Off EXCEPT !.phase = "connect"]
<1>1. worker[w].phase = "off" /\ UNCHANGED <<outside, journal>>
    BY DEF Connect
<1>2. c \in Memory /\ ThreadRight(c, run, rows) /\ ThreadTells(c, events)
  <2>1. /\ c \in Memory /\ c.phase = "connect" /\ c.gen = None /\ c.pending = {}
        /\ c.after = 0 /\ c.rec = NoRecords
      BY OffIs, PhaseIs DEF Phase
  <2> HIDE DEF c
  <2> QED
      BY <2>1, IdleRight DEF Inv, TypeOK
<1>3. used' \in [Counter -> Nat] /\ used'.forget = used.forget
    BY UseIs DEF Connect, Inv, Counter
<1>4. worker \in [Worker -> Memory]
    BY DEF Inv, TypeOK
<1>5. ASSUME NEW v \in Worker
      PROVE  /\ worker'[v] \in Memory
             /\ v = w => worker'[v] = c
             /\ v # w => Alike(worker[v], worker'[v])
  <2>1. worker[v] \in Memory
      BY <1>4
  <2>2. worker'[v] = CASE v = w -> c
                       [] v # w /\ worker[v].phase # "off" /\ worker[v].stop = "no" ->
                            [worker[v] EXCEPT !.stop = "requested"]
                       [] OTHER -> worker[v]
      BY DEF Connect
  <2>3. CASE v = w
      BY <1>2, <2>2, <2>3
  <2>4. CASE v # w
    <3>1. \/ worker'[v] = [worker[v] EXCEPT !.stop = "requested"]
          \/ worker'[v] = worker[v]
        BY <2>2, <2>4
    <3>2. Alike(worker[v], worker[v])
        BY DEF Alike
    <3> QED
        BY <2>1, <2>4, <3>1, <3>2, StopIs
  <2> QED
      BY <2>3, <2>4
<1>6. worker' \in [Worker -> Memory]
  <2>1. DOMAIN worker' = Worker /\ worker' = [v \in Worker |-> worker'[v]]
      BY DEF Connect
  <2> QED
      BY <1>5, <2>1
<1> HIDE DEF c
<1>7. ThreadsRight'
  <2> SUFFICES ASSUME NEW v \in Worker PROVE ThreadRight(worker'[v], run, rows)
      BY <1>1 DEF ThreadsRight, outside
  <2>1. worker[v] \in Memory /\ ThreadRight(worker[v], run, rows)
      BY Here
  <2> QED
      BY <1>2, <1>5, <2>1, AlikeRight
<1>8. ASSUME used.forget = 0 PROVE ThreadsTell'
  <2> SUFFICES ASSUME NEW v \in Worker PROVE ThreadTells(worker'[v], events)
      BY <1>1 DEF ThreadsTell, outside
  <2>1. ThreadTells(worker[v], events)
      BY <1>8, Here
  <2> QED
      BY <1>2, <1>5, <2>1, AlikeTells
<1>9. RequestsRight'
  <2>1. ASSUME NEW r \in requests, r.from # None
        PROVE  Carries(r, worker'[r.from], rows)
    <3>1. r.from \in Worker /\ Carries(r, worker[r.from], rows)
        BY <2>1 DEF Inv, TypeOK, RequestsRight, Request
    <3>2. Alike(worker[r.from], worker'[r.from])
        BY <1>1, <1>5, <3>1 DEF Carries
    <3>3. Unresolved(worker'[r.from]) = Unresolved(worker[r.from])
        BY <3>2, SameWork DEF Alike
    <3> QED
        BY <3>1, <3>2, <3>3 DEF Carries, Alike
  <2> QED
      BY <1>1, <2>1 DEF Inv, RequestsRight, outside
<1>10. TypeOK'
    BY <1>1, <1>3, <1>6 DEF Inv, TypeOK, outside
<1> QED
    BY <1>1, <1>3, <1>7, <1>8, <1>9, <1>10
       DEF Inv, outside, RunRight, JournalsRight, JournalsTell, Reached

LEMMA StopStep ==
  ASSUME Inv, NEW w \in Worker, Stop(w)
  PROVE  Inv'
<1>1. /\ worker[w].phase # "ingesting" /\ UNCHANGED <<outside, journal, used>>
      /\ Moves(w, Off)
    BY DEF Stop, Moves
<1>2. Off \in Memory /\ ThreadRight(Off, run, rows) /\ ThreadTells(Off, events)
    BY OffIs, IdleRight DEF Inv, TypeOK
<1>3. used' \in [Counter -> Nat] /\ used'.forget = used.forget
    BY <1>1 DEF Inv, TypeOK
<1>4. UNCHANGED <<outside, journal>>
    BY <1>1
<1> QED
    BY <1>1, <1>2, <1>3, <1>4, Quiet

LEMMA CrashStep ==
  ASSUME Inv, Crash
  PROVE  Inv'
<1> DEFINE R == {r \in requests : r.from # None}
           L == {q \in R : q.items # {}}
<1>1. worker' = [w \in Worker |-> Off] /\ UNCHANGED <<run, rows, events, clock, journal>>
    BY DEF Crash
<1>2. Off \in Memory /\ ThreadRight(Off, run, rows) /\ ThreadTells(Off, events)
    BY OffIs, IdleRight DEF Inv, TypeOK
<1>3. requests' \subseteq (requests \ R) \cup Orphaned(L)
    BY DEF Crash, Orphaned
<1>4. used' \in [Counter -> Nat] /\ used'.forget = used.forget
  <2>1. \/ used' = [used EXCEPT !.crash = @ + 1]
        \/ used' = [used EXCEPT !.crash = @ + 1, !.late = @ + 1]
      BY DEF Crash
  <2> QED
      BY <2>1, LateIs DEF Inv, Counter
<1>5. L \in SUBSET Request
    BY DEF Inv, TypeOK
<1> HIDE DEF L
<1>6. Orphaned(L) \subseteq Request /\ \A q \in Orphaned(L) : q.from = None
    BY <1>5, OrphanedIs
<1>7. requests' \subseteq Request /\ \A q \in requests' : q.from = None
    BY <1>3, <1>6 DEF Inv, TypeOK
<1>8. worker' \in [Worker -> Memory] /\ \A w \in Worker : worker'[w] = Off
    BY <1>1, <1>2
<1>9. TypeOK'
    BY <1>1, <1>4, <1>7, <1>8 DEF Inv, TypeOK
<1>10. RequestsRight'
    BY <1>7 DEF RequestsRight
<1>11. ThreadsRight' /\ ThreadsTell'
    BY <1>1, <1>2, <1>8 DEF ThreadsRight, ThreadsTell
<1> QED
    BY <1>1, <1>4, <1>9, <1>10, <1>11
       DEF Inv, RunRight, JournalsRight, JournalsTell, Reached

LEMMA AgentForgetsStep ==
  ASSUME Inv, AgentForgets
  PROVE  Inv'
<1>1. /\ events' = [g \in Gen |-> {}] /\ clock' = [g \in Gen |-> -1]
      /\ UNCHANGED <<run, rows, requests, journal, worker>>
    BY DEF AgentForgets
<1>2. used' \in [Counter -> Nat] /\ used'.forget # 0
    BY UseIs DEF AgentForgets, Inv, Counter
<1>3. TypeOK'
    BY <1>1, <1>2 DEF Inv, TypeOK
<1> QED
    BY <1>1, <1>2, <1>3 DEF Inv, RunRight, ThreadsRight, RequestsRight, JournalsRight

LEMMA JournalLostStep ==
  ASSUME Inv, JournalLost
  PROVE  Inv'
<1>1. journal' = [g \in Gen |-> None] /\ UNCHANGED <<outside, worker>>
    BY DEF JournalLost
<1>2. used' \in [Counter -> Nat] /\ used'.forget = used.forget
    BY UseIs DEF JournalLost, Inv, Counter
<1>3. DOMAIN journal' = Gen /\ \A g \in Gen : journal'[g] = None
    BY <1>1
<1>4. TypeOK'
    BY <1>1, <1>2, <1>3 DEF Inv, TypeOK, outside
<1> QED
    BY <1>1, <1>2, <1>3, <1>4 DEF Inv, outside, RunRight, ThreadsRight, ThreadsTell,
       RequestsRight, JournalsRight, JournalsTell, Reached

-----------------------------------------------------------------------------
(* The world: the run goes on, and readings are stored *)

(* The threads do not notice. *)
LEMMA WorldMoves ==
  ASSUME Inv, GoesOn, run'.gen \in Gen, run'.count \in Nat, worker' = worker,
         events' = events
  PROVE  ThreadsRight' /\ (used'.forget = 0 => ThreadsTell')
<1>1. ThreadsRight'
  <2> SUFFICES ASSUME NEW w \in Worker PROVE ThreadRight(worker[w], run', rows')
      BY DEF ThreadsRight
  <2>1. worker[w] \in Memory /\ ThreadRight(worker[w], run, rows)
      BY Here
  <2> QED
      BY <2>1, RightStays DEF Inv
<1>2. used'.forget = 0 => ThreadsTell'
    BY DEF Inv, GoesOn, ThreadsTell
<1> QED
    BY <1>1, <1>2

LEMMA PublishStep ==
  ASSUME Inv, Publish
  PROVE  Inv'
<1>1. /\ run' = [run EXCEPT !.count = run.count + 1] /\ run.count < MaxObs
      /\ At[run.count + 1] <= run.time
      /\ UNCHANGED <<rows, requests, events, clock, journal, worker, used>>
    BY DEF Publish, Due
<1>2. /\ run \in [gen : Gen, time : Time, count : 0..MaxObs] /\ MaxObs \in Nat
    BY PipelineAssumption DEF Inv, TypeOK
<1>3. /\ run' \in [gen : Gen, time : Time, count : 0..MaxObs] /\ run'.gen = run.gen
      /\ run'.count = run.count + 1 /\ run'.time = run.time
    BY <1>1, <1>2
<1>4. GoesOn
    BY <1>1, <1>2, <1>3, PipelineAssumption DEF GoesOn, Gen
<1>5. ThreadsRight' /\ (used'.forget = 0 => ThreadsTell')
    BY <1>1, <1>2, <1>3, <1>4, WorldMoves
<1>6. RunRight'
    BY <1>1, <1>2, <1>3 DEF Inv, RunRight, Obs
<1>7. TypeOK'
    BY <1>1, <1>3 DEF Inv, TypeOK
<1> QED
    BY <1>1, <1>5, <1>6, <1>7
       DEF Inv, RequestsRight, JournalsRight, JournalsTell, Reached

LEMMA AdvanceStep ==
  ASSUME Inv, Advance
  PROVE  Inv'
<1>1. /\ run' = [run EXCEPT !.time = run.time + 1] /\ ~Due /\ run.time < MaxTime
      /\ UNCHANGED <<rows, requests, events, clock, journal, worker, used>>
    BY DEF Advance
<1>2. /\ run \in [gen : Gen, time : Time, count : 0..MaxObs] /\ MaxObs \in Nat
      /\ MaxTime \in Nat
    BY PipelineAssumption DEF Inv, TypeOK
<1>3. /\ run' \in [gen : Gen, time : Time, count : 0..MaxObs] /\ run'.gen = run.gen
      /\ run'.count = run.count /\ run'.time = run.time + 1
    BY <1>1, <1>2 DEF Time
<1>4. GoesOn
    BY <1>1, <1>2, <1>3, PipelineAssumption DEF GoesOn, Gen
<1>5. ThreadsRight' /\ (used'.forget = 0 => ThreadsTell')
    BY <1>1, <1>2, <1>3, <1>4, WorldMoves
<1>6. RunRight'
  <2> SUFFICES ASSUME NEW o \in Obs
               PROVE  IF o <= run.count THEN At[o] <= run.time + 1 ELSE At[o] >= run.time + 1
      BY <1>3 DEF RunRight
  <2>1. At[o] \in Nat /\ o \in 1..MaxObs /\ run.time \in Nat /\ run.count \in Nat
      BY <1>2, PipelineAssumption DEF Time, Obs
  <2>2. CASE o <= run.count
      BY <2>1, <2>2 DEF Inv, RunRight
  <2>3. CASE ~(o <= run.count)
    <3> DEFINE p == run.count + 1
    <3>1. p \in Obs /\ p <= o
        BY <1>2, <2>1, <2>3 DEF Obs
    <3>2. At[p] \in Nat /\ ~(At[p] <= run.time)
        BY <1>1, <1>2, <3>1, PipelineAssumption DEF Due, Obs, Time
    <3>3. At[p] <= At[o]
        BY <2>1, <3>1, <3>2, PipelineAssumption DEF Obs
    <3> HIDE DEF p
    <3> QED
        BY <2>1, <2>3, <3>2, <3>3
  <2> QED
      BY <2>2, <2>3
<1>7. TypeOK'
    BY <1>1, <1>3 DEF Inv, TypeOK
<1> QED
    BY <1>1, <1>5, <1>6, <1>7
       DEF Inv, RequestsRight, JournalsRight, JournalsTell, Reached

LEMMA ResetRunStep ==
  ASSUME Inv, ResetRun
  PROVE  Inv'
<1>1. /\ run' = [gen |-> run.gen + 1, time |-> 0, count |-> 0] /\ run.gen < MaxGen
      /\ UNCHANGED <<rows, requests, events, clock, journal, worker, used>>
    BY DEF ResetRun
<1>2. run.gen \in 0..MaxGen /\ MaxGen \in Nat /\ MaxObs \in Nat /\ MaxTime \in Nat
    BY PipelineAssumption DEF Inv, TypeOK, Gen
<1>3. /\ run' \in [gen : Gen, time : Time, count : 0..MaxObs] /\ run'.gen = run.gen + 1
      /\ run'.count = 0 /\ run'.time = 0
    BY <1>1, <1>2 DEF Time, Gen
<1>4. GoesOn
    BY <1>1, <1>2, <1>3 DEF GoesOn
<1>5. ThreadsRight' /\ (used'.forget = 0 => ThreadsTell')
    BY <1>1, <1>3, <1>4, WorldMoves
<1>6. RunRight'
    BY <1>3, PipelineAssumption DEF RunRight, Obs, Time
<1>7. TypeOK'
    BY <1>1, <1>3 DEF Inv, TypeOK
<1> QED
    BY <1>1, <1>5, <1>6, <1>7
       DEF Inv, RequestsRight, JournalsRight, JournalsTell, Reached

LEMMA ArriveStep ==
  ASSUME Inv, Arrive
  PROVE  Inv'
<1>1. UNCHANGED <<run, events, clock, journal, worker, used>>
    BY DEF Arrive
<1>2. PICK r \in requests :
        /\ r.items # {}
        /\ LET o == Least(r.items)
               rest == r.items \ {o}
               left == [r EXCEPT !.items = rest]
           IN /\ rows' = [rows EXCEPT ![r.gen][o] = IF @ < 2 THEN @ + 1 ELSE @]
              /\ requests' = (requests \ {r}) \cup
                   (IF rest = {} /\ r.from = None THEN {} ELSE {left})
    BY DEF Arrive
<1> DEFINE o == Least(r.items)
           rest == r.items \ {o}
           left == [r EXCEPT !.items = rest]
<1>3. r \in Request /\ r.items \in SUBSET Obs /\ r.gen \in Gen /\ r.from \in Worker \cup {None}
    BY DEF Inv, TypeOK, Request
<1>4. o \in r.items /\ o \in Obs
    BY <1>2, <1>3, LeastIs
<1>5. /\ rows' = [rows EXCEPT ![r.gen][o] = IF @ < 2 THEN @ + 1 ELSE @]
      /\ requests' \subseteq (requests \ {r}) \cup {left}
    BY <1>2
<1> HIDE DEF o
<1>6. left \in Request /\ left.from = r.from /\ left.gen = r.gen /\ left.items = r.items \ {o}
    BY <1>3 DEF Request
<1> HIDE DEF left
<1>7. /\ rows' \in [Gen -> [Obs -> 0..2]] /\ rows'[r.gen][o] > 0
      /\ \A g \in Gen, p \in Obs : rows[g][p] > 0 => rows'[g][p] > 0
  <2> DEFINE line == rows[r.gen]
             c == IF line[o] < 2 THEN line[o] + 1 ELSE line[o]
             next == [line EXCEPT ![o] = c]
  <2>1. line \in [Obs -> 0..2] /\ rows \in [Gen -> [Obs -> 0..2]]
      BY <1>3 DEF Inv, TypeOK
  <2>2. c \in 0..2 /\ c > 0
      BY <1>4, <2>1
  <2>3. rows' = [rows EXCEPT ![r.gen] = next]
      BY <1>5
  <2> HIDE DEF c
  <2>4. /\ next \in [Obs -> 0..2] /\ next[o] = c
        /\ \A p \in Obs : p # o => next[p] = line[p]
      BY <1>4, <2>1, <2>2
  <2> HIDE DEF next
  <2>5. /\ rows' \in [Gen -> [Obs -> 0..2]] /\ rows'[r.gen] = next
        /\ \A g \in Gen : g # r.gen => rows'[g] = rows[g]
      BY <1>3, <2>1, <2>3, <2>4
  <2>6. ASSUME NEW g \in Gen, NEW p \in Obs, rows[g][p] > 0 PROVE rows'[g][p] > 0
    <3>1. CASE g = r.gen /\ p = o
        BY <2>2, <2>4, <2>5, <3>1
    <3>2. CASE g = r.gen /\ p # o
        BY <2>4, <2>5, <2>6, <3>2
    <3>3. CASE g # r.gen
        BY <2>5, <2>6, <3>3
    <3> QED
        BY <3>1, <3>2, <3>3
  <2> QED
      BY <2>2, <2>4, <2>5, <2>6
<1>8. GoesOn
  <2>1. run.gen <= run.gen /\ run.count <= run.count
      BY PipelineAssumption DEF Inv, TypeOK, Gen
  <2> QED
      BY <1>1, <1>7, <2>1 DEF GoesOn
<1>9. ThreadsRight' /\ (used'.forget = 0 => ThreadsTell')
  <2>1. run'.gen \in Gen /\ run'.count \in Nat
      BY <1>1, PipelineAssumption DEF Inv, TypeOK
  <2> QED
      BY <1>1, <1>8, <2>1, WorldMoves
<1>10. RequestsRight'
  <2>1. ASSUME NEW q \in requests', q.from # None
        PROVE  Carries(q, worker[q.from], rows')
    <3>1. CASE q \in requests
      <4>1. q.from \in Worker /\ Carries(q, worker[q.from], rows) /\ q.gen \in Gen
          BY <2>1, <3>1 DEF Inv, TypeOK, RequestsRight, Request
      <4>2. Unresolved(worker[q.from]) \subseteq Obs
          BY <4>1, WorkIs DEF Inv, TypeOK
      <4> QED
          BY <1>7, <4>1, <4>2 DEF Carries
    <3>2. CASE q = left
      <4>1. r.from # None
          BY <1>6, <2>1, <3>2
      <4>2. r.from \in Worker /\ Carries(r, worker[r.from], rows)
          BY <1>3, <4>1 DEF Inv, RequestsRight
      <4>3. Unresolved(worker[r.from]) \subseteq Obs
          BY <4>2, WorkIs DEF Inv, TypeOK
      <4>4. ASSUME NEW p \in Unresolved(worker[r.from])
            PROVE  p \in left.items \/ rows'[left.gen][p] > 0
        <5>1. p \in r.items \/ rows[r.gen][p] > 0
            BY <4>2 DEF Carries
        <5> QED
            BY <1>3, <1>6, <1>7, <4>3, <5>1
      <4> QED
          BY <1>6, <3>2, <4>2, <4>4 DEF Carries
    <3> QED
        BY <1>5, <2>1, <3>1, <3>2
  <2>2. ASSUME NEW q \in requests', NEW p \in requests', q.from # None, q.from = p.from
        PROVE  q = p
    <3>1. CASE q \in requests \ {r} /\ p \in requests \ {r}
        BY <2>2, <3>1 DEF Inv, RequestsRight
    <3>2. CASE q = left /\ p \in requests \ {r}
        BY <1>6, <2>2, <3>2 DEF Inv, RequestsRight
    <3>3. CASE q \in requests \ {r} /\ p = left
        BY <1>6, <2>2, <3>3 DEF Inv, RequestsRight
    <3>4. CASE q = left /\ p = left
        BY <3>4
    <3> QED
        BY <1>5, <3>1, <3>2, <3>3, <3>4
  <2> QED
      BY <1>1, <2>1, <2>2 DEF RequestsRight
<1>11. JournalsRight'
  <2> SUFFICES ASSUME NEW g \in Gen, journal[g] # None
               PROVE  PostedStored(journal[g].rec) /\ StoredRight(journal[g].rec, rows'[g])
      BY <1>1 DEF JournalsRight
  <2> QED
      BY <1>7 DEF Inv, JournalsRight, StoredRight
<1>12. requests' \subseteq Request
    BY <1>5, <1>6 DEF Inv, TypeOK
<1>13. TypeOK'
    BY <1>1, <1>7, <1>12 DEF Inv, TypeOK
<1> QED
    BY <1>1, <1>9, <1>10, <1>11, <1>13 DEF Inv, RunRight, JournalsTell, Reached

-----------------------------------------------------------------------------
(* The specification *)

LEMMA InitRight == Init => Inv
<1> SUFFICES ASSUME Init PROVE Inv
    OBVIOUS
<1>1. Off \in Memory /\ ThreadRight(Off, run, rows) /\ ThreadTells(Off, events)
  <2>1. run.gen \in Gen
      BY Ranges DEF Init
  <2> QED
      BY <2>1, OffIs, IdleRight
<1>2. TypeOK
  <2>1. run \in [gen : Gen, time : Time, count : 0..MaxObs]
      BY Ranges, PipelineAssumption DEF Init
  <2>2. used \in [Counter -> Nat]
      BY DEF Init, Counter
  <2>3. /\ rows \in [Gen -> [Obs -> 0..2]] /\ requests \subseteq Request
        /\ events \in [Gen -> SUBSET Obs] /\ clock \in [Gen -> Time \cup {-1}]
        /\ DOMAIN journal = Gen /\ \A g \in Gen : journal[g] = None
        /\ worker \in [Worker -> Memory]
      BY <1>1 DEF Init
  <2> QED
      BY <2>1, <2>2, <2>3 DEF TypeOK
<1>3. RunRight
    BY PipelineAssumption DEF Init, RunRight, Obs, Time
<1>4. ThreadsRight /\ ThreadsTell
    BY <1>1 DEF Init, ThreadsRight, ThreadsTell
<1>5. RequestsRight /\ JournalsRight /\ JournalsTell
    BY DEF Init, RequestsRight, JournalsRight, JournalsTell
<1>6. Reached
    BY PipelineAssumption DEF Init, Reached, Obs, Time
<1> QED
    BY <1>2, <1>3, <1>4, <1>5, <1>6 DEF Inv

LEMMA StepRight == Inv /\ [Next]_vars => Inv'
<1> SUFFICES ASSUME Inv, [Next]_vars PROVE Inv'
    OBVIOUS
<1>1. CASE UNCHANGED vars
    BY <1>1 DEF vars, Inv, TypeOK, RunRight, ThreadsRight, ThreadsTell, RequestsRight,
       JournalsRight, JournalsTell, Reached
<1>2. CASE Publish \/ Advance \/ ResetRun \/ Arrive
    BY <1>2, PublishStep, AdvanceStep, ResetRunStep, ArriveStep
<1>3. CASE Crash \/ AgentForgets \/ JournalLost
    BY <1>3, CrashStep, AgentForgetsStep, JournalLostStep
<1>4. ASSUME NEW w \in Worker, Connect(w) \/ Stop(w) PROVE Inv'
    BY <1>4, ConnectStep, StopStep
<1>5. ASSUME NEW w \in Worker,
             StreamEnds(w) \/ IngestLost(w) \/ IngestCut(w) \/ RequestFails(w)
             \/ DevicesFail(w) \/ ReadBackFails(w) \/ AnswerLost(w)
      PROVE  Inv'
    BY <1>5, StreamEndsStep, IngestLostStep, IngestCutStep, RequestFailsStep,
       DevicesFailStep, ReadBackFailsStep, AnswerLostStep
<1>6. ASSUME NEW w \in Worker, Thread(w) PROVE Inv'
  <2>1. CASE Snapshot(w) \/ OpenSession(w) \/ ReadHistory(w) \/ ReadEvent(w) \/ Heartbeat(w)
      BY <2>1, SnapshotStep, OpenSessionStep, ReadHistoryStep, ReadEventStep, HeartbeatStep
  <2>2. CASE LoadDevices(w) \/ ReadBackBeforeSending(w) \/ ReadBackAfterSending(w)
             \/ PrepareIngest(w) \/ SendIngest(w) \/ IngestAnswered(w) \/ IngestMalformed(w)
      BY <2>2, LoadDevicesStep, ReadBackBeforeStep, ReadBackAfterStep, PrepareIngestStep,
         SendIngestStep, IngestAnsweredStep, IngestMalformedStep
  <2>3. CASE PostEvent(w) \/ EventsDone(w) \/ TickNotNeeded(w) \/ Tick(w)
      BY <2>3, PostEventStep, EventsDoneStep, TickNotNeededStep, TickStep
  <2> QED
      BY <1>6, <2>1, <2>2, <2>3 DEF Thread
<1> QED
    BY <1>1, <1>2, <1>3, <1>4, <1>5, <1>6 DEF Next

LEMMA InvAlways == Spec => []Inv
BY InitRight, StepRight, PTL DEF Spec

(* The agent's clock never passes an observation it was not told of: not   *)
(* after crashes, lost answers, late requests, resets, or with two threads *)
(* that import at the same time.                                           *)
THEOREM ClockWaitsForEvidence == Spec => []EvidenceBeforeClock
<1>1. Inv => EvidenceBeforeClock
    BY DEF Inv, EvidenceBeforeClock, Reached
<1> QED
    BY <1>1, InvAlways, PTL

(* What a thread and the journals believe of the platform and the agent is  *)
(* so, whoever stored it and whenever the journal was written.              *)
THEOREM BeliefsAreTrue == Spec => []JournalTruthful
<1>1. Inv => JournalTruthful
  <2> SUFFICES ASSUME Inv, used.forget = 0 
               PROVE  /\ \A g \in Gen : journal[g] # None => Believes(g, journal[g].rec)
                      /\ \A w \in Worker : worker[w].gen # None =>
                           Believes(worker[w].gen, worker[w].rec)
      BY DEF JournalTruthful
  <2>1. ASSUME NEW g \in Gen, journal[g] # None PROVE Believes(g, journal[g].rec)
      BY <2>1 DEF Inv, JournalsRight, JournalsTell, StoredRight, PostedRight, Believes
  <2>2. ASSUME NEW w \in Worker, worker[w].gen # None
        PROVE  Believes(worker[w].gen, worker[w].rec)
      BY <2>2 DEF Inv, ThreadsRight, ThreadsTell, ThreadRight, ThreadTells, StoredRight,
         PostedRight, Believes
  <2> QED
      BY <2>1, <2>2
<1> QED
    BY <1>1, InvAlways, PTL

-----------------------------------------------------------------------------
(* One thread at a time                                                     *)
(*                                                                          *)
(* A thread that was replaced may still be inside a request, and then saves *)
(* its own records over those of its successor.  What follows is for a      *)
(* single thread: it knows what its journal knows, and the journal knows of *)
(* what it is about to send.                                                *)

Lone == \A v, w \in Worker : v = w

Known(g, o) == journal[g] # None /\ journal[g].rec[o] # {}

Remembers(m) == m.gen # None => \A o \in Obs : Known(m.gen, o) => m.rec[o] # {}
Announced(m) == m.phase = "send" => \A o \in Unresolved(m) : Known(m.gen, o)
ThreadRemembers == used.loss = 0 =>
  \A w \in Worker : Remembers(worker[w]) /\ Announced(worker[w])

(* What is stored or on its way is known.                                   *)
Knows == \A g \in Gen, o \in Obs :
  rows[g][o] > 0 \/ (\E r \in requests : r.gen = g /\ o \in r.items) => Known(g, o)

Inv1 == Inv /\ ThreadRemembers /\ (used.loss = 0 => Knows)

(* A thread's next memory forgets nothing the journal knows.                *)
Keeps(m, n) == n.gen = m.gen /\ \A o \in Obs : m.rec[o] # {} => n.rec[o] # {}
Kept(m, n) ==
  /\ n \in Memory /\ n.phase # "send"
  /\ n.gen = None \/ Keeps(m, n) \/ \A o \in Obs : Known(n.gen, o) => n.rec[o] # {}

(* Every request was one before, perhaps a larger one.                      *)
Covered == \A r \in requests' : \E q \in requests : q.gen = r.gen /\ r.items \subseteq q.items

LEMMA ThreadKept ==
  ASSUME Lone, Inv1, journal' = journal, used'.loss = used.loss,
         NEW w \in Worker, NEW n, Moves(w, n), Kept(worker[w], n)
  PROVE  ThreadRemembers'
<1> SUFFICES ASSUME used.loss = 0, NEW v \in Worker
             PROVE  Remembers(worker[v])' /\ Announced(worker[v])'
    BY DEF ThreadRemembers
<1>1. v = w
    BY DEF Lone
<1> DEFINE k == worker'[w]
<1>2. Alike(n, k)
    BY MovesIs DEF Inv1, Inv, Kept
<1>3. k.phase # "send" /\ k.gen = n.gen /\ k.rec = n.rec
    BY <1>2 DEF Alike, Kept
<1> HIDE DEF k
<1>4. ASSUME k.gen # None, NEW o \in Obs, Known(k.gen, o) PROVE k.rec[o] # {}
  <2>1. CASE Keeps(worker[w], n)
      BY <1>3, <1>4, <2>1 DEF Keeps, Inv1, ThreadRemembers, Remembers
  <2>2. CASE \A p \in Obs : Known(n.gen, p) => n.rec[p] # {}
      BY <1>3, <1>4, <2>2
  <2> QED
      BY <1>3, <1>4, <2>1, <2>2 DEF Kept
<1>5. \A g, o : Known(g, o)' <=> Known(g, o)
    BY DEF Known
<1>6. (k.gen # None => \A o \in Obs : Known(k.gen, o) => k.rec[o] # {})
    BY <1>4
<1> QED
    BY <1>1, <1>3, <1>6 DEF Remembers, Announced, Known, k

LEMMA KnowsKept ==
  ASSUME Inv1, used'.loss = used.loss, rows' = rows, Covered,
         \A g \in Gen, o \in Obs : Known(g, o) => Known(g, o)'
  PROVE  used'.loss = 0 => Knows'
<1> SUFFICES ASSUME used.loss = 0, NEW g \in Gen, NEW o \in Obs,
                    rows[g][o] > 0 \/ (\E r \in requests' : r.gen = g /\ o \in r.items)
             PROVE  Known(g, o)'
    BY DEF Knows
<1>1. rows[g][o] > 0 \/ (\E r \in requests : r.gen = g /\ o \in r.items)
    BY DEF Covered
<1> QED
    BY <1>1 DEF Inv1, Knows

(* A step that writes no journal and sends nothing.                         *)
LEMMA Keeping ==
  ASSUME Lone, Inv1, journal' = journal, used'.loss = used.loss, rows' = rows, Covered,
         NEW w \in Worker, NEW n, Moves(w, n), Kept(worker[w], n)
  PROVE  ThreadRemembers' /\ (used'.loss = 0 => Knows')
<1>1. \A g \in Gen, o \in Obs : Known(g, o) => Known(g, o)'
    BY DEF Known
<1> QED
    BY <1>1, ThreadKept, KnowsKept

(* A step that writes what the thread then knows.                           *)
LEMMA Writing ==
  ASSUME Lone, Inv1, used' = used, rows' = rows, Covered,
         NEW w \in Worker, NEW s \in Memory, s.gen \in Gen, Save(s), Keeps(worker[w], s),
         NEW n \in Memory, Moves(w, n), n.gen = s.gen, n.rec = s.rec,
         n.phase = "send" => \A o \in Unresolved(n) : n.rec[o] # {}
  PROVE  ThreadRemembers' /\ (used'.loss = 0 => Knows')
<1> DEFINE e == [rec |-> s.rec, clock |-> s.clock]
<1>1. journal' = [journal EXCEPT ![s.gen] = e] /\ e.rec = s.rec
    BY DEF Save
<1>2. e \in Entry
    BY MemoryIs DEF Entry, Records
<1>3. e # None
    BY <1>2, Ranges
<1> HIDE DEF e
<1>4. /\ journal'[s.gen] = e
      /\ \A g \in Gen : g # s.gen => journal'[g] = journal[g]
    BY <1>1 DEF Inv1, Inv, TypeOK
<1>5. \A o : Known(s.gen, o)' <=> s.rec[o] # {}
    BY <1>1, <1>3, <1>4 DEF Known
<1>6. ASSUME used.loss = 0, NEW g \in Gen, NEW o \in Obs, Known(g, o) PROVE Known(g, o)'
  <2>1. CASE g = s.gen
    <3>1. worker[w].rec[o] # {}
        BY <1>6, <2>1, Ranges DEF Inv1, ThreadRemembers, Remembers, Keeps
    <3>2. s.rec[o] # {}
        BY <3>1 DEF Keeps
    <3> QED
        BY <1>5, <2>1, <3>2 DEF Known
  <2>2. CASE g # s.gen
      BY <1>4, <1>6, <2>2 DEF Known
  <2> QED
      BY <2>1, <2>2
<1>7. used'.loss = 0 => Knows'
  <2>1. CASE used.loss = 0
      BY <1>6, <2>1, KnowsKept
  <2> QED
      BY <2>1
<1>8. ThreadRemembers'
  <2> SUFFICES ASSUME NEW v \in Worker
               PROVE  Remembers(worker[v])' /\ Announced(worker[v])'
      BY DEF ThreadRemembers
  <2>1. v = w
      BY DEF Lone
  <2> DEFINE k == worker'[w]
  <2>2. Alike(n, k)
      BY MovesIs DEF Inv1, Inv
  <2>3. k.phase = n.phase /\ k.gen = s.gen /\ k.rec = s.rec /\ k.rec = n.rec
        /\ Unresolved(k) = Unresolved(n)
      BY <2>2, SameWork DEF Alike
  <2>4. Unresolved(n) \subseteq Obs
      BY WorkIs
  <2> HIDE DEF k
  <2>5. \A o \in Obs : (journal'[k.gen] # None /\ journal'[k.gen].rec[o] # {}) =>
                          k.rec[o] # {}
      BY <1>1, <1>4, <2>3
  <2>6. ASSUME k.phase = "send", NEW o \in Unresolved(k)
        PROVE  journal'[k.gen] # None /\ journal'[k.gen].rec[o] # {}
      BY <1>1, <1>3, <1>4, <2>3, <2>4, <2>6
  <2> QED
      BY <2>1, <2>5, <2>6 DEF Remembers, Announced, Known, k
<1> QED
    BY <1>7, <1>8

(* What the operators on a memory keep.                                     *)
LEMMA KeepsSame ==
  ASSUME NEW m PROVE Keeps(m, m)
BY DEF Keeps

LEMMA KeptPhase ==
  ASSUME NEW m, NEW k \in Memory, Keeps(m, k), NEW p \in Phase, p # "send"
  PROVE  Kept(m, [k EXCEPT !.phase = p])
BY PhaseIs DEF Kept, Keeps

LEMMA KeptError ==
  ASSUME NEW m, NEW k \in Memory, Keeps(m, k)
  PROVE  Kept(m, Error(k))
BY ErrorIs DEF Kept, Keeps

LEMMA KeptResolved ==
  ASSUME NEW m, NEW k \in Memory, Keeps(m, k)
  PROVE  Kept(m, Resolved(k))
BY ResolvedIs DEF Kept, Keeps

LEMMA KeptBegin ==
  ASSUME NEW m, NEW k \in Memory, Keeps(m, k), NEW B \in SUBSET Obs, NEW rc \in BOOLEAN,
         NEW nx \in {"goal", "history"}, NEW go \in Time
  PROVE  Kept(m, Begin(k, B, rc, nx, go))
<1> DEFINE b == Begin(k, B, rc, nx, go)
<1>1. Begun(b, k, B, nx, go)
    BY BeginIs
<1> HIDE DEF b
<1>2. b \in Memory /\ b.phase # "send" /\ b.gen = k.gen /\ b.rec = k.rec
    BY <1>1 DEF Begun
<1> QED
    BY <1>2 DEF Kept, Keeps, b

LEMMA KeptOff == \A m : Kept(m, Off)
BY OffIs DEF Kept

LEMMA KeepsReadBack ==
  ASSUME NEW m \in Memory, NEW S
  PROVE  ReadBack(m, S) \in Memory /\ Keeps(m, ReadBack(m, S))
<1>1. /\ ReadBack(m, S) \in Memory /\ ReadBack(m, S).gen = m.gen
      /\ ReadBack(m, S).rec = Mark(m.rec, S, "reading")
    BY ReadBackIs
<1>2. \A o \in Obs : Mark(m.rec, S, "reading")[o] = m.rec[o]
                     \/ Mark(m.rec, S, "reading")[o] = m.rec[o] \cup {"reading"}
    BY DEF Mark
<1> QED
    BY <1>1, <1>2 DEF Keeps

LEMMA Remembering ==
  ASSUME Lone, Inv1, UNCHANGED <<outside, journal>>, used'.loss = used.loss,
         NEW w \in Worker, NEW n, Moves(w, n), Kept(worker[w], n)
  PROVE  ThreadRemembers' /\ (used'.loss = 0 => Knows')
BY Keeping DEF Covered, outside

LEMMA ConnectionKeeps ==
  ASSUME Lone, Inv1, NEW w \in Worker, Snapshot(w) \/ OpenSession(w) \/ StreamEnds(w)
  PROVE  ThreadRemembers' /\ (used'.loss = 0 => Knows')
<1> DEFINE m == worker[w]
<1>1. m \in Memory /\ ThreadRight(m, run, rows) /\ run.gen \in Gen
      /\ run.count \in 0..MaxObs /\ run.time \in Time
    BY Here DEF Inv1
<1>2. CASE Snapshot(w)
  <2> DEFINE l == Loaded(m, run.gen)
             n == Shown(l, run.count, run.time)
  <2>1. /\ l \in Memory /\ l.gen = run.gen /\ (m.gen = run.gen => l.rec = m.rec)
        /\ m.gen # run.gen =>
             l.rec = IF journal[run.gen] = None THEN NoRecords ELSE journal[run.gen].rec
      BY <1>1, LoadedIs DEF Inv1
  <2>2. Moves(w, n) /\ UNCHANGED <<outside, journal, used>>
      BY <1>2 DEF Snapshot, Moves, Shown
  <2> HIDE DEF l
  <2>3. n \in Memory /\ n.phase = "session" /\ n.gen = run.gen /\ n.rec = l.rec
      BY <1>1, <2>1, ShownIs
  <2> HIDE DEF n
  <2>4. Kept(m, n)
    <3>1. CASE m.gen = run.gen
        BY <2>1, <2>3, <3>1 DEF Kept, Keeps
    <3>2. CASE m.gen # run.gen
        BY <2>1, <2>3, <3>2 DEF Kept, Known
    <3> QED
        BY <3>1, <3>2
  <2> QED
      BY <2>2, <2>4, Remembering DEF outside
<1>3. CASE OpenSession(w)
  <2> DEFINE l == Repaired(m)
             n == [l EXCEPT !.phase = "history"]
  <2>1. m.phase = "session" /\ Moves(w, n) /\ StartSession(m.gen)
        /\ UNCHANGED <<run, rows, requests, events, journal, used>>
      BY <1>3 DEF OpenSession, Asks, Moves
  <2>2. Started(m.gen) \in Time
      BY <1>1, <2>1, Here, StartedIs DEF Inv1
  <2>3. /\ l \in Memory /\ l.gen = m.gen
        /\ \A o \in Obs : l.rec[o] = m.rec[o] \/ l.rec[o] = m.rec[o] \ {"posted"}
      BY <1>1, <2>2, RepairedIs
  <2> HIDE DEF l
  <2>4. Keeps(m, l)
    <3> SUFFICES ASSUME NEW o \in Obs, m.rec[o] # {} PROVE l.rec[o] # {}
        BY <2>3 DEF Keeps
    <3>1. "posted" \in m.rec[o] => "reading" \in m.rec[o]
        BY <1>1 DEF ThreadRight, Recorded, PostedStored
    <3> QED
        BY <2>3, <3>1
  <2>5. Kept(m, n)
      BY <2>3, <2>4, KeptPhase DEF Phase
  <2> HIDE DEF n
  <2> QED
      BY <2>1, <2>5, Keeping DEF Covered
<1>4. CASE StreamEnds(w)
  <2> DEFINE e == Error(m)
             n == [e EXCEPT !.state = "connecting"]
  <2>1. Moves(w, n) /\ UNCHANGED <<outside, journal>>
      BY <1>4 DEF StreamEnds, Moves
  <2>2. used'.loss = used.loss
      BY <1>4, UseIs DEF StreamEnds, Inv1, Inv, Counter
  <2>3. e \in Memory /\ e.phase = "connect" /\ e.gen = m.gen /\ e.rec = m.rec
      BY <1>1, ErrorIs
  <2> HIDE DEF e
  <2>4. n \in Memory /\ Alike(e, n)
      BY <2>3, StateIs
  <2> HIDE DEF n
  <2>5. Kept(m, n)
      BY <2>3, <2>4 DEF Kept, Keeps, Alike
  <2> QED
      BY <2>1, <2>2, <2>5, Remembering
<1> QED
    BY <1>2, <1>3, <1>4

LEMMA ReadingKeeps ==
  ASSUME Lone, Inv1, NEW w \in Worker, ReadHistory(w) \/ ReadEvent(w) \/ Heartbeat(w)
  PROVE  ThreadRemembers' /\ (used'.loss = 0 => Knows')
<1> DEFINE m == worker[w]
<1>1. /\ m \in Memory /\ run.count \in 0..MaxObs /\ run.time \in Time
      /\ m.goal \in Time /\ m.seq \in Nat /\ m.pending \in SUBSET Obs
    BY Here, MemoryIs DEF Inv1
<1>2. UNCHANGED <<outside, journal, used>>
    BY DEF ReadHistory, ReadEvent, Heartbeat
<1>3. CASE ReadHistory(w)
  <2> DEFINE k == [m EXCEPT !.after = m.after + ChunkMax]
             due == {o \in Chunk(m) : At[o] <= m.goal}
             nx == AfterChunk(m)
  <2>1. \/ Moves(w, Error(m)) \/ Moves(w, [k EXCEPT !.phase = nx])
        \/ Moves(w, Begin(k, due, TRUE, nx, m.goal))
      BY <1>3 DEF ReadHistory, Moves
  <2>2. AfterIs(m, k)
      BY <1>1, NextChunk
  <2>3. nx \in {"goal", "history"} /\ nx \in Phase /\ due \in SUBSET Obs
      BY <1>1, PipelineAssumption DEF AfterChunk, Phase, Chunk, Obs
  <2> HIDE DEF k, due, nx
  <2>4. k \in Memory /\ Keeps(m, k)
      BY <2>2 DEF AfterIs, Keeps
  <2>5. Kept(m, Error(m))
      BY <1>1, KeepsSame, KeptError
  <2>6. Kept(m, [k EXCEPT !.phase = nx])
      BY <2>3, <2>4, KeptPhase
  <2>7. Kept(m, Begin(k, due, TRUE, nx, m.goal))
      BY <1>1, <2>3, <2>4, KeptBegin
  <2>8. \E n : Moves(w, n) /\ Kept(m, n)
      BY <2>1, <2>5, <2>6, <2>7
  <2> QED
      BY <1>2, <2>8, Remembering
<1>4. CASE ReadEvent(w)
  <2> DEFINE s == m.seq + 1
             waiting == m.pending \cup {s}
             n == [m EXCEPT !.seq = s, !.pending = waiting]
             k == [n EXCEPT !.pending = {}]
  <2>1. \/ Moves(w, n) \/ Moves(w, Begin(k, waiting, FALSE, "goal", 0))
      BY <1>4 DEF ReadEvent, Moves
  <2>2. s \in Nat /\ waiting \in SUBSET Obs /\ m.phase = "stream"
      BY <1>1, <1>4, PipelineAssumption DEF ReadEvent, Asks, Obs
  <2> HIDE DEF s, waiting
  <2>3. n \in Memory /\ n.gen = m.gen /\ n.rec = m.rec /\ n.phase = m.phase
      BY <1>1, <2>2 DEF Memory
  <2> HIDE DEF n
  <2>4. k \in Memory /\ k.gen = m.gen /\ k.rec = m.rec
      BY <2>3 DEF Memory
  <2> HIDE DEF k
  <2>5. Kept(m, n) /\ Keeps(m, k)
      BY <2>2, <2>3, <2>4 DEF Kept, Keeps
  <2>6. Kept(m, Begin(k, waiting, FALSE, "goal", 0))
      BY <2>2, <2>4, <2>5, KeptBegin, Ranges
  <2>7. \E j : Moves(w, j) /\ Kept(m, j)
      BY <2>1, <2>5, <2>6
  <2> QED
      BY <1>2, <2>7, Remembering
<1>5. CASE Heartbeat(w)
  <2> DEFINE k == [m EXCEPT !.pending = {}]
  <2>1. PICK t \in 0..run.time : Becomes(w, Begin(k, m.pending, FALSE, "goal", t))
      BY <1>5 DEF Heartbeat
  <2>2. t \in Time
      BY <1>1, PipelineAssumption DEF Time
  <2>3. k \in Memory /\ k.gen = m.gen /\ k.rec = m.rec
      BY <1>1 DEF Memory
  <2>4. Moves(w, Begin(k, m.pending, FALSE, "goal", t))
      BY <2>1 DEF Moves
  <2> HIDE DEF k
  <2>5. Kept(m, Begin(k, m.pending, FALSE, "goal", t))
      BY <1>1, <2>2, <2>3, KeptBegin DEF Keeps
  <2> QED
      BY <1>2, <2>4, <2>5, Remembering
<1> QED
    BY <1>3, <1>4, <1>5

(* A request that nobody waits for any more carries what it carried.        *)
LEMMA OrphansCovered ==
  ASSUME NEW R \in SUBSET Request
  PROVE  \A q \in Orphaned(R) : \E r \in R : r.gen = q.gen /\ q.items \subseteq r.items
<1> SUFFICES ASSUME NEW r \in R
             PROVE  /\ [r EXCEPT !.from = None].gen = r.gen
                    /\ [r EXCEPT !.from = None].items = r.items
    BY DEF Orphaned
<1> QED
    BY DEF Request

LEMMA TickedKeeps ==
  ASSUME Inv, NEW w \in Worker, worker[w].phase \in {"tick", "goal"}
  PROVE  /\ Ticked(worker[w]) \in Memory /\ Ticked(worker[w]).phase # "send"
         /\ Keeps(worker[w], Ticked(worker[w]))
<1> DEFINE m == worker[w]
           n == Ticked(m)
<1>1. n \in Memory /\ n.gen = m.gen /\ n.rec = m.rec /\ m \in Memory
    BY TickedIs, Here
<1>2. n.phase # "send"
  <2>1. CASE m.phase = "tick"
    <3>1. m.next # "send"
        BY <1>1, MemoryIs
    <3>2. n = [m EXCEPT !.phase = m.next, !.batch = {}, !.recover = FALSE, !.sent = FALSE,
                        !.next = "stream"]
        BY <2>1 DEF Ticked
    <3> HIDE DEF n
    <3>3. n.phase = m.next
        BY <1>1, <3>2 DEF Memory
    <3> QED
        BY <3>1, <3>3
  <2>2. CASE m.phase = "goal"
    <3>1. n = [m EXCEPT !.phase = "stream", !.state = "live", !.after = 0, !.goal = 0]
        BY <2>2 DEF Ticked
    <3> HIDE DEF n
    <3>2. n.phase = "stream"
        BY <1>1, <3>1 DEF Memory
    <3> QED
        BY <3>2
  <2> QED
      BY <2>1, <2>2
<1> QED
    BY <1>1, <1>2 DEF Keeps

LEMMA LookingKeeps ==
  ASSUME Lone, Inv1, NEW w \in Worker,
         LoadDevices(w) \/ ReadBackBeforeSending(w) \/ ReadBackAfterSending(w)
         \/ ReadBackFails(w)
  PROVE  ThreadRemembers' /\ (used'.loss = 0 => Knows')
<1> DEFINE m == worker[w]
<1>0. m.phase \in Processing
    BY DEF LoadDevices, ReadBackBeforeSending, ReadBackAfterSending, ReadBackFails, Asks,
       Processing
<1>1. m \in Memory /\ m.gen \in Gen
    BY <1>0, InProcess DEF Inv1
<1>2. CASE LoadDevices(w)
  <2> DEFINE n == [m EXCEPT !.phase = "readback", !.devices = Registered]
  <2>1. Moves(w, n) /\ UNCHANGED <<outside, journal, used>>
      BY <1>2 DEF LoadDevices, Moves
  <2>2. Registered \subseteq Place
      BY DEF Registered, Place
  <2>3. n \in Memory /\ n.phase = "readback" /\ n.rec = m.rec /\ n.gen = m.gen
    <3> HIDE DEF m
    <3> QED
        BY <1>1, <2>2, LookedUp
  <2> HIDE DEF n
  <2>4. Kept(m, n)
      BY <2>3 DEF Kept, Keeps
  <2> QED
      BY <2>1, <2>4, Remembering
<1>3. CASE ReadBackBeforeSending(w)
  <2> DEFINE k == ReadBack(m, Found(m))
  <2>1. Moves(w, Resolved(k)) /\ UNCHANGED <<outside, journal, used>>
      BY <1>3 DEF ReadBackBeforeSending, Moves
  <2>2. k \in Memory /\ Keeps(m, k)
      BY <1>1, KeepsReadBack
  <2> HIDE DEF k
  <2>3. Kept(m, Resolved(k))
      BY <2>2, KeptResolved
  <2> QED
      BY <2>1, <2>3, Remembering
<1>4. CASE ReadBackAfterSending(w)
  <2> DEFINE k == ReadBack(m, Found(m))
  <2>1. /\ Moves(w, IF Unresolved(k) = {} THEN Resolved(k) ELSE Error(k))
        /\ Save(k) /\ UNCHANGED <<outside, used>>
      BY <1>4 DEF ReadBackAfterSending, Moves
  <2>2. k \in Memory /\ Keeps(m, k)
      BY <1>1, KeepsReadBack
  <2>3. k.gen \in Gen
      BY <1>1, <2>2 DEF Keeps
  <2> HIDE DEF k
  <2>4. /\ Resolved(k) \in Memory /\ Resolved(k).gen = k.gen /\ Resolved(k).rec = k.rec
        /\ Resolved(k).phase # "send"
      BY <2>2, ResolvedIs
  <2>5. /\ Error(k) \in Memory /\ Error(k).gen = k.gen /\ Error(k).rec = k.rec
        /\ Error(k).phase # "send"
      BY <2>2, ErrorIs
  <2>6. PICK n \in Memory : Moves(w, n) /\ n.gen = k.gen /\ n.rec = k.rec /\ n.phase # "send"
      BY <2>1, <2>4, <2>5
  <2> QED
      BY <2>1, <2>2, <2>3, <2>6, Writing DEF Covered, outside
<1>5. CASE ReadBackFails(w)
  <2>1. PICK S : Becomes(w, Error(ReadBack(m, S)))
      BY <1>5 DEF ReadBackFails
  <2> DEFINE k == ReadBack(m, S)
  <2>2. Moves(w, Error(k)) /\ UNCHANGED <<outside, journal>> /\ used'.loss = used.loss
      BY <1>5, <2>1, UseIs DEF ReadBackFails, Moves, Inv1, Inv, Counter
  <2>3. k \in Memory /\ Keeps(m, k)
      BY <1>1, KeepsReadBack
  <2> HIDE DEF k
  <2>4. Kept(m, Error(k))
      BY <2>3, KeptError
  <2> QED
      BY <2>2, <2>4, Remembering
<1> QED
    BY <1>2, <1>3, <1>4, <1>5

LEMMA PreparingKeeps ==
  ASSUME Lone, Inv1, NEW w \in Worker, PrepareIngest(w)
  PROVE  ThreadRemembers' /\ (used'.loss = 0 => Knows')
<1> DEFINE m == worker[w]
           rec == Mark(m.rec, Unresolved(m), "pending")
           n == [m EXCEPT !.rec = rec, !.phase = "send"]
<1>0. m.phase \in Processing /\ UNCHANGED <<outside, used>>
    BY DEF PrepareIngest, Processing
<1>1. m \in Memory /\ m.gen \in Gen /\ m.rec \in Records
    BY <1>0, InProcess DEF Inv1
<1>2. CASE AwaitsIds(m)
  <2>1. Moves(w, Error(m)) /\ UNCHANGED <<outside, journal>>
      BY <1>0, <1>2 DEF PrepareIngest, Moves
  <2>2. Kept(m, Error(m))
      BY <1>1, KeepsSame, KeptError
  <2> QED
      BY <1>0, <2>1, <2>2, Remembering
<1>3. CASE ~AwaitsIds(m)
  <2>1. Moves(w, n) /\ Save(n)
      BY <1>3 DEF PrepareIngest, Moves, Doubted
  <2>2. rec \in Records
      BY <1>1, MarkIs DEF Flag
  <2>3. /\ \A o \in Obs : rec[o] = m.rec[o] \/ rec[o] = m.rec[o] \cup {"pending"}
        /\ \A o \in Unresolved(m) : rec[o] # {}
      BY <1>1, WorkIs DEF Mark
  <2>4. \A o \in Obs : /\ "posted" \in rec[o] => "posted" \in m.rec[o]
                       /\ "reading" \in m.rec[o] => "reading" \in rec[o]
                       /\ "posted" \in m.rec[o] => "posted" \in rec[o]
                       /\ "reading" \in rec[o] => "reading" \in m.rec[o]
      BY <2>3
  <2> HIDE DEF rec
  <2>5. n \in Memory /\ n.gen = m.gen /\ n.rec = rec /\ n.batch = m.batch
      BY <1>1, <2>2 DEF Memory, Phase, Processing
  <2> HIDE DEF n
  <2>6. \A o \in Unresolved(n) : n.rec[o] # {}
    <3> SUFFICES ASSUME NEW o \in Unresolved(n) PROVE n.rec[o] # {}
        OBVIOUS
    <3>1. o \in Obs
        BY <2>5, WorkIs
    <3>2. o \in Unresolved(m)
        BY <2>4, <2>5, <3>1 DEF Unresolved, Entries
    <3> QED
        BY <2>3, <2>5, <3>2
  <2>7. Keeps(m, n) /\ n.gen \in Gen
      BY <1>1, <2>3, <2>5 DEF Keeps
  <2> QED
      BY <1>0, <2>1, <2>5, <2>6, <2>7, Writing DEF Covered, outside
<1> QED
    BY <1>2, <1>3

(* What is sent was announced. *)
LEMMA SendingKeeps ==
  ASSUME Lone, Inv1, NEW w \in Worker, SendIngest(w)
  PROVE  ThreadRemembers' /\ (used'.loss = 0 => Knows')
<1> DEFINE m == worker[w]
           n == [m EXCEPT !.phase = "ingesting", !.sent = TRUE]
           s == [from |-> w, gen |-> m.gen, items |-> Unresolved(m)]
<1>0. /\ m.phase = "send" /\ m.phase \in Processing /\ Moves(w, n)
      /\ requests' = requests \cup {s}
      /\ UNCHANGED <<run, rows, events, clock, journal, used>>
    BY DEF SendIngest, Asks, Processing, Moves
<1>1. m \in Memory
    BY <1>0, InProcess DEF Inv1
<1>2. n \in Memory /\ n.gen = m.gen /\ n.rec = m.rec /\ n.phase = "ingesting"
    BY <1>1 DEF Memory, Phase, Processing
<1> HIDE DEF n
<1>3. Kept(m, n)
    BY <1>2 DEF Kept, Keeps
<1>4. ThreadRemembers'
    BY <1>0, <1>3, ThreadKept
<1>5. ASSUME used.loss = 0, NEW g \in Gen, NEW o \in Obs,
             rows[g][o] > 0 \/ (\E r \in requests' : r.gen = g /\ o \in r.items)
      PROVE  Known(g, o)
  <2>1. CASE rows[g][o] > 0 \/ (\E r \in requests : r.gen = g /\ o \in r.items)
      BY <1>5, <2>1 DEF Inv1, Knows
  <2>2. CASE g = m.gen /\ o \in Unresolved(m)
      BY <1>0, <1>5, <2>2 DEF Inv1, ThreadRemembers, Announced
  <2> QED
      BY <1>0, <1>5, <2>1, <2>2
<1>6. used'.loss = 0 => Knows'
    BY <1>0, <1>5 DEF Knows, Known
<1> QED
    BY <1>4, <1>6

LEMMA AnswerKeeps ==
  ASSUME Lone, Inv1, NEW w \in Worker, IngestAnswered(w)
  PROVE  ThreadRemembers' /\ (used'.loss = 0 => Knows')
<1> DEFINE m == worker[w]
<1>0. m.phase = "ingesting" /\ m.phase \in Processing
      /\ UNCHANGED <<run, rows, events, clock, used>> /\ requests' \subseteq requests
    BY DEF IngestAnswered, Answered, Processing
<1>1. /\ m \in Memory /\ m.gen \in Gen /\ PostedStored(m.rec)
      /\ StoredRight(m.rec, rows[m.gen])
    BY <1>0, InProcess DEF Inv1
<1>2. PICK r \in requests : r.from = w /\ r.items = {} /\ requests' = requests \ {r}
    BY DEF IngestAnswered, Answered
<1>3. PICK returned : /\ returned \in BOOLEAN
                      /\ Save(Acknowledged(m, returned))
                      /\ Becomes(w, Acknowledged(m, returned))
    BY AnswerIs
<1> DEFINE n == Acknowledged(m, returned)
<1>4. returned \in BOOLEAN
    BY <1>3
<1>5. \A o \in Unresolved(m) : rows[m.gen][o] > 0
    BY <1>2, Ranges DEF Inv1, Inv, RequestsRight, Carries
<1>6. n \in Memory /\ Onward(m, n) /\ n.phase # "send"
  <2> HIDE DEF m
  <2> QED
      BY <1>0, <1>1, <1>4, <1>5, AcknowledgedIs
<1>7. \A o \in Obs : m.rec[o] \subseteq n.rec[o]
  <2> DEFINE S == Unresolved(m)
             acc == Mark(m.rec, S, "accepted")
             rec == Mark(acc, S, "reading")
  <2>1. \A o \in Obs : m.rec[o] \subseteq acc[o]
    <3> HIDE DEF S
    <3> QED
        BY DEF Mark
  <2>2. \A o \in Obs : acc[o] \subseteq rec[o]
    <3> HIDE DEF S, acc
    <3> QED
        BY DEF Mark
  <2>3. n.rec = rec \/ n.rec = acc
    <3>1. \A d, p : /\ [m EXCEPT !.rec = rec, !.phase = p, !.devices = d].rec = rec
                    /\ [m EXCEPT !.rec = acc, !.phase = p].rec = acc
      <4> HIDE DEF rec, acc
      <4> QED
          BY <1>1 DEF Memory
    <3> QED
        BY <3>1 DEF Acknowledged, Accepted
  <2> HIDE DEF rec, acc, n
  <2> QED
      BY <2>1, <2>2, <2>3
<1>8. Moves(w, n) /\ Save(n)
    BY <1>3 DEF Moves
<1> HIDE DEF n
<1>9. Keeps(m, n) /\ n.gen \in Gen
    BY <1>1, <1>6, <1>7 DEF Onward, Keeps
<1>10. Covered
    BY <1>0 DEF Covered
<1> QED
    BY <1>0, <1>6, <1>8, <1>9, <1>10, Writing

LEMMA MalformedKeeps ==
  ASSUME Lone, Inv1, NEW w \in Worker, IngestMalformed(w)
  PROVE  ThreadRemembers' /\ (used'.loss = 0 => Knows')
<1> PICK m : m = worker[w]
    OBVIOUS
<1> PICK k : k = Acknowledged(m, FALSE)
    OBVIOUS
<1>1. /\ m.phase = "ingesting" /\ m.phase \in Processing
      /\ UNCHANGED <<run, rows, events, clock, journal, used>> /\ Moves(w, Error(k))
    BY MalformedMoves DEF Inv1, Inv, Processing
<1>2. PICK r \in requests : r.from = w /\ r.items = {} /\ requests' = requests \ {r}
    BY MalformedMoves DEF Inv1, Inv
<1>3. m \in Memory /\ m.rec \in Records
    BY <1>1, InProcess DEF Inv1
<1> PICK acc : acc = Accepted(m)
    OBVIOUS
<1>4. acc \in Records /\ \A o \in Obs : m.rec[o] \subseteq acc[o]
  <2> PICK S : S = Unresolved(m)
      OBVIOUS
  <2>1. acc = Mark(m.rec, S, "accepted")
      BY DEF Accepted
  <2>2. acc \in Records
      BY <1>3, <2>1, MarkIs DEF Flag
  <2>3. \A o \in Obs : m.rec[o] \subseteq acc[o]
      BY <2>1 DEF Mark
  <2> QED
      BY <2>2, <2>3
<1>5. k = [m EXCEPT !.rec = acc, !.phase = "devices"]
    BY DEF Acknowledged
<1>6. k \in Memory /\ k.rec = acc /\ k.gen = m.gen
  <2>1. PICK j : j = [m EXCEPT !.rec = acc]
      OBVIOUS
  <2>2. j \in Memory /\ j.rec = acc /\ j.gen = m.gen
      BY ONLY <1>3, <1>4, <2>1, RecIs
  <2>3. k = [j EXCEPT !.phase = "devices"]
      BY ONLY <1>5, <2>1
  <2>4. "devices" \in Phase
      BY DEF Phase, Processing
  <2> QED
      BY ONLY <2>2, <2>3, <2>4, PhaseIs
<1>7. Kept(m, Error(k))
    BY <1>4, <1>6, KeptError DEF Keeps
<1>8. Covered
    BY <1>2 DEF Covered
<1> QED
    BY <1>1, <1>7, <1>8, Keeping

LEMMA GivesUpKeeps ==
  ASSUME Lone, Inv1, NEW w \in Worker, NEW c \in {0, 1}, GivesUp(w, c),
         NEW n, Moves(w, n), Kept(worker[w], n)
  PROVE  ThreadRemembers' /\ (used'.loss = 0 => Knows')
<1>1. /\ UNCHANGED <<run, rows, events, clock, journal>> /\ used'.loss = used.loss
      /\ requests' \subseteq (requests \ Mine(w)) \cup Orphaned(Mine(w))
    BY GivesUpIs DEF Inv1, Inv
<1>2. Covered
  <2>1. Mine(w) \in SUBSET Request /\ Mine(w) \subseteq requests
      BY DEF Inv1, Inv, TypeOK, Mine
  <2> SUFFICES ASSUME NEW r \in requests'
               PROVE  \E q \in requests : q.gen = r.gen /\ r.items \subseteq q.items
      BY DEF Covered
  <2>2. CASE r \in requests
      BY <2>2
  <2>3. CASE r \in Orphaned(Mine(w))
      BY <2>1, <2>3, OrphansCovered
  <2> QED
      BY <1>1, <2>2, <2>3
<1> QED
    BY <1>1, <1>2, Keeping

LEMMA LosingKeeps ==
  ASSUME Lone, Inv1, NEW w \in Worker, IngestLost(w) \/ IngestCut(w)
  PROVE  ThreadRemembers' /\ (used'.loss = 0 => Knows')
<1>1. worker[w] \in Memory
    BY Here DEF Inv1
<1>2. CASE IngestLost(w)
  <2>1. GivesUp(w, 0) /\ Moves(w, [worker[w] EXCEPT !.phase = "devices"])
      BY <1>2 DEF IngestLost, Moves
  <2>2. Kept(worker[w], [worker[w] EXCEPT !.phase = "devices"])
      BY <1>1, KeepsSame, KeptPhase DEF Phase, Processing
  <2> QED
      BY <2>1, <2>2, GivesUpKeeps
<1>3. CASE IngestCut(w)
  <2>1. PICK c \in {0, 1} : GivesUp(w, c)
      BY <1>3, IngestCutIs
  <2>2. Moves(w, Error(worker[w]))
      BY <1>3, IngestCutIs
  <2>3. Kept(worker[w], Error(worker[w]))
      BY <1>1, KeepsSame, KeptError
  <2> QED
      BY <2>1, <2>2, <2>3, GivesUpKeeps
<1> QED
    BY <1>2, <1>3

LEMMA AgentKeeps ==
  ASSUME Lone, Inv1, NEW w \in Worker,
         PostEvent(w) \/ EventsDone(w) \/ TickNotNeeded(w) \/ Tick(w)
         \/ RequestFails(w) \/ DevicesFail(w) \/ AnswerLost(w)
  PROVE  ThreadRemembers' /\ (used'.loss = 0 => Knows')
<1> DEFINE m == worker[w]
<1>1. m \in Memory /\ UNCHANGED <<run, rows, requests>>
    BY Here DEF Inv1, PostEvent, EventsDone, TickNotNeeded, Tick, RequestFails, DevicesFail,
       AnswerLost, outside
<1>2. Covered /\ Kept(m, Error(m))
    BY <1>1, KeepsSame, KeptError DEF Covered
<1>3. CASE PostEvent(w)
  <2> DEFINE o == Least(Entries(m))
             n == Posted(m, o)
  <2>1. /\ m.phase = "post" /\ Entries(m) # {} /\ m.phase \in Processing
        /\ UNCHANGED <<journal, used>>
        /\ Moves(w, Error(m)) \/ Moves(w, n)
      BY <1>3 DEF PostEvent, Asks, Moves, Processing
  <2>2. o \in Entries(m) /\ o \in Obs /\ Unresolved(m) = {} /\ PostedStored(m.rec)
      BY <1>1, <2>1, Here, LeastIs, WorkIs DEF Inv1, ThreadRight, Recorded
  <2> HIDE DEF o
  <2>3. n \in Memory /\ n.phase = m.phase /\ n.gen = m.gen
    <3> HIDE DEF m
    <3> QED
        BY <1>1, <2>2, PostedIs
  <2>4. \A p \in Obs : m.rec[p] # {} => n.rec[p] # {}
    <3> DEFINE rec == [m.rec EXCEPT ![o] = (m.rec[o] \cup {"posted"}) \ {"pending"}]
    <3>1. \A p \in Obs : m.rec[p] # {} => rec[p] # {}
        BY <1>1, MemoryIs DEF Records
    <3>2. n = [m EXCEPT !.rec = rec]
        BY DEF Posted
    <3> HIDE DEF n, rec
    <3>3. n.rec = rec
        BY <1>1, <3>2 DEF Memory
    <3> QED
        BY <3>1, <3>3
  <2> HIDE DEF n
  <2>5. Kept(m, n)
      BY <2>1, <2>3, <2>4 DEF Kept, Keeps
  <2>6. \E k : Moves(w, k) /\ Kept(m, k)
      BY <1>2, <2>1, <2>5
  <2> QED
      BY <1>1, <1>2, <2>1, <2>6, Keeping
<1>4. CASE EventsDone(w)
  <2> DEFINE n == [m EXCEPT !.phase = "tick"]
  <2>1. /\ m.phase = "post" /\ worker' = [worker EXCEPT ![w] = n] /\ Save(m)
        /\ UNCHANGED used
      BY <1>4 DEF EventsDone
  <2>2. Moves(w, n) /\ m.gen \in Gen
      BY <2>1, Here DEF Moves, Inv1
  <2>3. n \in Memory /\ n.phase = "tick" /\ n.gen = m.gen /\ n.rec = m.rec
      BY <1>1 DEF Memory, Phase, Processing
  <2> HIDE DEF n
  <2>4. Keeps(m, m)
      BY KeepsSame
  <2> QED
      BY <1>1, <1>2, <2>1, <2>2, <2>3, <2>4, Writing
<1>5. CASE TickNotNeeded(w)
  <2> DEFINE n == Ticked(m)
  <2>1. m.phase \in {"tick", "goal"} /\ Moves(w, n) /\ UNCHANGED <<journal, used>>
      BY <1>5 DEF TickNotNeeded, Moves
  <2>2. Kept(m, n)
      BY <2>1, TickedKeeps DEF Inv1, Kept
  <2> QED
      BY <1>1, <1>2, <2>1, <2>2, Keeping
<1>6. CASE Tick(w)
  <2> DEFINE t == Target(m)
             k == Ticked(m)
             n == [k EXCEPT !.clock = t]
  <2>1. /\ m.phase \in {"tick", "goal"} /\ UNCHANGED used
        /\ \/ Moves(w, Error(m)) /\ UNCHANGED journal
           \/ Moves(w, n) /\ Save(n)
      BY <1>6 DEF Tick, Asks, Moves
  <2>2. t \in Time /\ m.gen \in Gen
      BY <2>1, TargetIs, Here DEF Inv1
  <2>3. Keeps(m, k) /\ k \in Memory /\ k.phase # "send"
      BY <2>1, TickedKeeps DEF Inv1
  <2> HIDE DEF k, t
  <2>4. n \in Memory /\ Alike(k, n)
      BY <2>2, <2>3, ClockIs
  <2> HIDE DEF n
  <2>5. Keeps(m, n) /\ n.phase # "send" /\ n.gen \in Gen
      BY <2>2, <2>3, <2>4 DEF Keeps, Alike
  <2>6. CASE Moves(w, Error(m)) /\ UNCHANGED journal
      BY <1>1, <1>2, <2>1, <2>6, Keeping
  <2>7. CASE Moves(w, n) /\ Save(n)
      BY <1>1, <1>2, <2>1, <2>4, <2>5, <2>7, Writing
  <2> QED
      BY <2>1, <2>6, <2>7
<1>7. CASE RequestFails(w) \/ AnswerLost(w)
  <2>1. Moves(w, Error(m)) /\ UNCHANGED journal
      BY <1>7 DEF RequestFails, AnswerLost, Moves
  <2>2. used'.loss = used.loss
      BY <1>7, UseIs DEF RequestFails, AnswerLost, Inv1, Inv, Counter
  <2> QED
      BY <1>1, <1>2, <2>1, <2>2, Keeping
<1>8. CASE DevicesFail(w)
  <2>1. Moves(w, Error(m)) /\ UNCHANGED journal /\ used'.loss = used.loss
      BY <1>8, DevicesFailIs DEF Inv1, Inv
  <2> QED
      BY <1>1, <1>2, <2>1, Keeping
<1> QED
    BY <1>3, <1>4, <1>5, <1>6, <1>7, <1>8

(* What happens outside of the threads does not reach what they remember.   *)
LEMMA WorldKeeps ==
  ASSUME Inv1, UNCHANGED <<journal, worker>>, used'.loss = used.loss
  PROVE  ThreadRemembers'
BY DEF Inv1, ThreadRemembers, Remembers, Announced, Known

LEMMA OutsideKeeps ==
  ASSUME Inv1, Publish \/ Advance \/ ResetRun \/ AgentForgets \/ UNCHANGED vars
  PROVE  ThreadRemembers' /\ (used'.loss = 0 => Knows')
<1>1. UNCHANGED <<rows, requests, journal, worker>>
    BY DEF Publish, Advance, ResetRun, AgentForgets, vars
<1>2. used'.loss = used.loss
  <2>1. CASE AgentForgets
      BY <2>1, UseIs DEF AgentForgets, Inv1, Inv, Counter
  <2> QED
      BY <2>1 DEF Publish, Advance, ResetRun, vars
<1>3. \A g \in Gen, o \in Obs : Known(g, o) => Known(g, o)'
    BY <1>1 DEF Known
<1>4. Covered
    BY <1>1 DEF Covered
<1> QED
    BY <1>1, <1>2, <1>3, <1>4, WorldKeeps, KnowsKept

LEMMA ArriveKeeps ==
  ASSUME Inv1, Arrive
  PROVE  ThreadRemembers' /\ (used'.loss = 0 => Knows')
<1>1. UNCHANGED <<run, events, clock, journal, worker, used>>
    BY DEF Arrive
<1>2. PICK r \in requests :
        /\ r.items # {}
        /\ LET o == Least(r.items)
               rest == r.items \ {o}
               left == [r EXCEPT !.items = rest]
           IN /\ rows' = [rows EXCEPT ![r.gen][o] = IF @ < 2 THEN @ + 1 ELSE @]
              /\ requests' = (requests \ {r}) \cup
                   (IF rest = {} /\ r.from = None THEN {} ELSE {left})
    BY DEF Arrive
<1> DEFINE o == Least(r.items)
           rest == r.items \ {o}
           left == [r EXCEPT !.items = rest]
<1>3. r \in Request /\ r.items \in SUBSET Obs
    BY DEF Inv1, Inv, TypeOK, Request
<1>4. o \in r.items
    BY <1>2, <1>3, LeastIs
<1>5. /\ rows' = [rows EXCEPT ![r.gen][o] = IF @ < 2 THEN @ + 1 ELSE @]
      /\ requests' \subseteq (requests \ {r}) \cup {left}
    BY <1>2
<1> HIDE DEF o
<1>6. left.gen = r.gen /\ left.items \subseteq r.items
    BY <1>3 DEF Request
<1> HIDE DEF left
<1>7. ASSUME NEW g \in Gen, NEW p \in Obs, ~(g = r.gen /\ p = o)
      PROVE  rows'[g][p] = rows[g][p]
    BY <1>5, <1>7 DEF Inv1, Inv, TypeOK
<1>8. ASSUME used.loss = 0, NEW g \in Gen, NEW p \in Obs,
             rows'[g][p] > 0 \/ (\E q \in requests' : q.gen = g /\ p \in q.items)
      PROVE  Known(g, p)
  <2>1. rows[g][p] > 0 \/ (\E q \in requests : q.gen = g /\ p \in q.items)
    <3>1. CASE g = r.gen /\ p = o
        BY <1>4, <3>1
    <3>2. CASE ~(g = r.gen /\ p = o) /\ rows'[g][p] > 0
        BY <1>7, <3>2
    <3>3. CASE \E q \in requests' : q.gen = g /\ p \in q.items
        BY <1>5, <1>6, <3>3
    <3> QED
        BY <1>8, <3>1, <3>2, <3>3
  <2> QED
      BY <1>8, <2>1 DEF Inv1, Knows
<1>9. used'.loss = 0 => Knows'
    BY <1>1, <1>8 DEF Knows, Known
<1> QED
    BY <1>1, <1>9, WorldKeeps

LEMMA IdleKeeps ==
  ASSUME NEW w \in Worker, worker'[w].gen = None, worker'[w].phase # "send"
  PROVE  Remembers(worker[w])' /\ Announced(worker[w])'
BY DEF Remembers, Announced

LEMMA BeginningKeeps ==
  ASSUME Lone, Inv1, NEW w \in Worker, Connect(w) \/ Stop(w)
  PROVE  ThreadRemembers' /\ (used'.loss = 0 => Knows')
<1>1. UNCHANGED <<outside, journal>> /\ worker \in [Worker -> Memory]
    BY DEF Connect, Stop, Inv1, Inv, TypeOK
<1>2. CASE Connect(w)
  <2> DEFINE c == [Off EXCEPT !.phase = "connect"]
  <2>1. c.gen = None /\ c.phase = "connect"
      BY OffIs, PhaseIs DEF Phase
  <2>2. worker'[w] = c
      BY <1>2 DEF Connect
  <2> HIDE DEF c
  <2>3. Remembers(worker[w])' /\ Announced(worker[w])'
      BY <2>1, <2>2, IdleKeeps
  <2>4. ThreadRemembers'
      BY <2>3 DEF Lone, ThreadRemembers
  <2>5. used'.loss = used.loss
      BY <1>2, UseIs DEF Connect, Inv1, Inv, Counter
  <2>6. \A g \in Gen, o \in Obs : Known(g, o) => Known(g, o)'
      BY <1>1 DEF Known
  <2>7. Covered
      BY <1>1 DEF Covered, outside
  <2> QED
      BY <1>1, <2>4, <2>5, <2>6, <2>7, KnowsKept DEF outside
<1>3. CASE Stop(w)
  <2>1. Moves(w, Off) /\ UNCHANGED used
      BY <1>3 DEF Stop, Moves
  <2> QED
      BY <1>1, <2>1, KeptOff, Remembering
<1> QED
    BY <1>2, <1>3

LEMMA CrashKeeps ==
  ASSUME Inv1, Crash
  PROVE  ThreadRemembers' /\ (used'.loss = 0 => Knows')
<1> DEFINE R == {r \in requests : r.from # None}
           L == {q \in R : q.items # {}}
<1>1. worker' = [w \in Worker |-> Off] /\ UNCHANGED <<run, rows, events, clock, journal>>
    BY DEF Crash
<1>2. requests' \subseteq (requests \ R) \cup Orphaned(L)
    BY DEF Crash, Orphaned
<1>3. used'.loss = used.loss
  <2>1. \/ used' = [used EXCEPT !.crash = @ + 1]
        \/ used' = [used EXCEPT !.crash = @ + 1, !.late = @ + 1]
      BY DEF Crash
  <2> QED
      BY <2>1, LateIs DEF Inv1, Inv, Counter
<1>4. ThreadRemembers'
  <2> SUFFICES ASSUME NEW w \in Worker
               PROVE  Remembers(worker[w])' /\ Announced(worker[w])'
      BY DEF ThreadRemembers
  <2>1. worker'[w].gen = None /\ worker'[w].phase # "send"
      BY <1>1, OffIs
  <2> QED
      BY <2>1, IdleKeeps
<1>5. L \in SUBSET Request /\ L \subseteq requests
    BY DEF Inv1, Inv, TypeOK
<1> HIDE DEF L
<1>6. Covered
  <2> SUFFICES ASSUME NEW r \in requests'
               PROVE  \E q \in requests : q.gen = r.gen /\ r.items \subseteq q.items
      BY DEF Covered
  <2>1. CASE r \in requests
      BY <2>1
  <2>2. CASE r \in Orphaned(L)
      BY <1>5, <2>2, OrphansCovered
  <2> QED
      BY <1>2, <2>1, <2>2
<1>7. \A g \in Gen, o \in Obs : Known(g, o) => Known(g, o)'
    BY <1>1 DEF Known
<1> QED
    BY <1>1, <1>3, <1>4, <1>6, <1>7, KnowsKept

LEMMA JournalLossKeeps ==
  ASSUME Inv1, JournalLost
  PROVE  ThreadRemembers' /\ (used'.loss = 0 => Knows')
<1>1. used'.loss # 0
    BY UseIs DEF JournalLost, Inv1, Inv, Counter
<1> QED
    BY <1>1 DEF ThreadRemembers

LEMMA InitKnows == Init => Inv1
<1> SUFFICES ASSUME Init PROVE Inv1
    OBVIOUS
<1>1. ThreadRemembers
    BY OffIs DEF Init, ThreadRemembers, Remembers, Announced
<1>2. Knows
    BY DEF Init, Knows
<1> QED
    BY <1>1, <1>2, InitRight DEF Inv1

LEMMA StepKnows == ASSUME Lone PROVE Inv1 /\ [Next]_vars => Inv1'
<1> SUFFICES ASSUME Inv1, [Next]_vars PROVE Inv1'
    OBVIOUS
<1>1. Inv'
    BY StepRight DEF Inv1
<1>2. CASE Publish \/ Advance \/ ResetRun \/ AgentForgets \/ UNCHANGED vars
    BY <1>1, <1>2, OutsideKeeps DEF Inv1
<1>3. CASE Arrive \/ Crash \/ JournalLost
    BY <1>1, <1>3, ArriveKeeps, CrashKeeps, JournalLossKeeps DEF Inv1
<1>4. ASSUME NEW w \in Worker, Connect(w) \/ Stop(w) PROVE Inv1'
    BY <1>1, <1>4, BeginningKeeps DEF Inv1
<1>5. ASSUME NEW w \in Worker,
             StreamEnds(w) \/ IngestLost(w) \/ IngestCut(w) \/ RequestFails(w)
             \/ DevicesFail(w) \/ ReadBackFails(w) \/ AnswerLost(w)
      PROVE  Inv1'
    BY <1>1, <1>5, ConnectionKeeps, LosingKeeps, AgentKeeps, LookingKeeps DEF Inv1
<1>6. ASSUME NEW w \in Worker, Thread(w) PROVE Inv1'
  <2>1. CASE Snapshot(w) \/ OpenSession(w) \/ ReadHistory(w) \/ ReadEvent(w) \/ Heartbeat(w)
      BY <1>1, <2>1, ConnectionKeeps, ReadingKeeps DEF Inv1
  <2>2. CASE LoadDevices(w) \/ ReadBackBeforeSending(w) \/ ReadBackAfterSending(w)
             \/ PrepareIngest(w) \/ SendIngest(w) \/ IngestAnswered(w) \/ IngestMalformed(w)
      BY <1>1, <2>2, LookingKeeps, PreparingKeeps, SendingKeeps, AnswerKeeps,
         MalformedKeeps DEF Inv1
  <2>3. CASE PostEvent(w) \/ EventsDone(w) \/ TickNotNeeded(w) \/ Tick(w)
      BY <1>1, <2>3, AgentKeeps DEF Inv1
  <2> QED
      BY <1>6, <2>1, <2>2, <2>3 DEF Thread
<1> QED
    BY <1>2, <1>3, <1>4, <1>5, <1>6 DEF Next

(* With one thread at a time, the journal knows of every observation that  *)
(* is stored or on its way to the platform, however often the gateway      *)
(* crashed and whatever was lost or came late: the platform receives       *)
(* nothing that was not announced first.  Two threads on one journal may   *)
(* break it: a thread that was replaced may still save over its successor. *)
THEOREM DoubtIsRecorded == ASSUME Lone PROVE Spec => []DoubtRecorded
<1>1. Inv1 => DoubtRecorded
    BY DEF Inv1, Knows, Known, DoubtRecorded
<1>2. Init => Inv1
    BY InitKnows
<1>3. Inv1 /\ [Next]_vars => Inv1'
    BY StepKnows
<1> QED
    BY <1>1, <1>2, <1>3, PTL DEF Spec

-----------------------------------------------------------------------------
(* An observation is stored once                                            *)
(*                                                                          *)
(* A single thread sends an observation again only if it may not know that  *)
(* it is stored: it has not read it back, or it asked for the readings of   *)
(* too few devices.  With no blind failure and no ingestion that outlives   *)
(* its request both are excluded.                                           *)

Clear == used.late = 0 /\ used.blind = 0

Seen(m, o) == m.rec[o] \cap {"accepted", "reading"} # {}
Held(m, rw, o) == rw[m.gen][o] > 0 => Seen(m, o)

(* What the thread is about to read back, or has just sent.                 *)
Doubtful(m) ==
  IF m.sent \/ (m.recover /\ m.phase \in {"devices", "readback"})
  THEN Unresolved(m) ELSE {}

(* What it has been through since its last snapshot is in its records.      *)
Settled(m, rw) ==
  /\ m.phase \in {"goal", "stream"} => \A o \in Obs : Held(m, rw, o)
  /\ m.phase \in {"session", "history"} =>
       \A o \in Obs : o <= m.after \/ o > m.seq => Held(m, rw, o)
  /\ m.phase \in Processing =>
       \A o \in Obs \ Doubtful(m) :
         o <= m.after \/ o > m.seq \/ ~m.recover => Held(m, rw, o)
  /\ m.phase = "send" => \A o \in Unresolved(m) : rw[m.gen][o] = 0

(* The history is read chunk by chunk, up to what the snapshot named.       *)
Paced(m, r) ==
  /\ m.phase \in Processing /\ m.recover =>
       /\ m.next = "goal" => m.seq <= m.after
       /\ \A o \in m.batch : o <= m.after
  /\ m.phase \in Processing /\ m.gen = r.gen => \A o \in m.batch : o <= r.count
  /\ m.phase \in {"ingest", "send"} => ~m.sent
  /\ m.phase = "ingesting" => m.sent

(* What it does not know to be stored it would find: its device is one it   *)
(* asks for, or will be, or it has just been sent.                          *)
Placeable(m, rw, o) ==
  rw[m.gen][o] > 0 => Seen(m, o) \/ <<m.gen, DeviceOf[o]>> \in m.devices
Located(m, rw) ==
  \A o \in Obs :
    \/ Placeable(m, rw, o)
    \/ m.devices = {} /\ m.phase \notin {"readback", "ingest", "send", "ingesting"}
    \/ m.phase \in {"ingesting", "devices"} /\ o \in Unresolved(m)

Sure(m, r, rw) ==
  m.gen # None => Settled(m, rw) /\ Paced(m, r) /\ Located(m, rw)

(* Nothing is stored that was not published and mapped.                     *)
StoredRightly == \A g \in Gen, o \in Obs : rows[g][o] > 0 =>
  o \notin Unmapped /\ (g < run.gen \/ (g = run.gen /\ o <= run.count))

(* A request carries what its thread waits for and is not stored yet.       *)
RequestsNew == \A r \in requests :
  /\ r.from # None /\ r.items \subseteq Unresolved(worker[r.from])
  /\ \A o \in r.items : rows[r.gen][o] = 0

Once ==
  /\ \A w \in Worker : Sure(worker[w], run, rows)
  /\ StoredRightly /\ RequestsNew /\ StoredOnce

(* Nothing but the stop flag differs.                                       *)
Twin(m, n) ==
  /\ Alike(m, n) /\ n.devices = m.devices /\ n.sent = m.sent /\ n.recover = m.recover

LEMMA MovesTwin ==
  ASSUME TypeOK, NEW w \in Worker, NEW n \in Memory, Moves(w, n)
  PROVE  Twin(n, worker'[w])
<1>1. PICK s : s = IF n.stop = "requested" THEN "done" ELSE n.stop
  OBVIOUS
<1>2. PICK k : k = [n EXCEPT !.stop = s]
  OBVIOUS
<1>3. Twin(n, n)
  BY DEF Twin, Alike
<1>4. Twin(n, k)
  BY <1>2 DEF Twin, Alike, Memory
<1>5. CASE Becomes(w, n)
  <2>1. worker' = [worker EXCEPT ![w] = k]
    BY <1>1, <1>2, <1>5 DEF Becomes
  <2> QED BY <1>4, <2>1 DEF TypeOK
<1>6. CASE worker' = [worker EXCEPT ![w] = n]
  BY <1>3, <1>6 DEF TypeOK
<1> QED BY <1>5, <1>6 DEF Moves

LEMMA TwinSure ==
  ASSUME NEW m, NEW n, Twin(m, n), NEW r, NEW rw, Sure(m, r, rw)
  PROVE  Sure(n, r, rw)
<1>1. Unresolved(n) = Unresolved(m)
  BY SameWork DEF Twin, Alike
<1>2. /\ n.phase = m.phase /\ n.gen = m.gen /\ n.rec = m.rec /\ n.seq = m.seq
      /\ n.batch = m.batch /\ n.after = m.after /\ n.next = m.next
      /\ n.devices = m.devices /\ n.sent = m.sent /\ n.recover = m.recover
  BY DEF Twin, Alike
<1>3. Doubtful(n) = Doubtful(m)
  BY <1>1, <1>2 DEF Doubtful
<1>4. \A o : Held(m, rw, o) <=> Held(n, rw, o)
  BY <1>2 DEF Held, Seen
<1>5. \A o : Placeable(m, rw, o) <=> Placeable(n, rw, o)
  BY <1>2 DEF Placeable, Seen
<1> SUFFICES ASSUME m.gen # None
             PROVE  Settled(n, rw) /\ Paced(n, r) /\ Located(n, rw)
  BY <1>2 DEF Sure
<1>6. Settled(m, rw) /\ Paced(m, r) /\ Located(m, rw)
  BY DEF Sure
<1>7. Settled(n, rw)
  BY <1>1, <1>2, <1>3, <1>4, <1>6 DEF Settled
<1>8. Paced(n, r)
  BY <1>2, <1>6 DEF Paced
<1>9. Located(n, rw)
  BY <1>1, <1>2, <1>5, <1>6 DEF Located
<1> QED BY <1>7, <1>8, <1>9

(* A thread that waits for no answer has no request; it is the only one.    *)
LEMMA NoRequests ==
  ASSUME Lone, Inv, Once, NEW w \in Worker, worker[w].phase # "ingesting"
  PROVE  requests = {}
<1> SUFFICES ASSUME NEW r \in requests PROVE FALSE
  OBVIOUS
<1>1. r.from # None /\ r.from \in Worker
  BY DEF Once, RequestsNew, Inv, TypeOK, Request
<1>2. r.from = w
  BY <1>1 DEF Lone
<1> QED BY <1>1, <1>2 DEF Inv, RequestsRight, Carries

(* A step of the thread that sends and stores nothing.                      *)
LEMMA StaysSure ==
  ASSUME Lone, Inv, Once, NEW w \in Worker, worker[w].phase # "ingesting",
         UNCHANGED <<run, rows, requests>>,
         NEW n \in Memory, Moves(w, n), Sure(n, run, rows)
  PROVE  Once'
<1>1. requests' = {}
  BY NoRequests
<1>2. \A v \in Worker : Sure(worker'[v], run, rows)
  <2> SUFFICES ASSUME NEW v \in Worker PROVE Sure(worker'[v], run, rows)
    OBVIOUS
  <2>1. v = w
    BY DEF Lone
  <2>2. Twin(n, worker'[w])
    BY MovesTwin DEF Inv
  <2> QED BY <2>1, <2>2, TwinSure
<1>3. StoredRightly' /\ StoredOnce' /\ RequestsNew'
  BY <1>1 DEF Once, StoredRightly, StoredOnce, RequestsNew
<1> QED BY <1>2, <1>3 DEF Once

(* What the operators on a memory leave of the list of devices and the      *)
(* flags of process().                                                      *)
Alongside(m, n) == n.devices = m.devices /\ n.sent = m.sent /\ n.recover = m.recover

LEMMA PhaseBeside ==
  ASSUME NEW m \in Memory, NEW p \in Phase
  PROVE  Alongside(m, [m EXCEPT !.phase = p])
BY DEF Memory, Alongside

LEMMA Onto ==
  ASSUME NEW m \in Memory, NEW p \in Processing, NEW n, n = [m EXCEPT !.phase = p]
  PROVE  /\ n \in Memory /\ n.phase = p /\ n.rec = m.rec /\ n.gen = m.gen
         /\ n.seq = m.seq /\ n.batch = m.batch /\ n.after = m.after /\ n.next = m.next
         /\ Alongside(m, n)
<1>1. p \in Phase
  BY DEF Phase
<1> QED BY <1>1, PhaseIs, PhaseBeside

LEMMA ErrorBeside ==
  ASSUME NEW m \in Memory
  PROVE  Error(m).devices = m.devices /\ Error(m).sent = FALSE /\ Error(m).recover = FALSE
BY DEF Error, Memory

LEMMA ResolvedBeside ==
  ASSUME NEW m \in Memory
  PROVE  Alongside(m, Resolved(m))
<1>1. PICK p : p = IF Unresolved(m) = {} THEN "post" ELSE "ingest"
  OBVIOUS
<1>2. Resolved(m) = [m EXCEPT !.phase = p]
  BY <1>1 DEF Resolved
<1> QED BY <1>2 DEF Memory, Alongside

LEMMA ReadBackBeside ==
  ASSUME NEW m \in Memory, NEW S
  PROVE  Alongside(m, ReadBack(m, S))
<1>1. PICK rec : rec = Mark(m.rec, S, "reading")
  OBVIOUS
<1>2. ReadBack(m, S) = [m EXCEPT !.rec = rec]
  BY <1>1 DEF ReadBack
<1> QED BY <1>2 DEF Memory, Alongside

(* process() sends at once only what came through the stream.               *)
Sorted(b, m, rc) ==
  /\ b.devices = m.devices /\ b.recover = rc /\ b.sent = FALSE
  /\ b.phase = "readback" => b.devices # {}
  /\ b.phase = "ingest" => ~rc

LEMMA BeginBeside ==
  ASSUME NEW m \in Memory, NEW B \in SUBSET Obs, NEW rc \in BOOLEAN,
         NEW nx \in {"goal", "history"}, NEW go \in Time
  PROVE  Sorted(Begin(m, B, rc, nx, go), m, rc)
<1>1. PICK n : n = [m EXCEPT !.batch = B, !.recover = rc, !.sent = FALSE,
                             !.next = nx, !.goal = go]
  OBVIOUS
<1>2. n \in Memory /\ n.devices = m.devices /\ n.recover = rc /\ n.sent = FALSE
  BY <1>1 DEF Memory
<1>3. Begin(m, B, rc, nx, go) =
        IF Uncertain(n) = {} THEN Resolved(n)
        ELSE [n EXCEPT !.phase = IF n.devices = {} THEN "devices" ELSE "readback"]
  BY <1>1 DEF Begin
<1>4. CASE Uncertain(n) = {}
  <2>1. Begin(m, B, rc, nx, go) = Resolved(n)
    BY <1>3, <1>4
  <2>2. Alongside(n, Resolved(n)) /\ Resolved(n).phase \in {"post", "ingest"}
    BY <1>2, ResolvedBeside, ResolvedIs
  <2>3. rc => Resolved(n).phase # "ingest"
    <3>1. rc => Unresolved(n) = {}
      BY <1>2, <1>4 DEF Uncertain
    <3>2. PICK p : p = IF Unresolved(n) = {} THEN "post" ELSE "ingest"
      OBVIOUS
    <3>3. Resolved(n) = [n EXCEPT !.phase = p]
      BY <3>2 DEF Resolved
    <3> QED BY <1>2, <3>1, <3>2, <3>3 DEF Memory
  <2> QED BY <1>2, <2>1, <2>2, <2>3 DEF Alongside, Sorted
<1>5. CASE Uncertain(n) # {}
  <2>1. PICK p : p = IF n.devices = {} THEN "devices" ELSE "readback"
    OBVIOUS
  <2>2. Begin(m, B, rc, nx, go) = [n EXCEPT !.phase = p]
    BY <1>3, <1>5, <2>1
  <2>3. p \in Phase /\ p # "ingest" /\ (p = "readback" => n.devices # {})
    BY <2>1 DEF Phase, Processing
  <2>4. PICK b : b = [n EXCEPT !.phase = p]
    OBVIOUS
  <2>5. b.phase = p /\ Alongside(n, b)
    BY <1>2, <2>3, <2>4, PhaseIs, PhaseBeside
  <2> QED BY <1>2, <2>2, <2>3, <2>4, <2>5 DEF Alongside, Sorted
<1> QED BY <1>4, <1>5

(* Records that lose nothing of what is known to be stored.                 *)
Learns(m, n) == n.gen = m.gen /\ \A o \in Obs : Seen(m, o) => Seen(n, o)

LEMMA LearnsHeld ==
  ASSUME NEW m, NEW n, Learns(m, n), NEW rw, NEW o \in Obs
  PROVE  /\ Held(m, rw, o) => Held(n, rw, o)
         /\ Placeable(m, rw, o) /\ m.devices \subseteq n.devices => Placeable(n, rw, o)
BY DEF Learns, Held, Placeable

(* A thread that looks nothing up and waits for nothing knows its devices,  *)
(* and so does one that is not blind.                                       *)
LEMMA Mapped ==
  ASSUME NEW m, NEW rw, Located(m, rw),
         m.phase \notin {"ingesting", "devices"} \/ ~Blind(m)
  PROVE  \A o \in Obs : Placeable(m, rw, o) \/ m.devices = {}
<1> SUFFICES ASSUME NEW o \in Obs, m.devices # {} PROVE Placeable(m, rw, o)
  OBVIOUS
<1>1. CASE m.phase \notin {"ingesting", "devices"}
  BY <1>1 DEF Located
<1>2. CASE ~Blind(m) /\ o \in Unresolved(m)
  BY <1>2 DEF Blind, Placeable, Seen
<1>3. CASE ~Blind(m) /\ o \notin Unresolved(m)
  BY <1>3 DEF Located
<1> QED BY <1>1, <1>2, <1>3

(* It starts over after an error, with what it has learned.                 *)
LEMMA FailedSure ==
  ASSUME NEW m \in Memory, NEW r, NEW rw, NEW n, Learns(m, n),
         n.phase = "connect", n.devices = m.devices,
         \A o \in Obs : Placeable(m, rw, o) \/ m.devices = {}
  PROVE  Sure(n, r, rw)
<1>1. Settled(n, rw) /\ Paced(n, r)
  BY DEF Settled, Paced, Processing
<1>2. Located(n, rw)
  BY LearnsHeld DEF Located
<1> QED BY <1>1, <1>2 DEF Sure

LEMMA ErrorSure ==
  ASSUME NEW m \in Memory, m.gen # None, NEW r, NEW rw, Sure(m, r, rw),
         m.phase \notin {"ingesting", "devices"},
         NEW n, Learns(m, n), n.devices = m.devices, n \in Memory
  PROVE  Sure(Error(n), r, rw)
<1>1. \A o \in Obs : Placeable(m, rw, o) \/ m.devices = {}
  BY Mapped DEF Sure
<1>2. PICK e : e = Error(n)
  OBVIOUS
<1>3. e.phase = "connect" /\ e.devices = m.devices /\ e.gen = n.gen /\ e.rec = n.rec
  BY <1>2, ErrorIs, ErrorBeside
<1>4. Learns(m, e)
  BY <1>3 DEF Learns, Seen
<1> QED BY <1>1, <1>2, <1>3, <1>4, FailedSure

LEMMA LearnsSelf == ASSUME NEW m PROVE Learns(m, m)
BY DEF Learns

LEMMA Ready ==
  ASSUME Inv, Once, NEW w \in Worker
  PROVE  /\ worker[w] \in Memory /\ ThreadRight(worker[w], run, rows)
         /\ worker[w].phase \notin {"off", "connect"} =>
              worker[w].gen \in Gen /\ worker[w].gen # None
         /\ Sure(worker[w], run, rows)
         /\ run.gen \in Gen /\ run.count \in 0..MaxObs /\ run.time \in Time
BY Here DEF Once

LEMMA SnapshotOnce ==
  ASSUME Lone, Inv, Once, NEW w \in Worker, Snapshot(w)
  PROVE  Once'
<1> PICK m : m = worker[w]
  OBVIOUS
<1>1. /\ m \in Memory /\ ThreadRight(m, run, rows) /\ Sure(m, run, rows)
      /\ run.gen \in Gen /\ run.count \in 0..MaxObs /\ run.time \in Time /\ run.gen # None
  BY Ready, Ranges
<1>2. m.phase \in {"connect", "stream"}
  BY DEF Snapshot, Asks
<1> PICK l : l = Loaded(m, run.gen)
  OBVIOUS
<1>3. /\ l \in Memory /\ l.gen = run.gen /\ l.after = m.after
      /\ m.gen = run.gen => l = m
  <2>1. l \in Memory /\ l.gen = run.gen /\ l.after = m.after
    BY <1>1, LoadedIs
  <2> QED BY <2>1 DEF Loaded
<1>4. m.gen # run.gen => l.devices = {}
  <2> SUFFICES ASSUME m.gen # run.gen PROVE l.devices = {}
    OBVIOUS
  <2>1. PICK rec : rec = IF journal[run.gen] = None THEN NoRecords ELSE journal[run.gen].rec
    OBVIOUS
  <2>2. PICK c : c = IF journal[run.gen] = None THEN 0 ELSE journal[run.gen].clock
    OBVIOUS
  <2>3. l = [m EXCEPT !.gen = run.gen, !.devices = {}, !.pending = {}, !.rec = rec,
                      !.clock = c]
    BY <2>1, <2>2 DEF Loaded
  <2> QED BY <1>1, <2>3 DEF Memory
<1> PICK n : n = Shown(l, run.count, run.time)
  OBVIOUS
<1>5. Moves(w, n) /\ UNCHANGED <<run, rows, requests, used>>
  BY DEF Snapshot, Moves, Shown, outside
<1>6. /\ n \in Memory /\ n.phase = "session" /\ n.gen = run.gen /\ n.seq = run.count
      /\ n.rec = l.rec /\ n.after = l.after
  BY <1>1, <1>3, ShownIs
<1>7. n.devices = l.devices
  BY <1>3 DEF Shown, Memory
<1>8. m.after = 0
  BY <1>1, <1>2 DEF ThreadRight, Bounded, Processing
<1>9. Settled(n, rows)
  <2> SUFFICES ASSUME NEW o \in Obs, o <= n.after \/ o > n.seq PROVE ~(rows[n.gen][o] > 0)
    BY <1>6 DEF Settled, Held, Processing
  <2>1. o > run.count /\ o \in Nat /\ run.count \in Nat /\ ~(o <= run.count)
    BY <1>1, <1>3, <1>6, <1>8 DEF Obs
  <2>2. ~(run.gen < run.gen)
    BY <1>1 DEF Gen
  <2> QED BY <1>1, <1>6, <2>1, <2>2 DEF Once, StoredRightly
<1>10. Paced(n, run)
  BY <1>6 DEF Paced, Processing
<1>11. Located(n, rows)
  <2>1. CASE m.gen = run.gen
    <3>1. Located(m, rows)
      BY <1>1, <2>1 DEF Sure
    <3>2. \A o \in Obs : Placeable(m, rows, o) \/ m.devices = {}
      BY <1>2, <3>1, Mapped
    <3>3. \A o \in Obs : Placeable(m, rows, o) => Placeable(n, rows, o)
      BY <1>3, <1>6, <1>7, <2>1 DEF Placeable, Seen
    <3> QED BY <1>3, <1>6, <1>7, <2>1, <3>2, <3>3 DEF Located
  <2>2. CASE m.gen # run.gen
    BY <1>4, <1>6, <1>7, <2>2 DEF Located
  <2> QED BY <2>1, <2>2
<1>12. worker[w].phase # "ingesting"
  BY <1>2
<1> QED BY <1>5, <1>6, <1>9, <1>10, <1>11, <1>12, StaysSure DEF Sure

LEMMA OpenSessionOnce ==
  ASSUME Lone, Inv, Once, NEW w \in Worker, OpenSession(w)
  PROVE  Once'
<1> PICK m : m = worker[w]
  OBVIOUS
<1>1. m.phase = "session"
  BY DEF OpenSession, Asks
<1>2. /\ m \in Memory /\ m.gen \in Gen /\ m.gen # None /\ Sure(m, run, rows)
  BY <1>1, Ready
<1> PICK l : l = Repaired(m)
  OBVIOUS
<1>3. Started(m.gen) \in Time
  BY <1>2, StartedIs DEF OpenSession
<1>4. /\ l \in Memory /\ l.gen = m.gen /\ l.seq = m.seq /\ l.after = m.after
      /\ \A o \in Obs : l.rec[o] = m.rec[o] \/ l.rec[o] = m.rec[o] \ {"posted"}
  BY <1>2, <1>3, RepairedIs
<1>5. l.devices = m.devices
  <2>1. PICK rec : rec = [o \in Obs |-> m.rec[o] \ {"posted"}]
    OBVIOUS
  <2>2. l = [m EXCEPT !.rec = rec, !.clock = Started(m.gen)] \/ l = m
    BY <2>1 DEF Repaired
  <2> QED BY <1>2, <2>2 DEF Memory
<1> PICK n : n = [l EXCEPT !.phase = "history"]
  OBVIOUS
<1>6. /\ n \in Memory /\ n.phase = "history" /\ n.gen = m.gen /\ n.seq = m.seq
      /\ n.rec = l.rec /\ n.after = m.after /\ n.devices = m.devices
  BY <1>4, <1>5, PhaseIs, PhaseBeside DEF Phase, Alongside
<1>7. Learns(m, n)
  BY <1>4, <1>6 DEF Learns, Seen
<1>8. Settled(n, rows)
  BY <1>1, <1>2, <1>6, <1>7, LearnsHeld DEF Sure, Settled, Processing
<1>9. Paced(n, run)
  BY <1>6 DEF Paced, Processing
<1>10. Located(n, rows)
  <2>1. \A o \in Obs : Placeable(m, rows, o) \/ m.devices = {}
    BY <1>1, <1>2, Mapped DEF Sure
  <2> QED BY <1>6, <1>7, <2>1, LearnsHeld DEF Located
<1>11. Moves(w, n) /\ UNCHANGED <<run, rows, requests, used>>
  BY DEF OpenSession, Moves
<1>12. worker[w].phase # "ingesting"
  BY <1>1
<1> QED BY <1>6, <1>8, <1>9, <1>10, <1>11, <1>12, StaysSure DEF Sure

LEMMA FailsOnce ==
  ASSUME Lone, Inv, Once, NEW w \in Worker, worker[w].phase # "ingesting",
         worker[w].phase # "devices",
         UNCHANGED <<run, rows, requests>>, Moves(w, Error(worker[w]))
  PROVE  Once'
<1> PICK m : m = worker[w]
  OBVIOUS
<1>1. m \in Memory /\ Sure(m, run, rows) /\ Error(m) \in Memory
  BY Ready, ErrorIs
<1>2. Sure(Error(m), run, rows)
  <2>1. CASE m.gen # None
    BY <1>1, <2>1, LearnsSelf, ErrorSure
  <2>2. CASE m.gen = None
    BY <1>1, <2>2, ErrorIs DEF Sure
  <2> QED BY <2>1, <2>2
<1> QED BY <1>1, <1>2, StaysSure

LEMMA StreamEndsOnce ==
  ASSUME Lone, Inv, Once, NEW w \in Worker, StreamEnds(w)
  PROVE  Once'
<1> PICK m : m = worker[w]
  OBVIOUS
<1>1. m.phase = "stream"
  BY DEF StreamEnds, Asks
<1>2. m \in Memory /\ m.gen # None /\ Sure(m, run, rows)
  BY <1>1, Ready
<1> PICK e : e = Error(m)
  OBVIOUS
<1> PICK n : n = [e EXCEPT !.state = "connecting"]
  OBVIOUS
<1>3. e \in Memory /\ e.devices = m.devices /\ Sure(e, run, rows)
  BY <1>1, <1>2, LearnsSelf, ErrorSure, ErrorIs, ErrorBeside
<1>4. n \in Memory /\ Twin(e, n)
  BY <1>3 DEF Memory, Twin, Alike
<1>5. Sure(n, run, rows)
  BY <1>3, <1>4, TwinSure
<1>6. Moves(w, n) /\ UNCHANGED <<run, rows, requests>>
  BY DEF StreamEnds, Moves, outside
<1>7. worker[w].phase # "ingesting"
  BY <1>1
<1> QED BY <1>4, <1>5, <1>6, <1>7, StaysSure

-----------------------------------------------------------------------------
(* A step of process() that keeps the batch and how it came.                *)
Retains(m, n) ==
  /\ m.phase \in Processing /\ n.phase \in Processing /\ Learns(m, n)
  /\ n.seq = m.seq /\ n.batch = m.batch /\ n.after = m.after /\ n.next = m.next
  /\ n.recover = m.recover

LEMMA CarriesOn ==
  ASSUME NEW m, NEW n, Retains(m, n), m.gen # None, NEW r, NEW rw,
         Sure(m, r, rw),
         \A o \in Obs : o \in Doubtful(m) => o \in Doubtful(n) \/ Held(n, rw, o),
         n.phase = "send" => \A o \in Unresolved(n) : rw[n.gen][o] = 0,
         n.phase \in {"ingest", "send"} => ~n.sent, n.phase = "ingesting" => n.sent,
         Located(n, rw)
  PROVE  Sure(n, r, rw)
<1>1. Settled(m, rw) /\ Paced(m, r)
  BY DEF Sure
<1>2. Settled(n, rw)
  <2>1. ASSUME NEW o \in Obs \ Doubtful(n), o <= n.after \/ o > n.seq \/ ~n.recover
        PROVE  Held(n, rw, o)
    <3>1. CASE o \in Doubtful(m)
      BY <2>1, <3>1
    <3>2. CASE o \notin Doubtful(m)
      <4>1. Held(m, rw, o)
        BY <1>1, <2>1, <3>2 DEF Settled, Retains
      <4> QED BY <2>1, <4>1, LearnsHeld DEF Retains
    <3> QED BY <3>1, <3>2
  <2>2. n.phase \notin {"goal", "stream", "session", "history"}
    BY DEF Retains, Processing
  <2> QED BY <2>1, <2>2 DEF Settled
<1>3. Paced(n, r)
  BY <1>1 DEF Paced, Retains, Learns
<1> QED BY <1>2, <1>3 DEF Sure

(* What it can place it still can.                                          *)
LEMMA PlacedOn ==
  ASSUME NEW m, NEW n, Learns(m, n), m.devices \subseteq n.devices, NEW rw,
         Located(m, rw), m.phase \in {"readback", "ingest", "send"}
  PROVE  Located(n, rw)
<1>1. \A o \in Obs : Placeable(m, rw, o)
  BY DEF Located
<1> QED BY <1>1, LearnsHeld DEF Located

LEMMA LoadDevicesOnce ==
  ASSUME Lone, Inv, Once, NEW w \in Worker, LoadDevices(w)
  PROVE  Once'
<1> PICK m : m = worker[w]
  OBVIOUS
<1>1. m.phase = "devices" /\ m.phase \in Processing
  BY DEF LoadDevices, Asks, Processing
<1>2. m \in Memory /\ m.gen \in Gen /\ m.gen # None /\ Sure(m, run, rows)
  BY <1>1, Ready DEF Processing
<1> PICK D : D = Registered
  OBVIOUS
<1>3. \A o \in Obs : rows[m.gen][o] > 0 => <<m.gen, DeviceOf[o]>> \in D
  BY <1>2 DEF Registered
<1>4. D \subseteq Place
  BY DEF Registered, Place
<1> PICK n : n = [m EXCEPT !.phase = "readback", !.devices = D]
  OBVIOUS
<1>5. /\ n \in Memory /\ n.phase = "readback" /\ n.rec = m.rec /\ n.gen = m.gen
      /\ n.seq = m.seq /\ n.batch = m.batch /\ n.after = m.after /\ n.next = m.next
  <2>1. D \in SUBSET Place
    BY <1>4
  <2>2. m \in Memory
    BY <1>2
  <2> QED BY ONLY <2>1, <2>2, LookedUp, n = [m EXCEPT !.phase = "readback", !.devices = D]
<1>6. n.devices = D /\ n.sent = m.sent /\ n.recover = m.recover
  <2>1. m \in Memory
    BY <1>2
  <2> QED BY ONLY <2>1, n = [m EXCEPT !.phase = "readback", !.devices = D] DEF Memory
<1>7. Doubtful(n) = Doubtful(m)
  <2>1. Unresolved(n) = Unresolved(m)
    BY ONLY <1>5, SameWork
  <2> QED BY <1>1, <1>5, <1>6, <2>1 DEF Doubtful
<1>8. Located(n, rows)
  <2> SUFFICES ASSUME NEW o \in Obs PROVE Placeable(n, rows, o)
    BY DEF Located
  <2>1. rows[n.gen][o] > 0 => <<n.gen, DeviceOf[o]>> \in n.devices
    BY <1>3, <1>5, <1>6
  <2> QED BY ONLY <2>1 DEF Placeable
<1>9. Retains(m, n)
  BY <1>1, <1>5, <1>6 DEF Retains, Learns, Seen, Processing
<1>10. Sure(n, run, rows)
  BY <1>2, <1>5, <1>7, <1>8, <1>9, CarriesOn
<1>11. Moves(w, n) /\ UNCHANGED <<run, rows, requests>> /\ worker[w].phase # "ingesting"
  BY <1>1 DEF LoadDevices, Moves, outside
<1> QED BY <1>5, <1>10, <1>11, StaysSure

(* What a look at the platform finds is known from then on.                 *)
LEMMA ReadBackLearns ==
  ASSUME NEW m \in Memory, NEW S \in SUBSET Obs
  PROVE  /\ Learns(m, ReadBack(m, S)) /\ ReadBack(m, S).rec \in Records
         /\ \A o \in S : "reading" \in ReadBack(m, S).rec[o]
         /\ \A o \in Obs : "posted" \in ReadBack(m, S).rec[o] => "posted" \in m.rec[o]
<1> PICK k : k = ReadBack(m, S)
  OBVIOUS
<1>1. k \in Memory /\ k.gen = m.gen /\ k.rec = Mark(m.rec, S, "reading")
  BY ReadBackIs
<1>2. \A o \in Obs : k.rec[o] = IF o \in S THEN m.rec[o] \cup {"reading"} ELSE m.rec[o]
  <2>1. m.rec \in Records /\ "reading" \in Flag
    BY MemoryIs DEF Flag
  <2>2. \A o \in Obs : Mark(m.rec, S, "reading")[o] =
          IF o \in S THEN m.rec[o] \cup {"reading"} ELSE m.rec[o]
    BY DEF Mark
  <2> QED BY <1>1, <2>2
<1>3. k.rec \in Records
  BY <1>1, MemoryIs
<1>4. Learns(m, k)
  BY <1>1, <1>2 DEF Learns, Seen
<1>5. \A o \in Obs : "posted" \in k.rec[o] => "posted" \in m.rec[o]
  <2> SUFFICES ASSUME NEW o \in Obs, "posted" \in k.rec[o] PROVE "posted" \in m.rec[o]
    OBVIOUS
  <2>1. CASE o \in S
    <3>1. k.rec[o] = m.rec[o] \cup {"reading"}
      BY <1>2, <2>1
    <3> QED BY <3>1
  <2>2. CASE o \notin S
    BY <1>2, <2>2
  <2> QED BY <2>1, <2>2
<1>6. \A o \in S : "reading" \in k.rec[o]
  BY <1>2
<1> QED BY <1>3, <1>4, <1>5, <1>6

LEMMA ReadBackBeforeOnce ==
  ASSUME Lone, Inv, Once, NEW w \in Worker, ReadBackBeforeSending(w)
  PROVE  Once'
<1> PICK m : m = worker[w]
  OBVIOUS
<1>1. m.phase = "readback" /\ m.phase \in Processing /\ ~m.sent
  BY DEF ReadBackBeforeSending, Asks, Processing
<1>2. m \in Memory /\ m.gen \in Gen /\ m.gen # None /\ Sure(m, run, rows)
  BY <1>1, Ready DEF Processing
<1> PICK S : S = Found(m)
  OBVIOUS
<1>3. S \subseteq Obs
  BY <1>2, WorkIs DEF Found, Sought, Uncertain
<1> PICK k : k = ReadBack(m, S)
  OBVIOUS
<1>4. /\ k \in Memory /\ k.phase = m.phase /\ k.gen = m.gen /\ k.seq = m.seq
      /\ k.batch = m.batch /\ k.after = m.after /\ k.next = m.next
  BY <1>2, ReadBackIs
<1>5. Learns(m, k) /\ \A o \in S : "reading" \in k.rec[o]
  BY <1>2, <1>3, ReadBackLearns
<1>6. Alongside(m, k)
  BY <1>2, ReadBackBeside
<1> PICK n : n = Resolved(k)
  OBVIOUS
<1>7. /\ n \in Memory /\ n.phase \in {"post", "ingest"}
      /\ n.gen = k.gen /\ n.rec = k.rec /\ n.seq = k.seq
      /\ n.batch = k.batch /\ n.after = k.after /\ n.next = k.next
  BY <1>4, ResolvedIs
<1>8. Alongside(k, n)
  BY <1>4, ResolvedBeside
<1>9. Retains(m, n)
  BY <1>1, <1>4, <1>5, <1>6, <1>7, <1>8 DEF Retains, Learns, Seen, Alongside, Processing
<1>10. Located(m, rows)
  BY <1>2 DEF Sure
<1>11. Located(n, rows)
  BY <1>1, <1>6, <1>8, <1>9, <1>10, PlacedOn DEF Retains, Alongside
<1>12. ASSUME NEW o \in Obs, o \in Doubtful(m)
       PROVE  Held(n, rows, o)
  <2>1. o \in Unresolved(m) /\ m.recover
    BY <1>1, <1>12 DEF Doubtful
  <2>2. o \in Sought(m)
    BY <1>1, <2>1 DEF Sought, Uncertain
  <2>3. Placeable(m, rows, o)
    BY <1>1, <1>10 DEF Located
  <2>4. rows[m.gen][o] > 0 /\ ~Seen(m, o) => o \in S
    BY <2>2, <2>3 DEF Placeable, Found
  <2>5. rows[m.gen][o] > 0 => Seen(n, o)
    BY <1>5, <1>7, <1>9, <2>4 DEF Seen, Retains, Learns
  <2> QED BY <1>4, <1>7, <2>5 DEF Held
<1>13. ~n.sent
  BY <1>1, <1>6, <1>8 DEF Alongside
<1>14. Sure(n, run, rows)
  BY <1>2, <1>7, <1>9, <1>11, <1>12, <1>13, CarriesOn
<1>15. Moves(w, n) /\ UNCHANGED <<run, rows, requests>> /\ worker[w].phase # "ingesting"
  BY <1>1 DEF ReadBackBeforeSending, Moves, outside
<1> QED BY <1>7, <1>14, <1>15, StaysSure

LEMMA ReadBackAfterOnce ==
  ASSUME Lone, Inv, Once, NEW w \in Worker, ReadBackAfterSending(w)
  PROVE  Once'
<1> PICK m : m = worker[w]
  OBVIOUS
<1>1. m.phase = "readback" /\ m.phase \in Processing /\ m.sent
  BY DEF ReadBackAfterSending, Asks, Processing
<1>2. m \in Memory /\ m.gen \in Gen /\ m.gen # None /\ Sure(m, run, rows)
  BY <1>1, Ready DEF Processing
<1> PICK S : S = Found(m)
  OBVIOUS
<1>3. S \subseteq Obs
  BY <1>2, WorkIs DEF Found, Sought, Uncertain
<1> PICK k : k = ReadBack(m, S)
  OBVIOUS
<1>4. /\ k \in Memory /\ k.phase = m.phase /\ k.gen = m.gen /\ k.seq = m.seq
      /\ k.batch = m.batch /\ k.after = m.after /\ k.next = m.next
  BY <1>2, ReadBackIs
<1>5. Learns(m, k)
  BY <1>2, <1>3, ReadBackLearns
<1>6. Alongside(m, k)
  BY <1>2, ReadBackBeside
<1>7. UNCHANGED <<run, rows, requests>> /\ worker[w].phase # "ingesting"
  BY <1>1 DEF ReadBackAfterSending, outside
<1>8. CASE Unresolved(k) # {}
  <2>1. Moves(w, Error(k))
    BY <1>8 DEF ReadBackAfterSending, Moves
  <2>2. Sure(Error(k), run, rows)
    BY <1>1, <1>2, <1>4, <1>5, <1>6, ErrorSure DEF Alongside
  <2>3. Error(k) \in Memory
    BY <1>4, ErrorIs
  <2> QED BY <1>7, <2>1, <2>2, <2>3, StaysSure
<1>9. CASE Unresolved(k) = {}
  <2> PICK n : n = Resolved(k)
    OBVIOUS
  <2>1. /\ n \in Memory /\ n.phase \in {"post", "ingest"}
        /\ n.gen = k.gen /\ n.rec = k.rec /\ n.seq = k.seq
        /\ n.batch = k.batch /\ n.after = k.after /\ n.next = k.next
    BY <1>4, ResolvedIs
  <2>2. Alongside(k, n)
    BY <1>4, ResolvedBeside
  <2>3. n.phase = "post"
    BY <1>4, <1>9 DEF Resolved, Memory
  <2>4. Retains(m, n)
    BY <1>1, <1>4, <1>5, <1>6, <2>1, <2>2 DEF Retains, Learns, Seen, Alongside, Processing
  <2>5. Located(n, rows)
    BY <1>1, <1>2, <1>6, <2>2, <2>4, PlacedOn DEF Retains, Alongside, Sure
  <2>6. ASSUME NEW o \in Obs, o \in Doubtful(m)
        PROVE  Held(n, rows, o)
    <3>1. o \in m.batch \ Unmapped /\ "posted" \notin m.rec[o]
      BY <1>1, <2>6 DEF Doubtful, Unresolved, Entries
    <3>2. "posted" \in k.rec[o] => "posted" \in m.rec[o]
      <4>1. o \in Obs
        BY <1>2, <3>1, MemoryIs
      <4> QED BY <1>2, <1>3, <4>1, ReadBackLearns
    <3>3. "reading" \in k.rec[o]
      BY <1>4, <1>9, <3>1, <3>2 DEF Unresolved, Entries
    <3> QED BY <2>1, <3>3 DEF Held, Seen
  <2>7. Sure(n, run, rows)
    BY <1>2, <2>3, <2>4, <2>5, <2>6, CarriesOn
  <2>8. Moves(w, n)
    BY <1>9 DEF ReadBackAfterSending, Moves
  <2> QED BY <1>7, <2>1, <2>7, <2>8, StaysSure
<1> QED BY <1>8, <1>9

(* What it is to send is not stored: it would know.                         *)
LEMMA NotStored ==
  ASSUME NEW m \in Memory, m.phase = "ingest", m.gen \in Gen, m.gen # None,
         NEW r, Sure(m, r, rows), TypeOK, ~AwaitsIds(m)
  PROVE  \A o \in Unresolved(m) : rows[m.gen][o] = 0
<1> SUFFICES ASSUME NEW o \in Unresolved(m) PROVE rows[m.gen][o] = 0
  OBVIOUS
<1>1. o \in Obs /\ o \in m.batch
  BY WorkIs
<1>2. Settled(m, rows) /\ Paced(m, r)
  BY DEF Sure
<1>3. m.phase \in Processing /\ ~m.sent
  BY <1>2 DEF Paced, Processing
<1>4. Doubtful(m) = {}
  BY <1>3 DEF Doubtful
<1>5. o <= m.after \/ ~m.recover
  BY <1>1, <1>2, <1>3 DEF Paced
<1>6. Held(m, rows, o)
  BY <1>1, <1>2, <1>3, <1>4, <1>5 DEF Settled
<1>7. "accepted" \notin m.rec[o] /\ "reading" \notin m.rec[o]
  BY DEF AwaitsIds, Unresolved
<1>8. ~(rows[m.gen][o] > 0)
  BY <1>6, <1>7 DEF Held, Seen
<1>9. rows[m.gen][o] \in 0..2
  BY <1>1 DEF TypeOK
<1> QED BY <1>8, <1>9

LEMMA PrepareIngestOnce ==
  ASSUME Lone, Inv, Once, NEW w \in Worker, PrepareIngest(w)
  PROVE  Once'
<1> PICK m : m = worker[w]
  OBVIOUS
<1>1. m.phase = "ingest" /\ m.phase \in Processing
  BY DEF PrepareIngest, Processing
<1>2. m \in Memory /\ m.gen \in Gen /\ m.gen # None /\ Sure(m, run, rows)
  BY <1>1, Ready DEF Processing
<1>3. UNCHANGED <<run, rows, requests, used>> /\ worker[w].phase # "ingesting"
  BY <1>1 DEF PrepareIngest, outside
<1>4. CASE AwaitsIds(m)
  <2>1. Moves(w, Error(worker[w]))
    BY <1>4 DEF PrepareIngest, Moves
  <2>2. worker[w].phase # "devices"
    BY <1>1
  <2> QED BY <1>3, <2>1, <2>2, FailsOnce
<1>5. CASE ~AwaitsIds(m)
  <2> PICK S : S = Unresolved(m)
    OBVIOUS
  <2> PICK rec : rec = Mark(m.rec, S, "pending")
    OBVIOUS
  <2>1. rec \in Records
    <3>1. m.rec \in Records /\ "pending" \in Flag
      BY <1>2, MemoryIs DEF Flag
    <3> QED BY <3>1, MarkIs
  <2>2. \A o \in Obs : rec[o] = IF o \in S THEN m.rec[o] \cup {"pending"} ELSE m.rec[o]
    BY DEF Mark
  <2> PICK n : n = [m EXCEPT !.rec = rec, !.phase = "send"]
    OBVIOUS
  <2>3. /\ n \in Memory /\ n.phase = "send" /\ n.rec = rec /\ n.gen = m.gen
        /\ n.seq = m.seq /\ n.batch = m.batch /\ n.after = m.after /\ n.next = m.next
        /\ n.recover = m.recover /\ n.sent = m.sent /\ n.devices = m.devices
    <3>1. m \in Memory /\ n = [m EXCEPT !.rec = rec, !.phase = "send"]
      BY <1>2
    <3> QED BY ONLY <2>1, <3>1 DEF Memory, Phase, Processing
  <2>4. Learns(m, n)
    <3>1. \A o \in Obs : m.rec[o] \subseteq n.rec[o]
      <4>1. n.rec = rec
        BY <2>3
      <4> QED BY ONLY <2>2, <4>1
    <3> QED BY <2>3, <3>1 DEF Learns, Seen
  <2>5. \A o \in Obs : ("posted" \in rec[o] <=> "posted" \in m.rec[o])
                    /\ ("reading" \in rec[o] <=> "reading" \in m.rec[o])
    <3> SUFFICES ASSUME NEW o \in Obs
                 PROVE  ("posted" \in rec[o] <=> "posted" \in m.rec[o])
                        /\ ("reading" \in rec[o] <=> "reading" \in m.rec[o])
      OBVIOUS
    <3>1. CASE o \in S
      <4>1. rec[o] = m.rec[o] \cup {"pending"}
        BY <2>2, <3>1
      <4> QED BY <4>1
    <3>2. CASE o \notin S
      BY <2>2, <3>2
    <3> QED BY <3>1, <3>2
  <2>6. Unresolved(n) \subseteq Unresolved(m)
    <3> SUFFICES ASSUME NEW o \in Unresolved(n) PROVE o \in Unresolved(m)
      OBVIOUS
    <3>1. o \in Obs /\ o \in n.batch \ Unmapped
      BY <2>3, WorkIs
    <3> QED BY <2>3, <2>5, <3>1 DEF Unresolved, Entries
  <2>7. \A o \in Unresolved(n) : rows[n.gen][o] = 0
    BY <1>1, <1>2, <1>5, <2>3, <2>6, NotStored DEF Inv
  <2>8. Doubtful(m) = {} /\ ~n.sent
    BY <1>1, <1>2, <2>3 DEF Doubtful, Sure, Paced
  <2>9. Retains(m, n)
    BY <1>1, <2>3, <2>4 DEF Retains, Processing
  <2>10. Located(n, rows)
    <3>1. Located(m, rows)
      BY <1>2 DEF Sure
    <3>2. m.devices \subseteq n.devices
      BY <2>3
    <3>3. m.phase \in {"readback", "ingest", "send"}
      BY <1>1
    <3> QED BY ONLY <2>4, <3>1, <3>2, <3>3, PlacedOn
  <2>11. Sure(n, run, rows)
    BY <1>2, <2>3, <2>7, <2>8, <2>9, <2>10, CarriesOn
  <2>12. Moves(w, n)
    BY <1>5 DEF PrepareIngest, Moves, Doubted
  <2> QED BY <1>3, <2>3, <2>11, <2>12, StaysSure
<1> QED BY <1>4, <1>5

LEMMA SendIngestOnce ==
  ASSUME Lone, Inv, Once, NEW w \in Worker, SendIngest(w)
  PROVE  Once'
<1> PICK m : m = worker[w]
  OBVIOUS
<1>1. m.phase = "send" /\ m.phase \in Processing
  BY DEF SendIngest, Asks, Processing
<1>2. m \in Memory /\ m.gen \in Gen /\ m.gen # None /\ Sure(m, run, rows)
  BY <1>1, Ready DEF Processing
<1> PICK S : S = Unresolved(m)
  OBVIOUS
<1> PICK s : s = [from |-> w, gen |-> m.gen, items |-> S]
  OBVIOUS
<1> PICK n : n = [m EXCEPT !.phase = "ingesting", !.sent = TRUE]
  OBVIOUS
<1>3. /\ n \in Memory /\ n.phase = "ingesting" /\ n.rec = m.rec /\ n.gen = m.gen
      /\ n.seq = m.seq /\ n.batch = m.batch /\ n.after = m.after /\ n.next = m.next
      /\ n.recover = m.recover /\ n.sent = TRUE /\ n.devices = m.devices
  <2>1. m \in Memory /\ n = [m EXCEPT !.phase = "ingesting", !.sent = TRUE]
    BY <1>2
  <2> QED BY ONLY <2>1 DEF Memory, Phase, Processing
<1>4. Learns(m, n)
  BY <1>3 DEF Learns, Seen
<1>5. Retains(m, n)
  BY <1>1, <1>3, <1>4 DEF Retains, Processing
<1>6. Located(n, rows)
  <2>1. Located(m, rows)
    BY <1>2 DEF Sure
  <2>2. m.devices \subseteq n.devices
    BY <1>3
  <2>3. m.phase \in {"readback", "ingest", "send"}
    BY <1>1
  <2> QED BY ONLY <1>4, <2>1, <2>2, <2>3, PlacedOn
<1>7. Unresolved(n) = S
  <2>1. n.rec = m.rec /\ n.batch = m.batch
    BY <1>3
  <2>2. Unresolved(n) = Unresolved(m)
    BY ONLY <2>1, SameWork
  <2> QED BY <2>2
<1>8. \A o \in Obs : o \in Doubtful(m) => o \in Doubtful(n)
  BY <1>3, <1>7 DEF Doubtful
<1>9. Sure(n, run, rows)
  BY <1>2, <1>3, <1>5, <1>6, <1>8, CarriesOn
<1>10. Moves(w, n) /\ requests' = requests \cup {s} /\ UNCHANGED <<run, rows, used>>
  BY DEF SendIngest, Moves
<1>11. Twin(n, worker'[w])
  BY <1>3, <1>10, MovesTwin DEF Inv
<1>12. Unresolved(worker'[w]) = S
  BY <1>7, <1>11, SameWork DEF Twin, Alike
<1>13. requests' = {s} /\ s.from = w /\ s.gen = m.gen /\ s.items = S
  BY <1>1, <1>10, NoRequests
<1>14. \A o \in S : rows[m.gen][o] = 0
  BY <1>1, <1>2 DEF Sure, Settled
<1>15. RequestsNew'
  BY <1>10, <1>12, <1>13, <1>14, Ranges DEF RequestsNew
<1>16. \A v \in Worker : Sure(worker'[v], run, rows)
  BY <1>9, <1>11, TwinSure DEF Lone
<1> QED BY <1>10, <1>15, <1>16 DEF Once, StoredRightly, StoredOnce

(* A single thread waits for a single request.                              *)
LEMMA OneRequest ==
  ASSUME Lone, Inv, Once, NEW w \in Worker
  PROVE  /\ \A r \in requests : r.from = w /\ r.gen = worker[w].gen
                             /\ worker[w].phase = "ingesting" /\ r \in Request
         /\ \A r, q \in requests : r = q
<1>1. ASSUME NEW r \in requests
      PROVE  /\ r.from = w /\ r.gen = worker[w].gen
             /\ worker[w].phase = "ingesting" /\ r \in Request
  <2>1. r.from # None /\ r.from \in Worker /\ r \in Request
    BY DEF Once, RequestsNew, Inv, TypeOK, Request
  <2>2. r.from = w
    BY <2>1 DEF Lone
  <2> QED BY <2>1, <2>2 DEF Inv, RequestsRight, Carries
<1>2. \A r, q \in requests : r = q
  BY <1>1, Ranges DEF Inv, RequestsRight
<1> QED BY <1>1, <1>2

(* The thread goes on, and what it had asked for is no longer on its way.   *)
LEMMA StaysSureAfter ==
  ASSUME Lone, Inv, Once, NEW w \in Worker, UNCHANGED <<run, rows>>, requests' = {},
         NEW n \in Memory, Moves(w, n), Sure(n, run, rows)
  PROVE  Once'
<1>1. Twin(n, worker'[w])
  BY MovesTwin DEF Inv
<1>2. \A v \in Worker : Sure(worker'[v], run, rows)
  BY <1>1, TwinSure DEF Lone
<1>3. StoredRightly' /\ StoredOnce' /\ RequestsNew'
  BY DEF Once, StoredRightly, StoredOnce, RequestsNew
<1> QED BY <1>2, <1>3 DEF Once

LEMMA AcknowledgedLearns ==
  ASSUME NEW m \in Memory, NEW returned \in BOOLEAN, NEW S, S = Unresolved(m)
  PROVE  LET n == Acknowledged(m, returned)
         IN  /\ Learns(m, n) /\ n.recover = m.recover /\ m.devices \subseteq n.devices
             /\ \A o \in S : Seen(n, o)
<1>1. m.rec \in Records /\ S \subseteq Obs /\ m.devices \subseteq Place
  BY MemoryIs, WorkIs
<1> PICK acc : acc = Mark(m.rec, S, "accepted")
  OBVIOUS
<1>2. acc \in Records
  BY <1>1, MarkIs DEF Flag
<1>3. \A o \in Obs : acc[o] = IF o \in S THEN m.rec[o] \cup {"accepted"} ELSE m.rec[o]
  BY DEF Mark
<1>4. CASE ~returned
  <2> PICK n : n = [m EXCEPT !.rec = acc, !.phase = "devices"]
    OBVIOUS
  <2>1. Acknowledged(m, returned) = n
    BY <1>4 DEF Acknowledged, Accepted
  <2>2. n.rec = acc /\ n.gen = m.gen /\ n.recover = m.recover /\ n.devices = m.devices
    BY DEF Memory
  <2>3. \A o \in S : Seen(n, o)
    BY <1>1, <1>3, <2>2 DEF Seen
  <2>4. Learns(m, n)
    BY <1>3, <2>2 DEF Learns, Seen
  <2> QED BY <2>1, <2>2, <2>3, <2>4
<1>5. CASE returned
  <2> PICK rec : rec = Mark(acc, S, "reading")
    OBVIOUS
  <2>1. \A o \in Obs : rec[o] = IF o \in S THEN acc[o] \cup {"reading"} ELSE acc[o]
    BY DEF Mark
  <2> PICK dev : dev = m.devices \cup {<<m.gen, DeviceOf[o]>> : o \in S}
    OBVIOUS
  <2> PICK n : n = [m EXCEPT !.rec = rec, !.phase = "post", !.devices = dev]
    OBVIOUS
  <2>2. Acknowledged(m, returned) = n
    BY <1>5 DEF Acknowledged, Accepted
  <2>3. n.rec = rec /\ n.gen = m.gen /\ n.recover = m.recover /\ n.devices = dev
    BY DEF Memory
  <2>4. \A o \in S : Seen(n, o)
    <3>1. \A o \in S : "reading" \in n.rec[o]
      <4>1. n.rec = rec /\ \A o \in S : o \in Obs
        BY <1>1, <2>3
      <4> QED BY ONLY <2>1, <4>1
    <3> QED BY <3>1 DEF Seen
  <2>5. \A o \in Obs : Seen(m, o) => Seen(n, o)
    <3> SUFFICES ASSUME NEW o \in Obs, Seen(m, o) PROVE Seen(n, o)
      OBVIOUS
    <3>1. CASE o \in S
      BY <2>4, <3>1
    <3>2. CASE o \notin S
      BY <1>3, <2>1, <2>3, <3>2 DEF Seen
    <3> QED BY <3>1, <3>2
  <2> QED BY <2>2, <2>3, <2>4, <2>5 DEF Learns
<1> QED BY <1>4, <1>5

LEMMA IngestAnsweredOnce ==
  ASSUME Lone, Inv, Once, NEW w \in Worker, IngestAnswered(w)
  PROVE  Once'
<1> PICK m : m = worker[w]
  OBVIOUS
<1>1. m.phase = "ingesting" /\ m.phase \in Processing /\ UNCHANGED <<run, rows, used>>
  BY DEF IngestAnswered, Answered, Processing
<1>2. /\ m \in Memory /\ m.gen \in Gen /\ m.gen # None /\ Sure(m, run, rows)
      /\ PostedStored(m.rec) /\ StoredRight(m.rec, rows[m.gen])
  BY <1>1, Ready, InProcess DEF Processing
<1>3. PICK r \in requests : r.from = w /\ r.items = {} /\ requests' = requests \ {r}
  BY DEF IngestAnswered, Answered
<1>4. requests' = {}
  BY <1>3, OneRequest
<1>5. PICK returned : returned \in BOOLEAN /\ Becomes(w, Acknowledged(worker[w], returned))
  BY AnswerIs
<1>6. returned \in BOOLEAN
  BY <1>5
<1> PICK S : S = Unresolved(m)
  OBVIOUS
<1> PICK n : n = Acknowledged(m, returned)
  OBVIOUS
<1>7. \A o \in Unresolved(m) : rows[m.gen][o] > 0
  BY <1>3, Ranges DEF Inv, RequestsRight, Carries
<1>8. n \in Memory /\ Onward(m, n) /\ n.phase \in {"post", "devices"}
  BY <1>1, <1>2, <1>6, <1>7, AcknowledgedIs
<1>9. /\ Learns(m, n) /\ n.recover = m.recover /\ m.devices \subseteq n.devices
      /\ \A o \in S : Seen(n, o)
  BY <1>2, <1>6, AcknowledgedLearns
<1>10. Retains(m, n)
  BY <1>8, <1>9 DEF Retains, Onward
<1>11. \A o \in Obs : o \in Doubtful(m) => Held(n, rows, o)
  BY <1>9 DEF Doubtful, Held
<1>12. Located(n, rows)
  <2> SUFFICES ASSUME NEW o \in Obs PROVE Placeable(n, rows, o)
    BY DEF Located
  <2>1. CASE o \in S
    BY <1>9, <2>1 DEF Placeable
  <2>2. CASE o \notin S
    <3>1. Placeable(m, rows, o)
      BY <1>1, <1>2, <2>2 DEF Sure, Located
    <3> QED BY <1>9, <3>1, LearnsHeld
  <2> QED BY <2>1, <2>2
<1>13. Sure(n, run, rows)
  BY <1>1, <1>2, <1>8, <1>10, <1>11, <1>12, CarriesOn
<1>14. Moves(w, n)
  BY <1>5 DEF Moves
<1> QED BY <1>1, <1>4, <1>8, <1>13, <1>14, StaysSureAfter

(* The acknowledgement that came with malformed readings is remembered.     *)
LEMMA IngestMalformedOnce ==
  ASSUME Lone, Inv, Once, NEW w \in Worker, IngestMalformed(w)
  PROVE  Once'
<1> PICK m : m = worker[w]
  OBVIOUS
<1> PICK k : k = Acknowledged(m, FALSE)
  OBVIOUS
<1> PICK S : S = Unresolved(m)
  OBVIOUS
<1>1. /\ m.phase = "ingesting" /\ m.phase \in Processing /\ UNCHANGED <<run, rows, used>>
      /\ Moves(w, Error(k))
  BY MalformedMoves DEF Inv, Processing
<1>2. /\ m \in Memory /\ m.gen \in Gen /\ m.gen # None /\ Sure(m, run, rows)
      /\ PostedStored(m.rec) /\ StoredRight(m.rec, rows[m.gen])
  BY <1>1, Ready, InProcess DEF Processing
<1>3. PICK r \in requests : r.from = w /\ r.items = {} /\ requests' = requests \ {r}
  BY MalformedMoves DEF Inv
<1>4. requests' = {}
  BY <1>3, OneRequest
<1>5. \A o \in Unresolved(m) : rows[m.gen][o] > 0
  BY <1>3, Ranges DEF Inv, RequestsRight, Carries
<1>6. k \in Memory
  BY <1>1, <1>2, <1>5, AcknowledgedIs
<1>7. Learns(m, k) /\ m.devices \subseteq k.devices /\ \A o \in S : Seen(k, o)
  BY <1>2, AcknowledgedLearns
<1>8. \A o \in Obs : Placeable(k, rows, o)
  <2> SUFFICES ASSUME NEW o \in Obs PROVE Placeable(k, rows, o)
    OBVIOUS
  <2>1. CASE o \in S
    BY <1>7, <2>1 DEF Placeable
  <2>2. CASE o \notin S
    <3>1. Placeable(m, rows, o)
      BY <1>1, <1>2, <2>2 DEF Sure, Located
    <3> QED BY <1>7, <3>1, LearnsHeld
  <2> QED BY <2>1, <2>2
<1> PICK e : e = Error(k)
  OBVIOUS
<1>9. /\ e \in Memory /\ e.phase = "connect" /\ e.devices = k.devices
      /\ e.gen = k.gen /\ e.rec = k.rec
  BY <1>6, ErrorIs, ErrorBeside
<1>10. Learns(k, e)
  BY <1>9 DEF Learns, Seen
<1>11. Sure(e, run, rows)
  BY <1>6, <1>8, <1>9, <1>10, FailedSure
<1> QED BY <1>1, <1>4, <1>9, <1>11, StaysSureAfter

(* With no ingestion left behind late, none is on its way any more.         *)
LEMMA GivesUpClear ==
  ASSUME Lone, Inv, Once, Clear', NEW w \in Worker, NEW c \in {0, 1}, GivesUp(w, c)
  PROVE  /\ worker[w].phase = "ingesting" /\ UNCHANGED <<run, rows>>
         /\ c = 0 /\ requests' = {}
<1>1. /\ worker[w].phase = "ingesting" /\ UNCHANGED <<run, rows>>
      /\ used'.blind = used.blind + c
      /\ \/ used'.late = used.late /\ requests' = requests \ Mine(w)
         \/ used'.late = used.late + 1
  BY GivesUpIs DEF Inv
<1>2. used.late \in Nat /\ used.blind \in Nat
  BY DEF Inv, TypeOK, Counter
<1>3. c = 0 /\ used'.late # used.late + 1
  <2>1. used'.late = 0 /\ used'.blind = 0
    BY DEF Clear
  <2>2. c = 0 \/ c = 1
    OBVIOUS
  <2>3. used'.late # used.late + 1
    BY ONLY <1>2, <2>1
  <2>4. c # 1
    <3>1. used'.blind = used.blind + c
      BY <1>1
    <3> QED BY ONLY <1>2, <2>1, <3>1
  <2> QED BY <2>2, <2>3, <2>4
<1>4. requests' = requests \ Mine(w)
  BY <1>1, <1>3
<1>5. requests' = {}
  BY <1>4, OneRequest DEF Mine
<1> QED BY <1>1, <1>3, <1>5

LEMMA IngestCutOnce ==
  ASSUME Lone, Inv, Once, Clear', NEW w \in Worker, IngestCut(w)
  PROVE  Once'
<1> PICK m : m = worker[w]
  OBVIOUS
<1>1. PICK c \in {0, 1} : GivesUp(w, c) /\ (c = 0 => ~Blind(m))
  BY IngestCutIs
<1>2. /\ m.phase = "ingesting" /\ UNCHANGED <<run, rows>>
      /\ c = 0 /\ requests' = {}
  BY <1>1, GivesUpClear
<1>3. m \in Memory /\ m.gen # None /\ Sure(m, run, rows)
  BY <1>2, Ready
<1>4. ~Blind(m)
  BY <1>1, <1>2
<1>5. \A o \in Obs : Placeable(m, rows, o) \/ m.devices = {}
  BY <1>3, <1>4, Mapped DEF Sure
<1> PICK e : e = Error(m)
  OBVIOUS
<1>6. /\ e \in Memory /\ e.phase = "connect" /\ e.devices = m.devices
      /\ e.gen = m.gen /\ e.rec = m.rec
  BY <1>3, ErrorIs, ErrorBeside
<1>7. Learns(m, e)
  BY <1>6 DEF Learns, Seen
<1>8. Sure(e, run, rows)
  BY <1>3, <1>5, <1>6, <1>7, FailedSure
<1>9. Moves(w, e)
  BY IngestCutIs
<1> QED BY <1>2, <1>6, <1>8, <1>9, StaysSureAfter

LEMMA IngestLostOnce ==
  ASSUME Lone, Inv, Once, Clear', NEW w \in Worker, IngestLost(w)
  PROVE  Once'
<1> PICK m : m = worker[w]
  OBVIOUS
<1>1. m.phase = "ingesting" /\ m.phase \in Processing /\ UNCHANGED <<run, rows>>
  BY DEF IngestLost, GivesUp, Processing
<1>2. m \in Memory /\ m.gen \in Gen /\ m.gen # None /\ Sure(m, run, rows)
  BY <1>1, Ready DEF Processing
<1>5. requests' = {}
  BY GivesUpClear DEF IngestLost
<1> PICK n : n = [m EXCEPT !.phase = "devices"]
  OBVIOUS
<1>8. /\ n \in Memory /\ n.phase = "devices" /\ n.rec = m.rec /\ n.gen = m.gen
      /\ n.seq = m.seq /\ n.batch = m.batch /\ n.after = m.after /\ n.next = m.next
      /\ Alongside(m, n)
  <2>1. m \in Memory /\ n = [m EXCEPT !.phase = "devices"]
    BY <1>2
  <2>2. "devices" \in Processing
    BY DEF Processing
  <2> QED BY ONLY <2>1, <2>2, Onto
<1>9. Alongside(m, n)
  BY <1>8
<1>10. Retains(m, n)
  BY <1>1, <1>8, <1>9 DEF Retains, Learns, Seen, Alongside, Processing
<1>11. Unresolved(n) = Unresolved(m)
  <2>1. n.rec = m.rec /\ n.batch = m.batch
    BY <1>8
  <2> QED BY ONLY <2>1, SameWork
<1>12. m.sent
  BY <1>1, <1>2 DEF Sure, Paced
<1>13. \A o \in Obs : o \in Doubtful(m) => o \in Doubtful(n)
  BY <1>9, <1>11, <1>12 DEF Doubtful, Alongside
<1>14. Located(n, rows)
  <2> SUFFICES ASSUME NEW o \in Obs, o \notin Unresolved(n) PROVE Placeable(n, rows, o)
    BY <1>8 DEF Located
  <2>1. Placeable(m, rows, o)
    BY <1>1, <1>2, <1>11 DEF Sure, Located
  <2> QED BY <1>8, <2>1 DEF Placeable, Seen, Alongside
<1>15. Sure(n, run, rows)
  BY <1>2, <1>8, <1>10, <1>13, <1>14, CarriesOn
<1>16. Moves(w, n)
  BY DEF IngestLost, Moves
<1> QED BY <1>1, <1>5, <1>8, <1>15, <1>16, StaysSureAfter

-----------------------------------------------------------------------------
(* Its list of devices, if it has one, goes on to say where to look.        *)
LEMMA LocatedOn ==
  ASSUME NEW m, NEW n, Learns(m, n), n.devices = m.devices, NEW rw,
         Located(m, rw), m.phase \notin {"devices", "ingesting"},
         n.phase \notin {"readback", "ingest", "send", "ingesting"}
  PROVE  Located(n, rw)
<1>1. \A o \in Obs : Placeable(m, rw, o) \/ m.devices = {}
  BY Mapped
<1> QED BY <1>1, LearnsHeld DEF Located

(* A batch whose readings are known waits for nothing.                      *)
LEMMA NothingDoubtful ==
  ASSUME NEW m, NEW r, NEW rw, ThreadRight(m, r, rw), m.phase \in {"post", "tick"}
  PROVE  Unresolved(m) = {} /\ Doubtful(m) = {}
BY DEF ThreadRight, Recorded, Doubtful

LEMMA EventsDoneOnce ==
  ASSUME Lone, Inv, Once, NEW w \in Worker, EventsDone(w)
  PROVE  Once'
<1> PICK m : m = worker[w]
  OBVIOUS
<1>1. m.phase = "post" /\ m.phase \in Processing
  BY DEF EventsDone, Processing
<1>2. /\ m \in Memory /\ m.gen \in Gen /\ m.gen # None /\ Sure(m, run, rows)
      /\ ThreadRight(m, run, rows)
  BY <1>1, Ready DEF Processing
<1> PICK n : n = [m EXCEPT !.phase = "tick"]
  OBVIOUS
<1>3. /\ n \in Memory /\ n.phase = "tick" /\ n.rec = m.rec /\ n.gen = m.gen
      /\ n.seq = m.seq /\ n.batch = m.batch /\ n.after = m.after /\ n.next = m.next
      /\ Alongside(m, n)
  <2>1. m \in Memory /\ n = [m EXCEPT !.phase = "tick"]
    BY <1>2
  <2>2. "tick" \in Processing
    BY DEF Processing
  <2> QED BY ONLY <2>1, <2>2, Onto
<1>4. Alongside(m, n)
  BY <1>3
<1>5. Retains(m, n)
  BY <1>1, <1>3, <1>4 DEF Retains, Learns, Seen, Alongside, Processing
<1>6. \A o \in Obs : o \notin Doubtful(m)
  BY <1>1, <1>2, NothingDoubtful
<1>7. Located(n, rows)
  <2>1. Located(m, rows)
    BY <1>2 DEF Sure
  <2>2. n.devices = m.devices /\ m.phase = "post" /\ n.phase = "tick"
    BY <1>1, <1>3, <1>4 DEF Alongside
  <2>3. Learns(m, n)
    BY <1>5 DEF Retains
  <2> QED BY ONLY <2>1, <2>2, <2>3, LocatedOn
<1>8. Sure(n, run, rows)
  BY <1>2, <1>3, <1>5, <1>6, <1>7, CarriesOn
<1>9. Moves(w, n) /\ UNCHANGED <<run, rows, requests>> /\ worker[w].phase # "ingesting"
  BY <1>1 DEF EventsDone, Moves, outside
<1> QED BY <1>3, <1>8, <1>9, StaysSure

LEMMA PostEventOnce ==
  ASSUME Lone, Inv, Once, NEW w \in Worker, PostEvent(w)
  PROVE  Once'
<1> PICK m : m = worker[w]
  OBVIOUS
<1>1. m.phase = "post" /\ m.phase \in Processing /\ Entries(m) # {}
  BY DEF PostEvent, Asks, Processing
<1>2. /\ m \in Memory /\ m.gen \in Gen /\ m.gen # None /\ Sure(m, run, rows)
      /\ ThreadRight(m, run, rows) /\ PostedStored(m.rec)
  BY <1>1, Ready, InProcess DEF Processing
<1> PICK o : o = Least(Entries(m))
  OBVIOUS
<1>3. o \in Obs /\ o \in Entries(m)
  BY <1>1, <1>2, WorkIs, LeastIs
<1>4. UNCHANGED <<run, rows, requests>> /\ worker[w].phase # "ingesting"
  BY <1>1 DEF PostEvent
<1>5. CASE Moves(w, Error(worker[w]))
  <2>1. worker[w].phase # "devices"
    BY <1>1
  <2> QED BY <1>4, <1>5, <2>1, FailsOnce
<1>6. CASE Moves(w, Posted(m, o))
  <2> PICK e : e = (m.rec[o] \cup {"posted"}) \ {"pending"}
    OBVIOUS
  <2> PICK rec : rec = [m.rec EXCEPT ![o] = e]
    OBVIOUS
  <2>1. m.rec \in [Obs -> SUBSET Flag]
    BY <1>2, MemoryIs DEF Records
  <2>2. e \in SUBSET Flag
    BY <1>3, <2>1 DEF Flag
  <2>3. \A p \in Obs : rec[p] = IF p = o THEN e ELSE m.rec[p]
    BY <2>1
  <2> PICK n : n = [m EXCEPT !.rec = rec]
    OBVIOUS
  <2>4. Posted(m, o) = n
    BY DEF Posted
  <2>5. rec \in Records
    BY <2>1, <2>2 DEF Records
  <2>6. /\ n \in Memory /\ n.rec = rec /\ n.gen = m.gen /\ n.phase = m.phase
        /\ n.seq = m.seq /\ n.batch = m.batch /\ n.after = m.after /\ n.next = m.next
    <3>1. m \in Memory /\ n = [m EXCEPT !.rec = rec]
      BY <1>2
    <3> QED BY ONLY <2>5, <3>1, RecIs
  <2>7. Alongside(m, n)
    BY <1>2 DEF Memory, Alongside
  <2>8. Learns(m, n)
    <3> SUFFICES ASSUME NEW p \in Obs, Seen(m, p) PROVE Seen(n, p)
      BY <2>6 DEF Learns
    <3>1. m.rec[p] \ {"pending"} \subseteq n.rec[p]
      BY <2>3, <2>6
    <3> QED BY <3>1 DEF Seen
  <2>9. Retains(m, n)
    BY <1>1, <2>6, <2>7, <2>8 DEF Retains, Alongside
  <2>10. \A p \in Obs : p \notin Doubtful(m)
    BY <1>1, <1>2, NothingDoubtful
  <2>11. Located(n, rows)
    <3>1. Located(m, rows)
      BY <1>2 DEF Sure
    <3>2. n.devices = m.devices /\ m.phase = "post" /\ n.phase = "post"
      BY <1>1, <2>6, <2>7 DEF Alongside
    <3> QED BY ONLY <2>8, <3>1, <3>2, LocatedOn
  <2>12. Sure(n, run, rows)
    BY <1>1, <1>2, <2>6, <2>9, <2>10, <2>11, CarriesOn
  <2> QED BY <1>4, <1>6, <2>4, <2>6, <2>12, StaysSure
<1> QED BY <1>5, <1>6 DEF PostEvent, Moves

(* With its batch done, the thread goes on to what it was reading.          *)
LEMMA TickedSure ==
  ASSUME NEW m \in Memory, m.phase \in {"tick", "goal"}, m.gen # None,
         NEW r, NEW rw, ThreadRight(m, r, rw), Sure(m, r, rw)
  PROVE  Ticked(m) \in Memory /\ Sure(Ticked(m), r, rw)
<1>1. Settled(m, rw) /\ Paced(m, r) /\ Located(m, rw) /\ m.after \in Nat /\ m.seq \in Nat
  BY MemoryIs DEF Sure
<1>2. CASE m.phase = "tick"
  <2>1. m.next \in {"history", "goal"} /\ m.next \in Phase /\ m.phase \in Processing
    BY <1>2 DEF ThreadRight, Bounded, Processing, Phase
  <2> PICK n : n = [m EXCEPT !.phase = m.next, !.batch = {}, !.recover = FALSE,
                             !.sent = FALSE, !.next = "stream"]
    OBVIOUS
  <2>2. Ticked(m) = n
    BY <1>2 DEF Ticked
  <2>3. /\ n \in Memory /\ n.phase = m.next /\ n.rec = m.rec /\ n.gen = m.gen
        /\ n.seq = m.seq /\ n.after = m.after /\ n.devices = m.devices
    <3>1. m \in Memory /\ m.next \in Phase
          /\ n = [m EXCEPT !.phase = m.next, !.batch = {}, !.recover = FALSE,
                           !.sent = FALSE, !.next = "stream"]
      BY <2>1
    <3> QED BY ONLY <3>1 DEF Memory
  <2>4. Learns(m, n)
    BY <2>3 DEF Learns, Seen
  <2>5. \A o \in Obs : o <= m.after \/ o > m.seq \/ ~m.recover => Held(m, rw, o)
    BY <1>1, <1>2, <2>1, NothingDoubtful DEF Settled
  <2>6. m.next = "goal" => \A o \in Obs : Held(m, rw, o)
    <3> SUFFICES ASSUME m.next = "goal", NEW o \in Obs PROVE Held(m, rw, o)
      OBVIOUS
    <3>1. m.recover => m.seq <= m.after
      BY <1>1, <2>1 DEF Paced
    <3>2. o \in Nat
      BY PipelineAssumption DEF Obs
    <3>3. o <= m.after \/ o > m.seq \/ ~m.recover
      BY <1>1, <3>1, <3>2
    <3> QED BY <2>5, <3>3
  <2>7. Settled(n, rw)
    BY <2>1, <2>3, <2>4, <2>5, <2>6, LearnsHeld DEF Settled, Processing
  <2>8. Paced(n, r)
    BY <2>1, <2>3 DEF Paced, Processing
  <2>9. Located(n, rw)
    <3>1. n.devices = m.devices /\ m.phase = "tick" /\ n.phase \in {"history", "goal"}
      BY <1>2, <2>1, <2>3
    <3> QED BY ONLY <1>1, <2>4, <3>1, LocatedOn
  <2> QED BY <2>2, <2>3, <2>7, <2>8, <2>9 DEF Sure
<1>3. CASE m.phase = "goal"
  <2> PICK n : n = [m EXCEPT !.phase = "stream", !.state = "live", !.after = 0, !.goal = 0]
    OBVIOUS
  <2>1. Ticked(m) = n
    BY <1>3 DEF Ticked
  <2>2. /\ n \in Memory /\ n.phase = "stream" /\ n.rec = m.rec /\ n.gen = m.gen
        /\ n.devices = m.devices
    <3>1. m \in Memory /\ 0 \in Time
          /\ n = [m EXCEPT !.phase = "stream", !.state = "live", !.after = 0, !.goal = 0]
      BY Ranges
    <3> QED BY ONLY <3>1 DEF Memory, Phase
  <2>3. Learns(m, n)
    BY <2>2 DEF Learns, Seen
  <2>4. Settled(n, rw) /\ Paced(n, r)
    BY <1>1, <1>3, <2>2, <2>3, LearnsHeld DEF Settled, Paced, Processing
  <2>5. Located(n, rw)
    BY <1>1, <1>3, <2>2, <2>3, LocatedOn
  <2> QED BY <2>1, <2>2, <2>4, <2>5 DEF Sure
<1> QED BY <1>2, <1>3

LEMMA TickNotNeededOnce ==
  ASSUME Lone, Inv, Once, NEW w \in Worker, TickNotNeeded(w)
  PROVE  Once'
<1>1. worker[w].phase \in {"tick", "goal"} /\ UNCHANGED <<run, rows, requests>>
  BY DEF TickNotNeeded, outside
<1>2. worker[w].phase \notin {"off", "connect", "ingesting"}
  BY <1>1
<1> PICK n : n = Ticked(worker[w])
  OBVIOUS
<1>3. n \in Memory /\ Sure(n, run, rows)
  BY <1>1, <1>2, Ready, TickedSure
<1>4. Moves(w, n)
  BY DEF TickNotNeeded, Moves
<1> QED BY <1>1, <1>2, <1>3, <1>4, StaysSure

LEMMA TickOnce ==
  ASSUME Lone, Inv, Once, NEW w \in Worker, Tick(w)
  PROVE  Once'
<1>1. worker[w].phase \in {"tick", "goal"} /\ UNCHANGED <<run, rows, requests>>
  BY DEF Tick, Asks
<1>2. worker[w].phase \notin {"off", "connect", "ingesting", "devices"}
  BY <1>1
<1> PICK n : n = Ticked(worker[w])
  OBVIOUS
<1>3. n \in Memory /\ Sure(n, run, rows)
  BY <1>1, <1>2, Ready, TickedSure
<1> PICK t : t = Target(worker[w])
  OBVIOUS
<1>4. t \in Time
  BY <1>1, TargetIs
<1> PICK k : k = [n EXCEPT !.clock = t]
  OBVIOUS
<1>5. k \in Memory /\ Twin(n, k)
  BY <1>3, <1>4 DEF Memory, Twin, Alike
<1>6. Sure(k, run, rows)
  BY <1>3, <1>5, TwinSure
<1>7. Moves(w, Error(worker[w])) \/ Moves(w, k)
  BY DEF Tick, Moves
<1> QED BY <1>1, <1>2, <1>5, <1>6, <1>7, StaysSure, FailsOnce

(* A batch begins: whatever of what was read is stored and not known to be  *)
(* is in it, unless it came through the stream, and then there is no such.  *)
LEMMA BeginSure ==
  ASSUME NEW m \in Memory, m.gen \in Gen, m.gen # None, PostedStored(m.rec),
         NEW r, NEW rw,
         NEW B \in SUBSET Obs, NEW rc \in BOOLEAN, NEW nx \in {"goal", "history"},
         NEW go \in Time,
         \A o \in Obs : Placeable(m, rw, o) \/ m.devices = {},
         \A o \in B : m.gen = r.gen => o <= r.count,
         rc => (nx = "goal" => m.seq <= m.after) /\ \A o \in B : o <= m.after,
         \A o \in Obs : o <= m.after \/ o > m.seq \/ ~rc =>
           Held(m, rw, o) \/ (rc /\ o \in B \ Unmapped)
  PROVE  Begin(m, B, rc, nx, go) \in Memory /\ Sure(Begin(m, B, rc, nx, go), r, rw)
<1>1. Begun(Begin(m, B, rc, nx, go), m, B, nx, go)
  BY BeginIs
<1>2. Sorted(Begin(m, B, rc, nx, go), m, rc)
  BY BeginBeside
<1> PICK b : b = Begin(m, B, rc, nx, go)
  OBVIOUS
<1>3. /\ b \in Memory /\ b.phase \in {"devices", "readback", "post", "ingest"}
      /\ b.phase = "post" => Unresolved(b) = {}
      /\ b.gen = m.gen /\ b.rec = m.rec /\ b.seq = m.seq /\ b.batch = B
      /\ b.after = m.after /\ b.next = nx
  BY <1>1 DEF Begun
<1>4. /\ b.devices = m.devices /\ b.recover = rc /\ b.sent = FALSE
      /\ b.phase = "readback" => b.devices # {}
      /\ b.phase = "ingest" => ~rc
  BY <1>2 DEF Sorted
<1>5. \A o : (Held(b, rw, o) <=> Held(m, rw, o)) /\ (Placeable(m, rw, o) => Placeable(b, rw, o))
  BY <1>3, <1>4 DEF Held, Placeable, Seen
<1>6. ASSUME NEW o \in Obs \ Doubtful(b), o <= m.after \/ o > m.seq \/ ~rc
      PROVE  Held(m, rw, o)
  <2> SUFFICES ASSUME rc, o \in B \ Unmapped PROVE Held(m, rw, o)
    BY <1>6
  <2>1. o \notin Unresolved(b)
    BY <1>3, <1>4, <1>6 DEF Doubtful
  <2>2. "posted" \in m.rec[o] \/ "reading" \in m.rec[o]
    BY <1>3, <2>1 DEF Unresolved, Entries
  <2>3. "reading" \in m.rec[o]
    BY <1>6, <2>2 DEF PostedStored
  <2> QED BY <2>3 DEF Held, Seen
<1>7. Settled(b, rw)
  BY <1>3, <1>4, <1>5, <1>6 DEF Settled, Processing
<1>8. Paced(b, r)
  BY <1>3, <1>4 DEF Paced, Processing
<1>9. Located(b, rw)
  <2>1. CASE m.devices = {} /\ b.phase = "ingest"
    <3>1. \A o \in Obs : Held(m, rw, o)
      BY <1>4, <2>1
    <3>2. \A o \in Obs : Placeable(b, rw, o)
      BY <1>5, <3>1 DEF Held, Placeable
    <3> QED BY <3>2 DEF Located
  <2>2. CASE m.devices = {} /\ b.phase # "ingest"
    BY <1>3, <1>4, <2>2 DEF Located
  <2>3. CASE m.devices # {}
    BY <1>5, <2>3 DEF Located
  <2> QED BY <2>1, <2>2, <2>3
<1> QED BY <1>3, <1>7, <1>8, <1>9 DEF Sure

LEMMA ReadHistoryOnce ==
  ASSUME Lone, Inv, Once, NEW w \in Worker, ReadHistory(w)
  PROVE  Once'
<1> PICK m : m = worker[w]
  OBVIOUS
<1>1. /\ m.phase = "history" /\ UNCHANGED <<run, rows, requests>>
      /\ worker[w].phase \notin {"ingesting", "devices"}
  BY DEF ReadHistory, Asks, outside
<1>2. /\ m \in Memory /\ m.gen \in Gen /\ m.gen # None /\ Sure(m, run, rows)
      /\ ThreadRight(m, run, rows) /\ run.count \in 0..MaxObs
  BY <1>1, Ready
<1>3. CASE m.gen # run.gen
  <2>1. Moves(w, Error(worker[w]))
    BY <1>3 DEF ReadHistory, Moves
  <2> QED BY <1>1, <2>1, FailsOnce
<1>4. CASE m.gen = run.gen
  <2> PICK a : a = m.after + ChunkMax
    OBVIOUS
  <2> PICK n : n = [m EXCEPT !.after = a]
    OBVIOUS
  <2> PICK due : due = {o \in Chunk(m) : At[o] <= m.goal}
    OBVIOUS
  <2> PICK nx : nx = AfterChunk(m)
    OBVIOUS
  <2>1. m.after \in Nat /\ a \in Nat /\ m.after <= a /\ m.goal \in Time
    BY <1>2, MemoryIs, PipelineAssumption
  <2>2. /\ n \in Memory /\ n.gen = m.gen /\ n.rec = m.rec /\ n.seq = m.seq
        /\ n.after = a /\ n.phase = m.phase /\ n.devices = m.devices
    <3>1. m \in Memory /\ n = [m EXCEPT !.after = a]
      BY <1>2
    <3> QED BY ONLY <2>1, <3>1 DEF Memory
  <2>3. nx \in {"history", "goal"} /\ (nx = "goal" => a >= run.count)
    BY <1>2, <2>1 DEF AfterChunk
  <2>4. /\ m.seq \in Nat /\ m.seq <= run.count /\ PostedStored(m.rec)
        /\ \A o \in Obs : o <= m.seq => At[o] <= m.goal
    BY <1>1, <1>2, <1>4, MemoryIs DEF ThreadRight, Placed, Bounded, Recorded
  <2>5. \A o \in due : o \in Obs /\ o <= run.count /\ o <= a
    BY <1>2, <2>1, PipelineAssumption DEF Chunk, Obs
(* What the chunk passes is in it, or was not read.                         *)
  <2>6. ASSUME NEW o \in Obs, o <= a \/ o > m.seq
        PROVE  Held(n, rows, o) \/ o \in due \ Unmapped
    <3> SUFFICES ASSUME rows[m.gen][o] > 0, ~Held(m, rows, o) PROVE o \in due \ Unmapped
      BY <2>2 DEF Held, Seen
    <3>1. o \notin Unmapped
      BY <1>2 DEF Once, StoredRightly
    <3>2. ~(o <= m.after) /\ ~(o > m.seq)
      BY <1>1, <1>2 DEF Sure, Settled
    <3>3. o \in Nat /\ m.after < o /\ o <= m.seq /\ o <= a
      BY <2>1, <2>4, <2>6, <3>2 DEF Obs
    <3>4. o \in Chunk(m)
      BY <1>2, <2>4, <3>3 DEF Chunk, Obs
    <3> QED BY <2>4, <3>1, <3>3, <3>4
  <2>7. \A o \in Obs : Placeable(m, rows, o) \/ m.devices = {}
    BY <1>1, <1>2, Mapped DEF Sure
  <2>8. nx = "goal" => n.seq <= n.after
    BY <1>2, <2>1, <2>2, <2>3, <2>4
  <2>9. CASE due = {}
    <3> PICK p : p = [n EXCEPT !.phase = nx]
      OBVIOUS
    <3>1. nx \in Phase
      BY <2>3 DEF Phase
    <3>2. /\ p \in Memory /\ p.phase = nx /\ p.gen = n.gen /\ p.rec = n.rec
          /\ p.seq = n.seq /\ p.after = n.after /\ p.devices = n.devices
      <4>1. n \in Memory /\ p = [n EXCEPT !.phase = nx]
        BY <2>2
      <4> QED BY ONLY <3>1, <4>1, PhaseIs, PhaseBeside DEF Alongside
    <3>3. p.devices = n.devices
      BY <3>2
    <3>4. Learns(n, p) /\ Learns(m, p)
      BY <2>2, <3>2 DEF Learns, Seen
    <3>5. \A o \in Obs : o <= a \/ o > m.seq => Held(p, rows, o)
      BY <2>6, <2>9, <3>4, LearnsHeld
    <3>6. nx = "goal" => \A o \in Obs : o <= a \/ o > m.seq
      BY <1>2, <2>1, <2>3, <2>4 DEF Obs
    <3>7. Settled(p, rows)
      BY <2>2, <2>3, <3>2, <3>5, <3>6 DEF Settled, Processing
    <3>8. Paced(p, run)
      BY <2>3, <3>2 DEF Paced, Processing
    <3>9. Located(p, rows)
      <4>1. Located(m, rows)
        BY <1>2 DEF Sure
      <4>2. p.devices = m.devices /\ m.phase \notin {"devices", "ingesting"}
            /\ p.phase \notin {"readback", "ingest", "send", "ingesting"}
        BY <1>1, <2>2, <2>3, <3>2, <3>3
      <4> QED BY ONLY <3>4, <4>1, <4>2, LocatedOn
    <3>10. Moves(w, p)
      BY <1>4, <2>9 DEF ReadHistory, Moves
    <3>11. Sure(p, run, rows)
      BY <3>7, <3>8, <3>9 DEF Sure
    <3> QED BY <1>1, <3>2, <3>10, <3>11, StaysSure
  <2>10. CASE due # {}
    <3> PICK b : b = Begin(n, due, TRUE, nx, m.goal)
      OBVIOUS
    <3>1. /\ due \in SUBSET Obs /\ TRUE \in BOOLEAN /\ nx \in {"goal", "history"}
          /\ n.gen \in Gen /\ n.gen # None /\ PostedStored(n.rec)
      BY <1>2, <2>2, <2>3, <2>4, <2>5
    <3>2. \A o \in Obs : Placeable(n, rows, o) \/ n.devices = {}
      BY <2>2, <2>7 DEF Placeable, Seen
    <3>3. /\ \A o \in due : n.gen = run.gen => o <= run.count
          /\ \A o \in due : o <= n.after
      BY <2>2, <2>5
    <3>4. \A o \in Obs : o <= n.after \/ o > n.seq \/ ~TRUE =>
            Held(n, rows, o) \/ (TRUE /\ o \in due \ Unmapped)
      BY <2>2, <2>6
    <3>5. b \in Memory /\ Sure(b, run, rows)
      <4>1. n \in Memory /\ m.goal \in Time /\ b = Begin(n, due, TRUE, nx, m.goal)
        BY <2>1, <2>2
      <4> QED BY ONLY <2>8, <3>1, <3>2, <3>3, <3>4, <4>1, BeginSure
    <3>6. Moves(w, b)
      BY <1>4, <2>10 DEF ReadHistory, Moves
    <3> QED BY <1>1, <3>5, <3>6, StaysSure
  <2> QED BY <2>9, <2>10
<1> QED BY <1>3, <1>4

(* A batch of the stream: there is nothing it does not know to be stored.   *)
LEMMA StreamedSure ==
  ASSUME NEW m \in Memory, m.phase = "stream", m.gen \in Gen, m.gen # None,
         NEW r, NEW rw, PostedStored(m.rec), Sure(m, r, rw),
         NEW n \in Memory, n.rec = m.rec, n.gen = m.gen, n.devices = m.devices,
         NEW B \in SUBSET Obs, NEW go \in Time, \A o \in B : o <= r.count
  PROVE  LET b == Begin(n, B, FALSE, "goal", go)
         IN  b \in Memory /\ Sure(b, r, rw)
<1>1. Settled(m, rw) /\ Located(m, rw)
  BY DEF Sure
<1>2. \A o \in Obs : Held(n, rw, o)
  BY <1>1 DEF Settled, Held, Seen
<1>3. \A o \in Obs : Placeable(n, rw, o) \/ n.devices = {}
  BY <1>2 DEF Held, Placeable
<1> QED BY <1>2, <1>3, BeginSure

LEMMA ReadEventOnce ==
  ASSUME Lone, Inv, Once, NEW w \in Worker, ReadEvent(w)
  PROVE  Once'
<1> PICK m : m = worker[w]
  OBVIOUS
<1>1. /\ m.phase = "stream" /\ UNCHANGED <<run, rows, requests>>
      /\ worker[w].phase # "ingesting" /\ m.gen = run.gen /\ m.seq < run.count
  BY DEF ReadEvent, Asks, outside
<1>2. /\ m \in Memory /\ m.gen \in Gen /\ m.gen # None /\ Sure(m, run, rows)
      /\ ThreadRight(m, run, rows) /\ run.count \in 0..MaxObs
  BY <1>1, Ready
<1> PICK s : s = m.seq + 1
  OBVIOUS
<1> PICK waiting : waiting = m.pending \cup {s}
  OBVIOUS
<1>3. /\ s \in Nat /\ s \in Obs /\ waiting \subseteq Obs /\ PostedStored(m.rec)
      /\ \A o \in waiting : o <= run.count
  <2>1. m.seq \in Nat /\ m.pending \subseteq Obs /\ \A o \in m.pending : o <= m.seq
    BY <1>2, MemoryIs DEF ThreadRight, Placed
  <2>2. s \in Nat /\ s \in Obs /\ s <= run.count
    BY <1>1, <1>2, <2>1, PipelineAssumption DEF Obs
  <2>3. \A o \in m.pending : o <= run.count
    BY <1>1, <1>2, <2>1 DEF Obs
  <2> QED BY <1>2, <2>1, <2>2, <2>3 DEF ThreadRight, Recorded
<1> PICK n : n = [m EXCEPT !.seq = s, !.pending = waiting]
  OBVIOUS
<1>4. /\ n \in Memory /\ n.gen = m.gen /\ n.rec = m.rec /\ n.phase = m.phase
      /\ n.devices = m.devices
  <2>1. m \in Memory /\ s \in Nat /\ waiting \subseteq Obs
        /\ n = [m EXCEPT !.seq = s, !.pending = waiting]
    BY <1>2, <1>3
  <2> QED BY ONLY <2>1 DEF Memory
<1> PICK k : k = [n EXCEPT !.pending = {}]
  OBVIOUS
<1>5. k \in Memory /\ k.gen = m.gen /\ k.rec = m.rec /\ k.devices = m.devices
  <2>1. n \in Memory /\ k = [n EXCEPT !.pending = {}]
    BY <1>4
  <2>2. k \in Memory /\ k.gen = n.gen /\ k.rec = n.rec /\ k.devices = n.devices
    BY ONLY <2>1 DEF Memory
  <2> QED BY <1>4, <2>2
<1> PICK b : b = Begin(k, waiting, FALSE, "goal", 0)
  OBVIOUS
<1>6. b \in Memory /\ Sure(b, run, rows)
  <2>1. /\ m \in Memory /\ m.phase = "stream" /\ m.gen \in Gen /\ m.gen # None
        /\ PostedStored(m.rec) /\ Sure(m, run, rows)
    BY <1>1, <1>2, <1>3
  <2>2. waiting \in SUBSET Obs /\ \A o \in waiting : o <= run.count
    BY <1>3
  <2>3. 0 \in Time /\ b = Begin(k, waiting, FALSE, "goal", 0)
    BY Ranges
  <2> QED BY ONLY <1>5, <2>1, <2>2, <2>3, StreamedSure
<1>7. Sure(n, run, rows)
  <2>1. Learns(m, n)
    BY <1>4 DEF Learns, Seen
  <2>2. Settled(n, rows) /\ Paced(n, run)
    BY <1>1, <1>2, <1>4, <2>1, LearnsHeld DEF Sure, Settled, Paced, Processing
  <2>3. Located(m, rows)
    BY <1>2 DEF Sure
  <2>4. n.devices = m.devices /\ m.phase = "stream" /\ n.phase = "stream"
    BY <1>1, <1>4
  <2>5. Located(n, rows)
    BY ONLY <2>1, <2>3, <2>4, LocatedOn
  <2> QED BY <2>2, <2>5 DEF Sure
<1>8. Moves(w, n) \/ Moves(w, b)
  BY DEF ReadEvent, Moves
<1> QED BY <1>1, <1>4, <1>6, <1>7, <1>8, StaysSure

LEMMA HeartbeatOnce ==
  ASSUME Lone, Inv, Once, NEW w \in Worker, Heartbeat(w)
  PROVE  Once'
<1> PICK m : m = worker[w]
  OBVIOUS
<1>1. /\ m.phase = "stream" /\ UNCHANGED <<run, rows, requests>>
      /\ worker[w].phase # "ingesting" /\ m.gen = run.gen
  BY DEF Heartbeat, Asks, outside
<1>2. /\ m \in Memory /\ m.gen \in Gen /\ m.gen # None /\ Sure(m, run, rows)
      /\ ThreadRight(m, run, rows) /\ run.count \in 0..MaxObs /\ run.time \in Time
  BY <1>1, Ready
<1> PICK B : B = m.pending
  OBVIOUS
<1>3. B \subseteq Obs /\ PostedStored(m.rec) /\ \A o \in B : o <= run.count
  <2>1. /\ m.seq \in Nat /\ B \subseteq Obs /\ m.seq <= run.count
        /\ \A o \in B : o <= m.seq
    BY <1>1, <1>2, MemoryIs DEF ThreadRight, Placed
  <2>2. \A o \in B : o <= run.count
    BY <1>2, <2>1 DEF Obs
  <2> QED BY <1>2, <2>1, <2>2 DEF ThreadRight, Recorded
<1> PICK k : k = [m EXCEPT !.pending = {}]
  OBVIOUS
<1>4. k \in Memory /\ k.gen = m.gen /\ k.rec = m.rec /\ k.devices = m.devices
  <2>1. m \in Memory /\ k = [m EXCEPT !.pending = {}]
    BY <1>2
  <2> QED BY ONLY <2>1 DEF Memory
<1>5. PICK t \in 0..run.time : Becomes(w, Begin(k, B, FALSE, "goal", t))
  BY DEF Heartbeat
<1>6. t \in Time
  BY <1>2, PipelineAssumption DEF Time
<1> PICK b : b = Begin(k, B, FALSE, "goal", t)
  OBVIOUS
<1>7. b \in Memory /\ Sure(b, run, rows)
  BY <1>1, <1>2, <1>3, <1>4, <1>6, StreamedSure
<1>8. Moves(w, b)
  BY <1>5 DEF Moves
<1> QED BY <1>1, <1>7, <1>8, StaysSure

-----------------------------------------------------------------------------
(* Requests that fail                                                       *)

LEMMA RequestFailsOnce ==
  ASSUME Lone, Inv, Once, NEW w \in Worker, RequestFails(w)
  PROVE  Once'
<1>1. UNCHANGED <<run, rows, requests>> /\ Moves(w, Error(worker[w]))
  BY DEF RequestFails, Moves, outside
<1>2. worker[w].phase \notin {"ingesting", "devices"}
  BY DEF RequestFails, TickDue
<1> QED BY <1>1, <1>2, FailsOnce

LEMMA DevicesFailOnce ==
  ASSUME Lone, Inv, Once, Clear', NEW w \in Worker, DevicesFail(w)
  PROVE  Once'
<1> PICK m : m = worker[w]
  OBVIOUS
<1>1. /\ m.phase = "devices" /\ UNCHANGED <<run, rows, requests>>
      /\ Moves(w, Error(worker[w]))
  BY DevicesFailIs DEF Inv, outside
<1>2. ~Blind(m)
  <2>1. PICK c \in {0, 1} : used'.blind = used.blind + c /\ (c = 0 => ~Blind(m))
    BY DevicesFailIs DEF Inv
  <2>2. used.blind \in Nat
    BY DEF Inv, TypeOK, Counter
  <2> QED BY <2>1, <2>2 DEF Clear
<1>3. m \in Memory /\ m.gen # None /\ Sure(m, run, rows)
  BY <1>1, Ready
<1>4. \A o \in Obs : Placeable(m, rows, o) \/ m.devices = {}
  BY <1>2, <1>3, Mapped DEF Sure
<1> PICK e : e = Error(m)
  OBVIOUS
<1>5. /\ e \in Memory /\ e.phase = "connect" /\ e.devices = m.devices
      /\ e.gen = m.gen /\ e.rec = m.rec
  BY <1>3, ErrorIs, ErrorBeside
<1>6. Learns(m, e)
  BY <1>5 DEF Learns, Seen
<1>7. Sure(e, run, rows)
  BY <1>3, <1>4, <1>5, <1>6, FailedSure
<1>8. Moves(w, e) /\ worker[w].phase # "ingesting"
  BY <1>1
<1> QED BY <1>1, <1>5, <1>7, <1>8, StaysSure

LEMMA AnswerLostOnce ==
  ASSUME Lone, Inv, Once, NEW w \in Worker, AnswerLost(w)
  PROVE  Once'
<1>1. UNCHANGED <<run, rows, requests>> /\ Moves(w, Error(worker[w]))
  BY DEF AnswerLost, Moves
<1>2. worker[w].phase \notin {"ingesting", "devices"}
  BY DEF AnswerLost, TickDue
<1> QED BY <1>1, <1>2, FailsOnce

LEMMA ReadBackFailsOnce ==
  ASSUME Lone, Inv, Once, NEW w \in Worker, ReadBackFails(w)
  PROVE  Once'
<1> PICK m : m = worker[w]
  OBVIOUS
<1>1. /\ m.phase = "readback" /\ UNCHANGED <<run, rows, requests>>
      /\ worker[w].phase # "ingesting"
  BY DEF ReadBackFails, Asks, outside
<1>2. m \in Memory /\ m.gen # None /\ Sure(m, run, rows)
  BY <1>1, Ready
<1>3. PICK D : Becomes(w, Error(ReadBack(m, {o \in Found(m) : DeviceOf[o] \in D})))
  BY DEF ReadBackFails
<1> PICK S : S = {o \in Found(m) : DeviceOf[o] \in D}
  OBVIOUS
<1>4. S \subseteq Obs
  BY <1>2, WorkIs DEF Found, Sought, Uncertain
<1> PICK k : k = ReadBack(m, S)
  OBVIOUS
<1>5. k \in Memory /\ Learns(m, k) /\ k.devices = m.devices
  BY <1>2, <1>4, ReadBackIs, ReadBackLearns, ReadBackBeside DEF Alongside
<1>6. Sure(Error(k), run, rows) /\ Error(k) \in Memory
  BY <1>1, <1>2, <1>5, ErrorSure, ErrorIs
<1>7. Moves(w, Error(k))
  BY <1>3 DEF Moves
<1> QED BY <1>1, <1>6, <1>7, StaysSure

-----------------------------------------------------------------------------
(* Threads that begin and end                                               *)

LEMMA IdleSure ==
  ASSUME NEW m, m.gen = None, NEW r, NEW rw
  PROVE  Sure(m, r, rw)
BY DEF Sure

LEMMA ConnectOnce ==
  ASSUME Lone, Inv, Once, NEW w \in Worker, Connect(w)
  PROVE  Once'
<1> PICK c : c = [Off EXCEPT !.phase = "connect"]
  OBVIOUS
<1>1. c \in Memory /\ c.gen = None
  BY OffIs, PhaseIs DEF Phase
<1>2. worker' = [worker EXCEPT ![w] = c]
  <2>1. worker \in [Worker -> Memory] /\ \A v \in Worker : v = w
    BY DEF Inv, TypeOK, Lone
  <2>2. worker' = [v \in Worker |-> c]
    BY <2>1 DEF Connect
  <2> QED BY <2>1, <2>2
<1>3. Moves(w, c)
  BY <1>2 DEF Moves
<1>4. UNCHANGED <<run, rows, requests>> /\ worker[w].phase # "ingesting"
  BY DEF Connect, outside
<1> QED BY <1>1, <1>3, <1>4, IdleSure, StaysSure

LEMMA StopOnce ==
  ASSUME Lone, Inv, Once, NEW w \in Worker, Stop(w)
  PROVE  Once'
<1>1. UNCHANGED <<run, rows, requests>> /\ worker[w].phase # "ingesting" /\ Moves(w, Off)
  BY DEF Stop, outside, Moves
<1> QED BY <1>1, OffIs, IdleSure, StaysSure

LEMMA CrashOnce ==
  ASSUME Lone, Inv, Once, Clear', Crash
  PROVE  Once'
<1>1. worker' = [w \in Worker |-> Off] /\ UNCHANGED <<run, rows>>
  BY DEF Crash
<1>2. requests' = requests \ {r \in requests : r.from # None}
  <2>1. ~(used' = [used EXCEPT !.crash = @ + 1, !.late = @ + 1])
    <3> SUFFICES ASSUME used' = [used EXCEPT !.crash = @ + 1, !.late = @ + 1] PROVE FALSE
      OBVIOUS
    <3>1. used'.late = used.late + 1 /\ used.late \in Nat
      BY DEF Inv, TypeOK, Counter
    <3> QED BY <3>1 DEF Clear
  <2> QED BY <2>1 DEF Crash
<1>3. requests' = {}
  BY <1>2 DEF Once, RequestsNew
<1>4. \A w \in Worker : Sure(worker'[w], run, rows)
  BY <1>1, OffIs, IdleSure
<1>5. StoredRightly' /\ StoredOnce' /\ RequestsNew'
  BY <1>1, <1>3 DEF Once, StoredRightly, StoredOnce, RequestsNew
<1> QED BY <1>1, <1>4, <1>5 DEF Once

-----------------------------------------------------------------------------
(* The world                                                                *)

LEMMA WorldOnce ==
  ASSUME Inv, Once, UNCHANGED <<rows, requests, worker>>,
         run'.gen \in Gen, run'.count \in Nat, run.gen <= run'.gen,
         run'.gen = run.gen => run.count <= run'.count
  PROVE  Once'
<1>1. run.gen \in Nat /\ run'.gen \in Nat /\ run.count \in Nat
  BY PipelineAssumption DEF Inv, TypeOK, Gen
<1>2. ASSUME NEW w \in Worker PROVE Sure(worker[w], run', rows)
  <2> PICK m : m = worker[w]
    OBVIOUS
  <2>1. m \in Memory /\ Placed(m, run) /\ Sure(m, run, rows)
    BY Ready DEF ThreadRight
  <2> SUFFICES ASSUME m.gen # None PROVE Sure(m, run', rows)
    BY DEF Sure
  <2>2. m.gen \in Nat /\ m.gen <= run.gen /\ m.batch \subseteq Obs
    BY <2>1, MemoryIs DEF Placed, Gen
  <2>3. m.gen = run'.gen => m.gen = run.gen /\ run.count <= run'.count
    BY <1>1, <2>2
  <2>4. \A o \in m.batch : o \in Nat
    BY <2>2 DEF Obs
  <2>5. Paced(m, run')
    BY <1>1, <2>1, <2>3, <2>4 DEF Sure, Paced
  <2> QED BY <2>1, <2>5 DEF Sure
<1>3. StoredRightly'
  <2> SUFFICES ASSUME NEW g \in Gen, NEW o \in Obs, rows[g][o] > 0
               PROVE  o \notin Unmapped /\ (g < run'.gen \/ (g = run'.gen /\ o <= run'.count))
    BY DEF StoredRightly
  <2>1. o \notin Unmapped /\ (g < run.gen \/ (g = run.gen /\ o <= run.count))
    BY DEF Once, StoredRightly
  <2>2. g \in Nat /\ o \in Nat
    BY DEF Gen, Obs
  <2> QED BY <1>1, <2>1, <2>2
<1>4. RequestsNew' /\ StoredOnce'
  BY DEF Once, RequestsNew, StoredOnce
<1> QED BY <1>2, <1>3, <1>4 DEF Once

LEMMA OutsideOnce ==
  ASSUME Inv, Once,
         Publish \/ Advance \/ ResetRun \/ AgentForgets \/ JournalLost \/ UNCHANGED vars
  PROVE  Once'
<1>1. run \in [gen : Gen, time : Time, count : 0..MaxObs] /\ MaxObs \in Nat /\ MaxGen \in Nat
  BY PipelineAssumption DEF Inv, TypeOK
<1>2. run.gen \in Gen /\ run.gen \in Nat /\ run.count \in Nat
  BY <1>1 DEF Gen
<1>3. CASE Publish
  <2>1. UNCHANGED <<rows, requests, worker, used>> /\ run' = [run EXCEPT !.count = @ + 1]
    BY <1>3 DEF Publish
  <2>2. run'.gen = run.gen /\ run'.count = run.count + 1
    BY <1>1, <2>1
  <2> QED BY <1>2, <2>1, <2>2, WorldOnce
<1>4. CASE Advance
  <2>1. UNCHANGED <<rows, requests, worker, used>> /\ run' = [run EXCEPT !.time = @ + 1]
    BY <1>4 DEF Advance
  <2>2. run'.gen = run.gen /\ run'.count = run.count
    BY <1>1, <2>1
  <2> QED BY <1>2, <2>1, <2>2, WorldOnce
<1>5. CASE ResetRun
  <2>1. UNCHANGED <<rows, requests, worker, used>> /\ run.gen < MaxGen
        /\ run' = [gen |-> run.gen + 1, time |-> 0, count |-> 0]
    BY <1>5 DEF ResetRun
  <2>2. run'.gen = run.gen + 1 /\ run'.count = 0 /\ run'.gen \in Gen
    BY <1>1, <1>2, <2>1 DEF Gen
  <2> QED BY <1>2, <2>1, <2>2, WorldOnce
<1>6. CASE AgentForgets \/ JournalLost
  <2>1. UNCHANGED <<run, rows, requests, worker>>
    BY <1>6 DEF AgentForgets, JournalLost, outside
  <2> QED BY <1>2, <2>1, WorldOnce
<1>7. CASE UNCHANGED vars
  <2>1. UNCHANGED <<run, rows, requests, worker, used>>
    BY <1>7 DEF vars
  <2> QED BY <1>2, <2>1, WorldOnce
<1> QED BY <1>3, <1>4, <1>5, <1>6, <1>7

(* The platform stores what the thread waits for, and once.                 *)
LEMMA ArriveOnce ==
  ASSUME Lone, Inv, Once, Arrive
  PROVE  Once'
<1>1. UNCHANGED <<run, worker, used>>
  BY DEF Arrive
<1>2. PICK r \in requests :
        /\ r.items # {}
        /\ LET o == Least(r.items)
               rest == r.items \ {o}
               left == [r EXCEPT !.items = rest]
           IN /\ rows' = [rows EXCEPT ![r.gen][o] = IF @ < 2 THEN @ + 1 ELSE @]
              /\ requests' = (requests \ {r}) \cup
                   (IF rest = {} /\ r.from = None THEN {} ELSE {left})
  BY DEF Arrive
<1>3. r \in Request /\ r.items \in SUBSET Obs /\ r.gen \in Gen /\ r.from \in Worker \cup {None}
  BY DEF Inv, TypeOK, Request
<1>4. /\ r.from # None /\ r.items \subseteq Unresolved(worker[r.from])
      /\ \A p \in r.items : rows[r.gen][p] = 0
  BY DEF Once, RequestsNew
<1> PICK w \in Worker : w = r.from
  BY <1>3, <1>4
<1> PICK m : m = worker[w]
  OBVIOUS
<1>5. m.phase = "ingesting" /\ m.gen = r.gen /\ \A q \in requests : q = r
  BY OneRequest
<1>6. /\ m \in Memory /\ m.gen # None /\ m.gen \in Gen /\ ThreadRight(m, run, rows)
      /\ Sure(m, run, rows)
  BY <1>5, Ready
<1>7. Settled(m, rows) /\ Paced(m, run) /\ Located(m, rows)
  BY <1>6 DEF Sure
<1> PICK o : o = Least(r.items)
  OBVIOUS
<1> PICK rest : rest = r.items \ {o}
  OBVIOUS
<1> PICK left : left = [r EXCEPT !.items = rest]
  OBVIOUS
<1>8. o \in r.items /\ o \in Obs /\ rows[r.gen][o] = 0
  BY <1>2, <1>3, <1>4, LeastIs
<1>9. /\ rows' = [rows EXCEPT ![r.gen][o] = IF @ < 2 THEN @ + 1 ELSE @]
      /\ requests' = {left}
  <2>1. requests' = (requests \ {r}) \cup {left}
    BY <1>2, <1>4
  <2>2. requests \ {r} = {}
    BY <1>5
  <2>3. requests' = {left}
    BY ONLY <2>1, <2>2
  <2> QED BY <1>2, <2>3
<1>10. left.from = w /\ left.gen = r.gen /\ left.items = rest
  BY <1>3 DEF Request
<1>11. /\ rows \in [Gen -> [Obs -> 0..2]] /\ rows'[r.gen][o] = 1
       /\ \A g \in Gen, p \in Obs : ~(g = r.gen /\ p = o) => rows'[g][p] = rows[g][p]
  <2>1. rows \in [Gen -> [Obs -> 0..2]]
    BY DEF Inv, TypeOK
  <2> QED BY <1>3, <1>8, <1>9, <2>1
<1>12. o \in Unresolved(m) /\ o \in m.batch \ Unmapped
  BY <1>4, <1>6, <1>8, WorkIs
<1>13. StoredOnce'
  BY <1>11 DEF Once, StoredOnce
<1>14. RequestsNew'
  <2>1. \A p \in rest : p \in Obs /\ rows'[r.gen][p] = 0
    BY <1>3, <1>4, <1>11
  <2>2. w # None /\ rest \subseteq Unresolved(m)
    BY <1>4
  <2>3. \A q \in requests' :
          /\ q.from # None /\ q.items \subseteq Unresolved(worker[q.from])
          /\ \A p \in q.items : rows'[q.gen][p] = 0
    <3>1. \A q \in requests' : q = left
      BY <1>9
    <3>2. left.from # None /\ left.items \subseteq Unresolved(worker[left.from])
      BY <1>10, <2>2
    <3>3. \A p \in left.items : rows'[left.gen][p] = 0
      BY <1>10, <2>1
    <3> QED BY <3>1, <3>2, <3>3
  <2> QED BY <1>1, <2>3 DEF RequestsNew, Unresolved, Entries
<1>15. StoredRightly'
  <2>1. m.gen <= run.gen /\ (m.gen = run.gen => o <= run.count)
    BY <1>5, <1>6, <1>7, <1>12 DEF ThreadRight, Placed, Paced, Processing
  <2>2. m.gen \in Nat /\ run.gen \in Nat
    BY <1>6 DEF Gen, Inv, TypeOK
  <2>3. m.gen < run.gen \/ (m.gen = run.gen /\ o <= run.count)
    BY <2>1, <2>2
  <2>4. ASSUME NEW g \in Gen, NEW p \in Obs, rows'[g][p] > 0
        PROVE  p \notin Unmapped /\ (g < run.gen \/ (g = run.gen /\ p <= run.count))
    <3>1. CASE g = r.gen /\ p = o
      BY <1>5, <1>12, <2>3, <3>1
    <3>2. CASE ~(g = r.gen /\ p = o)
      BY <1>11, <2>4, <3>2 DEF Once, StoredRightly
    <3> QED BY <3>1, <3>2
  <2> QED BY <1>1, <2>4 DEF StoredRightly
<1>16. Sure(m, run, rows')
  <2>1. m.sent /\ m.phase \in Processing
    BY <1>5, <1>7 DEF Paced, Processing
  <2>2. Doubtful(m) = Unresolved(m)
    BY <2>1 DEF Doubtful
  <2>3. \A p \in Obs \ Unresolved(m) : rows'[m.gen][p] = rows[m.gen][p]
    BY <1>5, <1>6, <1>11, <1>12
  <2>4. Settled(m, rows')
    BY <1>5, <1>7, <2>1, <2>2, <2>3 DEF Settled, Held
  <2>5. Located(m, rows')
    BY <1>5, <1>7, <2>3 DEF Located, Placeable
  <2> QED BY <1>7, <2>4, <2>5 DEF Sure
<1>17. \A v \in Worker : Sure(worker[v], run, rows')
  BY <1>16 DEF Lone
<1> QED BY <1>1, <1>13, <1>14, <1>15, <1>17 DEF Once

-----------------------------------------------------------------------------
(* What has failed stays failed, so what is clear was clear before.         *)
FailuresStay ==
  /\ used'.late \in Nat /\ used'.late >= used.late
  /\ used'.blind \in Nat /\ used'.blind >= used.blind

LEMMA UsedGrows ==
  ASSUME TypeOK, NEW c \in Counter, used' = [used EXCEPT ![c] = @ + 1]
  PROVE  FailuresStay
<1>1. used.late \in Nat /\ used.blind \in Nat /\ used[c] \in Nat
  BY DEF TypeOK, Counter
<1>2. /\ used'.late = IF c = "late" THEN used.late + 1 ELSE used.late
      /\ used'.blind = IF c = "blind" THEN used.blind + 1 ELSE used.blind
  BY DEF TypeOK, Counter
<1> QED BY <1>1, <1>2 DEF FailuresStay

LEMMA ClearSoFar ==
  ASSUME TypeOK, [Next]_vars, Clear'
  PROVE  Clear
<1>1. used.late \in Nat /\ used.blind \in Nat
  BY DEF TypeOK, Counter
<1> SUFFICES FailuresStay
  BY <1>1 DEF Clear, FailuresStay
<1>2. CASE UNCHANGED used
  BY <1>1, <1>2 DEF FailuresStay
<1>3. CASE \E c \in Counter : used' = [used EXCEPT ![c] = @ + 1]
  BY <1>3, UsedGrows
<1>4. CASE used' = [used EXCEPT !.crash = @ + 1, !.late = @ + 1]
  <2>1. used'.late = used.late + 1 /\ used'.blind = used.blind
    BY <1>4 DEF TypeOK, Counter
  <2> QED BY <1>1, <2>1 DEF FailuresStay
<1>5. CASE Crash
  BY <1>3, <1>4, <1>5 DEF Crash, Counter
<1>6. ASSUME NEW w \in Worker, IngestLost(w) \/ IngestCut(w)
      PROVE  FailuresStay
  <2>1. PICK c \in {0, 1} : GivesUp(w, c)
    BY <1>6, IngestCutIs DEF IngestLost
  <2>2. /\ used'.blind = used.blind + c
        /\ used'.late = used.late \/ used'.late = used.late + 1
    BY <2>1, GivesUpIs
  <2> QED BY <1>1, <2>2 DEF FailuresStay
<1>7. CASE AgentForgets \/ JournalLost
  BY <1>3, <1>7 DEF AgentForgets, JournalLost, Use, Counter
<1>8. CASE Publish \/ Advance \/ ResetRun \/ Arrive \/ UNCHANGED vars
  BY <1>2, <1>8 DEF Publish, Advance, ResetRun, Arrive, vars
<1>9. ASSUME NEW w \in Worker,
             Connect(w) \/ StreamEnds(w) \/ RequestFails(w) \/ ReadBackFails(w)
             \/ AnswerLost(w)
      PROVE  FailuresStay
  <2>1. UNCHANGED used \/ \E c \in Counter : used' = [used EXCEPT ![c] = @ + 1]
    BY <1>9 DEF Connect, StreamEnds, RequestFails, ReadBackFails, AnswerLost, Use, Counter
  <2> QED BY <1>2, <1>3, <2>1
<1>11. ASSUME NEW w \in Worker, DevicesFail(w) PROVE FailuresStay
  <2>1. PICK c \in {0, 1} : used'.blind = used.blind + c
    BY <1>11, DevicesFailIs
  <2>2. used'.late = used.late
    BY <1>11, DevicesFailIs
  <2> QED BY <1>1, <2>1, <2>2 DEF FailuresStay
<1>10. ASSUME NEW w \in Worker, Stop(w) \/ Thread(w)
       PROVE  FailuresStay
  <2>1. UNCHANGED used
    BY <1>10 DEF Stop, Thread, Snapshot, OpenSession, ReadHistory, ReadEvent, Heartbeat,
       LoadDevices, ReadBackBeforeSending, ReadBackAfterSending, PrepareIngest,
       SendIngest, IngestAnswered, IngestMalformed, PostEvent, EventsDone, TickNotNeeded, Tick
  <2> QED BY <1>2, <2>1
<1> QED BY <1>5, <1>6, <1>7, <1>8, <1>9, <1>10, <1>11 DEF Next

LEMMA InitOnce == Init => Once
<1> SUFFICES ASSUME Init PROVE Once
  OBVIOUS
<1>1. \A w \in Worker : Sure(worker[w], run, rows)
  BY OffIs, IdleSure DEF Init
<1>2. \A g \in Gen, o \in Obs : rows[g][o] = 0
  BY DEF Init
<1>3. requests = {}
  BY DEF Init
<1> QED BY <1>1, <1>2, <1>3 DEF Once, StoredRightly, StoredOnce, RequestsNew

LEMMA StepOnce ==
  ASSUME Lone, Inv, Once, Clear', [Next]_vars
  PROVE  Once'
<1>1. CASE Publish \/ Advance \/ ResetRun \/ AgentForgets \/ JournalLost \/ UNCHANGED vars
  BY <1>1, OutsideOnce
<1>2. CASE Arrive \/ Crash
  BY <1>2, ArriveOnce, CrashOnce
<1>3. ASSUME NEW w \in Worker, Connect(w) \/ Stop(w) \/ StreamEnds(w) \/ IngestLost(w)
                               \/ IngestCut(w) \/ RequestFails(w) \/ DevicesFail(w)
                               \/ ReadBackFails(w) \/ AnswerLost(w)
      PROVE  Once'
  BY <1>3, ConnectOnce, StopOnce, StreamEndsOnce, IngestLostOnce, IngestCutOnce,
     RequestFailsOnce, DevicesFailOnce, ReadBackFailsOnce, AnswerLostOnce
<1>4. ASSUME NEW w \in Worker, Thread(w) PROVE Once'
  <2>1. CASE Snapshot(w) \/ OpenSession(w) \/ ReadHistory(w) \/ ReadEvent(w) \/ Heartbeat(w)
    BY <2>1, SnapshotOnce, OpenSessionOnce, ReadHistoryOnce, ReadEventOnce, HeartbeatOnce
  <2>2. CASE LoadDevices(w) \/ ReadBackBeforeSending(w) \/ ReadBackAfterSending(w)
    BY <2>2, LoadDevicesOnce, ReadBackBeforeOnce, ReadBackAfterOnce
  <2>3. CASE PrepareIngest(w) \/ SendIngest(w) \/ IngestAnswered(w) \/ IngestMalformed(w)
    BY <2>3, PrepareIngestOnce, SendIngestOnce, IngestAnsweredOnce, IngestMalformedOnce
  <2>4. CASE PostEvent(w) \/ EventsDone(w) \/ TickNotNeeded(w) \/ Tick(w)
    BY <2>4, PostEventOnce, EventsDoneOnce, TickNotNeededOnce, TickOnce
  <2> QED BY <1>4, <2>1, <2>2, <2>3, <2>4 DEF Thread
<1> QED BY <1>1, <1>2, <1>3, <1>4 DEF Next

(* A single thread stores each observation once, through any failed         *)
(* requests, crashes of the gateway, stops and reconnections, resets of the *)
(* run, malformed acknowledgements, and losses of the journal or of the     *)
(* agent's database, as long as no ingestion outlives the request for it    *)
(* and no failure was a blind one.  After a lost answer process()           *)
(* (dashboard/live/pipeline.py) asks for all devices.  Where that request   *)
(* fails too, or the answer was cut short and it does not ask, the thread   *)
(* starts over: then it knows the devices, or asks for them because it      *)
(* knows none; and before it sends what came by the history it reads back   *)
(* the readings of the devices it knows.  Blind is the case in between: it  *)
(* knows some devices, and not the one whose reading it sent.  What it sent *)
(* is then sent again, as the run pipe_cut shows.                           *)
THEOREM StoredOnceUntilDevicesMissed ==
  ASSUME Lone
  PROVE  Spec => [](used.late = 0 => StoredOnceUnlessBlind)
<1> DEFINE Steady == Inv /\ (Clear => Once)
<1>1. Init => Steady
  BY InitRight, InitOnce
<1>2. Steady /\ [Next]_vars => Steady'
  <2> SUFFICES ASSUME Steady, [Next]_vars PROVE Steady'
    OBVIOUS
  <2>1. Inv'
    BY StepRight
  <2>2. ASSUME Clear' PROVE Once'
    <3>1. Clear
      BY <2>2, ClearSoFar DEF Inv
    <3> QED BY <2>2, <3>1, StepOnce
  <2> QED BY <2>1, <2>2
<1>3. Steady => (used.late = 0 => StoredOnceUnlessBlind)
  BY DEF Once, Clear, StoredOnceUnlessBlind
<1> QED BY <1>1, <1>2, <1>3, PTL DEF Spec
=============================================================================
