-------------------------- MODULE AgentStoreProofs --------------------------
(***************************************************************************)
(* AgentStore, for any events, tasks, teams, workers, extractions, resets  *)
(* and restarts: its types, its safety properties from one inductive       *)
(* invariant, and that it implements TaskMonitor.                          *)
(***************************************************************************)
EXTENDS AgentStore, FiniteSetTheorems, TLAPS

(* What a busy worker holds: a job of the table that was really claimed,   *)
(* under a token the row has had or still has.                             *)
HeldOK == \A w \in Worker : phase[w] # "idle" =>
  /\ held[w].event \in Event
  /\ held[w].token <= HeldJob(w).attempts
  /\ held[w].token >= 1
  /\ HeldJob(w).status # "absent"

(* Only finitely many events are stored, so a new rowid is a number. *)
StoredFinite == \A g \in Gen : IsFiniteSet(Stored(g))

TypeInv == TypeOK /\ HeldOK /\ StoredFinite

LEMMA NullsTyped == NoJob \in Job /\ NoWatch \in Watch /\ NoClaim \in Claim
BY StoreAssumption DEF NoJob, Job, JobStatus, NoWatch, Watch, Assessment,
   NoClaim, Claim, Gen, Time

LEMMA InitTypeInv == Init => TypeInv
<1> SUFFICES ASSUME Init PROVE TypeInv
    OBVIOUS
<1>1. TypeOK
    BY NullsTyped, StoreAssumption DEF Init, TypeOK, Gen, Time
<1>2. HeldOK
    BY DEF Init, HeldOK
<1>3. StoredFinite
  <2> SUFFICES ASSUME NEW g \in Gen PROVE IsFiniteSet(Stored(g))
      BY DEF StoredFinite
  <2>1. Stored(g) = {}
      BY DEF Init, Stored, NoJob
  <2> QED
      BY <2>1, FS_EmptySet
<1> QED
    BY <1>1, <1>2, <1>3 DEF TypeInv

(* A step that changes one job, and never makes it absent, keeps the types *)
(* of the table and the set of stored events finite.                       *)
LEMMA JobChange ==
  ASSUME TypeInv, NEW g \in Gen, NEW e \in Event, NEW j \in Job,
         jobs' = [jobs EXCEPT ![g][e] = j]
  PROVE  /\ jobs' \in [Gen -> [Event -> Job]]
         /\ StoredFinite'
         /\ jobs'[g][e] = j
         /\ \A h \in Gen, f \in Event : <<h, f>> # <<g, e>> => jobs'[h][f] = jobs[h][f]
<1>1. jobs' \in [Gen -> [Event -> Job]]
    BY DEF TypeInv, TypeOK
<1>2. jobs'[g][e] = j
    BY DEF TypeInv, TypeOK
<1>3. \A h \in Gen, f \in Event : <<h, f>> # <<g, e>> => jobs'[h][f] = jobs[h][f]
    BY DEF TypeInv, TypeOK
<1>4. StoredFinite'
  <2> SUFFICES ASSUME NEW h \in Gen PROVE IsFiniteSet(Stored(h)')
      BY DEF StoredFinite
  <2>1. Stored(h)' \subseteq Stored(h) \cup {e}
      BY <1>3 DEF Stored
  <2>2. IsFiniteSet(Stored(h) \cup {e})
      BY FS_AddElement DEF TypeInv, StoredFinite
  <2> QED
      BY <2>1, <2>2, FS_Subset
<1> QED
    BY <1>1, <1>2, <1>3, <1>4

(* Workers keep what they hold when no job vanishes and no claim is undone. *)
LEMMA HeldKept ==
  ASSUME TypeInv, jobs' \in [Gen -> [Event -> Job]],
         \A g \in Gen, e \in Event : jobs[g][e].status # "absent" =>
           /\ jobs'[g][e].status # "absent"
           /\ jobs[g][e].attempts <= jobs'[g][e].attempts,
         \A w \in Worker : phase'[w] # "idle" => phase[w] # "idle" /\ held'[w] = held[w]
  PROVE  HeldOK'
<1> SUFFICES ASSUME NEW w \in Worker, phase'[w] # "idle"
             PROVE  /\ held[w].event \in Event
                    /\ held[w].token <= jobs'[held[w].gen][held[w].event].attempts
                    /\ held[w].token >= 1
                    /\ jobs'[held[w].gen][held[w].event].status # "absent"
    BY DEF HeldOK, HeldJob
<1>1. /\ held[w].gen \in Gen /\ held[w].event \in Event /\ held[w].token \in Nat
      /\ held[w].token <= jobs[held[w].gen][held[w].event].attempts
      /\ held[w].token >= 1
      /\ jobs[held[w].gen][held[w].event].status # "absent"
    BY DEF TypeInv, TypeOK, HeldOK, HeldJob, Claim
<1>2. /\ jobs[held[w].gen][held[w].event].attempts \in Nat
      /\ jobs'[held[w].gen][held[w].event].attempts \in Nat
    BY <1>1 DEF TypeInv, TypeOK, Job
<1> QED
    BY <1>1, <1>2

LEMMA IngestType ==
  ASSUME TypeInv, NEW e \in Event, NEW t \in Time, Ingest(e, t)
  PROVE  TypeInv'
<1> DEFINE j == [NoJob EXCEPT !.status = "pending", !.time = t,
                              !.row = Cardinality(Stored(generation))]
<1>1. generation \in Gen
    BY DEF TypeInv, TypeOK
<1>2. Cardinality(Stored(generation)) \in Nat
    BY <1>1, FS_CardinalityType DEF TypeInv, StoredFinite
<1>3. j \in Job /\ j.status # "absent"
    BY <1>2 DEF NoJob, Job, JobStatus
<1>4. jobs' = [jobs EXCEPT ![generation][e] = j]
    BY DEF Ingest
<1> HIDE DEF j
<1>5. TypeOK' /\ StoredFinite'
    BY <1>1, <1>3, <1>4, JobChange DEF Ingest, TypeInv, TypeOK
<1>6. HeldOK'
  <2>1. \A g \in Gen, f \in Event : jobs[g][f].status # "absent" =>
          jobs'[g][f] = jobs[g][f]
      BY <1>1, <1>3, <1>4, JobChange DEF Ingest
  <2>2. \A g \in Gen, f \in Event : jobs[g][f].attempts \in Nat
      BY DEF TypeInv, TypeOK, Job
  <2> QED
      BY <2>1, <2>2, <1>5, HeldKept DEF Ingest, TypeOK
<1> QED
    BY <1>5, <1>6 DEF TypeInv

LEMMA ResetType == ASSUME TypeInv, Reset PROVE TypeInv'
<1>1. generation + 1 \in Gen
    BY StoreAssumption DEF TypeInv, TypeOK, Reset, Gen
<1>2. \A j \in Job : /\ Cancel(j) \in Job
                     /\ Cancel(j).attempts = j.attempts
                     /\ Cancel(j).status = "absent" <=> j.status = "absent"
    BY DEF Cancel, Job, JobStatus
<1>3. jobs' \in [Gen -> [Event -> Job]]
    BY <1>2 DEF TypeInv, TypeOK, Reset
<1>4. \A g \in Gen, e \in Event :
        /\ jobs'[g][e].attempts = jobs[g][e].attempts
        /\ jobs'[g][e].status = "absent" <=> jobs[g][e].status = "absent"
    BY <1>2 DEF TypeInv, TypeOK, Reset
<1>5. outbox' \in [Gen -> [Task -> Seq(Publication)]]
  <2>1. \A p \in Publication : [p EXCEPT !.status = "cancelled"] \in Publication
      BY DEF Publication
  <2>2. \A s \in Seq(Publication) :
          [i \in DOMAIN s |-> [s[i] EXCEPT !.status = "cancelled"]] \in Seq(Publication)
      BY <2>1
  <2> QED
      BY <2>2 DEF TypeInv, TypeOK, Reset
<1>6. 0 \in Time
    BY StoreAssumption DEF Time
<1>7. TypeOK'
    BY <1>1, <1>3, <1>5, <1>6 DEF TypeInv, TypeOK, Reset
<1>8. StoredFinite'
    BY <1>4 DEF TypeInv, StoredFinite, Stored
<1>9. HeldOK'
  <2>1. \A g \in Gen, f \in Event : jobs[g][f].attempts \in Nat
      BY DEF TypeInv, TypeOK, Job
  <2> QED
      BY <2>1, <1>3, <1>4, HeldKept DEF Reset
<1> QED
    BY <1>7, <1>8, <1>9 DEF TypeInv

LEMMA PublishType ==
  ASSUME NEW rows \in Seq(Publication), NEW a \in Assessment, NEW s \in Seq(Event)
  PROVE  Publish(rows, a, s) \in Seq(Publication)
<1> DEFINE p == [assessment |-> a, evidence |-> s, status |-> "pending"]
<1>1. p \in Publication
    BY DEF Publication
<1>2. Append(rows, p) \in Seq(Publication)
    BY <1>1
<1> QED
    BY <1>2 DEF Publish

LEMMA TickType ==
  ASSUME TypeInv, NEW ms \in Time, Tick(ms)
  PROVE  TypeInv'
<1>1. "no_confirmation" \in Assessment
    BY DEF Assessment
<1>2. outbox' \in [Gen -> [Task -> Seq(Publication)]]
  <2>1. CASE Busy(ms)
      BY <2>1 DEF Tick, TypeInv, TypeOK
  <2>2. CASE ~Busy(ms)
    <3>1. \A t \in Task : Publish(outbox[generation][t], "no_confirmation",
                                  watches[generation][t].evidence) \in Seq(Publication)
        BY <1>1, PublishType DEF TypeInv, TypeOK, Watch
    <3>2. \A t \in Task : outbox[generation][t] \in Seq(Publication)
        BY DEF TypeInv, TypeOK
    <3> DEFINE new == [t \in Task |->
             IF t \in Overdue(ms)
               THEN Publish(outbox[generation][t], "no_confirmation",
                            watches[generation][t].evidence)
               ELSE outbox[generation][t]]
    <3>3. new \in [Task -> Seq(Publication)]
        BY <3>1, <3>2
    <3>4. outbox' = [outbox EXCEPT ![generation] = new]
        BY <2>2 DEF Tick
    <3> QED
        BY <3>3, <3>4 DEF TypeInv, TypeOK
  <2> QED
      BY <2>1, <2>2
<1>3. watches' \in [Gen -> [Task -> Watch]]
  <2>1. \A w \in Watch : NotConfirmed(w) \in Watch
      BY <1>1 DEF NotConfirmed, Watch
  <2> DEFINE new == [t \in Task |-> IF t \in Overdue(ms)
                                     THEN NotConfirmed(watches[generation][t])
                                     ELSE watches[generation][t]]
  <2>2. new \in [Task -> Watch]
      BY <2>1 DEF TypeInv, TypeOK
  <2>3. watches' = watches \/ watches' = [watches EXCEPT ![generation] = new]
      BY DEF Tick
  <2> QED
      BY <2>2, <2>3 DEF TypeInv, TypeOK
<1>4. TypeOK'
    BY <1>2, <1>3 DEF Tick, TypeInv, TypeOK
<1>5. HeldOK' /\ StoredFinite'
    BY DEF Tick, TypeInv, HeldOK, HeldJob, StoredFinite, Stored
<1> QED
    BY <1>4, <1>5 DEF TypeInv

LEMMA ClaimedType ==
  ASSUME NEW j \in Job
  PROVE  /\ Claimed(j) \in Job
         /\ Claimed(j).status = "running"
         /\ Claimed(j).attempts = j.attempts + 1
         /\ Claimed(j).leased = TRUE
         /\ Claimed(j).time = j.time
<1>1. j.attempts + 1 \in Nat
    BY DEF Job
<1> DEFINE a == [j EXCEPT !.status = "running"]
           b == [a EXCEPT !.attempts = j.attempts + 1]
           c == [b EXCEPT !.leased = TRUE]
<1>2. a \in Job /\ a.status = "running" /\ a.time = j.time
    BY DEF Job, JobStatus
<1> HIDE DEF a
<1>3. /\ b \in Job /\ b.status = "running" /\ b.time = j.time
      /\ b.attempts = j.attempts + 1
    BY <1>1, <1>2 DEF Job
<1> HIDE DEF b
<1>4. /\ c \in Job /\ c.status = "running" /\ c.time = j.time
      /\ c.attempts = j.attempts + 1 /\ c.leased = TRUE
    BY <1>3 DEF Job
<1>5. Claimed(j) = c
    BY DEF Claimed, a, b
<1> QED
    BY <1>4, <1>5

LEMMA ClaimJobType ==
  ASSUME TypeInv, NEW w \in Worker, ClaimJob(w)
  PROVE  TypeInv'
<1>1. PICK e \in Event :
        /\ Claimable(e)
        /\ jobs' = [jobs EXCEPT ![generation][e] = Claimed(jobs[generation][e])]
        /\ held' = [held EXCEPT ![w] =
             [gen |-> generation, event |-> e,
              token |-> jobs[generation][e].attempts + 1]]
    BY DEF ClaimJob
<1> DEFINE old == jobs[generation][e]
           new == Claimed(old)
<1>2. generation \in Gen /\ old \in Job
    BY DEF TypeInv, TypeOK
<1>3. /\ new \in Job /\ new.status = "running" /\ new.attempts = old.attempts + 1
      /\ old.attempts \in Nat
    BY <1>2, ClaimedType DEF Job
<1>4. jobs' = [jobs EXCEPT ![generation][e] = new]
    BY <1>1
<1>a. new \in Job
    BY <1>3
<1> HIDE DEF new
<1>5. /\ jobs' \in [Gen -> [Event -> Job]] /\ StoredFinite'
      /\ jobs'[generation][e] = new
      /\ \A g \in Gen, f \in Event :
           <<g, f>> # <<generation, e>> => jobs'[g][f] = jobs[g][f]
  <2>1. PICK g0 \in Gen, j0 \in Job : g0 = generation /\ j0 = new
      BY <1>2, <1>a
  <2>2. jobs' = [jobs EXCEPT ![g0][e] = j0]
      BY <1>4, <2>1
  <2>3. /\ jobs' \in [Gen -> [Event -> Job]] /\ StoredFinite'
        /\ jobs'[g0][e] = j0
        /\ \A g \in Gen, f \in Event :
             <<g, f>> # <<g0, e>> => jobs'[g][f] = jobs[g][f]
      BY ZenonT(30), <2>2, JobChange
  <2> QED
      BY <2>1, <2>3
<1>6. held' \in [Worker -> Claim]
    BY <1>1, <1>2, <1>3 DEF TypeInv, TypeOK, Claim
<1>7. TypeOK'
    BY <1>5, <1>6 DEF ClaimJob, TypeInv, TypeOK
<1>8. HeldOK'
  <2> SUFFICES ASSUME NEW v \in Worker, phase'[v] # "idle"
               PROVE  /\ held'[v].event \in Event
                      /\ held'[v].token <= jobs'[held'[v].gen][held'[v].event].attempts
                      /\ held'[v].token >= 1
                      /\ jobs'[held'[v].gen][held'[v].event].status # "absent"
      BY DEF HeldOK, HeldJob
  <2>1. CASE v = w
    <3>1. held'[v] = [gen |-> generation, event |-> e, token |-> old.attempts + 1]
        BY <1>1, <2>1 DEF TypeInv, TypeOK
    <3> QED
        BY <3>1, <1>3, <1>5
  <2>2. CASE v # w
    <3>1. held'[v] = held[v] /\ phase[v] # "idle"
        BY <1>1, <2>2 DEF ClaimJob, TypeInv, TypeOK
    <3>2. /\ held[v].gen \in Gen /\ held[v].event \in Event /\ held[v].token \in Nat
          /\ held[v].token <= jobs[held[v].gen][held[v].event].attempts
          /\ held[v].token >= 1
          /\ jobs[held[v].gen][held[v].event].status # "absent"
        BY <3>1 DEF TypeInv, TypeOK, HeldOK, HeldJob, Claim
    <3>3. CASE <<held[v].gen, held[v].event>> = <<generation, e>>
        BY <3>1, <3>2, <3>3, <1>3, <1>5
    <3>4. CASE <<held[v].gen, held[v].event>> # <<generation, e>>
        BY <3>1, <3>2, <3>4, <1>5
    <3> QED
        BY <3>3, <3>4
  <2> QED
      BY <2>1, <2>2
<1> QED
    BY <1>5, <1>7, <1>8 DEF TypeInv

(* A job changes its status or its lease, not its attempts. *)
LEMMA StatusChange ==
  ASSUME TypeInv, NEW g \in Gen, NEW e \in Event, NEW j \in Job,
         jobs' = [jobs EXCEPT ![g][e] = j],
         jobs[g][e].status # "absent", j.status # "absent",
         j.attempts = jobs[g][e].attempts,
         \A w \in Worker : phase'[w] # "idle" => phase[w] # "idle" /\ held'[w] = held[w]
  PROVE  /\ jobs' \in [Gen -> [Event -> Job]]
         /\ StoredFinite'
         /\ HeldOK'
<1>1. /\ jobs' \in [Gen -> [Event -> Job]]
      /\ StoredFinite'
      /\ jobs'[g][e] = j
      /\ \A h \in Gen, f \in Event : <<h, f>> # <<g, e>> => jobs'[h][f] = jobs[h][f]
    BY ZenonT(30), JobChange
<1>2. \A h \in Gen, f \in Event : jobs[h][f].attempts \in Nat
    BY DEF TypeInv, TypeOK, Job
<1>3. \A h \in Gen, f \in Event : jobs[h][f].status # "absent" =>
        /\ jobs'[h][f].status # "absent"
        /\ jobs[h][f].attempts <= jobs'[h][f].attempts
    BY <1>1, <1>2
<1> QED
    BY <1>1, <1>3, HeldKept

LEMMA AssessType ==
  ASSUME NEW a \in TaskActions, NEW old \in Assessment
  PROVE  Assess(old, a) \in Assessment \ {"absent", "no_confirmation"}
BY DEF Assess, TaskActions, Assessment, Terminal

LEMMA AddEvidenceType ==
  ASSUME NEW s \in Seq(Event), NEW e \in Event
  PROVE  AddEvidence(s, e) \in Seq(Event)
BY DEF AddEvidence

LEMMA NewWatchType ==
  ASSUME NEW old \in Watch, NEW e \in Event, NEW ms \in Time,
         NEW x \in Extraction, x.action \in TaskActions
  PROVE  NewWatch(old, e, ms, x) \in Watch
<1>1. /\ old.assessment \in Assessment /\ old.team \in Team \cup {NoTeam}
      /\ old.due \in Nat /\ old.evidence \in Seq(Event) /\ old.published \in BOOLEAN
    BY DEF Watch
<1>2. Assess(old.assessment, x.action) \in Assessment
    BY <1>1, AssessType
<1>3. AddEvidence(old.evidence, e) \in Seq(Event)
    BY <1>1, AddEvidenceType
<1>4. ms + WatchTimeout \in Nat
    BY StoreAssumption DEF Time
<1>5. x.team \in Team \cup {NoTeam}
    BY DEF Extraction
<1> QED
    BY <1>1, <1>2, <1>3, <1>4, <1>5 DEF NewWatch, Watch

LEMMA RecordReportType ==
  ASSUME TypeInv, NEW e \in Event, NEW x \in Extraction, x.action \in TaskActions,
         RecordReport(e, x)
  PROVE  /\ watches' \in [Gen -> [Task -> Watch]]
         /\ outbox' \in [Gen -> [Task -> Seq(Publication)]]
<1> DEFINE ms == jobs[generation][e].time
           old == watches[generation][x.task]
           new == NewWatch(old, e, ms, x)
<1>1. generation \in Gen /\ ms \in Time
    BY DEF TypeInv, TypeOK, Job
<1>2. CASE ~(x.task # NoTask /\ Supersedes(ms, old))
    BY <1>2 DEF RecordReport, TypeInv, TypeOK
<1>3. CASE x.task # NoTask /\ Supersedes(ms, old)
  <2>1. x.task \in Task
      BY <1>3 DEF Extraction
  <2>2. old \in Watch
      BY <1>1, <2>1 DEF TypeInv, TypeOK
  <2>3. new \in Watch
      BY <1>1, <2>2, NewWatchType
  <2>4. /\ watches' = [watches EXCEPT ![generation][x.task] = new]
        /\ outbox' = IF old.published
                       THEN [outbox EXCEPT ![generation][x.task] =
                               Publish(outbox[generation][x.task], new.assessment, new.evidence)]
                       ELSE outbox
      BY <1>3 DEF RecordReport
  <2> HIDE DEF new
  <2>5. watches' \in [Gen -> [Task -> Watch]]
      BY <2>3, <2>4 DEF TypeInv, TypeOK
  <2>6. Publish(outbox[generation][x.task], new.assessment, new.evidence)
          \in Seq(Publication)
    <3>1. outbox[generation][x.task] \in Seq(Publication)
        BY <1>1, <2>1 DEF TypeInv, TypeOK
    <3>2. new.assessment \in Assessment /\ new.evidence \in Seq(Event)
        BY <2>3 DEF Watch
    <3> QED
        BY <3>1, <3>2, PublishType
  <2>7. outbox' \in [Gen -> [Task -> Seq(Publication)]]
      BY <2>4, <2>6 DEF TypeInv, TypeOK
  <2> QED
      BY <2>5, <2>7
<1> QED
    BY <1>2, <1>3

(* What is known of the job a busy worker holds. *)
LEMMA HeldJobType ==
  ASSUME TypeInv, NEW w \in Worker, phase[w] # "idle"
  PROVE  /\ held[w].gen \in Gen /\ held[w].event \in Event /\ held[w].token \in Nat
         /\ HeldJob(w) \in Job
         /\ HeldJob(w).status # "absent"
         /\ held[w].token <= HeldJob(w).attempts
BY DEF TypeInv, TypeOK, HeldOK, HeldJob, Claim

LEMMA SetStatus ==
  ASSUME NEW j \in Job, NEW s \in JobStatus
  PROVE  /\ [j EXCEPT !.status = s] \in Job
         /\ [j EXCEPT !.status = s].status = s
         /\ [j EXCEPT !.status = s].attempts = j.attempts
         /\ [j EXCEPT !.status = s].leased = j.leased
         /\ [j EXCEPT !.status = s].time = j.time
BY DEF Job

LEMMA ReleaseType ==
  ASSUME TypeInv, NEW w \in Worker, Release(w)
  PROVE  /\ held' \in [Worker -> Claim]
         /\ phase' \in [Worker -> {"idle", "working", "failing"}]
         /\ \A v \in Worker : phase'[v] # "idle" => phase[v] # "idle" /\ held'[v] = held[v]
BY NullsTyped DEF Release, TypeInv, TypeOK

LEMMA FinishType ==
  ASSUME TypeInv, NEW w \in Worker, NEW x \in Extractions, Finish(w, x)
  PROVE  TypeInv'
<1> DEFINE e == held[w].event
           j == [HeldJob(w) EXCEPT !.status = "done"]
<1>1. x \in Extraction
    BY StoreAssumption
<1>2. /\ generation \in Gen /\ held[w].gen = generation /\ e \in Event
      /\ HeldJob(w) \in Job /\ HeldJob(w).status # "absent"
    BY HeldJobType DEF Finish, TypeInv, TypeOK
<1>3. /\ watches' \in [Gen -> [Task -> Watch]]
      /\ outbox' \in [Gen -> [Task -> Seq(Publication)]]
      /\ channelFacts' \in [Gen -> SUBSET Event]
  <2>1. CASE x.action \in TaskActions /\ RecordReport(e, x) /\ UNCHANGED channelFacts
      BY <1>1, <1>2, <2>1, RecordReportType DEF TypeInv, TypeOK
  <2>2. CASE channelFacts' = [channelFacts EXCEPT ![generation] = @ \cup {e}]
             /\ UNCHANGED <<watches, outbox>>
      BY <1>2, <2>2 DEF TypeInv, TypeOK
  <2>3. CASE UNCHANGED <<watches, outbox, channelFacts>>
      BY <2>3 DEF TypeInv, TypeOK
  <2> QED
      BY <2>1, <2>2, <2>3 DEF Finish
<1>4. j \in Job /\ j.status = "done" /\ j.attempts = HeldJob(w).attempts
    BY <1>2, SetStatus DEF JobStatus
<1>5. jobs' = [jobs EXCEPT ![generation][e] = j]
    BY <1>2 DEF Finish, HeldJob, TypeInv, TypeOK
<1>6. jobs[generation][e] = HeldJob(w)
    BY <1>2 DEF HeldJob
<1> HIDE DEF j
<1>7. Release(w)
    BY DEF Finish
<1>8. jobs' \in [Gen -> [Event -> Job]] /\ StoredFinite' /\ HeldOK'
    BY <1>2, <1>4, <1>5, <1>6, <1>7, ReleaseType, StatusChange
<1>9. TypeOK'
    BY <1>3, <1>7, <1>8, ReleaseType DEF Finish, TypeInv, TypeOK
<1> QED
    BY <1>8, <1>9 DEF TypeInv

LEMMA FailJobType ==
  ASSUME TypeInv, NEW w \in Worker, FailJob(w)
  PROVE  TypeInv'
<1> DEFINE s == IF HeldJob(w).attempts >= 3 THEN "failed" ELSE "pending"
           j == [HeldJob(w) EXCEPT !.status = s]
<1>1. /\ held[w].gen \in Gen /\ held[w].event \in Event
      /\ HeldJob(w) \in Job /\ HeldJob(w).status # "absent"
    BY HeldJobType DEF FailJob
<1>2. s \in JobStatus /\ s # "absent"
    BY DEF JobStatus
<1> HIDE DEF s
<1>3. j \in Job /\ j.status = s /\ j.attempts = HeldJob(w).attempts
    BY <1>1, <1>2, SetStatus
<1>4. jobs[held[w].gen][held[w].event] = HeldJob(w)
    BY DEF HeldJob
<1>5. jobs' = [jobs EXCEPT ![held[w].gen][held[w].event] = j] \/ jobs' = jobs
    BY <1>1, <1>4 DEF FailJob, s, TypeInv, TypeOK
<1> HIDE DEF j
<1>6. Release(w)
    BY DEF FailJob
<1>7. jobs' \in [Gen -> [Event -> Job]] /\ StoredFinite' /\ HeldOK'
  <2>1. CASE jobs' = jobs
    <3>1. \A g \in Gen, f \in Event : jobs[g][f].attempts \in Nat
        BY DEF TypeInv, TypeOK, Job
    <3>2. jobs' \in [Gen -> [Event -> Job]]
        BY <2>1 DEF TypeInv, TypeOK
    <3> QED
        BY <1>6, <2>1, <3>1, <3>2, ReleaseType, HeldKept DEF TypeInv, StoredFinite, Stored
  <2>2. CASE jobs' = [jobs EXCEPT ![held[w].gen][held[w].event] = j]
    <3>1. /\ jobs[held[w].gen][held[w].event].status # "absent" /\ j.status # "absent"
          /\ j.attempts = jobs[held[w].gen][held[w].event].attempts
        BY <1>1, <1>2, <1>3, <1>4
    <3>2. \A v \in Worker : phase'[v] # "idle" => phase[v] # "idle" /\ held'[v] = held[v]
        BY <1>6, ReleaseType
    <3>3. held[w].gen \in Gen /\ held[w].event \in Event /\ j \in Job
        BY <1>1, <1>3
    <3> QED
        BY <2>2, <3>1, <3>2, <3>3, StatusChange
  <2> QED
      BY <1>5, <2>1, <2>2
<1>8. TypeOK'
    BY <1>6, <1>7, ReleaseType DEF FailJob, TypeInv, TypeOK
<1> QED
    BY <1>7, <1>8 DEF TypeInv

LEMMA ExpireLeaseType ==
  ASSUME TypeInv, NEW g \in Gen, NEW e \in Event, ExpireLease(g, e)
  PROVE  TypeInv'
<1> DEFINE j == [jobs[g][e] EXCEPT !.leased = FALSE]
<1>1. /\ j \in Job /\ j.status = jobs[g][e].status /\ j.status = "running"
      /\ j.attempts = jobs[g][e].attempts
  <2>1. jobs[g][e] \in Job
      BY DEF TypeInv, TypeOK
  <2> QED
      BY <2>1 DEF ExpireLease, Job
<1>2. jobs' = [jobs EXCEPT ![g][e] = j]
    BY DEF ExpireLease, TypeInv, TypeOK
<1> HIDE DEF j
<1>3. jobs' \in [Gen -> [Event -> Job]] /\ StoredFinite' /\ HeldOK'
    BY <1>1, <1>2, StatusChange DEF ExpireLease
<1>4. TypeOK'
    BY <1>3 DEF ExpireLease, TypeInv, TypeOK
<1> QED
    BY <1>3, <1>4 DEF TypeInv

(* The steps that leave the database alone. *)
LEMMA LocalType ==
  ASSUME TypeInv,
         (\E w \in Worker : \/ \E x \in Extractions : RefuseResult(w, x)
                            \/ EngineFails(w) \/ DropObsolete(w))
         \/ Restart
  PROVE  TypeInv'
<1>1. UNCHANGED durable
    BY DEF RefuseResult, EngineFails, DropObsolete, Restart
<1>2. restarts' \in 0..MaxRestarts
    BY StoreAssumption DEF RefuseResult, EngineFails, DropObsolete, Restart, TypeInv, TypeOK
<1>3. /\ held' \in [Worker -> Claim]
      /\ phase' \in [Worker -> {"idle", "working", "failing"}]
      /\ \A v \in Worker : phase'[v] # "idle" => phase[v] # "idle" /\ held'[v] = held[v]
  <2>1. CASE Restart
      BY <2>1, NullsTyped DEF Restart
  <2>2. CASE \E w \in Worker : DropObsolete(w)
      BY <2>2, ReleaseType DEF DropObsolete
  <2>3. CASE \E w \in Worker : EngineFails(w) \/ \E x \in Extractions : RefuseResult(w, x)
      BY <2>3 DEF EngineFails, RefuseResult, TypeInv, TypeOK
  <2> QED
      BY <2>1, <2>2, <2>3
<1>4. TypeOK'
    BY <1>1, <1>2, <1>3 DEF durable, TypeInv, TypeOK
<1>5. StoredFinite'
    BY <1>1 DEF durable, TypeInv, StoredFinite, Stored
<1>6. HeldOK'
  <2>1. \A g \in Gen, f \in Event : jobs[g][f].attempts \in Nat
      BY DEF TypeInv, TypeOK, Job
  <2> QED
      BY <1>1, <1>3, <1>4, <2>1, HeldKept DEF durable, TypeOK
<1> QED
    BY <1>4, <1>5, <1>6 DEF TypeInv

LEMMA NextTypeInv == TypeInv /\ [Next]_vars => TypeInv'
<1> SUFFICES ASSUME TypeInv, [Next]_vars PROVE TypeInv'
    OBVIOUS
<1>1. CASE \E e \in Event, t \in Time : Ingest(e, t)
    BY <1>1, IngestType
<1>2. CASE Reset
    BY <1>2, ResetType
<1>3. CASE \E ms \in Time : Tick(ms)
    BY <1>3, TickType
<1>4. ASSUME NEW w \in Worker, WorkerStep(w) PROVE TypeInv'
  <2>1. CASE ClaimJob(w)
      BY <2>1, ClaimJobType
  <2>2. CASE \E x \in Extractions : Finish(w, x)
      BY <2>2, FinishType
  <2>3. CASE (\E x \in Extractions : RefuseResult(w, x)) \/ EngineFails(w) \/ DropObsolete(w)
      BY <2>3, LocalType
  <2>4. CASE FailJob(w)
      BY <2>4, FailJobType
  <2> QED
      BY <1>4, <2>1, <2>2, <2>3, <2>4 DEF WorkerStep
<1>5. CASE \E g \in Gen, e \in Event : ExpireLease(g, e)
    BY <1>5, ExpireLeaseType
<1>6. CASE Restart
    BY <1>6, LocalType
<1>7. CASE UNCHANGED vars
    BY <1>7 DEF vars, TypeInv, TypeOK, HeldOK, HeldJob, StoredFinite, Stored
<1> QED
    BY <1>1, <1>2, <1>3, <1>4, <1>5, <1>6, <1>7 DEF Next

(* The tables and the workers' memory always have their types. *)
THEOREM TypeCorrect == Spec => []TypeOK
<1>1. Spec => []TypeInv
    BY InitTypeInv, NextTypeInv, PTL DEF Spec
<1>2. TypeInv => TypeOK
    BY DEF TypeInv
<1> QED
    BY <1>1, <1>2, PTL

-----------------------------------------------------------------------------
(* Safety: an inductive invariant of five parts on top of the types         *)

(* Two workers never hold the same claim. *)
TokensDiffer == \A v, w \in Worker :
  /\ v # w
  /\ phase[v] # "idle" /\ phase[w] # "idle"
  /\ held[v].gen = held[w].gen /\ held[v].event = held[w].event
  => held[v].token # held[w].token

(* Nothing is stored yet for a generation to come, nothing of the current  *)
(* one is cancelled, and what was claimed in it the clock had reached.     *)
GenerationsApart ==
  /\ \A g \in Gen : g > generation =>
       /\ \A e \in Event : jobs[g][e] = NoJob
       /\ \A t \in Task : watches[g][t] = NoWatch /\ outbox[g][t] = <<>>
  /\ \A e \in Event :
       /\ jobs[generation][e].status # "cancelled"
       /\ jobs[generation][e].status \in {"running", "done", "failed"}
            => jobs[generation][e].time <= clock

(* A task without a watch has no evidence and was not published. *)
AbsentBlank == \A g \in Gen, t \in Task :
  watches[g][t].assessment = "absent" =>
    watches[g][t].evidence = <<>> /\ watches[g][t].published = FALSE

(* No row of the outbox knows more than its watch, and a row with the      *)
(* evidence of now says no_confirmation only if the watch does.            *)
RowsBehind == \A g \in Gen, t \in Task : \A i \in DOMAIN outbox[g][t] :
  /\ Len(outbox[g][t][i].evidence) <= Len(watches[g][t].evidence)
  /\ outbox[g][t][i].evidence = watches[g][t].evidence
       /\ outbox[g][t][i].assessment = "no_confirmation"
     => watches[g][t].assessment = "no_confirmation"

Inv == /\ TypeInv /\ TokensDiffer /\ ObsoleteWorkCancelled /\ GenerationsApart
       /\ AbsentBlank /\ EvidenceTrail /\ RowsBehind /\ OutboxTracksWatch

-----------------------------------------------------------------------------
LEMMA InitInv == Init => Inv
<1> SUFFICES ASSUME Init PROVE Inv
    OBVIOUS
<1>1. TypeInv
    BY InitTypeInv
<1>2. TokensDiffer
    BY DEF Init, TokensDiffer
<1>3. ObsoleteWorkCancelled
    BY StoreAssumption DEF Init, ObsoleteWorkCancelled, Gen
<1>4. GenerationsApart
    BY StoreAssumption DEF Init, GenerationsApart, Gen, NoJob
<1>5. AbsentBlank /\ EvidenceTrail /\ RowsBehind /\ OutboxTracksWatch
    BY DEF Init, AbsentBlank, EvidenceTrail, RowsBehind, OutboxTracksWatch, NoWatch
<1> QED
    BY <1>1, <1>2, <1>3, <1>4, <1>5 DEF Inv

-----------------------------------------------------------------------------
(* Claims *)

LEMMA NextTokensDiffer == TypeInv /\ TokensDiffer /\ [Next]_vars => TokensDiffer'
<1> SUFFICES ASSUME TypeInv, TokensDiffer, [Next]_vars PROVE TokensDiffer'
    OBVIOUS
<1>1. ASSUME NEW w \in Worker, ClaimJob(w) PROVE TokensDiffer'
  <2>1. PICK e \in Event : held' = [held EXCEPT ![w] =
             [gen |-> generation, event |-> e,
              token |-> jobs[generation][e].attempts + 1]]
      BY <1>1 DEF ClaimJob
  <2>2. \A u \in Worker : phase[u] # "idle" =>
          /\ held[u].token <= jobs[held[u].gen][held[u].event].attempts
          /\ held[u].token \in Nat
          /\ jobs[held[u].gen][held[u].event].attempts \in Nat
      BY HeldJobType DEF HeldJob, Job
  <2>3. \A u \in Worker : u # w => held'[u] = held[u] /\ phase'[u] = phase[u]
      BY <1>1, <2>1 DEF ClaimJob, TypeInv, TypeOK
  <2>4. held'[w] = [gen |-> generation, event |-> e,
                    token |-> jobs[generation][e].attempts + 1]
      BY <2>1 DEF TypeInv, TypeOK
  <2>5. \A u \in Worker : u # w /\ phase'[u] # "idle"
          /\ held'[u].gen = held'[w].gen /\ held'[u].event = held'[w].event
          => held'[u].token # held'[w].token
      BY <2>2, <2>3, <2>4
  <2> QED
      BY <2>3, <2>5 DEF TokensDiffer
<1>2. ASSUME \A u \in Worker : phase'[u] # "idle" => phase[u] # "idle" /\ held'[u] = held[u]
      PROVE  TokensDiffer'
    BY <1>2 DEF TokensDiffer
<1>3. ASSUME NEW w \in Worker, WorkerStep(w) PROVE TokensDiffer'
  <2>1. CASE \/ \E x \in Extractions : Finish(w, x)
             \/ DropObsolete(w) \/ FailJob(w)
      BY <2>1, <1>2, ReleaseType DEF Finish, DropObsolete, FailJob
  <2>2. CASE (\E x \in Extractions : RefuseResult(w, x)) \/ EngineFails(w)
      BY <2>2, <1>2 DEF RefuseResult, EngineFails, TypeInv, TypeOK
  <2> QED
      BY <1>1, <1>3, <2>1, <2>2 DEF WorkerStep
<1>4. CASE Restart
    BY <1>4, <1>2 DEF Restart
<1>5. CASE UNCHANGED <<held, phase>>
    BY <1>5, <1>2
<1>6. CASE ~(\E w \in Worker : WorkerStep(w)) /\ ~Restart
    BY <1>6, <1>5 DEF Next, Ingest, Reset, Tick, ExpireLease, vars
<1> QED
    BY <1>3, <1>4, <1>6

(* At most one worker can still commit or fail a job. *)
LEMMA OneOwnerHolds == TypeInv /\ TokensDiffer => OneOwner
<1> SUFFICES ASSUME TypeInv, TokensDiffer, NEW v \in Worker, NEW w \in Worker,
                    v # w, phase[v] # "idle", phase[w] # "idle",
                    held[v].gen = held[w].gen, held[v].event = held[w].event,
                    OwnsJob(v), OwnsJob(w)
             PROVE  FALSE
    BY DEF OneOwner
<1> QED
    BY DEF TokensDiffer, OwnsJob, HeldJob

-----------------------------------------------------------------------------
(* What one step other than a reset does to the tables                     *)

JobMove(g, e) ==
  \/ jobs'[g][e] = jobs[g][e]
  \/ /\ g = generation
     /\ jobs[g][e].status = "absent" /\ jobs'[g][e].status = "pending"
  \/ /\ g = generation
     /\ jobs[g][e].status \in {"pending", "running"} /\ jobs[g][e].time <= clock
     /\ jobs'[g][e].status = "running" /\ jobs'[g][e].time = jobs[g][e].time
  \/ /\ jobs[g][e].status = "running"
     /\ jobs'[g][e].status \in {"running", "pending", "failed", "done"}
     /\ jobs'[g][e].time = jobs[g][e].time

LEMMA JobSteps ==
  ASSUME TypeInv, [Next]_vars, ~Reset
  PROVE  /\ generation' = generation
         /\ clock' \in Time /\ clock <= clock'
         /\ \A g \in Gen, e \in Event : JobMove(g, e)
<1> USE DEF JobMove
<1>1. generation \in Gen /\ clock \in Time
    BY DEF TypeInv, TypeOK
<1>2. clock <= clock
    BY <1>1, StoreAssumption DEF Time
<1>3. CASE UNCHANGED <<generation, clock, jobs>>
    BY <1>1, <1>2, <1>3
<1>4. ASSUME NEW e \in Event, NEW t \in Time, Ingest(e, t)
      PROVE  /\ UNCHANGED <<generation, clock>>
             /\ \A h \in Gen, f \in Event : JobMove(h, f)
  <2> DEFINE j == [NoJob EXCEPT !.status = "pending", !.time = t,
                                !.row = Cardinality(Stored(generation))]
  <2>1. j.status = "pending"
      BY DEF NoJob
  <2>2. jobs' = [jobs EXCEPT ![generation][e] = j] /\ jobs[generation][e].status = "absent"
      BY <1>4 DEF Ingest
  <2> HIDE DEF j
  <2> QED
      BY <1>1, <1>4, <2>1, <2>2 DEF Ingest, TypeInv, TypeOK
<1>5. ASSUME NEW w \in Worker, ClaimJob(w)
      PROVE  /\ UNCHANGED <<generation, clock>>
             /\ \A h \in Gen, f \in Event : JobMove(h, f)
  <2>1. PICK e \in Event : Claimable(e) /\
          jobs' = [jobs EXCEPT ![generation][e] = Claimed(jobs[generation][e])]
      BY <1>5 DEF ClaimJob
  <2>2. /\ Claimed(jobs[generation][e]).status = "running"
        /\ Claimed(jobs[generation][e]).time = jobs[generation][e].time
      BY ZenonT(30), <1>1, ClaimedType DEF TypeInv, TypeOK
  <2> QED
      BY <1>1, <1>5, <2>1, <2>2 DEF ClaimJob, Claimable, TypeInv, TypeOK
<1>6. ASSUME NEW w \in Worker, NEW x \in Extractions, Finish(w, x)
      PROVE  /\ UNCHANGED <<generation, clock>>
             /\ \A h \in Gen, f \in Event : JobMove(h, f)
  <2>1. phase[w] # "idle" /\ held[w].gen = generation
      BY <1>6 DEF Finish
  <2>2. held[w].event \in Event /\ HeldJob(w) \in Job /\ HeldJob(w) = jobs[generation][held[w].event]
      BY <2>1, HeldJobType DEF HeldJob
  <2> DEFINE j == [HeldJob(w) EXCEPT !.status = "done"]
  <2>3. j.status = "done" /\ j.time = HeldJob(w).time
      BY <2>2, SetStatus DEF JobStatus
  <2>4. jobs' = [jobs EXCEPT ![generation][held[w].event] = j]
      BY <1>1, <1>6, <2>2 DEF Finish, TypeInv, TypeOK
  <2>5. HeldJob(w).status = "running"
      BY <1>6 DEF Finish, Active, OwnsJob
  <2> HIDE DEF j
  <2> QED
      BY <1>1, <1>6, <2>2, <2>3, <2>4, <2>5 DEF Finish, TypeInv, TypeOK
<1>7. ASSUME NEW w \in Worker, FailJob(w)
      PROVE  /\ UNCHANGED <<generation, clock>>
             /\ \A h \in Gen, f \in Event : JobMove(h, f)
  <2>1. phase[w] # "idle"
      BY <1>7 DEF FailJob
  <2>2. /\ held[w].gen \in Gen /\ held[w].event \in Event /\ HeldJob(w) \in Job
        /\ HeldJob(w) = jobs[held[w].gen][held[w].event]
      BY <2>1, HeldJobType DEF HeldJob
  <2> DEFINE s == IF HeldJob(w).attempts >= 3 THEN "failed" ELSE "pending"
             j == [HeldJob(w) EXCEPT !.status = s]
  <2>3. j.status \in {"failed", "pending"} /\ j.time = HeldJob(w).time
      BY <2>2, SetStatus DEF JobStatus
  <2>4. CASE ~OwnsJob(w)
      BY <1>7, <2>4 DEF FailJob
  <2>5. CASE OwnsJob(w)
    <3>1. jobs' = [jobs EXCEPT ![held[w].gen][held[w].event] = j]
        BY <1>7, <2>2, <2>5 DEF FailJob, TypeInv, TypeOK
    <3>2. HeldJob(w).status = "running"
        BY <2>5 DEF OwnsJob
    <3> HIDE DEF j, s
    <3>3. \A h \in Gen, f \in Event :
            jobs'[h][f] = IF h = held[w].gen /\ f = held[w].event THEN j ELSE jobs[h][f]
        BY <2>2, <3>1 DEF TypeInv, TypeOK
    <3>4. JobMove(held[w].gen, held[w].event)
        BY <2>2, <2>3, <3>2, <3>3
    <3>5. \A h \in Gen, f \in Event : JobMove(h, f)
        BY <3>3, <3>4
    <3> QED
        BY <1>7, <3>5 DEF FailJob
  <2> QED
      BY <2>4, <2>5
<1>8. ASSUME NEW g \in Gen, NEW e \in Event, ExpireLease(g, e)
      PROVE  /\ UNCHANGED <<generation, clock>>
             /\ \A h \in Gen, f \in Event : JobMove(h, f)
  <2> DEFINE j == [jobs[g][e] EXCEPT !.leased = FALSE]
  <2>1. jobs[g][e] \in Job
      BY DEF TypeInv, TypeOK
  <2>2. j.status = jobs[g][e].status /\ j.time = jobs[g][e].time
      BY <2>1 DEF Job
  <2>3. jobs' = [jobs EXCEPT ![g][e] = j]
      BY <1>8 DEF ExpireLease, TypeInv, TypeOK
  <2> HIDE DEF j
  <2> QED
      BY <1>8, <2>2, <2>3 DEF ExpireLease, TypeInv, TypeOK
<1>9. CASE \E ms \in Time : Tick(ms)
    BY <1>1, <1>9, StoreAssumption DEF Tick, Time
<1>10. CASE \/ Restart \/ UNCHANGED vars
            \/ \E w \in Worker : \/ \E x \in Extractions : RefuseResult(w, x)
                                 \/ EngineFails(w) \/ DropObsolete(w)
    BY <1>3, <1>10 DEF Restart, vars, RefuseResult, EngineFails, DropObsolete, durable
<1> QED
    BY <1>1, <1>2, <1>4, <1>5, <1>6, <1>7, <1>8, <1>9, <1>10 DEF Next, WorkerStep

(* Only the current generation's conclusions change. *)
LEMMA OtherGenerations ==
  ASSUME TypeInv, [Next]_vars, ~Reset, NEW g \in Gen, g # generation
  PROVE  watches'[g] = watches[g] /\ outbox'[g] = outbox[g] /\ channelFacts'[g] = channelFacts[g]
<1>1. generation \in Gen
    BY DEF TypeInv, TypeOK
<1>2. CASE UNCHANGED <<watches, outbox, channelFacts>>
    BY <1>2
<1>3. CASE \E ms \in Time : Tick(ms)
    BY <1>1, <1>3 DEF Tick, TypeInv, TypeOK
<1>4. CASE \E w \in Worker, x \in Extractions : Finish(w, x)
    BY <1>1, <1>4 DEF Finish, RecordReport, TypeInv, TypeOK
<1>5. CASE ~(\E ms \in Time : Tick(ms)) /\ ~(\E w \in Worker, x \in Extractions : Finish(w, x))
    BY <1>2, <1>5 DEF Next, WorkerStep, Ingest, ClaimJob, RefuseResult, EngineFails,
       DropObsolete, FailJob, ExpireLease, Restart, durable, vars
<1> QED
    BY <1>3, <1>4, <1>5

ReportMove(t, e, x) ==
  LET old == watches[generation][t]
      ms  == jobs[generation][e].time
      new == NewWatch(old, e, ms, x)
  IN  /\ x.action \in TaskActions /\ x.task = t /\ ~TeamConflict(x)
      /\ jobs[generation][e].status = "running" /\ jobs'[generation][e].status = "done"
      /\ Supersedes(ms, old)
      /\ watches'[generation][t] = new
      /\ outbox'[generation][t] =
           IF old.published
             THEN Publish(outbox[generation][t], new.assessment, new.evidence)
             ELSE outbox[generation][t]
      /\ \A u \in Task \ {t} : /\ watches'[generation][u] = watches[generation][u]
                               /\ outbox'[generation][u] = outbox[generation][u]

AbsenceMove(t) ==
  /\ watches[generation][t].assessment \in Awaiting
  /\ ~Busy(clock')
  /\ watches'[generation][t] = NotConfirmed(watches[generation][t])
  /\ outbox'[generation][t] = Publish(outbox[generation][t], "no_confirmation",
                                      watches[generation][t].evidence)

(* What one step other than a reset concludes about the current tasks. *)
LEMMA WatchSteps ==
  ASSUME TypeInv, [Next]_vars, ~Reset
  PROVE  \/ UNCHANGED <<watches, outbox>>
         \/ \E t \in Task, e \in Event, x \in Extraction : ReportMove(t, e, x)
         \/ /\ jobs' = jobs
            /\ \A t \in Task : \/ AbsenceMove(t)
                               \/ /\ watches'[generation][t] = watches[generation][t]
                                  /\ outbox'[generation][t] = outbox[generation][t]
<1>1. generation \in Gen /\ clock \in Time
    BY DEF TypeInv, TypeOK
<1>2. ASSUME NEW ms \in Time, Tick(ms), ~Busy(ms), NEW t \in Task
      PROVE  \/ AbsenceMove(t)
             \/ /\ watches'[generation][t] = watches[generation][t]
                /\ outbox'[generation][t] = outbox[generation][t]
  <2>1. /\ watches'[generation][t] = IF t \in Overdue(ms)
               THEN NotConfirmed(watches[generation][t]) ELSE watches[generation][t]
        /\ outbox'[generation][t] = IF t \in Overdue(ms)
               THEN Publish(outbox[generation][t], "no_confirmation",
                            watches[generation][t].evidence)
               ELSE outbox[generation][t]
      BY <1>1, <1>2 DEF Tick, TypeInv, TypeOK
  <2>2. clock' = ms
      BY <1>2 DEF Tick
  <2> QED
      BY <1>2, <2>1, <2>2 DEF AbsenceMove, Overdue
<1>3. ASSUME NEW ms \in Time, Tick(ms)
      PROVE  \/ UNCHANGED <<watches, outbox>>
             \/ /\ jobs' = jobs
                /\ \A t \in Task : \/ AbsenceMove(t)
                                   \/ /\ watches'[generation][t] = watches[generation][t]
                                      /\ outbox'[generation][t] = outbox[generation][t]
    BY <1>2, <1>3 DEF Tick
<1>4. ASSUME NEW w \in Worker, NEW x \in Extractions, Finish(w, x)
      PROVE  \/ UNCHANGED <<watches, outbox>>
             \/ \E t \in Task, e \in Event : ReportMove(t, e, x)
  <2> DEFINE e == held[w].event
             ms == jobs[generation][e].time
             t == x.task
             old == watches[generation][t]
             new == NewWatch(old, e, ms, x)
  <2>1. CASE UNCHANGED <<watches, outbox>>
      BY <2>1
  <2>2. CASE /\ x.action \in TaskActions /\ t # NoTask /\ Supersedes(ms, old)
             /\ RecordReport(e, x)
    <3>1. /\ held[w].gen = generation /\ e \in Event /\ HeldJob(w) = jobs[generation][e]
          /\ HeldJob(w) \in Job
        BY <1>4, HeldJobType DEF Finish, HeldJob
    <3>2. jobs[generation][e].status = "running"
        BY <1>4, <3>1 DEF Finish, Active, OwnsJob
    <3>3. jobs'[generation][e].status = "done"
        BY <1>1, <1>4, <3>1 DEF Finish, TypeInv, TypeOK, Job
    <3>4. ~TeamConflict(x)
        BY <1>4, <2>2 DEF Finish, Invalid
    <3>5. x \in Extraction /\ t \in Task
        BY <2>2, StoreAssumption DEF Extraction
    <3>6. /\ watches' = [watches EXCEPT ![generation][t] = new]
          /\ outbox' = IF old.published
                         THEN [outbox EXCEPT ![generation][t] =
                                 Publish(outbox[generation][t], new.assessment, new.evidence)]
                         ELSE outbox
        BY <2>2 DEF RecordReport
    <3> HIDE DEF new
    <3>7. /\ watches'[generation][t] = new
          /\ outbox'[generation][t] =
               IF old.published
                 THEN Publish(outbox[generation][t], new.assessment, new.evidence)
                 ELSE outbox[generation][t]
          /\ \A u \in Task \ {t} : /\ watches'[generation][u] = watches[generation][u]
                                   /\ outbox'[generation][u] = outbox[generation][u]
        BY <1>1, <3>5, <3>6 DEF TypeInv, TypeOK
    <3>8. ReportMove(t, e, x)
        BY <2>2, <3>2, <3>3, <3>4, <3>7 DEF ReportMove, new
    <3> QED
        BY <3>1, <3>5, <3>8
  <2> QED
      BY <1>4, <2>1, <2>2 DEF Finish, RecordReport
<1>5. CASE ~(\E ms \in Time : Tick(ms)) /\ ~(\E w \in Worker, x \in Extractions : Finish(w, x))
    BY <1>5 DEF Next, WorkerStep, Ingest, ClaimJob, RefuseResult, EngineFails,
       DropObsolete, FailJob, ExpireLease, Restart, durable, vars
<1>6. Extractions \subseteq Extraction
    BY StoreAssumption
<1> QED
    BY <1>3, <1>4, <1>5, <1>6

-----------------------------------------------------------------------------
(* Generations *)

LEMMA NextObsolete ==
  TypeInv /\ ObsoleteWorkCancelled /\ [Next]_vars => ObsoleteWorkCancelled'
<1> SUFFICES ASSUME TypeInv, ObsoleteWorkCancelled, [Next]_vars
             PROVE  ObsoleteWorkCancelled'
    OBVIOUS
<1>1. CASE Reset
  <2>1. \A j \in Job : Cancel(j).status \notin {"pending", "running"}
      BY DEF Cancel, Job
  <2>2. \A g \in Gen, e \in Event : jobs'[g][e].status \notin {"pending", "running"}
      BY <1>1, <2>1 DEF Reset, TypeInv, TypeOK
  <2>3. ASSUME NEW g \in Gen, NEW t \in Task, NEW i \in DOMAIN outbox'[g][t]
        PROVE  outbox'[g][t][i].status = "cancelled"
    <3>1. outbox'[g][t] = [k \in DOMAIN outbox[g][t] |->
                             [outbox[g][t][k] EXCEPT !.status = "cancelled"]]
        BY <1>1 DEF Reset
    <3>2. i \in DOMAIN outbox[g][t]
        BY <3>1, <2>3
    <3>3. outbox[g][t][i] \in Publication
        BY <3>2 DEF TypeInv, TypeOK
    <3> QED
        BY <3>1, <3>2, <3>3 DEF Publication
  <2> QED
      BY <2>2, <2>3 DEF ObsoleteWorkCancelled
<1>2. CASE ~Reset
  <2>1. generation' = generation /\ generation \in Gen
      BY <1>2, JobSteps DEF TypeInv, TypeOK
  <2>2. ASSUME NEW g \in Gen, g < generation
        PROVE  /\ \A e \in Event : jobs'[g][e].status \notin {"pending", "running"}
               /\ outbox'[g] = outbox[g]
    <3>1. g # generation
        BY <2>1, <2>2 DEF Gen
    <3>2. \A e \in Event : JobMove(g, e)
        BY <1>2, JobSteps
    <3>3. outbox'[g] = outbox[g]
        BY <1>2, <3>1, OtherGenerations
    <3> QED
        BY <2>2, <3>1, <3>2, <3>3 DEF ObsoleteWorkCancelled, JobMove
  <2> QED
      BY <2>1, <2>2 DEF ObsoleteWorkCancelled
<1> QED
    BY <1>1, <1>2

LEMMA NextGenerationsApart ==
  TypeInv /\ GenerationsApart /\ [Next]_vars => GenerationsApart'
<1> SUFFICES ASSUME TypeInv, GenerationsApart, [Next]_vars PROVE GenerationsApart'
    OBVIOUS
<1>0. generation \in Gen /\ clock \in Time /\ Gen \subseteq Int /\ Time \subseteq Int
    BY DEF TypeInv, TypeOK, Gen, Time
<1>1. CASE Reset
  <2>1. generation' = generation + 1 /\ generation' \in Gen
      BY <1>1, <1>0, StoreAssumption DEF Reset, Gen
  <2>2. ASSUME NEW g \in Gen, g > generation
        PROVE  /\ \A e \in Event : jobs'[g][e] = NoJob
               /\ \A t \in Task : watches'[g][t] = NoWatch /\ outbox'[g][t] = <<>>
    <3>1. Cancel(NoJob) = NoJob
        BY DEF Cancel, NoJob
    <3>2. \A e \in Event : jobs[g][e] = NoJob
        BY <2>2 DEF GenerationsApart
    <3>3. \A t \in Task : watches[g][t] = NoWatch /\ outbox[g][t] = <<>>
        BY <2>2 DEF GenerationsApart
    <3>4. \A e \in Event : jobs'[g][e] = NoJob
        BY <1>1, <3>1, <3>2 DEF Reset
    <3>5. \A t \in Task : watches'[g][t] = NoWatch
        BY <1>1, <3>3 DEF Reset
    <3>6. \A t \in Task : outbox'[g][t] = <<>>
        BY <1>1, <3>3 DEF Reset
    <3> QED
        BY <3>4, <3>5, <3>6
  <2>3. \A e \in Event : jobs'[generation'][e] = NoJob
      BY <1>0, <2>1, <2>2
  <2> QED
      BY <1>0, <2>1, <2>2, <2>3 DEF GenerationsApart, NoJob
<1>2. CASE ~Reset
  <2>1. /\ generation' = generation /\ clock' \in Time /\ clock <= clock'
        /\ \A g \in Gen, e \in Event : JobMove(g, e)
      BY <1>2, JobSteps
  <2>2. ASSUME NEW g \in Gen, g > generation
        PROVE  /\ \A e \in Event : jobs'[g][e] = NoJob
               /\ \A t \in Task : watches'[g][t] = NoWatch /\ outbox'[g][t] = <<>>
    <3>1. g # generation
        BY <1>0, <2>2
    <3>2. \A e \in Event : jobs'[g][e] = NoJob
        BY <2>1, <2>2, <3>1 DEF JobMove, GenerationsApart, NoJob
    <3>3. watches'[g] = watches[g] /\ outbox'[g] = outbox[g]
        BY <1>2, <3>1, OtherGenerations
    <3> QED
        BY <2>2, <3>2, <3>3 DEF GenerationsApart
  <2>3. ASSUME NEW e \in Event
        PROVE  /\ jobs'[generation][e].status # "cancelled"
               /\ jobs'[generation][e].status \in {"running", "done", "failed"}
                    => jobs'[generation][e].time <= clock'
    <3>1. JobMove(generation, e)
        BY <1>0, <2>1
    <3>2. jobs[generation][e].time \in Time
        BY <1>0 DEF TypeInv, TypeOK, Job
    <3>3. /\ jobs[generation][e].status # "cancelled"
          /\ jobs[generation][e].status \in {"running", "done", "failed"}
                    => jobs[generation][e].time <= clock
        BY DEF GenerationsApart
    <3>4. jobs[generation][e].time <= clock => jobs[generation][e].time <= clock'
        BY <1>0, <2>1, <3>2, StoreAssumption DEF Time
    <3> QED
        BY <3>1, <3>3, <3>4 DEF JobMove
  <2> QED
      BY <2>1, <2>2, <2>3 DEF GenerationsApart
<1> QED
    BY <1>1, <1>2

-----------------------------------------------------------------------------
(* Evidence                                                                *)

LEMMA EvidenceAppended ==
  ASSUME NEW s \in Seq(Event), NEW e \in Event, \A i \in DOMAIN s : s[i] # e
  PROVE  /\ AddEvidence(s, e) = Append(s, e)
         /\ AddEvidence(s, e) \in Seq(Event) /\ AddEvidence(s, e) # <<>>
         /\ Len(AddEvidence(s, e)) = Len(s) + 1
         /\ DOMAIN AddEvidence(s, e) = 1..(Len(s) + 1)
         /\ \A i \in DOMAIN s : AddEvidence(s, e)[i] = s[i]
         /\ AddEvidence(s, e)[Len(s) + 1] = e
         /\ Last(AddEvidence(s, e)) = e
BY DEF AddEvidence, Last

(* Finished events stay finished and keep their time. *)
LEMMA DoneKept ==
  ASSUME TypeInv, [Next]_vars, NEW g \in Gen, NEW e \in Event, jobs[g][e].status = "done"
  PROVE  jobs'[g][e].status = "done" /\ jobs'[g][e].time = jobs[g][e].time
<1>1. CASE Reset
    BY <1>1 DEF Reset, Cancel
<1>2. CASE ~Reset
    BY <1>2, JobSteps DEF JobMove
<1> QED
    BY <1>1, <1>2

(* The watch and its trail before a report is recorded, and after. *)
LEMMA ReportTrail ==
  ASSUME TypeInv, AbsentBlank, EvidenceTrail, [Next]_vars, ~Reset,
         NEW t \in Task, NEW e \in Event, NEW x \in Extraction, ReportMove(t, e, x)
  PROVE  LET s == watches[generation][t].evidence
             r == watches'[generation][t].evidence
         IN  /\ \A u \in Task : \A i \in DOMAIN watches[generation][u].evidence :
                  watches[generation][u].evidence[i] # e
             /\ r = AddEvidence(s, e)
             /\ s \in Seq(Event)
             /\ watches'[generation][t].last = jobs[generation][e].time
             /\ jobs'[generation][e].time = jobs[generation][e].time
             /\ s # <<>> => watches[generation][t].last <= jobs[generation][e].time
<1>1. generation \in Gen
    BY DEF TypeInv, TypeOK
<1>2. watches'[generation][t] =
        NewWatch(watches[generation][t], e, jobs[generation][e].time, x)
    BY DEF ReportMove
<1>3. /\ watches'[generation][t].evidence = AddEvidence(watches[generation][t].evidence, e)
      /\ watches'[generation][t].last = jobs[generation][e].time
    BY <1>2 DEF NewWatch
<1>4. JobMove(generation, e)
    BY <1>1, JobSteps
<1>5. jobs'[generation][e].time = jobs[generation][e].time
    BY <1>4 DEF JobMove, ReportMove
<1>6. watches[generation][t].evidence \in Seq(Event)
    BY <1>1 DEF TypeInv, TypeOK, Watch
<1>7. watches[generation][t].evidence # <<>> =>
        watches[generation][t].last <= jobs[generation][e].time
    BY <1>1 DEF ReportMove, Supersedes, AbsentBlank, TypeInv, TypeOK, Watch, Job, Time
<1>8. \A u \in Task : \A i \in DOMAIN watches[generation][u].evidence :
        watches[generation][u].evidence[i] # e
    BY ZenonT(30), <1>1 DEF EvidenceTrail, ReportMove
<1> QED
    BY <1>3, <1>5, <1>6, <1>7, <1>8

LEMMA NextAbsentBlank ==
  ASSUME TypeInv, GenerationsApart, AbsentBlank, EvidenceTrail, [Next]_vars
  PROVE  AbsentBlank'
<1> SUFFICES ASSUME NEW g \in Gen, NEW t \in Task,
                    watches'[g][t].assessment = "absent"
             PROVE  watches'[g][t].evidence = <<>> /\ watches'[g][t].published = FALSE
    BY DEF AbsentBlank
<1>1. CASE watches'[g][t] = watches[g][t]
    BY <1>1 DEF AbsentBlank
<1>2. CASE Reset
    BY <1>1, <1>2 DEF Reset
<1>3. CASE ~Reset /\ g # generation
    BY <1>1, <1>3, OtherGenerations
<1>4. CASE ~Reset /\ g = generation
  <2>1. ASSUME NEW u \in Task, NEW e \in Event, NEW x \in Extraction, ReportMove(u, e, x)
        PROVE  watches'[g][t] = watches[g][t]
    <3>1. CASE u = t
      <4>1. watches[g][t].assessment \in Assessment /\ x.action \in TaskActions
          BY <2>1 DEF ReportMove, TypeInv, TypeOK, Watch
      <4>2. watches'[g][t].assessment = Assess(watches[g][t].assessment, x.action)
          BY <1>4, <2>1, <3>1 DEF ReportMove, NewWatch
      <4> QED
          BY <4>1, <4>2, AssessType
    <3>2. CASE u # t
        BY <1>4, <2>1, <3>2 DEF ReportMove
    <3> QED
        BY <3>1, <3>2
  <2>2. CASE AbsenceMove(t)
      BY <1>4, <2>2 DEF AbsenceMove, NotConfirmed, TypeInv, TypeOK, Watch
  <2> QED
      BY <1>1, <1>4, <2>1, <2>2, WatchSteps
<1> QED
    BY <1>2, <1>3, <1>4

TrailOK(g, t) ==
  LET trail == watches[g][t].evidence
  IN  /\ \A i \in DOMAIN trail : /\ jobs[g][trail[i]].status = "done"
                                 /\ jobs[g][trail[i]].time <= watches[g][t].last
      /\ \A i, j \in DOMAIN trail :
           i < j => /\ trail[i] # trail[j]
                    /\ jobs[g][trail[i]].time <= jobs[g][trail[j]].time
      /\ trail # <<>> => jobs[g][Last(trail)].time = watches[g][t].last

TrailsApart(g, t, u) ==
  \A i \in DOMAIN watches[g][t].evidence : \A j \in DOMAIN watches[g][u].evidence :
    watches[g][t].evidence[i] # watches[g][u].evidence[j]

LEMMA EvidenceTrailParts ==
  EvidenceTrail <=> /\ \A g \in Gen, t \in Task : TrailOK(g, t)
                    /\ \A g \in Gen, t \in Task : \A u \in Task \ {t} : TrailsApart(g, t, u)
BY DEF EvidenceTrail, TrailOK, TrailsApart

(* A trail that is not extended stays in order. *)
LEMMA TrailKept ==
  ASSUME TypeInv, [Next]_vars, NEW g \in Gen, NEW t \in Task, TrailOK(g, t),
         watches'[g][t].evidence = watches[g][t].evidence,
         watches'[g][t].last = watches[g][t].last
  PROVE  TrailOK(g, t)'
<1>1. watches[g][t].evidence \in Seq(Event)
    BY DEF TypeInv, TypeOK, Watch
<1> DEFINE s == watches[g][t].evidence
<1>2. \A i \in DOMAIN s : s[i] \in Event /\ jobs[g][s[i]].status = "done"
    BY <1>1 DEF TrailOK
<1>3. \A i \in DOMAIN s : /\ jobs'[g][s[i]].status = "done"
                          /\ jobs'[g][s[i]].time = jobs[g][s[i]].time
    BY <1>2, DoneKept
<1>4. s # <<>> => Last(s) = s[Len(s)] /\ Len(s) \in DOMAIN s
    BY <1>1 DEF Last
<1>5. \A i \in DOMAIN s : /\ jobs'[g][s[i]].status = "done"
                          /\ jobs'[g][s[i]].time <= watches[g][t].last
    BY <1>3 DEF TrailOK
<1>6. \A i, j \in DOMAIN s : i < j => /\ s[i] # s[j]
                                      /\ jobs'[g][s[i]].time <= jobs'[g][s[j]].time
    BY <1>3 DEF TrailOK
<1>7. s # <<>> => jobs'[g][Last(s)].time = watches[g][t].last
  <2>1. s # <<>> => jobs[g][Last(s)].time = watches[g][t].last
      BY DEF TrailOK
  <2> QED
      BY <1>3, <1>4, <2>1
<1>8. watches'[g][t].evidence = s /\ watches'[g][t].last = watches[g][t].last
    OBVIOUS
<1> HIDE DEF s
<1> QED
    BY ONLY <1>5, <1>6, <1>7, <1>8 DEF TrailOK

(* A report of a newly finished event extends the trail in order. *)
LEMMA TrailExtended ==
  ASSUME TypeInv, AbsentBlank, EvidenceTrail, [Next]_vars, ~Reset,
         NEW t \in Task, NEW e \in Event, NEW x \in Extraction, ReportMove(t, e, x)
  PROVE  TrailOK(generation, t)'
<1> DEFINE s == watches[generation][t].evidence
           r == watches'[generation][t].evidence
           n == Len(s) + 1
           ms == jobs[generation][e].time
<1>0. generation \in Gen /\ generation' = generation
    BY JobSteps DEF TypeInv, TypeOK
<1>1. /\ r = AddEvidence(s, e) /\ s \in Seq(Event) /\ Len(s) \in Nat
      /\ \A i \in DOMAIN s : s[i] # e /\ s[i] \in Event
      /\ watches'[generation][t].last = ms
      /\ jobs'[generation][e].time = ms /\ jobs'[generation][e].status = "done"
      /\ s # <<>> => watches[generation][t].last <= ms
    BY SMTT(20), <1>0, ReportTrail DEF ReportMove
<1>2. /\ DOMAIN r = 1..n /\ DOMAIN s = 1..Len(s) /\ Len(r) = n /\ r # <<>>
      /\ \A i \in DOMAIN s : r[i] = s[i]
      /\ r[n] = e /\ Last(r) = e
    BY <1>1, EvidenceAppended
<1>3. TrailOK(generation, t)
    BY <1>0, EvidenceTrailParts
<1>4. \A i \in DOMAIN s : /\ jobs'[generation][s[i]].status = "done"
                          /\ jobs'[generation][s[i]].time = jobs[generation][s[i]].time
    BY <1>0, <1>1, <1>3, DoneKept DEF TrailOK
<1>5. \A i \in DOMAIN s : jobs[generation][s[i]].time <= ms
  <2> SUFFICES ASSUME NEW i \in DOMAIN s PROVE jobs[generation][s[i]].time <= ms
      OBVIOUS
  <2>1. jobs[generation][s[i]].time <= watches[generation][t].last
      BY <1>3 DEF TrailOK
  <2>2. s # <<>>
      BY <1>1
  <2>3. /\ jobs[generation][s[i]].time \in Int /\ watches[generation][t].last \in Int
        /\ ms \in Int
      BY <1>0, <1>1 DEF TypeInv, TypeOK, Watch, Job, Time
  <2> QED
      BY <1>1, <2>1, <2>2, <2>3
<1>6. ms <= ms
    BY <1>0 DEF TypeInv, TypeOK, Job, Time
<1>7. \A i \in DOMAIN r : i \in DOMAIN s \/ i = n
    BY <1>1, <1>2
<1> HIDE DEF s, r, n, ms
<1>8. \A i \in DOMAIN r : /\ jobs'[generation][r[i]].status = "done"
                          /\ jobs'[generation][r[i]].time <= ms
    BY <1>1, <1>2, <1>4, <1>5, <1>6, <1>7
<1>9. \A i, j \in DOMAIN r :
        i < j => /\ r[i] # r[j]
                 /\ jobs'[generation][r[i]].time <= jobs'[generation][r[j]].time
  <2> SUFFICES ASSUME NEW i \in DOMAIN r, NEW j \in DOMAIN r, i < j
               PROVE  /\ r[i] # r[j]
                      /\ jobs'[generation][r[i]].time <= jobs'[generation][r[j]].time
      OBVIOUS
  <2>1. i \in DOMAIN s
      BY <1>1, <1>2 DEF n
  <2>2. CASE j \in DOMAIN s
    <3>1. s[i] # s[j] /\ jobs[generation][s[i]].time <= jobs[generation][s[j]].time
        BY <1>3, <2>1, <2>2 DEF TrailOK, s
    <3> QED
        BY <1>2, <1>4, <2>1, <2>2, <3>1
  <2>3. CASE j = n
      BY <1>1, <1>2, <1>4, <1>5, <2>1, <2>3
  <2> QED
      BY <1>7, <2>2, <2>3
<1> QED
    BY <1>0, <1>1, <1>2, <1>8, <1>9 DEF TrailOK, r

LEMMA NextEvidenceTrail ==
  ASSUME TypeInv, AbsentBlank, EvidenceTrail, [Next]_vars
  PROVE  EvidenceTrail'
<1>0. generation \in Gen
    BY DEF TypeInv, TypeOK
<1>1. ASSUME NEW g \in Gen, NEW t \in Task PROVE TrailOK(g, t)'
  <2>1. TrailOK(g, t)
      BY EvidenceTrailParts
  <2>2. CASE /\ watches'[g][t].evidence = watches[g][t].evidence
             /\ watches'[g][t].last = watches[g][t].last
      BY <2>1, <2>2, TrailKept
  <2>3. CASE Reset
      BY <2>2, <2>3 DEF Reset
  <2>4. CASE ~Reset /\ g # generation
      BY <2>2, <2>4, OtherGenerations
  <2>5. CASE ~Reset /\ g = generation
    <3>1. ASSUME NEW u \in Task, NEW e \in Event, NEW x \in Extraction, ReportMove(u, e, x)
          PROVE  TrailOK(g, t)'
      <4>1. CASE u = t
        <5>1. TrailOK(generation, t)'
            BY <2>5, <3>1, <4>1, TrailExtended
        <5>2. generation' = g
            BY <2>5, JobSteps
        <5> QED
            BY <5>1, <5>2 DEF TrailOK
      <4>2. CASE u # t
        <5>1. watches'[g][t] = watches[g][t]
            BY <2>5, <3>1, <4>2 DEF ReportMove
        <5> QED
            BY <2>2, <5>1
      <4> QED
          BY <4>1, <4>2
    <3>2. CASE AbsenceMove(t)
        BY <2>2, <2>5, <3>2 DEF AbsenceMove, NotConfirmed, TypeInv, TypeOK, Watch
    <3> QED
        BY <2>2, <2>5, <3>1, <3>2, WatchSteps
  <2> QED
      BY <2>3, <2>4, <2>5
<1>2. ASSUME NEW g \in Gen, NEW t \in Task, NEW u \in Task \ {t}
      PROVE  TrailsApart(g, t, u)'
  <2>1. TrailsApart(g, t, u)
      BY EvidenceTrailParts
  <2>2. CASE /\ watches'[g][t].evidence = watches[g][t].evidence
             /\ watches'[g][u].evidence = watches[g][u].evidence
      BY <2>1, <2>2 DEF TrailsApart
  <2>3. CASE Reset
      BY <2>2, <2>3 DEF Reset
  <2>4. CASE ~Reset /\ g # generation
      BY <2>2, <2>4, OtherGenerations
  <2>5. CASE ~Reset /\ g = generation
    <3>1. ASSUME NEW v \in Task, NEW e \in Event, NEW x \in Extraction, ReportMove(v, e, x)
          PROVE  TrailsApart(g, t, u)'
      <4>1. /\ watches'[g][v].evidence = AddEvidence(watches[g][v].evidence, e)
            /\ watches[g][v].evidence \in Seq(Event)
            /\ \A y \in Task : \A i \in DOMAIN watches[g][y].evidence :
                 watches[g][y].evidence[i] # e
          BY <2>5, <3>1, ReportTrail
      <4>2. \A i \in DOMAIN watches'[g][v].evidence :
              \/ watches'[g][v].evidence[i] = e
              \/ /\ i \in DOMAIN watches[g][v].evidence
                 /\ watches'[g][v].evidence[i] = watches[g][v].evidence[i]
          BY <4>1, EvidenceAppended
      <4>3. \A y \in Task \ {v} : watches'[g][y] = watches[g][y]
          BY <2>5, <3>1 DEF ReportMove
      <4>4. CASE v = t
          BY <2>1, <4>1, <4>2, <4>3, <4>4 DEF TrailsApart
      <4>5. CASE v = u
          BY <2>1, <4>1, <4>2, <4>3, <4>5 DEF TrailsApart
      <4>6. CASE v # t /\ v # u
          BY <2>2, <4>3, <4>6
      <4> QED
          BY <4>4, <4>5, <4>6
    <3>2. ASSUME NEW y \in Task, AbsenceMove(y)
          PROVE  watches'[g][y].evidence = watches[g][y].evidence
        BY <2>5, <3>2 DEF AbsenceMove, NotConfirmed, TypeInv, TypeOK, Watch
    <3> QED
        BY <2>2, <2>5, <3>1, <3>2, WatchSteps
  <2> QED
      BY <2>3, <2>4, <2>5
<1>3. \A g \in Gen, t \in Task : TrailOK(g, t)'
    BY <1>1
<1>4. \A g \in Gen, t \in Task : \A u \in Task \ {t} : TrailsApart(g, t, u)'
    BY <1>2
<1> QED
    BY <1>3, <1>4 DEF EvidenceTrail, TrailOK, TrailsApart

-----------------------------------------------------------------------------
(* The outbox                                                              *)

RowsOK(rows, w) ==
  /\ \A i \in DOMAIN rows :
       /\ Len(rows[i].evidence) <= Len(w.evidence)
       /\ rows[i].evidence = w.evidence /\ rows[i].assessment = "no_confirmation"
            => w.assessment = "no_confirmation"
  /\ IF w.published
       THEN /\ rows # <<>>
            /\ Last(rows).assessment = w.assessment
            /\ Last(rows).evidence = w.evidence
       ELSE rows = <<>>

LEMMA RowsOKParts ==
  RowsBehind /\ OutboxTracksWatch
    <=> \A g \in Gen, t \in Task : RowsOK(outbox[g][t], watches[g][t])
BY DEF RowsBehind, OutboxTracksWatch, RowsOK

(* A publication nobody has made before is really enqueued. *)
LEMMA NewPublication ==
  ASSUME NEW rows \in Seq(Publication), NEW a \in Assessment, NEW s \in Seq(Event),
         \A i \in DOMAIN rows : /\ Len(rows[i].evidence) <= Len(s)
                                /\ ~(rows[i].assessment = a /\ rows[i].evidence = s),
         NEW w \in Watch, w.published = TRUE, w.assessment = a, w.evidence = s,
         \A i \in DOMAIN rows : rows[i].evidence = s => a = "no_confirmation"
  PROVE  RowsOK(Publish(rows, a, s), w)
<1> DEFINE p == [assessment |-> a, evidence |-> s, status |-> "pending"]
           new == Append(rows, p)
<1>1. Publish(rows, a, s) = new
    BY DEF Publish
<1>2. p \in Publication /\ p.assessment = a /\ p.evidence = s
    BY DEF Publication
<1> HIDE DEF p
<1>3. /\ new # <<>> /\ Last(new) = p /\ DOMAIN new = 1..(Len(rows) + 1)
      /\ DOMAIN rows = 1..Len(rows) /\ Len(rows) \in Nat
      /\ new[Len(rows) + 1] = p
      /\ \A i \in DOMAIN rows : new[i] = rows[i]
    BY <1>2 DEF Last
<1>4. \A i \in DOMAIN new : i \in DOMAIN rows \/ new[i] = p
    BY <1>3
<1> HIDE DEF new
<1>5. Len(s) <= Len(s)
    OBVIOUS
<1>6. \A i \in DOMAIN new : /\ Len(new[i].evidence) <= Len(s)
                            /\ new[i].evidence = s /\ new[i].assessment = "no_confirmation"
                                 => a = "no_confirmation"
    BY <1>2, <1>3, <1>4, <1>5
<1> QED
    BY <1>1, <1>2, <1>3, <1>6 DEF RowsOK

LEMMA ReportRows ==
  ASSUME TypeInv, AbsentBlank, EvidenceTrail, [Next]_vars, ~Reset,
         NEW t \in Task, NEW e \in Event, NEW x \in Extraction, ReportMove(t, e, x),
         RowsOK(outbox[generation][t], watches[generation][t])
  PROVE  RowsOK(outbox'[generation][t], watches'[generation][t])
<1> DEFINE old == watches[generation][t]
           rows == outbox[generation][t]
           new == watches'[generation][t]
<1>1. /\ generation \in Gen /\ rows \in Seq(Publication) /\ old \in Watch
    BY DEF TypeInv, TypeOK
<1>2. /\ new.evidence = AddEvidence(old.evidence, e)
      /\ old.evidence \in Seq(Event)
      /\ \A i \in DOMAIN old.evidence : old.evidence[i] # e
    BY ReportTrail
<1>3. Len(new.evidence) = Len(old.evidence) + 1 /\ new.evidence \in Seq(Event)
    BY <1>2, EvidenceAppended
<1>4. new = NewWatch(old, e, jobs[generation][e].time, x)
    BY DEF ReportMove
<1>5. new \in Watch
    BY <1>1, <1>4, NewWatchType DEF ReportMove, TypeInv, TypeOK, Job
<1>6. new.published = old.published
    BY <1>4 DEF NewWatch
<1>7. outbox'[generation][t] =
        IF old.published THEN Publish(rows, new.assessment, new.evidence) ELSE rows
    BY <1>4 DEF ReportMove
<1>8. old.published \in BOOLEAN
    BY <1>1 DEF Watch
<1>9. CASE ~old.published
    BY <1>6, <1>7, <1>8, <1>9 DEF RowsOK
<1>10. CASE old.published
  <2>1. \A i \in DOMAIN rows : rows[i].evidence \in Seq(Event)
    <3> SUFFICES ASSUME NEW i \in DOMAIN rows PROVE rows[i].evidence \in Seq(Event)
        OBVIOUS
    <3>1. rows[i] \in Publication
        BY <1>1
    <3> QED
        BY <3>1 DEF Publication
  <2>2. \A i \in DOMAIN rows : Len(rows[i].evidence) <= Len(old.evidence)
      BY DEF RowsOK
  <2>3. \A i \in DOMAIN rows : /\ Len(rows[i].evidence) <= Len(new.evidence)
                               /\ rows[i].evidence # new.evidence
    <3> SUFFICES ASSUME NEW i \in DOMAIN rows
                 PROVE  /\ Len(rows[i].evidence) <= Len(new.evidence)
                        /\ Len(rows[i].evidence) # Len(new.evidence)
        OBVIOUS
    <3>1. Len(rows[i].evidence) \in Nat /\ Len(old.evidence) \in Nat
        BY <1>2, <2>1
    <3> QED
        BY SMTT(20), <1>3, <2>2, <3>1
  <2>4. new.assessment \in Assessment
      BY <1>5 DEF Watch
  <2> HIDE DEF new, rows, old
  <2>5. RowsOK(Publish(rows, new.assessment, new.evidence), new)
      BY <1>1, <1>3, <1>5, <1>6, <1>8, <1>10, <2>3, <2>4, NewPublication
  <2>6. outbox'[generation][t] = Publish(rows, new.assessment, new.evidence)
      BY <1>7, <1>10
  <2> QED
      BY <2>5, <2>6 DEF new
<1> QED
    BY <1>9, <1>10

LEMMA AbsenceRows ==
  ASSUME TypeInv, NEW t \in Task, AbsenceMove(t),
         RowsOK(outbox[generation][t], watches[generation][t])
  PROVE  RowsOK(outbox'[generation][t], watches'[generation][t])
<1> DEFINE old == watches[generation][t]
           rows == outbox[generation][t]
           new == NotConfirmed(old)
           s == old.evidence
<1>1. /\ generation \in Gen /\ rows \in Seq(Publication) /\ old \in Watch
    BY DEF TypeInv, TypeOK
<1>2. s \in Seq(Event) /\ old.assessment # "no_confirmation"
    BY <1>1 DEF Watch, AbsenceMove, Awaiting
<1>3. /\ new \in Watch /\ new.published = TRUE /\ new.assessment = "no_confirmation"
      /\ new.evidence = s
    BY <1>1 DEF NotConfirmed, Watch, Assessment
<1>4. \A i \in DOMAIN rows :
        /\ Len(rows[i].evidence) <= Len(s)
        /\ ~(rows[i].assessment = "no_confirmation" /\ rows[i].evidence = s)
    BY <1>2 DEF RowsOK
<1>5. /\ watches'[generation][t] = new
      /\ outbox'[generation][t] = Publish(rows, "no_confirmation", s)
    BY DEF AbsenceMove
<1>6. "no_confirmation" \in Assessment
    BY DEF Assessment
<1> HIDE DEF new, rows, s
<1>7. RowsOK(Publish(rows, "no_confirmation", s), new)
    BY <1>1, <1>2, <1>3, <1>4, <1>6, NewPublication
<1> QED
    BY <1>5, <1>7

LEMMA NextRows ==
  ASSUME TypeInv, AbsentBlank, EvidenceTrail, RowsBehind, OutboxTracksWatch, [Next]_vars
  PROVE  RowsBehind' /\ OutboxTracksWatch'
<1>1. ASSUME NEW g \in Gen, NEW t \in Task PROVE RowsOK(outbox'[g][t], watches'[g][t])
  <2>1. RowsOK(outbox[g][t], watches[g][t])
      BY RowsOKParts
  <2>2. CASE watches'[g][t] = watches[g][t] /\ outbox'[g][t] = outbox[g][t]
      BY <2>1, <2>2
  <2>3. CASE Reset
    <3> DEFINE rows == outbox[g][t]
               new == [i \in DOMAIN rows |-> [rows[i] EXCEPT !.status = "cancelled"]]
    <3>1. rows \in Seq(Publication) /\ watches'[g][t] = watches[g][t] /\ outbox'[g][t] = new
        BY <2>3 DEF Reset, TypeInv, TypeOK
    <3>2. /\ DOMAIN new = DOMAIN rows /\ Len(new) = Len(rows)
          /\ \A i \in DOMAIN rows : /\ new[i].assessment = rows[i].assessment
                                    /\ new[i].evidence = rows[i].evidence
        BY <3>1 DEF Publication
    <3>3. new = <<>> <=> rows = <<>>
        BY <3>1, <3>2
    <3>4. rows # <<>> => Len(rows) \in DOMAIN rows
        BY <3>1
    <3> HIDE DEF new, rows
    <3>5. RowsOK(rows, watches[g][t])
        BY <2>1 DEF rows
    <3>6. RowsOK(new, watches[g][t])
        BY <3>2, <3>3, <3>4, <3>5 DEF RowsOK, Last
    <3> QED
        BY <3>1, <3>6
  <2>4. CASE ~Reset /\ g # generation
      BY <2>2, <2>4, OtherGenerations
  <2>5. CASE ~Reset /\ g = generation
    <3>1. ASSUME NEW u \in Task, NEW e \in Event, NEW x \in Extraction, ReportMove(u, e, x)
          PROVE  RowsOK(outbox'[g][t], watches'[g][t])
      <4>1. CASE u = t
          BY <2>1, <2>5, <3>1, <4>1, ReportRows
      <4>2. CASE u # t
          BY <2>2, <2>5, <3>1, <4>2 DEF ReportMove
      <4> QED
          BY <4>1, <4>2
    <3>2. CASE AbsenceMove(t)
        BY <2>1, <2>5, <3>2, AbsenceRows
    <3> QED
        BY <2>2, <2>5, <3>1, <3>2, WatchSteps
  <2> QED
      BY <2>3, <2>4, <2>5
<1> QED
    BY <1>1 DEF RowsBehind, OutboxTracksWatch, RowsOK

-----------------------------------------------------------------------------
(* The invariant and what follows from it                                  *)

LEMMA NextInv == Inv /\ [Next]_vars => Inv'
<1> SUFFICES ASSUME Inv, [Next]_vars PROVE Inv'
    OBVIOUS
<1> USE DEF Inv
<1>1. TypeInv' /\ TokensDiffer'
    BY NextTypeInv, NextTokensDiffer
<1>2. ObsoleteWorkCancelled' /\ GenerationsApart'
    BY NextObsolete, NextGenerationsApart
<1>3. AbsentBlank' /\ EvidenceTrail'
    BY NextAbsentBlank, NextEvidenceTrail
<1>4. RowsBehind' /\ OutboxTracksWatch'
    BY NextRows
<1> QED
    BY <1>1, <1>2, <1>3, <1>4

LEMMA AlwaysInv == Spec => []Inv
BY InitInv, NextInv, PTL DEF Spec

(* The newest outbox row of a published task is what its watch says. *)
THEOREM OutboxFollows == Spec => []OutboxTracksWatch
<1>1. Inv => OutboxTracksWatch
    BY DEF Inv
<1> QED
    BY <1>1, AlwaysInv, PTL

(* Evidence is in scenario order, finished, and used once. *)
THEOREM EvidenceOrdered == Spec => []EvidenceTrail
<1>1. Inv => EvidenceTrail
    BY DEF Inv
<1> QED
    BY <1>1, AlwaysInv, PTL

(* No two workers can commit the same job. *)
THEOREM SingleOwner == Spec => []OneOwner
<1>1. Inv => OneOwner
    BY OneOwnerHolds DEF Inv
<1> QED
    BY <1>1, AlwaysInv, PTL

(* A reset leaves no work of the generations before it. *)
THEOREM ResetCancels == Spec => []ObsoleteWorkCancelled
<1>1. Inv => ObsoleteWorkCancelled
    BY DEF Inv
<1> QED
    BY <1>1, AlwaysInv, PTL

(* No late answer, failure or tick touches an earlier generation. *)
THEOREM ObsoleteNeverChanges == Spec => ObsoleteFrozen
<1> DEFINE Frozen(g) ==
      /\ watches'[g] = watches[g]
      /\ outbox'[g] = outbox[g]
      /\ channelFacts'[g] = channelFacts[g]
      /\ \A e \in Event : /\ jobs'[g][e].status = jobs[g][e].status
                          /\ jobs'[g][e].attempts = jobs[g][e].attempts
<1>1. ASSUME Inv, [Next]_vars, NEW g \in Gen, g < generation PROVE Frozen(g)
  <2>1. TypeInv /\ generation \in Gen /\ g # generation
      BY <1>1 DEF Inv, TypeInv, TypeOK, Gen
  <2>2. /\ \A e \in Event : jobs[g][e].status \notin {"pending", "running"}
        /\ \A t \in Task : \A i \in DOMAIN outbox[g][t] : outbox[g][t][i].status = "cancelled"
      BY <1>1 DEF Inv, ObsoleteWorkCancelled
  <2>3. CASE Reset
    <3>1. \A e \in Event : jobs'[g][e] = jobs[g][e]
        BY <2>2, <2>3 DEF Reset, Cancel
    <3>2. \A t \in Task : outbox'[g][t] = outbox[g][t]
      <4> SUFFICES ASSUME NEW t \in Task PROVE outbox'[g][t] = outbox[g][t]
          OBVIOUS
      <4>1. outbox[g][t] \in Seq(Publication)
          BY <2>1 DEF TypeInv, TypeOK
      <4>2. outbox'[g][t] = [i \in DOMAIN outbox[g][t] |->
                               [outbox[g][t][i] EXCEPT !.status = "cancelled"]]
          BY <2>3 DEF Reset
      <4>3. \A i \in DOMAIN outbox[g][t] :
              [outbox[g][t][i] EXCEPT !.status = "cancelled"] = outbox[g][t][i]
        <5> SUFFICES ASSUME NEW i \in DOMAIN outbox[g][t]
                     PROVE  [outbox[g][t][i] EXCEPT !.status = "cancelled"] = outbox[g][t][i]
            OBVIOUS
        <5>1. outbox[g][t][i] \in Publication /\ outbox[g][t][i].status = "cancelled"
            BY <2>2, <4>1
        <5> QED
            BY <5>1 DEF Publication
      <4>4. outbox[g][t] = [i \in DOMAIN outbox[g][t] |-> outbox[g][t][i]]
          BY <4>1
      <4> QED
          BY <4>2, <4>3, <4>4
    <3>3. outbox'[g] = outbox[g]
      <4>1. outbox'[g] = [t \in Task |-> outbox'[g][t]]
          BY <2>3 DEF Reset
      <4>2. outbox[g] = [t \in Task |-> outbox[g][t]]
          BY <2>1 DEF TypeInv, TypeOK
      <4> QED
          BY <3>2, <4>1, <4>2
    <3> QED
        BY <2>3, <3>1, <3>3 DEF Reset
  <2>4. CASE ~Reset
    <3>1. watches'[g] = watches[g] /\ outbox'[g] = outbox[g] /\ channelFacts'[g] = channelFacts[g]
        BY <1>1, <2>1, <2>4, OtherGenerations
    <3>2. \A e \in Event : jobs'[g][e] = jobs[g][e]
        BY <1>1, <2>1, <2>2, <2>4, JobSteps DEF JobMove
    <3> QED
        BY <3>1, <3>2
  <2> QED
      BY <2>3, <2>4
<1>2. Inv /\ [Next]_vars => [\A g \in Gen : g < generation => Frozen(g)]_vars
    BY <1>1
<1> QED
    BY <1>2, AlwaysInv, PTL DEF Spec, ObsoleteFrozen

(* What one step may do to the assessment and the team of a task. *)
LEMMA AssessmentSteps ==
  ASSUME Inv, [Next]_vars, NEW g \in Gen, NEW t \in Task
  PROVE  \/ watches'[g][t] = watches[g][t]
         \/ /\ g = generation
            /\ \E e \in Event, x \in Extraction : ReportMove(t, e, x)
         \/ /\ g = generation /\ jobs' = jobs /\ AbsenceMove(t)
<1>1. TypeInv
    BY DEF Inv
<1>2. CASE Reset
    BY <1>2 DEF Reset
<1>3. CASE ~Reset /\ g # generation
    BY <1>1, <1>3, OtherGenerations
<1>4. CASE ~Reset /\ g = generation
  <2>1. ASSUME NEW u \in Task, NEW e \in Event, NEW x \in Extraction, ReportMove(u, e, x), u # t
        PROVE  watches'[g][t] = watches[g][t]
      BY <1>4, <2>1 DEF ReportMove
  <2> QED
      BY <1>1, <1>4, <2>1, WatchSteps
<1> QED
    BY <1>2, <1>3, <1>4

(* Unprocessed events block the finding of an absence. *)
THEOREM AbsenceNeverPremature == Spec => NoPrematureAbsence
<1> DEFINE A(g, t) ==
      /\ watches[g][t].assessment # "no_confirmation"
      /\ watches'[g][t].assessment = "no_confirmation"
      => \A e \in Event : jobs[g][e].status # "absent" /\ jobs[g][e].time <= clock'
           => jobs[g][e].status = "done"
<1>1. ASSUME Inv, [Next]_vars, NEW g \in Gen, NEW t \in Task PROVE A(g, t)
  <2>1. TypeInv /\ GenerationsApart
      BY <1>1 DEF Inv
  <2>2. ASSUME NEW e \in Event, NEW x \in Extraction, ReportMove(t, e, x), g = generation
        PROVE  watches'[g][t].assessment # "no_confirmation"
    <3>1. watches[g][t].assessment \in Assessment /\ x.action \in TaskActions
        BY <2>1, <2>2 DEF ReportMove, TypeInv, TypeOK, Watch
    <3>2. watches'[g][t].assessment = Assess(watches[g][t].assessment, x.action)
        BY <2>2 DEF ReportMove, NewWatch
    <3> QED
        BY <3>1, <3>2, AssessType
  <2>3. CASE g = generation /\ AbsenceMove(t)
      BY <2>1, <2>3 DEF AbsenceMove, Busy, GenerationsApart
  <2> QED
      BY <1>1, <2>2, <2>3, AssessmentSteps
<1>2. Inv /\ [Next]_vars => [\A g \in Gen, t \in Task : A(g, t)]_vars
    BY <1>1
<1> QED
    BY <1>2, AlwaysInv, PTL DEF Spec, NoPrematureAbsence

(* A closed task is only reopened by a new assignment. *)
THEOREM ClosedStaysClosed == Spec => TerminalHolds
<1> DEFINE A(g, t) == watches[g][t].assessment \in Terminal
                        => watches'[g][t].assessment \in Terminal \cup {"checking"}
<1>1. ASSUME Inv, [Next]_vars, NEW g \in Gen, NEW t \in Task PROVE A(g, t)
  <2>1. ASSUME NEW e \in Event, NEW x \in Extraction, ReportMove(t, e, x), g = generation
        PROVE  A(g, t)
    <3>1. x.action \in TaskActions
          /\ watches'[g][t].assessment = Assess(watches[g][t].assessment, x.action)
        BY <2>1 DEF ReportMove, NewWatch
    <3> QED
        BY <3>1 DEF Assess, TaskActions, Terminal
  <2>2. CASE g = generation /\ AbsenceMove(t)
      BY <2>2 DEF AbsenceMove, Awaiting, Terminal
  <2> QED
      BY <1>1, <2>1, <2>2, AssessmentSteps
<1>2. Inv /\ [Next]_vars => [\A g \in Gen, t \in Task : A(g, t)]_vars
    BY <1>1
<1> QED
    BY <1>2, AlwaysInv, PTL DEF Spec, TerminalHolds

(* A task keeps its team. *)
THEOREM TeamNeverChanges == Spec => TeamHolds
<1> DEFINE A(g, t) == watches[g][t].team # NoTeam => watches'[g][t].team = watches[g][t].team
<1>1. ASSUME Inv, [Next]_vars, NEW g \in Gen, NEW t \in Task PROVE A(g, t)
  <2>1. ASSUME NEW e \in Event, NEW x \in Extraction, ReportMove(t, e, x), g = generation
        PROVE  A(g, t)
    <3>1. t # NoTask
        BY StoreAssumption
    <3>2. /\ x.task = t /\ ~TeamConflict(x)
          /\ watches'[g][t].team = IF x.team # NoTeam THEN x.team ELSE watches[g][t].team
        BY <2>1 DEF ReportMove, NewWatch
    <3> QED
        BY <2>1, <3>1, <3>2 DEF TeamConflict
  <2>2. CASE g = generation /\ AbsenceMove(t)
      BY <1>1, <2>2 DEF AbsenceMove, NotConfirmed, Inv, TypeInv, TypeOK, Watch
  <2> QED
      BY <1>1, <2>1, <2>2, AssessmentSteps
<1>2. Inv /\ [Next]_vars => [\A g \in Gen, t \in Task : A(g, t)]_vars
    BY <1>1
<1> QED
    BY <1>2, AlwaysInv, PTL DEF Spec, TeamHolds

-----------------------------------------------------------------------------
(* Every behaviour of AgentStore is one of TaskMonitor                      *)

(* The operator sees the status from the first absence on. *)
LEMMA NoticeFollows ==
  ASSUME TypeInv, OutboxTracksWatch, NEW t \in Task
  PROVE  NoticeOf(t) = IF watches[generation][t].published
                         THEN watches[generation][t].assessment ELSE "absent"
BY DEF NoticeOf, OutboxTracksWatch, TypeInv, TypeOK

LEMMA StartsBlank == Init => Monitor!Blank
<1> SUFFICES ASSUME Init PROVE Monitor!Blank
    OBVIOUS
<1>1. generation = 0 /\ 0 \in Gen
    BY StoreAssumption DEF Init, Gen
<1>2. \A e \in Event : InputOf(e) = "unknown" /\ jobs[generation][e].time = 0
    BY <1>1 DEF Init, InputOf, NoJob
<1>3. \A t \in Task : /\ SourcesOf(t) = {} /\ NoticeOf(t) = "absent"
                      /\ watches[generation][t].assessment = "absent"
    BY <1>1 DEF Init, SourcesOf, NoticeOf, NoWatch
<1>4. clock = 0
    BY DEF Init
<1> QED
    BY <1>2, <1>3, <1>4 DEF Monitor!Blank

LEMMA ResetStartsOver == ASSUME Inv, Reset PROVE Monitor!StartOver
<1> DEFINE g == generation + 1
<1>1. g \in Gen /\ g > generation /\ generation' = g
    BY StoreAssumption DEF Reset, Inv, TypeInv, TypeOK, Gen
<1> HIDE DEF g
<1>2. \A e \in Event : jobs[g][e] = NoJob
    BY <1>1 DEF Inv, GenerationsApart
<1>3. \A t \in Task : watches[g][t] = NoWatch /\ outbox[g][t] = <<>>
    BY <1>1 DEF Inv, GenerationsApart
<1>4. \A e \in Event : jobs'[g][e].status = "absent" /\ jobs'[g][e].time = 0
    BY <1>1, <1>2 DEF Reset, Cancel, NoJob
<1>5. \A t \in Task : watches'[g][t] = NoWatch /\ outbox'[g][t] = <<>>
    BY <1>1, <1>3 DEF Reset
<1>6. \A e \in Event : InputOf(e)' = "unknown" /\ jobs'[generation'][e].time = 0
    BY <1>1, <1>4 DEF InputOf
<1>7. \A t \in Task : /\ SourcesOf(t)' = {} /\ NoticeOf(t)' = "absent"
                      /\ watches'[generation'][t].assessment = "absent"
    BY <1>1, <1>5 DEF SourcesOf, NoticeOf, NoWatch
<1>8. clock' = 0
    BY DEF Reset
<1> QED
    BY <1>6, <1>7, <1>8 DEF Monitor!StartOver

(* A step that leaves the tables of the tasks and the standing of every    *)
(* event alone is invisible.                                               *)
LEMMA Invisible ==
  ASSUME UNCHANGED <<generation, clock, watches, outbox>>,
         \A e \in Event : /\ InputOf(e)' = InputOf(e)
                          /\ jobs'[generation][e].time = jobs[generation][e].time
  PROVE  UNCHANGED Monitor!tmvars
<1>1. \A t \in Task : SourcesOf(t)' = SourcesOf(t) /\ NoticeOf(t)' = NoticeOf(t)
    BY DEF SourcesOf, NoticeOf
<1>2. [e \in Event |-> InputOf(e)]' = [e \in Event |-> InputOf(e)]
    OBVIOUS
<1>3. [e \in Event |-> jobs[generation][e].time]' = [e \in Event |-> jobs[generation][e].time]
    OBVIOUS
<1>4. [t \in Task |-> watches[generation][t].assessment]'
        = [t \in Task |-> watches[generation][t].assessment]
    OBVIOUS
<1>5. [t \in Task |-> SourcesOf(t)]' = [t \in Task |-> SourcesOf(t)]
    BY <1>1
<1>6. [t \in Task |-> NoticeOf(t)]' = [t \in Task |-> NoticeOf(t)]
    BY <1>1
<1> QED
    BY <1>2, <1>3, <1>4, <1>5, <1>6 DEF Monitor!tmvars

LEMMA SameJobsInvisible ==
  ASSUME UNCHANGED <<generation, clock, watches, outbox, jobs>>
  PROVE  UNCHANGED Monitor!tmvars
<1>1. \A e \in Event : InputOf(e)' = InputOf(e)
    BY DEF InputOf
<1> QED
    BY <1>1, Invisible

(* The job of one event changes, and no task does. *)
LEMMA OneEventMoves ==
  ASSUME TypeInv, UNCHANGED <<generation, clock, watches, outbox>>,
         NEW e \in Event, NEW s,
         InputOf(e)' = s,
         \A f \in Event \ {e} : jobs'[generation][f] = jobs[generation][f]
  PROVE  /\ [f \in Event |-> InputOf(f)]' = [[f \in Event |-> InputOf(f)] EXCEPT ![e] = s]
         /\ [f \in Event |-> jobs[generation][f].time]' =
              [[f \in Event |-> jobs[generation][f].time]
                 EXCEPT ![e] = jobs'[generation][e].time]
         /\ UNCHANGED <<[t \in Task |-> watches[generation][t].assessment],
                        [t \in Task |-> SourcesOf(t)], [t \in Task |-> NoticeOf(t)]>>
<1>1. \A f \in Event \ {e} : InputOf(f)' = InputOf(f)
    BY DEF InputOf
<1>2. \A t \in Task : SourcesOf(t)' = SourcesOf(t) /\ NoticeOf(t)' = NoticeOf(t)
    BY DEF SourcesOf, NoticeOf
<1>3. [f \in Event |-> InputOf(f)]' = [[f \in Event |-> InputOf(f)] EXCEPT ![e] = s]
    BY <1>1
<1>4. [f \in Event |-> jobs[generation][f].time]' =
        [[f \in Event |-> jobs[generation][f].time] EXCEPT ![e] = jobs'[generation][e].time]
    OBVIOUS
<1>5. [t \in Task |-> SourcesOf(t)]' = [t \in Task |-> SourcesOf(t)]
    BY <1>2
<1>6. [t \in Task |-> NoticeOf(t)]' = [t \in Task |-> NoticeOf(t)]
    BY <1>2
<1>7. [t \in Task |-> watches[generation][t].assessment]'
        = [t \in Task |-> watches[generation][t].assessment]
    OBVIOUS
<1> QED
    BY <1>3, <1>4, <1>5, <1>6, <1>7

LEMMA IngestArrives ==
  ASSUME Inv, NEW e \in Event, NEW ms \in Time, Ingest(e, ms)
  PROVE  Monitor!Arrive(e, ms)
<1> DEFINE j == [NoJob EXCEPT !.status = "pending", !.time = ms,
                              !.row = Cardinality(Stored(generation))]
<1>1. TypeInv /\ generation \in Gen
    BY DEF Inv, TypeInv, TypeOK
<1>2. j.status = "pending" /\ j.time = ms
    BY DEF NoJob
<1>3. jobs' = [jobs EXCEPT ![generation][e] = j]
    BY DEF Ingest
<1> HIDE DEF j
<1>4. /\ jobs'[generation][e] = j
      /\ \A f \in Event \ {e} : jobs'[generation][f] = jobs[generation][f]
    BY <1>1, <1>3 DEF TypeInv, TypeOK
<1>5. InputOf(e)' = "unread" /\ InputOf(e) = "unknown"
    BY <1>2, <1>4 DEF Ingest, InputOf
<1>6. UNCHANGED <<generation, clock, watches, outbox>>
    BY DEF Ingest
<1>7. /\ [f \in Event |-> InputOf(f)]' = [[f \in Event |-> InputOf(f)] EXCEPT ![e] = "unread"]
      /\ [f \in Event |-> jobs[generation][f].time]' =
           [[f \in Event |-> jobs[generation][f].time] EXCEPT ![e] = ms]
      /\ UNCHANGED <<[t \in Task |-> watches[generation][t].assessment],
                     [t \in Task |-> SourcesOf(t)], [t \in Task |-> NoticeOf(t)]>>
    BY <1>1, <1>2, <1>4, <1>5, <1>6, OneEventMoves
<1> QED
    BY <1>5, <1>6, <1>7 DEF Monitor!Arrive

LEMMA ClaimInvisible ==
  ASSUME Inv, NEW w \in Worker, ClaimJob(w)
  PROVE  UNCHANGED Monitor!tmvars
<1>1. TypeInv /\ generation \in Gen
    BY DEF Inv, TypeInv, TypeOK
<1>2. PICK e \in Event : /\ Claimable(e)
                         /\ jobs' = [jobs EXCEPT ![generation][e] = Claimed(jobs[generation][e])]
    BY DEF ClaimJob
<1>3. /\ Claimed(jobs[generation][e]).status = "running"
      /\ Claimed(jobs[generation][e]).time = jobs[generation][e].time
    BY ZenonT(30), <1>1, ClaimedType DEF TypeInv, TypeOK
<1>4. /\ jobs'[generation][e].status = "running"
      /\ jobs'[generation][e].time = jobs[generation][e].time
      /\ \A f \in Event \ {e} : jobs'[generation][f] = jobs[generation][f]
    BY <1>1, <1>2, <1>3 DEF TypeInv, TypeOK
<1>5. generation' = generation
    BY DEF ClaimJob
<1>6. InputOf(e)' = "unread" /\ InputOf(e) = "unread"
    BY <1>2, <1>4, <1>5 DEF InputOf, Claimable
<1>7. \A f \in Event \ {e} : InputOf(f)' = InputOf(f)
    BY <1>4, <1>5 DEF InputOf
<1> QED
    BY <1>4, <1>6, <1>7, Invisible DEF ClaimJob

LEMMA ExpireInvisible ==
  ASSUME Inv, NEW g \in Gen, NEW e \in Event, ExpireLease(g, e)
  PROVE  UNCHANGED Monitor!tmvars
<1>1. TypeInv /\ generation \in Gen
    BY DEF Inv, TypeInv, TypeOK
<1>2. \A f \in Event : /\ jobs'[generation][f].status = jobs[generation][f].status
                       /\ jobs'[generation][f].time = jobs[generation][f].time
  <2>1. jobs[g][e] \in Job
      BY <1>1 DEF TypeInv, TypeOK
  <2> DEFINE j == [jobs[g][e] EXCEPT !.leased = FALSE]
  <2>2. j.status = jobs[g][e].status /\ j.time = jobs[g][e].time
      BY <2>1 DEF Job
  <2>3. jobs' = [jobs EXCEPT ![g][e] = j]
      BY <1>1 DEF ExpireLease, TypeInv, TypeOK
  <2> HIDE DEF j
  <2> QED
      BY <1>1, <2>2, <2>3 DEF TypeInv, TypeOK
<1>3. UNCHANGED <<generation, clock, watches, outbox>>
    BY DEF ExpireLease
<1>4. \A f \in Event : InputOf(f)' = InputOf(f)
    BY <1>2, <1>3 DEF InputOf
<1> QED
    BY <1>2, <1>3, <1>4, Invisible

LEMMA FailGivesUp ==
  ASSUME Inv, NEW w \in Worker, FailJob(w)
  PROVE  UNCHANGED Monitor!tmvars \/ \E e \in Event : Monitor!GiveUp(e)
<1> DEFINE s == IF HeldJob(w).attempts >= 3 THEN "failed" ELSE "pending"
           j == [HeldJob(w) EXCEPT !.status = s]
<1>1. TypeInv /\ generation \in Gen
    BY DEF Inv, TypeInv, TypeOK
<1>2. PICK g \in Gen, e \in Event : /\ g = held[w].gen /\ e = held[w].event
                                     /\ HeldJob(w) \in Job /\ HeldJob(w) = jobs[g][e]
    BY <1>1, HeldJobType DEF FailJob, HeldJob
<1>3. UNCHANGED <<generation, clock, watches, outbox>>
    BY DEF FailJob
<1>4. CASE ~OwnsJob(w)
  <2>1. jobs' = jobs
      BY <1>4 DEF FailJob
  <2> QED
      BY <1>3, <2>1, SameJobsInvisible
<1>5. CASE OwnsJob(w)
  <2>1. j.status = s /\ j.time = HeldJob(w).time
      BY <1>2, SetStatus DEF JobStatus
  <2>2. jobs' = [jobs EXCEPT ![g][e] = j]
      BY <1>1, <1>2, <1>5 DEF FailJob, TypeInv, TypeOK
  <2>3. HeldJob(w).status = "running"
      BY <1>5 DEF OwnsJob
  <2>4. s \in {"failed", "pending"}
      OBVIOUS
  <2> HIDE DEF j, s
  <2>5. \A h \in Gen, f \in Event :
          jobs'[h][f] = IF h = g /\ f = e THEN j ELSE jobs[h][f]
      BY <1>1, <1>2, <2>2 DEF TypeInv, TypeOK
  <2>6. CASE g # generation
    <3>1. \A f \in Event : jobs'[generation][f] = jobs[generation][f]
        BY <1>1, <2>5, <2>6
    <3>2. \A f \in Event : InputOf(f)' = InputOf(f)
        BY <1>3, <3>1 DEF InputOf
    <3> QED
        BY <1>3, <3>1, <3>2, Invisible
  <2>7. CASE g = generation
    <3>1. /\ jobs'[generation][e] = j
          /\ \A f \in Event \ {e} : jobs'[generation][f] = jobs[generation][f]
        BY <1>1, <1>2, <2>5, <2>7
    <3>2. /\ InputOf(e) = "unread"
          /\ s = "pending" => InputOf(e)' = "unread"
          /\ s = "failed" => InputOf(e)' = "unreadable"
        BY <1>2, <1>3, <2>1, <2>3, <2>7, <3>1 DEF InputOf
    <3>3. j.time = jobs[generation][e].time
        BY <1>2, <2>1, <2>7
    <3>4. CASE s = "pending"
      <4>1. \A f \in Event : InputOf(f)' = InputOf(f)
          BY <1>3, <3>1, <3>2, <3>4 DEF InputOf
      <4>2. \A f \in Event : jobs'[generation][f].time = jobs[generation][f].time
          BY <3>1, <3>3
      <4> QED
          BY <1>3, <4>1, <4>2, Invisible
    <3>5. CASE s = "failed"
      <4>1. /\ [f \in Event |-> InputOf(f)]' =
                 [[f \in Event |-> InputOf(f)] EXCEPT ![e] = "unreadable"]
            /\ UNCHANGED <<[t \in Task |-> watches[generation][t].assessment],
                           [t \in Task |-> SourcesOf(t)], [t \in Task |-> NoticeOf(t)]>>
          BY <1>1, <1>2, <1>3, <3>1, <3>2, <3>5, OneEventMoves
      <4>2. UNCHANGED [f \in Event |-> jobs[generation][f].time]
          BY <1>3, <3>1, <3>3
      <4>3. jobs[generation][e].time <= clock
          BY <1>2, <2>3, <2>7 DEF Inv, GenerationsApart
      <4>4. Monitor!GiveUp(e)
          BY <1>2, <1>3, <3>2, <4>1, <4>2, <4>3 DEF Monitor!GiveUp, Monitor!Readable
      <4> QED
          BY <1>2, <4>4
    <3> QED
        BY <2>4, <3>4, <3>5
  <2> QED
      BY <2>6, <2>7
<1> QED
    BY <1>4, <1>5

LEMMA TickAdvances ==
  ASSUME Inv, NEW ms \in Time, Tick(ms)
  PROVE  Monitor!Advance(ms)
<1> DEFINE late == IF Busy(ms) THEN {} ELSE Overdue(ms)
<1>1. TypeInv /\ generation \in Gen /\ OutboxTracksWatch
    BY DEF Inv, TypeInv, TypeOK
<1>2. Inv'
    BY NextInv DEF Next
<1>3. UNCHANGED <<generation, jobs>> /\ clock' = ms /\ ms >= clock
    BY DEF Tick
<1>4. \A t \in Task : /\ watches'[generation][t] =
                           IF t \in late THEN NotConfirmed(watches[generation][t])
                                         ELSE watches[generation][t]
    BY <1>1 DEF Tick, TypeInv, TypeOK
<1>5. \A t \in Task : /\ watches[generation][t] \in Watch
                      /\ NotConfirmed(watches[generation][t]).assessment = "no_confirmation"
                      /\ NotConfirmed(watches[generation][t]).published = TRUE
                      /\ NotConfirmed(watches[generation][t]).evidence =
                           watches[generation][t].evidence
    BY <1>1 DEF NotConfirmed, TypeInv, TypeOK, Watch
<1>6. late \subseteq {u \in Task : watches[generation][u].assessment \in Monitor!Open}
    BY DEF Overdue, Awaiting, Monitor!Open
<1>7. \A t \in Task :
        watches'[generation'][t].assessment =
          IF t \in late THEN "no_confirmation" ELSE watches[generation][t].assessment
    BY <1>3, <1>4, <1>5
<1>8. \A t \in Task :
        NoticeOf(t)' = IF t \in late THEN "no_confirmation" ELSE NoticeOf(t)
  <2> SUFFICES ASSUME NEW t \in Task
               PROVE  NoticeOf(t)' = IF t \in late THEN "no_confirmation" ELSE NoticeOf(t)
      OBVIOUS
  <2>1. NoticeOf(t) = IF watches[generation][t].published
                        THEN watches[generation][t].assessment ELSE "absent"
      BY <1>1, NoticeFollows
  <2>2. NoticeOf(t)' = IF watches'[generation'][t].published
                         THEN watches'[generation'][t].assessment ELSE "absent"
    <3>1. /\ IF watches'[generation'][t].published
              THEN /\ outbox'[generation'][t] # <<>>
                   /\ Last(outbox'[generation'][t]).assessment =
                        watches'[generation'][t].assessment
              ELSE outbox'[generation'][t] = <<>>
        BY <1>1, <1>2, <1>3 DEF Inv, OutboxTracksWatch
    <3> QED
        BY <3>1 DEF NoticeOf
  <2> QED
      BY <1>3, <1>4, <1>5, <2>1, <2>2
<1>9. \A t \in Task : SourcesOf(t)' = SourcesOf(t)
    BY <1>3, <1>4, <1>5 DEF SourcesOf
<1>10. \A e \in Event : InputOf(e)' = InputOf(e)
    BY <1>3 DEF InputOf
<1>11. ASSUME late # {}, NEW e \in Event, InputOf(e) \in {"unread", "unreadable"}
       PROVE  jobs[generation][e].time > ms
  <2>1. ~Busy(ms)
      BY <1>11
  <2>2. jobs[generation][e].status \notin {"absent", "done", "cancelled"}
      BY <1>11 DEF InputOf
  <2>3. jobs[generation][e].time \in Time
      BY <1>1 DEF TypeInv, TypeOK, Job
  <2> QED
      BY <2>1, <2>2, <2>3, StoreAssumption DEF Busy, Time
<1> HIDE DEF late
<1>12. late # {} => Monitor!AllRead(ms)
    BY <1>11 DEF Monitor!AllRead
<1>13. /\ [t \in Task |-> watches[generation][t].assessment]' =
            [t \in Task |-> IF t \in late THEN "no_confirmation"
                            ELSE [u \in Task |-> watches[generation][u].assessment][t]]
       /\ [t \in Task |-> NoticeOf(t)]' =
            [t \in Task |-> IF t \in late THEN "no_confirmation"
                            ELSE [u \in Task |-> NoticeOf(u)][t]]
    BY <1>7, <1>8
<1>14. /\ UNCHANGED [e \in Event |-> InputOf(e)]
       /\ UNCHANGED [e \in Event |-> jobs[generation][e].time]
       /\ UNCHANGED [t \in Task |-> SourcesOf(t)]
    BY <1>3, <1>9, <1>10
<1>15. late \in SUBSET {t \in Task : [u \in Task |-> watches[generation][u].assessment][t]
                                       \in Monitor!Open}
    BY <1>6 DEF Overdue, late
<1> QED
    BY <1>3, <1>12, <1>13, <1>14, <1>15 DEF Monitor!Advance

LEMMA FinishReads ==
  ASSUME Inv, NEW w \in Worker, NEW y \in Extractions, Finish(w, y)
  PROVE  \E e \in Event : Monitor!Read(e)
<1>1. TypeInv /\ generation \in Gen /\ OutboxTracksWatch /\ AbsentBlank /\ EvidenceTrail
    BY DEF Inv, TypeInv, TypeOK
<1>2. PICK e \in Event : /\ e = held[w].event /\ held[w].gen = generation
                         /\ HeldJob(w) \in Job /\ HeldJob(w) = jobs[generation][e]
    BY <1>1, HeldJobType DEF Finish, HeldJob
<1>3. /\ [Next]_vars /\ ~Reset /\ Inv'
  <2>1. [Next]_vars
      BY DEF Next, WorkerStep
  <2>2. ~Reset
      BY <1>1 DEF Finish, Reset, TypeInv, TypeOK, Gen
  <2> QED
      BY <2>1, <2>2, NextInv
<1>4. UNCHANGED <<generation, clock>>
    BY DEF Finish
<1> DEFINE j == [HeldJob(w) EXCEPT !.status = "done"]
<1>5. j.status = "done" /\ j.time = jobs[generation][e].time
    BY <1>2, SetStatus DEF JobStatus
<1>6. jobs' = [jobs EXCEPT ![generation][e] = j]
    BY <1>1, <1>2 DEF Finish, TypeInv, TypeOK
<1>7. jobs[generation][e].status = "running"
    BY <1>2 DEF Finish, Active, OwnsJob
<1> HIDE DEF j
<1>8. /\ jobs'[generation][e] = j
      /\ \A f \in Event \ {e} : jobs'[generation][f] = jobs[generation][f]
    BY <1>1, <1>2, <1>6 DEF TypeInv, TypeOK
<1>9. /\ InputOf(e) = "unread" /\ InputOf(e)' = "read"
      /\ \A f \in Event \ {e} : InputOf(f)' = InputOf(f)
    BY <1>4, <1>5, <1>7, <1>8 DEF InputOf
<1>10. /\ [f \in Event |-> InputOf(f)]' = [[f \in Event |-> InputOf(f)] EXCEPT ![e] = "read"]
       /\ UNCHANGED [f \in Event |-> jobs[generation][f].time]
    BY <1>4, <1>5, <1>8, <1>9
<1>11. jobs[generation][e].time <= clock
    BY <1>7 DEF Inv, GenerationsApart
<1> DEFINE Still == UNCHANGED <<[t \in Task |-> watches[generation][t].assessment],
                                [t \in Task |-> SourcesOf(t)], [t \in Task |-> NoticeOf(t)]>>
           Moved == \E t \in Task, s \in Monitor!Reported :
             /\ watches[generation][t].assessment \in Monitor!Closed
                  => s \in Monitor!Closed \cup {"checking"}
             /\ [u \in Task |-> watches[generation][u].assessment]' =
                  [[u \in Task |-> watches[generation][u].assessment] EXCEPT ![t] = s]
             /\ [u \in Task |-> SourcesOf(u)]' =
                  [[u \in Task |-> SourcesOf(u)] EXCEPT ![t] = @ \cup {e}]
             /\ [u \in Task |-> NoticeOf(u)]' =
                  [[u \in Task |-> NoticeOf(u)] EXCEPT ![t] = IF @ = "absent" THEN @ ELSE s]
<1>12. CASE UNCHANGED <<watches, outbox>>
  <2>1. \A t \in Task : SourcesOf(t)' = SourcesOf(t) /\ NoticeOf(t)' = NoticeOf(t)
      BY <1>4, <1>12 DEF SourcesOf, NoticeOf
  <2>2. Still
      BY <1>4, <1>12, <2>1
  <2> QED
      BY <1>4, <1>9, <1>10, <1>11, <2>2 DEF Monitor!Read, Monitor!Readable
<1>13. ASSUME NEW t \in Task, NEW f \in Event, NEW x \in Extraction, ReportMove(t, f, x)
       PROVE  Moved
  <2>1. f = e
      BY <1>8, <1>13 DEF ReportMove
  <2> DEFINE old == watches[generation][t]
             s == Assess(old.assessment, x.action)
             r == watches'[generation][t].evidence
  <2>2. /\ x.action \in TaskActions /\ old \in Watch /\ old.assessment \in Assessment
        /\ old.evidence \in Seq(Event)
      BY <1>1, <1>13 DEF ReportMove, TypeInv, TypeOK, Watch
  <2>3. /\ watches'[generation][t].assessment = s
        /\ watches'[generation][t].published = old.published
        /\ \A u \in Task \ {t} : /\ watches'[generation][u] = watches[generation][u]
                                 /\ outbox'[generation][u] = outbox[generation][u]
      BY <1>13 DEF ReportMove, NewWatch
  <2>4. /\ s \in Monitor!Reported
        /\ old.assessment \in Monitor!Closed => s \in Monitor!Closed \cup {"checking"}
      BY <2>2 DEF Assess, TaskActions, Assessment, Terminal, Monitor!Reported, Monitor!Closed
  <2>5. /\ r = AddEvidence(old.evidence, e)
        /\ \A i \in DOMAIN old.evidence : old.evidence[i] # e
      BY <1>1, <1>3, <1>13, <2>1, ReportTrail
  <2>6. {r[i] : i \in DOMAIN r} = {old.evidence[i] : i \in DOMAIN old.evidence} \cup {e}
    <3>1. /\ DOMAIN r = 1..(Len(old.evidence) + 1)
          /\ DOMAIN old.evidence = 1..Len(old.evidence) /\ Len(old.evidence) \in Nat
          /\ \A i \in DOMAIN old.evidence : r[i] = old.evidence[i]
          /\ r[Len(old.evidence) + 1] = e
        BY <2>2, <2>5, EvidenceAppended
    <3>2. \A i \in DOMAIN r : i \in DOMAIN old.evidence \/ i = Len(old.evidence) + 1
        BY <3>1
    <3>3. DOMAIN old.evidence \subseteq DOMAIN r /\ Len(old.evidence) + 1 \in DOMAIN r
        BY <3>1
    <3> HIDE DEF old, r
    <3> QED
        BY <3>1, <3>2, <3>3
  <2>7. SourcesOf(t)' = SourcesOf(t) \cup {e}
      BY <1>4, <2>6 DEF SourcesOf
  <2>8. \A u \in Task \ {t} : SourcesOf(u)' = SourcesOf(u) /\ NoticeOf(u)' = NoticeOf(u)
      BY <1>4, <2>3 DEF SourcesOf, NoticeOf
  <2>9. NoticeOf(t) = IF old.published THEN old.assessment ELSE "absent"
      BY <1>1, NoticeFollows
  <2>10. NoticeOf(t)' = IF watches'[generation'][t].published
                          THEN watches'[generation'][t].assessment ELSE "absent"
    <3>1. IF watches'[generation'][t].published
            THEN /\ outbox'[generation'][t] # <<>>
                 /\ Last(outbox'[generation'][t]).assessment =
                      watches'[generation'][t].assessment
            ELSE outbox'[generation'][t] = <<>>
        BY <1>1, <1>3, <1>4 DEF Inv, OutboxTracksWatch
    <3> QED
        BY <3>1 DEF NoticeOf
  <2>11. old.published => old.assessment # "absent"
      BY <1>1 DEF AbsentBlank
  <2> HIDE DEF old, s, r
  <2>12. NoticeOf(t)' = IF NoticeOf(t) = "absent" THEN NoticeOf(t) ELSE s
      BY <1>4, <2>3, <2>9, <2>10, <2>11
  <2>13. [u \in Task |-> watches[generation][u].assessment]' =
           [[u \in Task |-> watches[generation][u].assessment] EXCEPT ![t] = s]
      BY <1>4, <2>3
  <2>14. [u \in Task |-> SourcesOf(u)]' =
           [[u \in Task |-> SourcesOf(u)] EXCEPT ![t] = @ \cup {e}]
      BY <2>7, <2>8
  <2>15. [u \in Task |-> NoticeOf(u)]' =
           [[u \in Task |-> NoticeOf(u)] EXCEPT ![t] = IF @ = "absent" THEN @ ELSE s]
      BY <2>8, <2>12
  <2> QED
      BY <2>4, <2>13, <2>14, <2>15 DEF old
<1>14. CASE Moved
  <2>1. PICK t \in Task, s \in Monitor!Reported :
             /\ watches[generation][t].assessment \in Monitor!Closed
                  => s \in Monitor!Closed \cup {"checking"}
             /\ [u \in Task |-> watches[generation][u].assessment]' =
                  [[u \in Task |-> watches[generation][u].assessment] EXCEPT ![t] = s]
             /\ [u \in Task |-> SourcesOf(u)]' =
                  [[u \in Task |-> SourcesOf(u)] EXCEPT ![t] = @ \cup {e}]
             /\ [u \in Task |-> NoticeOf(u)]' =
                  [[u \in Task |-> NoticeOf(u)] EXCEPT ![t] = IF @ = "absent" THEN @ ELSE s]
      BY <1>14
  <2>2. [u \in Task |-> watches[generation][u].assessment][t] = watches[generation][t].assessment
      OBVIOUS
  <2>3. Monitor!Read(e)
      BY <1>4, <1>9, <1>10, <1>11, <2>1, <2>2 DEF Monitor!Read, Monitor!Readable
  <2> QED
      BY <2>3
<1>15. jobs' # jobs
    BY <1>5, <1>7, <1>8
<1> QED
    BY <1>1, <1>3, <1>12, <1>13, <1>14, <1>15, WatchSteps

LEMMA StepsRefine == Inv /\ [Next]_vars => [Monitor!MonitorNext]_(Monitor!tmvars)
<1> SUFFICES ASSUME Inv, [Next]_vars PROVE Monitor!MonitorNext \/ UNCHANGED Monitor!tmvars
    OBVIOUS
<1> USE DEF Monitor!MonitorNext
<1>0. Monitor!Moment = Time
    BY DEF Monitor!Moment, Time
<1>1. CASE \E e \in Event, t \in Time : Ingest(e, t)
    BY <1>0, <1>1, IngestArrives
<1>2. CASE Reset
    BY <1>2, ResetStartsOver
<1>3. CASE \E ms \in Time : Tick(ms)
    BY <1>0, <1>3, TickAdvances
<1>4. CASE \E w \in Worker : ClaimJob(w)
    BY <1>4, ClaimInvisible
<1>5. CASE \E w \in Worker, x \in Extractions : Finish(w, x)
    BY <1>5, FinishReads
<1>6. CASE \E w \in Worker : FailJob(w)
    BY <1>6, FailGivesUp
<1>7. CASE \E g \in Gen, e \in Event : ExpireLease(g, e)
    BY <1>7, ExpireInvisible
<1>8. CASE UNCHANGED <<generation, clock, watches, outbox, jobs>>
    BY <1>8, SameJobsInvisible
<1> QED
    BY <1>1, <1>2, <1>3, <1>4, <1>5, <1>6, <1>7, <1>8
       DEF Next, WorkerStep, RefuseResult, EngineFails, DropObsolete, Restart, durable, vars

(* The store, its workers, leases and retries do what the monitor says. *)
THEOREM StoreImplementsMonitor == Spec => ImplementsMonitor
BY StartsBlank, StepsRefine, AlwaysInv, PTL
   DEF Spec, ImplementsMonitor, Monitor!MonitorSpec

(* What the monitor guarantees, the store guarantees: no event decides two *)
(* tasks or is evidence before it is read.                                 *)
THEOREM NoEventDecidesTwice == Spec => []SourcesDisjoint
<1>1. Monitor!MonitorAssumption
    BY StoreAssumption DEF Monitor!MonitorAssumption
<1>2. Init => Monitor!MonitorInv
    BY <1>1, StartsBlank, Monitor!BlankInv
<1>3. Inv /\ Monitor!MonitorInv /\ [Next]_vars => Monitor!MonitorInv'
    BY <1>1, StepsRefine, Monitor!NextMonitorInv
<1>4. Monitor!MonitorInv => SourcesDisjoint
    BY DEF Monitor!MonitorInv, SourcesDisjoint
<1> QED
    BY <1>2, <1>3, <1>4, AlwaysInv, PTL DEF Spec
=============================================================================
