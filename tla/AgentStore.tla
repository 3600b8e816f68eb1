----------------------------- MODULE AgentStore -----------------------------
(***************************************************************************)
(* The durable event runtime of the agent service: the SQLite store        *)
(* (agent-service/fire_agents/store.py), the event workers that drain it   *)
(* (runtime.py, the worker loop of api.py) and the replay clock.           *)
(*                                                                         *)
(* Every method of Store runs in one BEGIN IMMEDIATE transaction, so a     *)
(* method is one action here.  What interleaves is what the code leaves    *)
(* open: several workers, the HTTP handlers (run in a thread pool), lease  *)
(* expiry, and a restart of the process between two transactions.          *)
(*                                                                         *)
(* One session is modelled: every query filters by session id.  An events  *)
(* row and its jobs row are inserted by one transaction and never deleted, *)
(* so one record of "jobs" stands for both.                                *)
(*                                                                         *)
(* Where a plausible slip would break a property, the definition with the  *)
(* slip stands just before the right one and is used nowhere; the table    *)
(* "mutants" of PROJECT.json says which property each one breaks.          *)
(***************************************************************************)
EXTENDS Integers, Sequences, FiniteSets

CONSTANTS
  Event,        \* event ids a source may send
  Task,         \* task references an extraction may name
  Team,         \* teams an extraction may name
  NoTask, NoTeam, NoEvent,
  Worker,       \* the FIRE_EVENT_WORKERS asyncio tasks
  Extractions,  \* what the engine may return, see Extraction
  MaxTime,      \* bound: scenario times are 0..MaxTime
  WatchTimeout, \* FIRE_WATCH_TIMEOUT_MS
  MaxGen,       \* bound: the session is reset at most MaxGen times
  MaxRestarts,  \* bound: the process restarts at most MaxRestarts times
  SlowClaims    \* bound: a live worker outlasts its lease only on claims below it

Time == 0..MaxTime
Gen == 0..MaxGen

TaskActions == {"assigned", "accepted", "completed", "cancelled"}

(* models.Extraction.  "channel" stands for the three channel_ actions;    *)
(* "cites" for the test that the claim quotes the event it came from.      *)
Extraction ==
  [action : TaskActions \cup {"none", "channel"},
   task   : Task \cup {NoTask},
   team   : Team \cup {NoTeam},
   cites  : BOOLEAN]

ASSUME StoreAssumption ==
  /\ MaxTime \in Nat /\ MaxGen \in Nat /\ MaxRestarts \in Nat
  /\ SlowClaims \in Nat /\ WatchTimeout \in Nat
  /\ Extractions \subseteq Extraction
  /\ NoTask \notin Task /\ NoTeam \notin Team /\ NoEvent \notin Event

VARIABLES
  generation,   \* sessions.generation
  clock,        \* sessions.time_ms
  jobs,         \* events and jobs tables, by generation and event
  watches,      \* watches table, by generation and task
  outbox,       \* outbox table: rows of each generation and task in rowid order
  channelFacts, \* channel_facts table: the events whose fact is recorded
  held,         \* the job dict a worker keeps across its await
  phase,        \* where a worker is in Runtime.step
  restarts

durable == <<generation, clock, jobs, watches, outbox, channelFacts>>
vars == <<generation, clock, jobs, watches, outbox, channelFacts, held, phase,
          restarts>>

-----------------------------------------------------------------------------
JobStatus == {"absent", "pending", "running", "done", "failed", "cancelled"}
Assessment == {"absent", "checking", "accepted", "no_confirmation",
               "supported_by_report", "no_longer_relevant"}
Terminal == {"supported_by_report", "no_longer_relevant"}
Awaiting == {"checking", "accepted"}

(* The claim token is a fresh uuid written by the same UPDATE that adds    *)
(* one to attempts, so the value of attempts identifies the claim.  The    *)
(* comparison lease_until > now is the flag "leased".                      *)
Job == [status : JobStatus, attempts : Nat, leased : BOOLEAN,
        time : Time, row : Nat]
Watch == [assessment : Assessment, team : Team \cup {NoTeam}, last : Time,
          due : Nat, evidence : Seq(Event), published : BOOLEAN]
Publication == [assessment : Assessment, evidence : Seq(Event),
                status : {"pending", "cancelled"}]
Claim == [gen : Gen, event : Event \cup {NoEvent}, token : Nat]

NoJob == [status |-> "absent", attempts |-> 0, leased |-> FALSE,
          time |-> 0, row |-> 0]
NoWatch == [assessment |-> "absent", team |-> NoTeam, last |-> 0, due |-> 0,
            evidence |-> <<>>, published |-> FALSE]
NoClaim == [gen |-> 0, event |-> NoEvent, token |-> 0]

TypeOK ==
  /\ generation \in Gen
  /\ clock \in Time
  /\ jobs \in [Gen -> [Event -> Job]]
  /\ watches \in [Gen -> [Task -> Watch]]
  /\ outbox \in [Gen -> [Task -> Seq(Publication)]]
  /\ channelFacts \in [Gen -> SUBSET Event]
  /\ held \in [Worker -> Claim]
  /\ phase \in [Worker -> {"idle", "working", "failing"}]
  /\ restarts \in 0..MaxRestarts

Init ==
  /\ generation = 0
  /\ clock = 0
  /\ jobs = [g \in Gen |-> [e \in Event |-> NoJob]]
  /\ watches = [g \in Gen |-> [t \in Task |-> NoWatch]]
  /\ outbox = [g \in Gen |-> [t \in Task |-> <<>>]]
  /\ channelFacts = [g \in Gen |-> {}]
  /\ held = [w \in Worker |-> NoClaim]
  /\ phase = [w \in Worker |-> "idle"]
  /\ restarts = 0

-----------------------------------------------------------------------------
(* HTTP handlers                                                           *)

Stored(g) == {e \in Event : jobs[g][e].status # "absent"}

(* POST /events for the current generation.  A known event id changes      *)
(* nothing: the same body returns False, another body is a ValueError.     *)
Ingest(e, t) ==
  /\ jobs[generation][e].status = "absent"
  /\ jobs' = [jobs EXCEPT ![generation][e] =
       [NoJob EXCEPT !.status = "pending", !.time = t,
                     !.row = Cardinality(Stored(generation))]]
  /\ UNCHANGED <<generation, clock, watches, outbox, channelFacts, held, phase,
                 restarts>>

CancelPendingOnly(job) ==
  IF job.status = "pending" THEN [job EXCEPT !.status = "cancelled"] ELSE job

Cancel(job) ==
  IF job.status \in {"pending", "running"}
    THEN [job EXCEPT !.status = "cancelled"]
    ELSE job

(* POST /sessions/{sid}/reset *)
Reset ==
  /\ generation < MaxGen
  /\ generation' = generation + 1
  /\ clock' = 0
  /\ jobs' = [g \in Gen |-> [e \in Event |-> Cancel(jobs[g][e])]]
  /\ outbox' = [g \in Gen |-> [t \in Task |->
       [i \in DOMAIN outbox[g][t] |->
          [outbox[g][t][i] EXCEPT !.status = "cancelled"]]]]
  /\ UNCHANGED <<watches, channelFacts, held, phase, restarts>>

PublishOncePerAssessment(rows, assessment, evidence) ==
  IF \E i \in DOMAIN rows : rows[i].assessment = assessment
    THEN rows
    ELSE Append(rows, [assessment |-> assessment, evidence |-> evidence,
                       status |-> "pending"])

(* INSERT OR IGNORE INTO outbox: the primary key is made of the session,   *)
(* generation, task, assessment and evidence.                              *)
Publish(rows, assessment, evidence) ==
  IF \E i \in DOMAIN rows : /\ rows[i].assessment = assessment
                            /\ rows[i].evidence = evidence
    THEN rows
    ELSE Append(rows, [assessment |-> assessment, evidence |-> evidence,
                       status |-> "pending"])

BusyWhilePending(ms) == \E e \in Event :
  /\ jobs[generation][e].status = "pending"
  /\ jobs[generation][e].time <= ms

(* An input of the current generation, published by time ms, whose result  *)
(* is not in: a failed job counts as unfinished for good.                  *)
Busy(ms) == \E e \in Event :
  /\ jobs[generation][e].status \notin {"absent", "done", "cancelled"}
  /\ jobs[generation][e].time <= ms

OverdueStrictly(ms) == {t \in Task :
  /\ watches[generation][t].assessment \in Awaiting
  /\ watches[generation][t].due < ms}

Overdue(ms) == {t \in Task : /\ watches[generation][t].assessment \in Awaiting
                             /\ watches[generation][t].due <= ms}

NotConfirmed(w) == [w EXCEPT !.assessment = "no_confirmation", !.published = TRUE]

(* Store.tick, called by POST .../clock with a new time and by every       *)
(* worker round with the current one.                                      *)
Tick(ms) ==
  /\ ms >= clock
  /\ clock' = ms
  /\ \/ /\ Busy(ms)
        /\ UNCHANGED <<watches, outbox>>
     \/ /\ ~Busy(ms)
        /\ outbox' = [outbox EXCEPT ![generation] = [t \in Task |->
             IF t \in Overdue(ms)
               THEN Publish(outbox[generation][t], "no_confirmation",
                            watches[generation][t].evidence)
               ELSE outbox[generation][t]]]
        /\ watches' = [watches EXCEPT ![generation] = [t \in Task |->
             IF t \in Overdue(ms)
               THEN NotConfirmed(watches[generation][t])
               ELSE watches[generation][t]]]
  /\ UNCHANGED <<generation, jobs, channelFacts, held, phase, restarts>>

-----------------------------------------------------------------------------
(* Event workers: Runtime.step                                             *)

ClaimableIfPending(e) ==
  /\ jobs[generation][e].time <= clock
  /\ jobs[generation][e].status = "pending"

Claimable(e) ==
  /\ jobs[generation][e].time <= clock
  /\ \/ jobs[generation][e].status = "pending"
     \/ jobs[generation][e].status = "running" /\ ~jobs[generation][e].leased

(* ORDER BY e.time_ms, j.rowid *)
Before(a, b) ==
  \/ a.time < b.time
  \/ a.time = b.time /\ a.row <= b.row

Claimed(job) == [job EXCEPT !.status = "running", !.attempts = job.attempts + 1,
                              !.leased = TRUE]

(* Store.claim_job *)
ClaimJob(w) ==
  /\ phase[w] = "idle"
  /\ \E e \in Event :
       /\ Claimable(e)
       /\ \A f \in Event : Claimable(f) =>
            Before(jobs[generation][e], jobs[generation][f])
       /\ jobs' = [jobs EXCEPT ![generation][e] = Claimed(@)]
       /\ held' = [held EXCEPT ![w] =
            [gen |-> generation, event |-> e,
             token |-> jobs[generation][e].attempts + 1]]
  /\ phase' = [phase EXCEPT ![w] = "working"]
  /\ UNCHANGED <<generation, clock, watches, outbox, channelFacts, restarts>>

HeldJob(w) == jobs[held[w].gen][held[w].event]

OwnsAnyRunning(w) == HeldJob(w).status = "running"

OwnsByTokenAlone(w) == HeldJob(w).attempts = held[w].token

(* The row still belongs to this claim: id, token and status agree. *)
OwnsJob(w) ==
  /\ HeldJob(w).status = "running"
  /\ HeldJob(w).attempts = held[w].token

ActiveByLeaseAlone(w) == HeldJob(w).leased

(* The test of Store.finish before it writes anything. *)
Active(w) == OwnsJob(w) /\ HeldJob(w).leased

(* Another team already answers for this task. *)
TeamConflict(x) ==
  /\ x.task # NoTask
  /\ LET old == watches[generation][x.task].team
     IN  old # NoTeam /\ x.team # NoTeam /\ old # x.team

(* The errors finish raises after the lease test. *)
Invalid(x) ==
  \/ x.action # "none" /\ ~x.cites
  \/ x.action \in TaskActions /\ TeamConflict(x)

AssessLatest(old, action) ==
  [assigned |-> "checking", accepted |-> "accepted",
   completed |-> "supported_by_report", cancelled |-> "no_longer_relevant"][action]

AssessAsPlatformStatus(old, action) ==
  IF action \in {"completed", "cancelled"} THEN "resolved" ELSE "open"

(* The assessment a report leads to: terminal reports remain terminal      *)
(* unless a new explicit assignment is received.                           *)
Assess(old, action) ==
  IF action = "accepted" /\ old \in Terminal
    THEN old
    ELSE [assigned |-> "checking", accepted |-> "accepted",
          completed |-> "supported_by_report",
          cancelled |-> "no_longer_relevant"][action]

(* list(dict.fromkeys(evidence + [e])) *)
AddEvidence(evidence, e) ==
  IF \E i \in DOMAIN evidence : evidence[i] = e
    THEN evidence
    ELSE Append(evidence, e)

(* The row written for a report of event e, and the row it replaces. *)
NewWatch(old, e, ms, x) ==
  [assessment |-> Assess(old.assessment, x.action),
   team       |-> IF x.team # NoTeam THEN x.team ELSE old.team,
   last       |-> ms,
   due        |-> IF old.assessment = "absent" THEN ms + WatchTimeout ELSE old.due,
   evidence   |-> AddEvidence(old.evidence, e),
   published  |-> old.published]

SupersedesAlways(ms, old) == TRUE

(* A report older than the newest one the watch rests on is dropped. *)
Supersedes(ms, old) == old.assessment = "absent" \/ ms >= old.last

RecordReport(e, x) ==
  LET g == generation
      ms == jobs[g][e].time
      old == watches[g][x.task]
      new == NewWatch(old, e, ms, x)
  IN  IF x.task # NoTask /\ Supersedes(ms, old)
        THEN /\ watches' = [watches EXCEPT ![g][x.task] = new]
             /\ outbox' = IF old.published
                            THEN [outbox EXCEPT ![g][x.task] =
                                    Publish(@, new.assessment, new.evidence)]
                            ELSE outbox
        ELSE UNCHANGED <<watches, outbox>>

Release(w) ==
  /\ held' = [held EXCEPT ![w] = NoClaim]
  /\ phase' = [phase EXCEPT ![w] = "idle"]

(* The engine answered and Store.finish committed.  A channel result is    *)
(* only recorded here: the checks rebuilt from the facts are a function of *)
(* them and use task references of their own.                              *)
Finish(w, x) ==
  LET e == held[w].event
  IN  /\ phase[w] = "working"
      /\ held[w].gen = generation
      /\ Active(w)
      /\ ~Invalid(x)
      /\ \/ /\ x.action \in TaskActions
            /\ RecordReport(e, x)
            /\ UNCHANGED channelFacts
         \/ /\ x.action = "channel"
            /\ channelFacts' = [channelFacts EXCEPT ![generation] = @ \cup {e}]
            /\ UNCHANGED <<watches, outbox>>
         \/ /\ x.action = "none"
            /\ UNCHANGED <<watches, outbox, channelFacts>>
      /\ jobs' = [jobs EXCEPT ![generation][e].status = "done"]
      /\ Release(w)
      /\ UNCHANGED <<generation, clock, restarts>>

(* The engine answered and Store.finish raised: the lease was lost or the  *)
(* result is not acceptable.  Nothing was written.                         *)
RefuseResult(w, x) ==
  /\ phase[w] = "working"
  /\ held[w].gen = generation
  /\ ~Active(w) \/ Invalid(x)
  /\ phase' = [phase EXCEPT ![w] = "failing"]
  /\ UNCHANGED <<durable, held, restarts>>

(* The engine raised: both models failed or the budget ran out. *)
EngineFails(w) ==
  /\ phase[w] = "working"
  /\ phase' = [phase EXCEPT ![w] = "failing"]
  /\ UNCHANGED <<durable, held, restarts>>

(* Store.finish raised StaleGeneration: the worker drops the job. *)
DropObsolete(w) ==
  /\ phase[w] = "working"
  /\ held[w].gen # generation
  /\ Release(w)
  /\ UNCHANGED <<durable, restarts>>

(* Store.fail, a transaction of its own after the exception. *)
FailJob(w) ==
  /\ phase[w] = "failing"
  /\ jobs' = IF OwnsJob(w)
               THEN [jobs EXCEPT ![held[w].gen][held[w].event].status =
                       IF HeldJob(w).attempts >= 3 THEN "failed" ELSE "pending"]
               ELSE jobs
  /\ Release(w)
  /\ UNCHANGED <<generation, clock, watches, outbox, channelFacts, restarts>>

-----------------------------------------------------------------------------
(* Environment                                                             *)

HeldBy(g, e, w) ==
  /\ phase[w] # "idle"
  /\ held[w].gen = g /\ held[w].event = e /\ held[w].token = jobs[g][e].attempts

(* 45 seconds of wall time pass.  A lease can run out under a worker that  *)
(* is still waiting for its model only while the bound SlowClaims allows.  *)
ExpireLease(g, e) ==
  /\ jobs[g][e].status = "running" /\ jobs[g][e].leased
  /\ \/ jobs[g][e].attempts < SlowClaims
     \/ \A w \in Worker : ~HeldBy(g, e, w)
  /\ jobs' = [jobs EXCEPT ![g][e].leased = FALSE]
  /\ UNCHANGED <<generation, clock, watches, outbox, channelFacts, held, phase,
                 restarts>>

(* The process dies and comes back: the workers forget what they held. *)
Restart ==
  /\ restarts < MaxRestarts
  /\ restarts' = restarts + 1
  /\ held' = [w \in Worker |-> NoClaim]
  /\ phase' = [w \in Worker |-> "idle"]
  /\ UNCHANGED durable

WorkerStep(w) ==
  \/ ClaimJob(w)
  \/ \E x \in Extractions : Finish(w, x) \/ RefuseResult(w, x)
  \/ EngineFails(w)
  \/ DropObsolete(w)
  \/ FailJob(w)

Next ==
  \/ \E e \in Event, t \in Time : Ingest(e, t)
  \/ Reset
  \/ \E ms \in Time : Tick(ms)
  \/ \E w \in Worker : WorkerStep(w)
  \/ \E g \in Gen, e \in Event : ExpireLease(g, e)
  \/ Restart

Spec == Init /\ [][Next]_vars

(* Workers loop for as long as the process lives, every engine call ends   *)
(* within its 28 second budget, each round ends with a tick at the current *)
(* time, and wall time passes.                                             *)
Fairness ==
  /\ \A w \in Worker : WF_vars(WorkerStep(w))
  /\ WF_vars(Tick(clock))
  /\ \A g \in Gen, e \in Event : WF_vars(ExpireLease(g, e))

FairSpec == Spec /\ Fairness

-----------------------------------------------------------------------------
(* Properties                                                              *)

Last(s) == s[Len(s)]

(* What the operator is shown follows the watch: once a task was           *)
(* published, the newest outbox row carries its assessment and evidence.   *)
(* INSERT OR IGNORE on the composed key (store.py:114) must therefore      *)
(* never swallow a publication, and every later change must enqueue one.   *)
OutboxTracksWatch == \A g \in Gen, t \in Task :
  IF watches[g][t].published
    THEN /\ outbox[g][t] # <<>>
         /\ Last(outbox[g][t]).assessment = watches[g][t].assessment
         /\ Last(outbox[g][t]).evidence = watches[g][t].evidence
    ELSE outbox[g][t] = <<>>

(* The evidence of a watch is a trail of finished events in scenario-time  *)
(* order, ending at last_ms, and no event is used twice, for one task or   *)
(* for two: stale tokens cannot commit a second result, whatever order     *)
(* the workers finish in.                                                  *)
EvidenceTrail == \A g \in Gen, t \in Task :
  LET trail == watches[g][t].evidence
  IN  /\ \A i \in DOMAIN trail : /\ jobs[g][trail[i]].status = "done"
                                 /\ jobs[g][trail[i]].time <= watches[g][t].last
      /\ \A i, j \in DOMAIN trail :
           i < j => /\ trail[i] # trail[j]
                    /\ jobs[g][trail[i]].time <= jobs[g][trail[j]].time
      /\ trail # <<>> => jobs[g][Last(trail)].time = watches[g][t].last
      /\ \A u \in Task \ {t} : \A i \in DOMAIN trail :
           \A j \in DOMAIN watches[g][u].evidence :
             trail[i] # watches[g][u].evidence[j]

(* At most one worker can still commit, or fail, the same job: a claim     *)
(* whose lease ran out loses its rights when the job is claimed again.     *)
OneOwner == \A v, w \in Worker :
  /\ v # w
  /\ phase[v] # "idle" /\ phase[w] # "idle"
  /\ held[v].gen = held[w].gen /\ held[v].event = held[w].event
  => ~(OwnsJob(v) /\ OwnsJob(w))

(* After a reset no work of an earlier generation is left to do or to      *)
(* publish, although Store.fail does not look at the generation and the    *)
(* workers of the old generation are still waiting for their models.       *)
ObsoleteWorkCancelled == \A g \in Gen : g < generation =>
  /\ \A e \in Event : jobs[g][e].status \notin {"pending", "running"}
  /\ \A t \in Task : \A i \in DOMAIN outbox[g][t] :
       outbox[g][t][i].status = "cancelled"

(* What an earlier generation concluded is never touched again, by a late  *)
(* model answer, a late failure or a clock tick.                           *)
ObsoleteFrozen == [][\A g \in Gen : g < generation =>
  /\ watches'[g] = watches[g]
  /\ outbox'[g] = outbox[g]
  /\ channelFacts'[g] = channelFacts[g]
  /\ \A e \in Event : /\ jobs'[g][e].status = jobs[g][e].status
                      /\ jobs'[g][e].attempts = jobs[g][e].attempts]_vars

(* Unprocessed data blocks the timeout (test_runtime.py): a task becomes   *)
(* no_confirmation only when every event of its generation up to the new   *)
(* clock has been worked off.                                              *)
NoPrematureAbsence == [][\A g \in Gen, t \in Task :
  /\ watches[g][t].assessment # "no_confirmation"
  /\ watches'[g][t].assessment = "no_confirmation"
  => \A e \in Event : jobs[g][e].status # "absent" /\ jobs[g][e].time <= clock'
       => jobs[g][e].status = "done"]_vars

(* Terminal reports remain terminal unless a new explicit assignment is    *)
(* received (store.py:100), under reports and under the timeout.           *)
TerminalHolds == [][\A g \in Gen, t \in Task :
  watches[g][t].assessment \in Terminal
    => watches'[g][t].assessment \in Terminal \cup {"checking"}]_vars

(* A task keeps the team it was given: a report naming no team does not    *)
(* clear it, and a report naming another one is refused (store.py:96).     *)
TeamHolds == [][\A g \in Gen, t \in Task :
  watches[g][t].team # NoTeam => watches'[g][t].team = watches[g][t].team]_vars

(* Every event the clock has reached is worked off, whatever the engine    *)
(* does, however often leases are lost and the process restarts.           *)
JobsSettle == \A g \in Gen, e \in Event :
  (/\ g = generation
   /\ jobs[g][e].status \in {"pending", "running"}
   /\ jobs[g][e].time <= clock)
  ~> jobs[g][e].status \in {"done", "failed", "cancelled"}

(* A task that waited past its due time is decided, unless an event that   *)
(* could not be processed keeps the absence from being concluded or the    *)
(* session is reset.                                                       *)
Undecided(g, t) ==
  /\ watches[g][t].assessment \in Awaiting
  /\ watches[g][t].due <= clock
  /\ \A e \in Event : jobs[g][e].status = "failed" => jobs[g][e].time > clock

WatchesDecided == \A g \in Gen, t \in Task :
  (g = generation /\ Undecided(g, t)) ~> (g # generation \/ ~Undecided(g, t))

(* The store implements the task monitor, for the current generation:      *)
(* jobs, claims, leases, retries and restarts are invisible.               *)
InputOf(e) ==
  CASE jobs[generation][e].status \in {"pending", "running"} -> "unread"
    [] jobs[generation][e].status = "done" -> "read"
    [] jobs[generation][e].status = "failed" -> "unreadable"
    [] OTHER -> "unknown"

SourcesOf(t) == {watches[generation][t].evidence[i] :
                   i \in DOMAIN watches[generation][t].evidence}

NoticeOf(t) == IF outbox[generation][t] = <<>>
                 THEN "absent" ELSE Last(outbox[generation][t]).assessment

(* TaskMonitor, with what is proved of it. *)
Monitor == INSTANCE TaskMonitorProofs WITH
  now     <- clock,
  input   <- [e \in Event |-> InputOf(e)],
  arrived <- [e \in Event |-> jobs[generation][e].time],
  status  <- [t \in Task |-> watches[generation][t].assessment],
  sources <- [t \in Task |-> SourcesOf(t)],
  notice  <- [t \in Task |-> NoticeOf(t)]

ImplementsMonitor == Monitor!MonitorSpec

(* No event is evidence for two tasks, or for one before it is done,       *)
(* whichever workers claimed it and lost it.                               *)
SourcesDisjoint == Monitor!SourcesDisjoint
=============================================================================
