# Formal models of fire-incident-copilot

TLA+ models of the repository's own control logic, the TLC configurations that
check them on small instances, and TLAPS proofs of the results that matter most
for every value of the constants. `PROJECT.json` lists components, runs,
mutants, the source lines behind every definition, hazards and theorems.

Run a configuration with `tlc -config <X>.cfg <module>.tla` and check a proof
module with `tlapm <module>.tla`, both from this directory.

## 1. The system

Recorded radio traffic and sensor readings of a fire incident are replayed by an
external state machine. The platform stores readings and incidents, the agent
service reads each radio event with a language model and keeps track of tasks,
and a dashboard shows the replay, the agent's cards and its answers.

    state machine --SSE--> dashboard/live pipeline --POST /ingest/telemetry--> platform
          |                        |                                         ^     |
          | SSE                    | POST /events, /clock, questions         |     | Redis, SSE
          v                        v                                         |     v
    platform bridge            agent service: store, workers, UI service -- MCP -- dashboard
                                   \_ publish-one: incidents and notes ______/

| Component | State it keeps | Operations | Talks to |
|---|---|---|---|
| Event runtime (`store.py`, `runtime.py`) | SQLite: sessions, events, jobs, watches, channel facts, outbox; the job a worker holds across its model call | start, reset, ingest, claim, finish, fail, publish, tick | API handlers (thread pool), 1 to 8 event workers, the engine |
| Operator questions (`ui_service.py`) | `ui_questions` with status, lease, token, revision; `ui_contexts.revision`; the locals of `process_one` | submit, cancel, claim, retrieve, record, save | API handlers, one question worker, the engine |
| Cards, evidence, notifications (`ui_service.py`) | `ui_cards`, `ui_evidence`, per-connection `seen` | refresh, snapshot, evidence, SSE polling | store, dashboard |
| Channel checks (`channels.py`) | `channel_facts`, `channel_checks` | record, rebuild | called by finish |
| Incident publisher (`platform.py`) | outbox status, `platform_links`; its progress through the remote calls | open, one step per invocation | platform incident tools |
| Platform import (`platform.py`, `platform_sync.py`) | sync status | re-read a window, ingest | platform telemetry, store |
| Engines (`engines.py`) | none | extract, answer; two models, 28 s budget | model providers |
| Live pipeline (`dashboard/live/pipeline.py`) | journal of every observation, analysis journal, clock, sequence | initialise, backfill, process, reconcile, tick, analysis step | state machine, platform, agent service |
| Browser client (`dashboard/live/app.js`, `state.js`) | snapshot, epochs, revisions, pending question | resync, apply event, refresh, ask, command | gateway `server.py` |
| Platform bridge (`platform/app/adapter`) | cursor, run id, idempotency key on disk | ensure run, play, forward, reconnect | state machine, platform ingestion |
| Platform ingestion and tools (`platform/app`) | devices, readings, incidents, evidence, dashboards in PostgreSQL | upsert, write, create, update, link | Redis pub/sub |
| Event streams (`platform/app/api/streams.py`) | subscriptions | relay what is published while somebody is subscribed | Redis, dashboards |

What is hard in it:

* **Concurrency.** Several event workers hold jobs across model calls of many
  seconds; HTTP handlers, lease expiry and resets happen meanwhile. Questions
  are handled in four transactions with awaits between them.
* **Failure.** Every process may die between two transactions or between a
  remote call and the transaction that records it. Remote calls to the platform
  are not idempotent and their answers may be lost.
* **Order.** Results are committed in the order models answer, while watches,
  evidence and absence are about scenario time.
* **Generations.** A reset replaces the whole context while old work is still
  in flight everywhere.

What makes each component correct:

* Event runtime: no event decides twice; evidence is in scenario order; nothing
  of an old generation changes; absence is concluded only when everything is
  read; terminal reports hold; the outbox follows the watch; work ends.
* Questions: settled once, by one worker, from what was published as of the
  question, never in an obsolete generation; revisions tell every change.
* Publisher: one incident per task, notes once and in order, stop when in doubt,
  the operator's status stays.
* Channel checks: a reply supports exactly one exchange, nothing plays a part in
  two, and radio traffic read in order never tears a check apart.
* Cards and the page: revisions identify what is shown, cards stay in the
  subject's scope, and the page comes to show what the agent would.
* Pipeline: every observation reaches platform and agent once, or the journal
  says it is uncertain, and before the agent's clock passes it.
* Bridge: the cursor never claims more than was done, a reset is a barrier, one
  run, and the end of the stream is reached.
* Platform: requests lose nothing of one another unless they overlap, a subscriber
  misses nothing, and what ingestion answers is what it stored.

The hazards of the code, line by line, with the properties that would catch
them going wrong, are in `PROJECT.json`; a hazard without a property says why.

## 2. Modules

| Module | What it is |
|---|---|
| `TaskMonitor` | Abstract specification of task tracking: a clock, events that are read once, statuses, sources, notices. No jobs, workers or retries. |
| `AgentStore` | The event runtime in detail. Implements `TaskMonitor`. |
| `AgentStoreProofs`, `TaskMonitorProofs` | Theorems about them, see section 5. |
| `QuestionDesk` | Abstract specification of questions: asked at a time, answered at most once from what was known then, or withdrawn. |
| `UIQuestions` | The question rows, the claim queue and `process_one` in detail. Implements `QuestionDesk`. |
| `ChannelChecks` | The reducer of radio channel facts, a function of the set of facts. |
| `Cards` | Facts recorded in any order, the projection to cards, the notification stream and the page that follows it. Uses `ChannelChecks`. |
| `CardsProofs` | Theorems about `Cards`. |
| `UIQuestionsProofs` | Theorems about `UIQuestions`, among them that it implements `QuestionDesk`. |
| `Publisher` | The publisher process, its remote calls on the wire, and the platform's incident tools. |
| `PublisherProofs` | Theorems about `Publisher`. |
| `LivePipeline` | The dashboard's import thread, its journal, the requests it makes and what they change at the platform and the agent. |
| `LivePipelineProofs` | Theorems about `LivePipeline`. |
| `Mapper` | Events of the state machine to telemetry items, and which items the contract takes. |
| `Bridge` | The bridge process, its state file, its stream and what it forwards. Uses `Mapper`. |
| `BridgeProofs` | Theorems about `Bridge`, and the lemmas about `Mapper` they need. |
| `PlatformApi` | Concurrent requests to the platform, the database, the messages and a dashboard that subscribes. |
| `PlatformApiProofs` | Theorems about `PlatformApi`. |
| `MC*` | Constants for TLC. |

### AgentStore

`Store.tx` opens `BEGIN IMMEDIATE`, so a Store method is one action. A worker is
`idle`, `working` (between `claim_job` and the return of the engine) or
`failing` (between the exception and the transaction of `fail`); `held` is the
job dict it keeps. The actions are `Ingest`, `Reset`, `Tick`, `ClaimJob`,
`Finish`, `RefuseResult` (finish raised), `EngineFails`, `DropObsolete`
(StaleGeneration), `FailJob`, `ExpireLease` and `Restart`. `Tick(clock)` is the
tick at the end of each worker round, `Tick(ms)` that of the clock endpoint.

* An event row and its job row are inserted together and never deleted: one
  record. One session: every statement filters by session id.
* The claim token is written by the statement that increments `attempts`, so
  the attempts number stands for the uuid. `lease_until > now` is a flag that
  `ExpireLease` clears.
* An extraction is a record of action, task, team and whether the claim cites
  exactly this event. A channel extraction records its fact; the checks derived
  from it use task references of their own and have no timeout or publication.
* The outbox of a task is the sequence of its rows. Only `Store.publish` and
  `reset` touch it here; the publisher's part is `Publisher`.

### UIQuestions

A question is one record per generation and `client_request_id`. `phase` follows
`process_one`: `claimed`, `retrieved`, `asking`, `answered`. `ClaimQuestion` is
the whole transaction of `_claim_question`: it cancels unfinished questions of
earlier generations and takes the oldest claimable one. `SaveResult` tests
token, status and lease, then the generation. `claims` numbers the uuid tokens.
Which events the retrieval's limits leave out is left open: any non-empty part
of the eligible events may be found. The engine returns a set of claims, each
the set of ids it cites; ids outside the retrieval make the answer an error, and
a claim on an event without a platform reading id is withheld.

### ChannelChecks and Cards

A fact is what a model extracted from one radio message. `Rebuild` folds the
facts in the order of their time into a set of checks, as `channels.rebuild`
does after every `record`; a check is named after the event that opened it,
which is why a fact read late may delete a check and bring it back. The names of
teams and channels are in their normalised form; `normalized` keeps letters a to z
and digits, so names without any are one and the same name to it.

`Cards` keeps no jobs and leases (`AgentStore` does): `Finish` is the
transaction that records a fact and rebuilds, or reports on the one ordinary
task, in any order of the workers. `Snapshot` is the projection every read of
the state makes, `Poll` a round of the 250 ms notification loop, `OpenStream` a
connection with nothing announced yet, `Answer` the handler of `GET /state`,
`Receive` the comparison of revisions in `refreshAgent`. Answers are a set, so
they overtake each other. A card's `content` is what its fingerprint compares:
also `asOf`, the time until which the history was checked. Requests in a row
that the hints of one round cause count as one; requests of the five-second
timer do not overlap with others (`AskAgain`); two hints of different rounds do.

### Publisher

Each invocation of `publish-one` opens the database (`Open`: interrupted rows
become uncertain), takes one row (`Start`, or `Block` when evidence has no
reading id) and walks through its calls. A call is put on `wire`; `Arrive`
applies it once at the platform, now, later, or never, whether or not its
publisher still waits. `GiveUp` is any exception, `Crash` the death of the
process at any point. `Enqueue`, `Reset` and `OperatorSets` are the rest of the
world. Incidents remember the row that created them, the readings linked and the
notes appended, so that duplicates and reordering show.

### LivePipeline

A worker is the thread of `_Worker.run` with its memory; `phase` is the request
it makes next:

    connect -> session -> history --------------------------+-> goal -> stream
                            \-> process -> tick -> history / goal   ^       |
                                                                \--- process

where `process` is `devices`, `readback`, `ingest`, `send`, `ingesting`, `post`
as far as they are needed. An observation's journal record is a set of flags:
`pending` (pending_platform), `accepted` (platform_accepted), `reading` and
`posted`. A request and what it changes is one step, because the other side
handles it in one transaction, with one exception: `POST /ingest/telemetry`
commits its readings one by one, so it is a record in `requests` that `Arrive`
serves reading by reading and that may outlive the thread that sent it. Requests
fail without effect (`RequestFails`), after part of a read-back
(`ReadBackFails`), or with effect and without an answer (`AnswerLost`); each ends
the round, and the thread starts over with its memory. An ingestion has three
ways to go wrong. `IngestLost` is a `PipelineError`: the thread asks for all
devices (`LoadDevices` or `DevicesFail`) and looks the readings up. `IngestCut` is
an error `request()` does not turn into one, an answer cut short or one that is no
HTTP or no object: it passes the inner handler by, and the round ends with the
devices known before, as after `DevicesFail`. Such an end is *blind* (`Blind`,
counted in `used.blind`) if the thread has sent a reading of a device that is
missing from a device list that is not empty, because the next round uses the list
as it is and cannot find that reading.
`IngestMalformed` acknowledges the batch and breaks off at one
of the returned readings: the memory has it as accepted, the journal does not.
`stop` is "requested" while the thread is still inside the request that was
running when its flag was set, "done" when the next `check()` will end it.

Left out: pages of the history and the chunks they are cut into are one thing;
a read-back window never reaches 500 rows (the code then raises, as for a failed
request); skipped observations are those in `Unmapped`; immutability of events
at the agent, an independently reset agent (the code refuses to connect) and
replayed stream sequences. Observations of an old generation that a stream
snapshot leaves in `pending` are dropped at once; the code drops them in
`process`.

### Mapper and Bridge

`phase` of the process is where it is: `ensure`, `creating` (awaiting
`POST /runs`), `connect`, `open` inside the stream, `play`, `forward`,
`forwarded`, `backoff`, `done` when `run_forever` returned, `off` after a crash.
Each await can be the last (`Crash`); what is left is `disk`, the state file.
The state machine is external: a run replays a script, a reset starts its next
generation, a heartbeat or `stream.reset` of another generation ends the stream,
a cursor can expire. `Forward` is a whole ingestion request of one item;
`ForwardFails` leaves it undone, after its first commit (the device), or on its
way (`late`, `Arrive`).
`Mapper` keeps what decides the fate of an item: kinds, types, the envelope of
the device from the cache, quality and availability. Fields that are copied are
left out, and runs paused by an operator, and how long to wait.
`StateAt` says of a device what its last `device.updated` said; the cache is built
the other way round, event by event (`MetaAfter`), so that one can be checked
against the other.

### PlatformApi

A request is a process in a database session of its own. An update is read
(`Load`), then changed and committed (`CommitUpdate`: SQLAlchemy writes the
columns whose value differs from the one it read), re-read (`Refresh`), then
published. Ingestion selects the device, inserts or updates it, stores the
reading and publishes it, item by item; a second insert of a device fails, which
ends an HTTP request and skips the item of a WebSocket. The dashboard
subscribes, then reads, and may lose its connection. `Subscribe` is the moment
the subscription takes effect; the page only sees the headers, which are sent
before it (`streams.py:20`).

In all of them, a definition that a plausible slip would break is preceded by the
slipped form, which nothing uses; `mutants` in `PROJECT.json` pairs them with the
property that catches each.

## 3. Runs

| Run | Question | Instance | Distinct states |
|---|---|---|---|
| `store_order` | Does any arrival, finishing or clock order, a retry or a reset at any moment break evidence, publication, absence or closure, or revive an old generation? | 2 events of one task, 1 worker, 1 reset, all kinds of reports | 2.2 million |
| `store_live` | Can two workers own one job? Does the store do only what the monitor does, does all work end, is every overdue task decided? | 2 events, 2 tasks, 2 teams, 2 workers, leases lost on the first claim, 1 restart | 0.2 million |
| `questions` | Is every question settled, by one claim, from what was known as of it, when an event is late, the clock moves, the session is reset and leases are lost? | 1 question, 1 event, 2 workers, 1 reset, restarts | 0.3 million |
| `cards` | Do checks rest on exactly one exchange, do revisions tell, does the page come to show what the agent would? | 5 events at 2 moments, of which 1 from a device out of scope and 1 without a reading id; 2 requests at a time, 1 fault | 0.7 million |
| `publish_faults` | Lost answers, late calls, crashes, unreadable evidence, an operator at work | 3 publications of one task, 1 reset, 3 invocations, 1 change by the operator | 2.3 million |
| `pipe_faults` | Is every observation stored once, unless the thread went blind, posted before the clock passes it and delivered, whatever fails? | 3 observations (1 unmapped) at 2 moments, 1 failed request, 2 connects, and a reset or two of: crash, empty agent, lost journal | 0.3 million |
| `pipe_switch` | Do two threads on one journal, a late ingestion or a malformed answer make it lie? | 2 observations, 2 workers, 1 failed request, 1 late ingestion, 1 crash, with, without or with malformed readings returned; threads interchangeable | 1.7 million |
| `bridge_faults` | Does the cursor keep its word, through resets, restarts, lost streams and expired cursors, in both modes? | 4 events of 2 devices, 2 generations, 2 lives, 1 fault, 1 late request | 0.2 million |
| `platform_api` | What do concurrent requests lose, and what does a subscriber miss? | 3 requests of 7 kinds, 1 incident, 1 dashboard, 1 fault | 2.2 million |
| `pipe_cut`, `bridge_one_run`, `bridge_play` | Expected violations, see below | small | stop at the counterexample |

The longest takes about three minutes with two TLC workers.

The last three each contradict a statement of the repository and are kept as
findings:

* `pipe_cut`: one failure stores an observation twice. The answer to the ingestion
  of a new device is cut short; `http.client.IncompleteRead` is neither an
  `OSError` nor a `ValueError`, so `request()` (`pipeline.py:194-203`) does not
  make it a `PipelineError`, and the handler that would look the reading up with a
  fresh device list (`:385`) does not see it. The next round uses the device list
  of before, which is not empty because the platform has devices of other runs
  (`:281`), skips the new device (`:289`) and ingests again (`:354`). Two failures
  of the ordinary kind do the same: the answer is lost, and the request for the
  devices that follows it fails. `dashboard/live/README.md` promises a check before
  any repetition.
* `bridge_one_run`: the idempotency key is saved only with the answer to
  `create_run` (`bridge.py:92-98`). A bridge that dies in between, after the
  state machine created the run, draws a new key when it starts again and
  creates a second run; `docker-compose.yml` says restarts resume the same one.
* `bridge_play`: the snapshot's cursor is saved before play is sent
  (`bridge.py:135-138`), and only a snapshot leads to play. A bridge that dies in
  between resumes with the cursor, gets no snapshot, and its run stays paused.

Four more divergences showed while modelling and have no run of their own:

* Without its journal the pipeline starts at clock 0 and asks the agent for an
  earlier time than the agent's. `Store.tick` refuses, and every round ends there
  (`pipeline.py:412`, `store.py:119`). The test that a lost journal is recovered
  from (`test_pipeline.py:148`) uses an agent double that accepts any clock.
  `Delivered` therefore excepts a lost journal, and a lost agent database: while
  the journal's clock is 0, the repair of an empty agent (`pipeline.py:245`) is
  not made.
* A card that is deleted and comes back starts at revision 0 again, and
  deletions are not announced; `agent-ui-contract-v0.1/INTEGRATION.md:31` and
  `:37` have growing revisions and no deletion. The page rereads everything on
  every hint and every five seconds, which hides it: `PageCatchesUp` holds.
* After `context.invalidated` the page accepts the late answer of a request it
  made before (`app.js:274`); `INTEGRATION.md:39` asks to discard it.
* A watch whose evidence goes out of the subject's scope leaves a stale card
  (`ui_service.py:204`). `CardsInScope` shows that it is only stale.

Why the bounds are enough:

* Two workers give every race for one job; a third can only repeat what one of
  the two does. Two claims of a job are needed for a stale token; with
  `SlowClaims = 2` a live worker is overtaken once, and the limit of three
  attempts is reached by failures, by a lost lease or a restart, and by both.
* In `store_order` two events of one task that arrive in either order, are
  claimed in either order and retried give both orders of two reports, and one
  worker that outlives a reset is the stale one; `WatchTimeout = 1` puts due
  times before, at and after events. More events and workers are in the proofs.
* One reset separates "old" and "current"; a second would act on the first's
  leftovers in the same way. The theorems hold for any number.
* Four radio messages are a named or an anonymous request each, or an assignment
  that was not asked for, with an assignment and a reply; `LinkWindow = 2` and
  `ReplyWindow = 1` with times 0 and 1 put a reply at the moment of the
  assignment, where it does not count, and one step after it, where it does. Two
  outstanding requests are what it takes for one answer to overtake another.
* Three publications of one task are needed for one to overtake an uncertain
  one and be followed; three invocations for a crash, a recovery and a repeat.
* Three observations at two moments give a batch that is full, a rest, a chunk
  that is not the last, and two observations of one moment; two devices give a
  read-back that half succeeds. `pipe_faults` has one failed request for its
  size, one thread because two on one journal may store twice, and no late
  ingestion because one that follows the read-back does; `pipe_switch` has the two
  threads and the late ingestion and checks what must hold even then. `MaxBlind`
  bounds the blind failures: one in `pipe_faults` and `pipe_cut`, none in
  `pipe_switch` for its size (with one it holds as well, on 2.4 million states).
* `Returns` is what an acknowledgement may hold. `pipe_faults` has the readings
  only, which is what the platform answers (`ingestion/http.py:22-36`): after an
  acknowledgement without them a thread whose device list lacks the new device
  waits for the IDs round after round (`pipeline.py:347`), and `Delivered` would not
  be true. `pipe_switch` has all three answers, and so have the theorems.
  `MaxUpsets = 2` lets a run of `pipe_faults` have a reset or two of the other
  upsets: a lost journal after a crash, an agent that forgets while the gateway
  is down.
* Four events are a first and a second reading of a device with the correction
  of its name in between, and one the contract refuses; two lives are a restart,
  two generations a reset, and one fault anywhere is a lost stream, an expired
  cursor or a failed request.
* Three requests give two that overlap and one that reads what they left, or
  three ingestions of one device.
* Deadlock checking is off where bounded counters let a system stop: every
  constant named Max... and `SlowClaims` is such a bound and nothing else.

## 4. Liveness and fairness

`store_live` and `questions` assume

* weak fairness of each worker: `worker()` and `question_worker()` loop as long
  as the process lives, every engine call is cut by its budget (28 s, 30 s for
  questions), so a step that stays possible is taken;
* weak fairness of `Tick(clock)`: each worker round ends with a tick at the
  current time, also when it found no job;
* weak fairness of lease expiry: wall time passes. A lease can run out under a
  live worker only on claims below `SlowClaims`: 45 s against 28 s (40 s against
  30 s), so outlasting it time and again is not normal operation.

`cards` assumes weak fairness of the stream's rounds, of the agent's answers, of
their arrival and of opening a stream, taken together: as long as one of them is
possible, one happens. That is less than fairness of each. Nothing is assumed of
the five-second timer, of workers, the clock or faults: without a failed request
the hints alone bring the page up to date, and after one the property waits until
the page has asked again.

`pipe_faults` assumes weak fairness of the thread (every request is cut off
after 12 s, a failed round is repeated after 2 s), of its end, of the platform
serving what reached it and of the stream noticing another generation, and
strong fairness of each kind of stream frame, since heartbeats and events share
one stream and neither is held back for ever. Browsers need not connect: the
promise ends when nobody imports the run.

`bridge_faults` assumes weak fairness of the process, whose requests have
timeouts, of `POST /runs` at the state machine, of the container's restart after
a crash (`restart: on-failure`, so not after `run_forever` returned), and of a
running run publishing its script. Streams need not break and cursors need not
expire.

Nothing is assumed of operators, resets, ingestion, the scenario clock,
operators' incidents or the publisher. The publisher runs only when it is
invoked by hand, so no liveness is claimed for it. Two limits are built into
what is claimed: `WatchesDecided` leaves out tasks held up by an event that
failed for good, for which the code waits for ever, and worker loops are taken
not to die of a database error while their process lives (`api.py` restarts
neither; `/health` reports it).

## 5. Proofs

For any sets of events, tasks, teams, workers and extractions, any timeout and
any number of resets and restarts:

* `AgentStoreProofs!TypeCorrect`: `Spec => []TypeOK`, one lemma per action.
* The safety properties of `AgentStoreProofs` rest on one inductive invariant,
  `Inv`: the type invariant and
  * `TokensDiffer`: two workers that hold the same job hold different tokens,
    and none holds a token above the job's attempts. `OneOwner` follows.
  * `ObsoleteWorkCancelled` and `GenerationsApart`: old generations are settled,
    and generations not yet begun are blank.
  * `AbsentBlank`: an absent event or task has blank rows.
  * `EvidenceTrail` itself.
  * `RowsBehind`: the evidence of the outbox rows of a task consists of parts of
    its watch's evidence, so a longer trail gives a key never used before. This
    is why INSERT OR IGNORE swallows nothing.
  * `OutboxTracksWatch` itself.

  From it follow the theorems `OutboxFollows`, `EvidenceOrdered`, `SingleOwner`,
  `ResetCancels`, `ObsoleteNeverChanges`, `AbsenceNeverPremature`,
  `ClosedStaysClosed` and `TeamNeverChanges`; the last four are action
  properties. `TeamHolds` is stated and proved only; no run repeats it.
* `AgentStoreProofs!StoreImplementsMonitor`: `Spec => ImplementsMonitor`. Each
  action maps to one of the monitor's or to a stutter: `ClaimJob`, lease expiry,
  refused and repeated results, and restarts are invisible; `Finish` is `Read`,
  the third failure `GiveUp`, `Reset` is `StartOver`.
* `TaskMonitorProofs!SourcesNeverShared`: in the monitor no event supports two
  tasks. `AgentStoreProofs!NoEventDecidesTwice` carries this over to the store:
  the monitor's invariant is inductive, every step of the store is one of the
  monitor, so no event is evidence for two tasks or before it is done.

For any events, readings, scopes, numbers of requests, streams and faults, and
whatever the reducer makes of the facts:

* `CardsProofs!RevisionsIdentify`: `Spec => []RevisionTells`. The invariant adds
  that no snapshot is ahead of the context's revision. It rests on one lemma: a
  refresh either leaves all cards or moves the revision (`SnapshotGoesOn`), since
  every change is counted and the set of changes is finite. The page's rule to
  show what has the greater revision depends on exactly this.
* `CardsProofs!ScopeKept`: `Spec => []CardsInScope`. A refresh writes only cards
  that are in scope now, and time never goes back.

What the reducer makes of the facts, for any messages and crews and whatever
the models extract:

* `CardsProofs!RepliesSupportOneExchange`: `Spec => []SupportedByExchange`. The
  reducer is a fold over the facts, from the earliest to the latest. Its equation,
  that the checks of some facts are those of all but the latest with the latest
  linked in, is proved of every finite set of facts by a smallest counterexample
  (`RebuildStep`, `RebuildNone`); induction in the form of the library's theorems
  is not needed. The invariant of the fold, `Linked`, says that each check rests
  on facts, that no event plays two parts, and that a reply that was linked could
  mean its own check and no other. A later fact could spoil the last by adding an
  assignment the reply might have meant; it cannot, since it is later than the
  reply (`MeantBefore`). That a linked reply finds its check still open to it
  (`MeantIsAnswered`) is where the two windows matter: a check must not leave the
  linkable ones while a reply to it may come.
* `CardsProofs!InOrderNothingIsTorn`: `Spec => InOrderExtends`. If a fact is the
  latest, the reducer's result is the old one with it linked in (`RebuildNext`),
  and linking never takes a check's request or its assignment away. This is the
  comment "delayed delivery has the same result as replay" of `channels.py`: the
  checks depend on the set of facts alone, and facts that come in order extend
  them.

For any tasks, events, numbers of resets, publications, invocations and changes
by operators, with calls that are lost, late or interrupted anywhere:

* `PublisherProofs`: `PublisherTyped`, `IncidentsAreUnique`, `NotesAreInOrder`,
  `SentRowsAreShown`, `RowsAreTakenInOrder`, and the action properties
  `RowsAreNeverReplayed` and `OperatorsKeepTheStatus`, from one invariant. None of
  the four state properties is inductive alone; they hold together, with
  * `RowsOfTheirTime`, `OwnRow`: what is pending is of this generation, and the
    process owns the one row that is `sending`;
  * `LinksRight`, `BornRight`: a link leads to an incident of its task, and an
    incident without a link was made by a row in doubt;
  * `WireRight`, `Creating`, `Resolving`, `Updating`, `Committing`: what a call on
    the wire, and the process at each of its steps, may rely on.

  The argument turns on `NoOvertaking`: a row in doubt stops the rows after it, so
  at most one row of a task is under way, every call on the wire belongs to it,
  and no late call can meet what a later row did.

For any questions, events, workers and answers, and any number of resets and lost
leases:

* `UIQuestionsProofs!EveryAnswerIsGrounded`: the invariant adds `WorkersHold`, what
  a worker between two of its steps may still rely on when it saves: the row it
  claimed was asked at the time it retrieved for, and what it retrieved is stored
  and no later. `NotAsked` is about blank rows; `RowsFinite` makes the next row
  number exist.
* `RevisionsAlwaysTell`: one lemma per way a row changes.
* `QuestionsImplementTheDesk`: `Spec => ImplementsDesk`. `Submit` is `Ask`, a cancel
  and the cleanup of a claim are `WithdrawOne` and `WithdrawObsolete`, `SaveResult`
  is `Answer`, or a withdrawal when the session was reset meanwhile; claims,
  retrieval, the engine and its failures up to the last attempt are invisible.

For any recording, batch sizes, threads, requests, faults, resets and late
ingestions:

* `LivePipelineProofs!ClockWaitsForEvidence`: `Spec => []EvidenceBeforeClock`. The
  agent's clock moves to a moment only after every mapped observation before it was
  posted. The invariant says what a thread knows in each phase (`ThreadsTell`), what
  a journal it may load says (`JournalsTell`), and that the agent's clock has
  reached nothing that is missing (`Reached`); the last three hold as long as the
  agent kept its database, as the property does.
* `BeliefsAreTrue`: `Spec => []JournalTruthful`.
* `DoubtIsRecorded`: `DoubtRecorded` for one thread at a time (`Lone`, a hypothesis
  of the theorem). That is the shape of the program while nobody switches runs.
  With two threads the property is false, as TLC shows: a thread that was told
  to stop finishes the request it is in and saves its records over those of its
  successor. `pipe_faults` checks it with one thread for the same reason.
* `StoredOnceUntilDevicesMissed`: `StoredOnceUnlessBlind` for one thread as long as no
  ingestion outlived its request (`Clear` is that and no blind failure). Both are
  needed: `pipe_cut` shows it of one, and an ingestion that outlives its sender may
  be carried out after the read-back. Any number of requests may fail, answers may be
  malformed or without readings; crashes, stops, reconnections, resets
  and losses of the journal or the agent's database are not restricted. The
  invariant, `Once`, says of the thread that
  * `Settled`: whatever of its generation is stored, it knows to be, but for what it
    is about to read back or has just sent (`Doubtful`), and, while it reads the
    history, what it has not reached yet;
  * `Paced`: a batch of the history lies behind the chunk it was read with, and the
    history is left only past what the snapshot named;
  * `Located`: what is stored and not known to be has a device on its list, or the
    list is empty and will be asked for, or it is waiting for that very answer, or
    it is fetching the list after a failure, and only what it sent is in question.
    Here a blind failure breaks the proof as it breaks the program: the list of
    before stays in use. A failure that is not blind does not: all that was sent is
    of devices on the list, or the list is empty.

  and that a request carries nothing that is stored (`RequestsNew`), and what is
  stored was published (`StoredRightly`). It does not depend on the journal: a thread
  that starts reads back whatever it finds in the history, which is why the
  journal's loss does no harm here.

For any number of concurrent requests, devices, items and faults:

* `PlatformApiProofs!LossNeedsOverlap`: `Spec => []LostOnlyInOverlap`. For
  incidents the invariant says that the notes of an incident, and those in a copy
  a request read, at the moment it commits too, are of committed updates
  (`NotesKnown`, `NotesCopied`). So a note that is about to be committed is in no
  copy anybody read. An update that commits without the note of an earlier one had
  not read it, and cannot have been read by it: it is the one the property asks
  for. For
  dashboards it is a count, `Versions`: as long as no two committed updates read the
  same version, the versions 1, 2, ... were each read by one of them, so the next
  commit either repeats one of these or adds one.
* `SubscribersAreTold`: what the dashboard has not seen is in the hands of a request
  between its commit and its message, or lost with a failed one (`RowsTold`,
  `ReadingsTold`).
* `AnswersTellWhatIsStored`: `Ingesting` says what an ingestion has stored and
  counted as failed when it is at an item, and that a device it did not find was
  inserted by another request.

For any script, devices and keys, in both modes, and any number of generations,
lives, faults and late requests:

* `BridgeProofs!CursorClaimsNoMore`: `Spec => []AccountedFor`. The invariant says
  that the cursor in the file is of the run and generation followed and all before
  it is published (`FileRight`), that memory and file agree while the bridge
  follows its run (`MemoryRight`), and that the open stream continues at the cursor,
  with an item in hand that was made of the next event (`StreamRight`). The mapper's
  part is `ItemIs`: whatever the cache said, an item is named after its observation,
  and the contract takes it if it would take the one made from the registry.
* `SentOncePerLife`: `Spec => []OncePerLife`, by a count. What is stored of an
  observation plus what is on its way (`Spent`) is no more than the lives begun; it
  equals them only once the cursor is past the observation, or, without a cursor,
  the observation is published and so before the next snapshot. That depends on the
  order of runs: a life creates at most one run, so a fresh key is always left
  (`KeysLeft`), and a generation never returns.
* `CacheGoesWithCursor`: `Spec => []CacheInStep`. The lemma is `StateAfter`: one
  event changes the cache as it changes the last update of each device.
* `ResetIsBarrier`: `Spec => []GenerationBarrier`, from the same invariant.

Assumptions on constants: `StoreAssumption`, `MonitorAssumption`,
`WindowAssumption`, `CardsAssumption`, `PublisherAssumption`,
`QuestionsAssumption`, `PipelineAssumption`, `PlatformAssumption` and
`BridgeAssumption`: bounds are naturals, event numbers, the events an outbox row
may name and the requests of a run are finitely many, what a module takes from
another process is well-formed, later observations have no earlier times, null
values are not members. `WindowAssumption` adds that a check stays open to a linked
reply at least as long as to an unlinked one (60 s and 30 s in
`channels.py`), and `CardsAssumption` that neither a task nor the null value is an
event. `BridgeAssumption` adds that there is a fresh key for
each life (the code draws a uuid4), that events and observations have the fields
the mapper reads, and that an item made of an observation of a known kind is not
the null value. TLC evaluates each of them. Every part of an inductive invariant
was checked by TLC before it was proved, those of the live pipeline on the
instances of `pipe_faults` and `pipe_switch` and on one with two failed
requests, a late ingestion and three upsets.

Only model-checked:

* liveness, which is beyond the prover: `JobsSettle`, `WatchesDecided`,
  `QuestionsSettle`, `PageCatchesUp`, `Delivered` and `CatchesUp`.

Every safety invariant and action property of the passing runs is a theorem, two of
them with a hypothesis: `DoubtRecorded` for one thread, `StoredOnceUnlessBlind`
for one thread and no late ingestion.

## 6. Not modelled

* Wording, prompts, JSON layouts, authentication, the gateway, migrations.
* What the models say: an engine may return anything of its type or fail.
* SQLite itself: transactions are atomic, durable and serial, which is what
  `BEGIN IMMEDIATE` gives. A statement that fails with "database is locked"
  appears where the code catches it.
* Two publishers on one database and two API processes with event workers, which
  the service's README excludes. `questions` has two question workers because
  the code claims to bear it.
* The analysis thread of the live pipeline: it submits a question of its own when
  observations were imported and polls it. The agent's side, where a repeated
  submission must be recognised, is in `UIQuestions`.
* Platform import: a loop that re-reads a window of readings into the idempotent
  `Store.ingest`.
* The rest of the page: rendering, audio, the question form, the state machine's
  frames, and switching between contexts.
* Filters, page limits and presigned URLs of the platform's read endpoints; the
  publication and platform status shown on cards; one piece of evidence, a read.
* Operators who pause a run of the state machine while the bridge follows it.

## 7. Plan

1. `AnalysisLoop`, the second thread of the live pipeline: one outstanding
   automatic question, idempotent submission across restarts, the turn of user
   questions; composed with `UIQuestions`.
2. The page over several contexts: epochs, `context.invalidated`, the question
   form with its uncertain submission.
3. Composition of `AgentStore`'s outbox with `Publisher`, and an abstract
   "observation log" that the publisher implements.
4. Proofs: liveness stays with TLC. `StoredOnceUnlessBlind` with two threads needs a model of
   how often `stop()` lets the replaced thread finish; what holds then is
   `JournalTruthful`.
