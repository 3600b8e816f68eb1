----------------------------- MODULE UIQuestions ----------------------------
(***************************************************************************)
(* The life of an operator's question in the agent service                 *)
(* (agent-service/fire_agents/ui_service.py: submit, cancel,               *)
(* _claim_question, _events, process_one; the question worker of api.py).  *)
(*                                                                         *)
(* A question is a durable row.  The worker handles it in four             *)
(* transactions with awaits and plain code between them: claim, retrieve,  *)
(* record the retrieval, save the result.  Between any two of them         *)
(* operators cancel, the session is reset, events arrive, the clock moves, *)
(* the lease runs out or the process restarts.                             *)
(*                                                                         *)
(* One subject is modelled, bound to all sources; each of its generations  *)
(* is bound when the session is reset.                                     *)
(***************************************************************************)
EXTENDS Integers, FiniteSets

CONSTANTS
  Event,
  TimeOf,       \* the scenario time an event carries
  NoReading,    \* events without a platform reading id
  Key,          \* client_request_ids
  NoKey,
  Worker,       \* question workers; one per process
  Answers,      \* what the engine may return: sets of claims, a claim being
                \* the set of event ids it cites
  MaxTime,      \* bound: scenario times are 0..MaxTime
  MaxGen,       \* bound: resets
  SlowClaims    \* bound: a live worker outlasts its lease only on claims below it

ASSUME QuestionsAssumption ==
  /\ MaxTime \in Nat /\ MaxGen \in Nat /\ SlowClaims \in Nat
  /\ TimeOf \in [Event -> 0..MaxTime]
  /\ NoReading \subseteq Event
  /\ Answers \subseteq SUBSET SUBSET Event
  /\ NoKey \notin Key

Time == 0..MaxTime
Gen == 0..MaxGen

VARIABLES
  generation, clock, \* sessions
  stored,            \* events table: the events of a generation
  questions,         \* ui_questions, by generation and client_request_id
  revision,          \* ui_contexts.revision, by generation
  held,              \* the locals of process_one
  phase              \* where a worker is in process_one

vars == <<generation, clock, stored, questions, revision, held, phase>>

Unfinished == {"queued", "running"}
Terminal == {"ready", "insufficient_data", "error", "cancelled"}

(* The token is a fresh uuid, here the number of the claim; 0 is NULL.     *)
(* The comparison lease > now is the flag "leased".  "searched" is whether *)
(* the answer shows its retrieval; "evidence" what its claims cite.        *)
NoQuestion ==
  [status |-> "absent", revision |-> 0, asOf |-> 0, searched |-> FALSE,
   evidence |-> {}, row |-> 0, claims |-> 0, token |-> 0, leased |-> FALSE]
NoClaim == [gen |-> 0, key |-> NoKey, token |-> 0, events |-> {},
            status |-> "error", evidence |-> {}]

Init ==
  /\ generation = 0 /\ clock = 0
  /\ stored = [g \in Gen |-> {}]
  /\ questions = [g \in Gen |-> [k \in Key |-> NoQuestion]]
  /\ revision = [g \in Gen |-> 0]
  /\ held = [w \in Worker |-> NoClaim]
  /\ phase = [w \in Worker |-> "idle"]

-----------------------------------------------------------------------------
(* The session around the questions                                        *)

Ingest(e) ==
  /\ e \notin stored[generation]
  /\ stored' = [stored EXCEPT ![generation] = @ \cup {e}]
  /\ UNCHANGED <<generation, clock, questions, revision, held, phase>>

Tick(ms) ==
  /\ ms > clock
  /\ clock' = ms
  /\ UNCHANGED <<generation, stored, questions, revision, held, phase>>

Reset ==
  /\ generation < MaxGen
  /\ generation' = generation + 1
  /\ clock' = 0
  /\ UNCHANGED <<stored, questions, revision, held, phase>>

-----------------------------------------------------------------------------
(* HTTP handlers, for the current generation: any other is CONTEXT_STALE   *)

Rows(g) == {k \in Key : questions[g][k].status # "absent"}

(* A known client_request_id creates nothing. *)
Unused(k) == questions[generation][k].status = "absent"

(* submit *)
Submit(k) ==
  /\ Unused(k)
  /\ questions' = [questions EXCEPT ![generation][k] =
       [NoQuestion EXCEPT !.status = "queued", !.asOf = clock,
                          !.row = Cardinality(Rows(generation))]]
  /\ revision' = [revision EXCEPT ![generation] = @ + 1]
  /\ UNCHANGED <<generation, clock, stored, held, phase>>

Cancelled(q) ==
  [q EXCEPT !.status = "cancelled", !.revision = @ + 1, !.token = 0, !.leased = FALSE]

(* cancel *)
Cancel(k) ==
  /\ questions[generation][k].status \in Unfinished
  /\ questions' = [questions EXCEPT ![generation][k] = Cancelled(@)]
  /\ revision' = [revision EXCEPT ![generation] = @ + 1]
  /\ UNCHANGED <<generation, clock, stored, held, phase>>

-----------------------------------------------------------------------------
(* The question worker: process_one                                        *)

Obsolete(g) == {k \in Key : g # generation /\ questions[g][k].status \in Unfinished}

ClaimableIfQueued(k) == questions[generation][k].status = "queued"

Claimable(k) ==
  \/ questions[generation][k].status = "queued"
  \/ questions[generation][k].status = "running" /\ ~questions[generation][k].leased

First(k) ==
  /\ Claimable(k)
  /\ \A j \in Key : Claimable(j) =>
       questions[generation][k].row <= questions[generation][j].row

Claimed(q) ==
  [q EXCEPT !.status = "running", !.revision = @ + 1, !.claims = @ + 1,
            !.token = q.claims + 1, !.leased = TRUE]

(* _claim_question, one transaction: unfinished questions of previous      *)
(* generations are cancelled, then the oldest claimable one is taken.      *)
ClaimQuestion(w) ==
  /\ phase[w] = "idle"
  /\ \/ \E k \in Key :
          /\ First(k)
          /\ questions' = [g \in Gen |-> [j \in Key |->
               IF j \in Obsolete(g) THEN Cancelled(questions[g][j])
               ELSE IF g = generation /\ j = k THEN Claimed(questions[g][j])
               ELSE questions[g][j]]]
          /\ revision' = [g \in Gen |-> IF g = generation
               THEN revision[g] + 1
               ELSE revision[g] + Cardinality(Obsolete(g))]
          /\ held' = [held EXCEPT ![w] =
               [NoClaim EXCEPT !.gen = generation, !.key = k,
                               !.token = questions[generation][k].claims + 1]]
          /\ phase' = [phase EXCEPT ![w] = "claimed"]
     \/ /\ \A k \in Key : ~Claimable(k)
        /\ \E g \in Gen : Obsolete(g) # {}
        /\ questions' = [g \in Gen |-> [j \in Key |->
             IF j \in Obsolete(g) THEN Cancelled(questions[g][j]) ELSE questions[g][j]]]
        /\ revision' = [g \in Gen |-> revision[g] + Cardinality(Obsolete(g))]
        /\ UNCHANGED <<held, phase>>
  /\ UNCHANGED <<generation, clock, stored>>

HeldQuestion(w) == questions[held[w].gen][held[w].key]

EligibleNow(w) == {e \in stored[held[w].gen] : TimeOf[e] <= clock}

Eligible(w) == {e \in stored[held[w].gen] :
                  TimeOf[e] <= HeldQuestion(w).asOf}

Fail(w) ==
  /\ held' = [held EXCEPT ![w].status = "error", ![w].evidence = {}]
  /\ phase' = [phase EXCEPT ![w] = "answered"]

(* _events: a bounded selection of what was published as of the question.  *)
(* Which events the limits leave out is open here.                         *)
Retrieve(w) ==
  /\ phase[w] = "claimed"
  /\ held[w].gen = generation
  /\ \E found \in SUBSET Eligible(w) :
       /\ Eligible(w) # {} => found # {}
       /\ held' = [held EXCEPT ![w].events = found]
  /\ phase' = [phase EXCEPT ![w] = "retrieved"]
  /\ UNCHANGED <<generation, clock, stored, questions, revision>>

(* The context is stale, or the query failed. *)
RetrieveFails(w) ==
  /\ phase[w] = "claimed"
  /\ Fail(w)
  /\ UNCHANGED <<generation, clock, stored, questions, revision>>

Owns(w) == HeldQuestion(w).status = "running" /\ HeldQuestion(w).token = held[w].token

Release(w) ==
  /\ held' = [held EXCEPT ![w] = NoClaim]
  /\ phase' = [phase EXCEPT ![w] = "idle"]

ShownKeepingRevision(q) == [q EXCEPT !.searched = TRUE]

Shown(q) == [q EXCEPT !.searched = TRUE, !.revision = @ + 1]

(* The retrieval is persisted before the model call. *)
RecordRetrieval(w) ==
  /\ phase[w] = "retrieved"
  /\ \/ /\ Owns(w)
        /\ questions' = [questions EXCEPT ![held[w].gen][held[w].key] = Shown(@)]
        /\ revision' = [revision EXCEPT ![held[w].gen] = @ + 1]
        /\ phase' = [phase EXCEPT ![w] = "asking"]
        /\ UNCHANGED held
     \/ /\ ~Owns(w)
        /\ Release(w)
        /\ UNCHANGED <<questions, revision>>
  /\ UNCHANGED <<generation, clock, stored>>

(* A claim is withheld unless all the events it cites have a reading id. *)
Kept(claims) == {c \in claims : c # {} /\ c \cap NoReading = {}}

(* The engine returned claims that cite retrieved events only. *)
EngineAnswers(w, claims) ==
  /\ phase[w] = "asking"
  /\ UNION claims \subseteq held[w].events
  /\ held' = [held EXCEPT
       ![w].status = IF Kept(claims) # {} THEN "ready" ELSE "insufficient_data",
       ![w].evidence = UNION Kept(claims)]
  /\ phase' = [phase EXCEPT ![w] = "answered"]
  /\ UNCHANGED <<generation, clock, stored, questions, revision>>

(* The engine raised, ran out of its 30 seconds, or cited an unknown event. *)
EngineFails(w) ==
  /\ phase[w] = "asking"
  /\ Fail(w)
  /\ UNCHANGED <<generation, clock, stored, questions, revision>>

SavedAnyway(w, q) ==
  [q EXCEPT !.status = held[w].status, !.evidence = held[w].evidence,
            !.revision = @ + 1, !.token = 0, !.leased = FALSE]

(* The row the last transaction writes; a reset during the model call      *)
(* makes it a cancellation.                                                *)
Saved(w, q) ==
  [q EXCEPT !.status = IF held[w].gen = generation THEN held[w].status ELSE "cancelled",
            !.evidence = IF held[w].gen = generation THEN held[w].evidence ELSE {},
            !.revision = @ + 1, !.token = 0, !.leased = FALSE]

(* Cancellation or another worker supersedes this result. *)
SaveResult(w) ==
  /\ phase[w] = "answered"
  /\ IF Owns(w) /\ HeldQuestion(w).leased
       THEN /\ questions' = [questions EXCEPT ![held[w].gen][held[w].key] = Saved(w, @)]
            /\ revision' = [revision EXCEPT ![held[w].gen] = @ + 1]
       ELSE UNCHANGED <<questions, revision>>
  /\ Release(w)
  /\ UNCHANGED <<generation, clock, stored>>

-----------------------------------------------------------------------------
(* Environment                                                             *)

HeldBy(g, k, w) ==
  /\ phase[w] # "idle"
  /\ held[w].gen = g /\ held[w].key = k /\ held[w].token = questions[g][k].token

(* 40 seconds pass.  A live worker outlasts its lease only while the bound *)
(* SlowClaims allows: its engine call is cut after 30 seconds.             *)
ExpireLease(g, k) ==
  /\ questions[g][k].status = "running" /\ questions[g][k].leased
  /\ \/ questions[g][k].claims < SlowClaims
     \/ \A w \in Worker : ~HeldBy(g, k, w)
  /\ questions' = [questions EXCEPT ![g][k].leased = FALSE]
  /\ UNCHANGED <<generation, clock, stored, revision, held, phase>>

(* The process dies; bounded like slow workers.                            *)
Restart ==
  /\ \A w \in Worker : phase[w] # "idle" => HeldQuestion(w).claims < SlowClaims
  /\ held' = [w \in Worker |-> NoClaim]
  /\ phase' = [w \in Worker |-> "idle"]
  /\ UNCHANGED <<generation, clock, stored, questions, revision>>

WorkerStep(w) ==
  \/ ClaimQuestion(w)
  \/ Retrieve(w)
  \/ RetrieveFails(w)
  \/ RecordRetrieval(w)
  \/ \E claims \in Answers : EngineAnswers(w, claims)
  \/ EngineFails(w)
  \/ SaveResult(w)

Next ==
  \/ \E e \in Event : Ingest(e)
  \/ \E ms \in Time : Tick(ms)
  \/ Reset
  \/ \E k \in Key : Submit(k) \/ Cancel(k)
  \/ \E w \in Worker : WorkerStep(w)
  \/ \E g \in Gen, k \in Key : ExpireLease(g, k)
  \/ Restart

Spec == Init /\ [][Next]_vars

(* The question worker loops for as long as the process lives, and every   *)
(* call it waits for ends; wall time passes.                               *)
Fairness ==
  /\ \A w \in Worker : WF_vars(WorkerStep(w))
  /\ \A g \in Gen, k \in Key : WF_vars(ExpireLease(g, k))

FairSpec == Spec /\ Fairness

-----------------------------------------------------------------------------
(* Properties                                                              *)

(* What GET returns; token and lease are the worker's own.                 *)
Visible(q) == [status |-> q.status, searched |-> q.searched, evidence |-> q.evidence,
               asOf |-> q.asOf]

(* A reader that compares revisions misses nothing: every change of an     *)
(* answer raises its own revision, and the revision of the context that    *)
(* snapshots carry.                                                        *)
RevisionsTell == [][\A g \in Gen, k \in Key :
  /\ questions'[g][k].revision >= questions[g][k].revision
  /\ Visible(questions'[g][k]) # Visible(questions[g][k])
       => /\ revision'[g] > revision[g]
          /\ \/ questions[g][k].status = "absent"
             \/ questions'[g][k].revision > questions[g][k].revision]_vars

(* An answer that claims something, or that found nothing to claim, shows  *)
(* the retrieval it rests on, and its evidence was published by the time   *)
(* the question was asked at.                                              *)
AnswersGrounded == \A g \in Gen, k \in Key :
  LET q == questions[g][k]
  IN  /\ q.status \in {"ready", "insufficient_data"} => q.searched
      /\ \A e \in q.evidence : /\ e \in stored[g] \ NoReading
                               /\ TimeOf[e] <= q.asOf
      /\ q.status = "ready" <=> q.evidence # {}

(* Every question is settled, whatever the engine does, also when its      *)
(* worker dies, its lease is lost or its generation is reset away.         *)
QuestionsSettle == \A g \in Gen, k \in Key :
  questions[g][k].status \in Unfinished ~> questions[g][k].status \in Terminal

EntryOf(q) ==
  [state |-> IF q.status \in Unfinished THEN "open" ELSE q.status,
   asOf |-> q.asOf, evidence |-> q.evidence]

Desk == INSTANCE QuestionDesk WITH
  epoch <- generation,
  now   <- clock,
  known <- stored,
  asked <- [g \in Gen |-> [k \in Key |-> EntryOf(questions[g][k])]]

(* The questions of the service implement the question desk. *)
ImplementsDesk == Desk!DeskSpec
=============================================================================
