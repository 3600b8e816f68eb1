------------------------------- MODULE Cards -------------------------------
(***************************************************************************)
(* What the operator's page shows of a generation: the cards the agent     *)
(* projects from its watches, the notifications that hint at changes, and  *)
(* the page that reads the state again on every hint.                      *)
(* fire_agents/ui_service.py, store.py, channels.py, dashboard live/app.js *)
(*                                                                         *)
(* Watches come from two sources: channel checks, rebuilt from all facts   *)
(* whenever a fact is recorded, and one task that is reported on.  Cards   *)
(* are projected only while somebody reads the state: by the notification  *)
(* stream every 250 ms, by a page that asked.                              *)
(*                                                                         *)
(* Events are numbers: the reducer orders facts of one moment by event id. *)
(***************************************************************************)
EXTENDS ChannelChecks

CONSTANTS
  Event,       \* events of the generation, as numbers
  Task,        \* the task other reports are about
  TimeOf,      \* time_ms of each event
  SourceOf,    \* source_id of each event
  Device,      \* the devices the subject is bound to
  NoReading,   \* events without a platform reading id
  Readings,    \* for each event, what the model may extract from it
  NoCard, NoView, Closed,
  MaxTime, MaxAsks, MaxFaults  \* bounds

Time == 0..MaxTime
Id == Event \cup {Task}

ASSUME CardsAssumption ==
  /\ Event \subseteq Nat /\ IsFiniteSet(Event) /\ Task \notin Event /\ None \notin Event
  /\ MaxTime \in Nat /\ TimeOf \in [Event -> Time]
  /\ NoReading \subseteq Event

VARIABLES
  clock,     \* sessions.time_ms
  read,      \* events whose job is done
  facts,     \* channel_facts
  checks,    \* channel_checks, and their watches
  task,      \* the watch of Task: its assessment and evidence
  cards,     \* ui_cards
  revision,  \* ui_contexts.revision
  seen,      \* the stream's last announced revision of each card, or its end
  view,      \* the snapshot the page shows
  asked,     \* requests of the page the agent has not answered yet
  answers,   \* snapshots on their way to the page
  failed,    \* a request failed, and the page has not asked anew since
  faults     \* faults used up, for the bound

store == <<clock, read, facts, checks, task>>
page == <<view, answers, failed>>
vars == <<store, cards, revision, seen, asked, page, faults>>

Unseen == [i \in Id |-> -1]

Init ==
  /\ clock = 0
  /\ read = {} /\ facts = {} /\ checks = {}
  /\ task = [assessment |-> "absent", evidence |-> {}]
  /\ cards = [i \in Id |-> NoCard] /\ revision = 0
  /\ seen = Closed
  /\ view = NoView /\ asked = 1 /\ answers = {} /\ failed = FALSE
  /\ faults = 0

-----------------------------------------------------------------------------
(* The agent's workers *)

Tick ==
  /\ clock < MaxTime
  /\ clock' = clock + 1
  /\ UNCHANGED <<read, facts, checks, task, cards, revision, seen, asked, page, faults>>

(* A fact rests on its own event and may cite earlier ones of its source.   *)
ValidEvidence(e, cites) ==
  /\ e \in cites
  /\ \A s \in cites : SourceOf[s] = SourceOf[e] /\ TimeOf[e] - TimeOf[s] \in 0..LinkWindow

Record(e, x) ==
  LET fact == [event |-> e, time |-> TimeOf[e], source |-> SourceOf[e],
               action |-> x.action, team |-> x.team, channel |-> x.channel,
               cites |-> x.cites]
  IN /\ ValidEvidence(e, x.cites)
     /\ facts' = facts \cup {fact}
     /\ checks' = Rebuild(facts')
     /\ UNCHANGED task

(* An older report than the last changes nothing.  The rules of assessments, *)
(* teams and timeouts are in AgentStore.                                    *)
Report(e, x) ==
  /\ task' = IF \A s \in task.evidence : TimeOf[s] <= TimeOf[e]
               THEN [assessment |-> x.assessment, evidence |-> task.evidence \cup {e}]
               ELSE task
  /\ UNCHANGED <<facts, checks>>

(* Workers take due events and finish them in any order.                    *)
Finish(e) ==
  /\ e \notin read /\ TimeOf[e] <= clock
  /\ read' = read \cup {e}
  /\ \E x \in Readings[e] :
       IF x.action = "reported" THEN Report(e, x) ELSE Record(e, x)
  /\ UNCHANGED <<clock, cards, revision, seen, asked, page, faults>>

-----------------------------------------------------------------------------
(* The projection *)

Check(i) == CHOOSE c \in checks : c.ref = i
Watches == {c.ref : c \in checks} \cup (IF task.assessment = "absent" THEN {} ELSE {Task})
Evidence(i) == (IF i = Task THEN task.evidence ELSE Check(i).evidence) \cap Event

(* Slip: one source in scope is enough.                                     *)
VisibleInPart(i) ==
  /\ Evidence(i) # {}
  /\ \E e \in Evidence(i) : TimeOf[e] <= clock /\ SourceOf[e] \in Device

Visible(i) ==
  /\ Evidence(i) # {}
  /\ \A e \in Evidence(i) : TimeOf[e] <= clock /\ SourceOf[e] \in Device

(* The values the assessments of watches have on cards. *)
Shown == [checking |-> "checking", accepted |-> "checking",
          no_confirmation |-> "insufficient_data",
          supported_by_report |-> "supported",
          no_longer_relevant |-> "insufficient_data"]

Assessment(i) ==
  IF Evidence(i) \cap NoReading # {} THEN "insufficient_data"
  ELSE IF i = Task THEN Shown[task.assessment]
  ELSE IF Check(i).acknowledgement # None THEN "supported" ELSE "insufficient_data"

(* The fingerprint: everything on the card but its revision, also until     *)
(* when the history was checked.                                            *)
Content(i) ==
  [assessment |-> Assessment(i),
   statement |-> IF i = Task THEN task.assessment ELSE
                   LET c == Check(i)
                   IN <<c.team, c.request, c.channel, c.acknowledgement # None>>,
   evidence |-> Evidence(i) \ NoReading, asOf |-> clock]

(* _refresh_cards: a card whose watch is gone is deleted; a watch that may  *)
(* not be shown leaves its card as it was; what has changed is written.     *)
Written(card, content) ==
  IF card = NoCard THEN [revision |-> 0, content |-> content]
  ELSE IF card.content = content THEN card
  ELSE [revision |-> card.revision + 1, content |-> content]
Refreshed ==
  [i \in Id |-> IF i \notin Watches THEN NoCard
                ELSE IF Visible(i) THEN Written(cards[i], Content(i)) ELSE cards[i]]

(* Slip: only a card that appears or disappears is a change of the context. *)
ComeOrGone(new) == {i \in Id : (new[i] = NoCard) # (cards[i] = NoCard)}

Changed(new) == {i \in Id : new[i] # cards[i]}

(* snapshot(): every change is a revision of its own.                       *)
Snapshot ==
  LET new == Refreshed
  IN /\ cards' = new
     /\ revision' = revision + Cardinality(Changed(new))

-----------------------------------------------------------------------------
(* notifications(), the requests of the page and its answers *)

Ask == asked + Cardinality(answers) < MaxAsks /\ asked' = asked + 1

News(new) == {i \in Id : new[i] # NoCard /\ seen[i] < new[i].revision}

(* A round of the stream.  The hints of a round make the page ask again; of *)
(* the requests they cause in a row one stands for all.                     *)
Poll ==
  /\ seen # Closed
  /\ UNCHANGED <<store, page, faults>>
  /\ Snapshot
  /\ LET news == News(cards')
     IN IF news = {} THEN UNCHANGED <<seen, asked>>
        ELSE /\ seen' = [i \in Id |-> IF i \in news THEN cards'[i].revision ELSE seen[i]]
             /\ Ask

(* GET /state *)
Answer ==
  /\ asked > 0
  /\ UNCHANGED <<store, seen, view, failed, faults>>
  /\ asked' = asked - 1
  /\ Snapshot
  /\ answers' = answers \cup {[revision |-> revision', cards |-> cards']}

(* Slip: an answer is shown whenever it comes.                              *)
AcceptsAny(s) == TRUE
Accepts(s) == view = NoView \/ s.revision >= view.revision

(* Answers overtake each other.                                             *)
Receive ==
  /\ \E s \in answers :
       /\ view' = IF Accepts(s) THEN s ELSE view
       /\ answers' = answers \ {s}
  /\ UNCHANGED <<store, cards, revision, seen, asked, failed, faults>>

RequestFails ==
  /\ faults < MaxFaults
  /\ \/ asked > 0 /\ asked' = asked - 1 /\ UNCHANGED answers
     \/ (\E s \in answers : answers' = answers \ {s}) /\ UNCHANGED asked
  /\ failed' = TRUE
  /\ faults' = faults + 1
  /\ UNCHANGED <<store, cards, revision, seen, view>>

(* The stream breaks; the page asks at once and opens another two seconds   *)
(* later, which starts with nothing announced.                              *)
StreamBreaks ==
  /\ seen # Closed /\ faults < MaxFaults
  /\ seen' = Closed
  /\ Ask
  /\ faults' = faults + 1
  /\ UNCHANGED <<store, cards, revision, page>>

OpenStream ==
  /\ seen = Closed
  /\ UNCHANGED <<store, view, answers, faults>>
  /\ Snapshot
  /\ seen' = Unseen
  /\ Ask
  /\ failed' = FALSE

(* The page also asks every five seconds.  Requests overlap because of      *)
(* hints; that those of the timer overlap with them is left out.            *)
AskAgain ==
  /\ asked = 0 /\ answers = {}
  /\ asked' = 1
  /\ failed' = FALSE
  /\ UNCHANGED <<store, cards, revision, seen, view, answers, faults>>

-----------------------------------------------------------------------------
Next ==
  \/ Tick \/ \E e \in Event : Finish(e)
  \/ Poll \/ Answer \/ Receive \/ RequestFails \/ StreamBreaks \/ OpenStream
  \/ AskAgain

Spec == Init /\ [][Next]_vars

(* The stream polls while it is open, the agent answers, answers arrive and *)
(* a page without a stream opens one: as long as one of these can happen,   *)
(* one does.  Nothing is assumed of the workers, the clock or faults.       *)
Fairness == WF_vars(Receive \/ OpenStream \/ Answer \/ Poll)
FairSpec == Spec /\ Fairness

-----------------------------------------------------------------------------
(* Properties *)

Fact(e) == CHOOSE f \in facts : f.event = e
Roles(c) == {c.request, c.assignment, c.acknowledgement} \ {None}

(* A reply supports a check only if it answers exactly one assignment: on   *)
(* the same source and channel, strictly after it and within the window,    *)
(* and no other check that the reply could mean was assigned that channel   *)
(* in that time.  Nothing plays a part in two checks.                       *)
(* channels.py:45-93, agent-service/README.md:90-94                         *)
SupportedByExchange ==
  /\ \A c, d \in checks : c # d => Roles(c) \cap Roles(d) = {}
  /\ \A c \in checks : c.acknowledgement # None =>
       LET reply == Fact(c.acknowledgement)
           couldMean == {d \in checks :
             /\ d.assignment # None
             /\ LET a == Fact(d.assignment)
                IN /\ a.source = reply.source /\ a.channel = reply.channel
                   /\ reply.time - a.time \in 1..ReplyWindow
             /\ reply.team \in {None, d.team}}
       IN couldMean = {c}

(* Only what was said earlier than something already known links anew: a    *)
(* fact that is the latest so far leaves every check its name, its request, *)
(* its channel and its assignment, so cards are not torn down while the     *)
(* radio traffic is read in order.                                          *)
InOrderExtends ==
  [][\A f \in facts' \ facts :
       (\A g \in facts : Before(g, f)) =>
         \A c \in checks : \E d \in checks' :
           /\ d.ref = c.ref /\ d.request = c.request /\ c.evidence \subseteq d.evidence
           /\ c.channel # None => d.channel = c.channel /\ d.assignment = c.assignment]_vars

Snapshots == answers \cup (IF view = NoView THEN {} ELSE {view})
               \cup {[revision |-> revision, cards |-> cards]}

(* Two snapshots of the same revision show the same cards: the page may     *)
(* compare revisions to tell which of two answers is the later one, and     *)
(* with the context's current revision it shows the current cards.          *)
RevisionTells ==
  \A s, t \in Snapshots : s.revision = t.revision => s.cards = t.cards

(* No card shows an observation of a device outside the subject's scope, or *)
(* of the future.                                                           *)
CardsInScope ==
  \A i \in Id : cards[i] # NoCard =>
    \A e \in cards[i].content.evidence : TimeOf[e] <= clock /\ SourceOf[e] \in Device

(* When nothing happens any more the page shows what the agent would show,  *)
(* although deletions are not announced, a card that comes back starts with *)
(* revision 0 below what the stream has seen, and answers overtake each     *)
(* other; unless a request has failed and the page has not asked again, as  *)
(* it does every five seconds and when it opens a stream.                   *)
PageCatchesUp ==
  <>[](failed \/ (view # NoView /\ view.cards = cards /\ cards = Refreshed))
=============================================================================
