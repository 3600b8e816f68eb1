---------------------------- MODULE QuestionDesk ----------------------------
(***************************************************************************)
(* What the agent service promises about operators' questions, with no     *)
(* queue, no worker, no lease and no retry: a question is frozen at the    *)
(* scenario time it was asked at, is answered at most once and only while  *)
(* its generation is the current one, from what was known up to that time, *)
(* and may be withdrawn until then.  UIQuestions is shown to implement     *)
(* this specification.                                                     *)
(***************************************************************************)
EXTENDS Integers

CONSTANTS
  Event,     \* the events that may be ingested
  TimeOf,    \* the scenario time an event carries
  NoReading, \* the events without a platform reading id
  Key,       \* client_request_ids
  MaxTime,   \* bound on scenario time
  MaxGen     \* bound: resets

VARIABLES
  epoch,   \* the current generation
  now,     \* its scenario clock
  known,   \* the events ingested, by generation
  asked    \* the questions, by generation and key

qdvars == <<epoch, now, known, asked>>

Moment == 0..MaxTime
Epoch == 0..MaxGen
Answered == {"ready", "insufficient_data", "error"}
Entry == [state : Answered \cup {"absent", "open", "cancelled"},
          asOf : Moment, evidence : SUBSET Event]
NoEntry == [state |-> "absent", asOf |-> 0, evidence |-> {}]

DeskTypeOK ==
  /\ epoch \in Epoch /\ now \in Moment
  /\ known \in [Epoch -> SUBSET Event]
  /\ asked \in [Epoch -> [Key -> Entry]]

DeskInit ==
  /\ epoch = 0 /\ now = 0
  /\ known = [g \in Epoch |-> {}]
  /\ asked = [g \in Epoch |-> [k \in Key |-> NoEntry]]

Learn(e) ==
  /\ e \notin known[epoch]
  /\ known' = [known EXCEPT ![epoch] = @ \cup {e}]
  /\ UNCHANGED <<epoch, now, asked>>

Advance(ms) == ms >= now /\ now' = ms /\ UNCHANGED <<epoch, known, asked>>

StartOver ==
  /\ epoch < MaxGen
  /\ epoch' = epoch + 1
  /\ now' = 0
  /\ UNCHANGED <<known, asked>>

Ask(k) ==
  /\ asked[epoch][k].state = "absent"
  /\ asked' = [asked EXCEPT ![epoch][k] =
       [state |-> "open", asOf |-> now, evidence |-> {}]]
  /\ UNCHANGED <<epoch, now, known>>

(* What an answer as of that time may rest on. *)
KnownAsOf(g, asOf) == {e \in known[g] : TimeOf[e] <= asOf}

(* Claims are made only with evidence, and only with evidence that has a   *)
(* reading id an operator can look up.                                     *)
Answer(k, state, evidence) ==
  /\ asked[epoch][k].state = "open"
  /\ evidence \subseteq KnownAsOf(epoch, asked[epoch][k].asOf) \ NoReading
  /\ state = "ready" <=> evidence # {}
  /\ asked' = [asked EXCEPT ![epoch][k].state = state, ![epoch][k].evidence = evidence]
  /\ UNCHANGED <<epoch, now, known>>

Withdraw(entry) == IF entry.state = "open"
                     THEN [entry EXCEPT !.state = "cancelled"] ELSE entry

WithdrawOne(k) ==
  /\ asked' = [asked EXCEPT ![epoch][k] = Withdraw(@)]
  /\ UNCHANGED <<epoch, now, known>>

(* Some questions of earlier generations are withdrawn together. *)
WithdrawObsolete ==
  /\ \E gone \in SUBSET {g \in Epoch : g < epoch}, keys \in SUBSET Key :
       asked' = [g \in Epoch |-> [k \in Key |->
         IF g \in gone /\ k \in keys THEN Withdraw(asked[g][k]) ELSE asked[g][k]]]
  /\ UNCHANGED <<epoch, now, known>>

DeskNext ==
  \/ \E e \in Event : Learn(e)
  \/ \E ms \in Moment : Advance(ms)
  \/ StartOver
  \/ \E k \in Key : \/ Ask(k)
                    \/ WithdrawOne(k)
                    \/ \E state \in Answered, evidence \in SUBSET Event :
                         Answer(k, state, evidence)
  \/ WithdrawObsolete

DeskSpec == DeskInit /\ [][DeskNext]_qdvars
=============================================================================
