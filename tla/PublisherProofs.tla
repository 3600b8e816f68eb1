--------------------------- MODULE PublisherProofs --------------------------
(***************************************************************************)
(* The safety properties of Publisher, for any tasks, events, resets,      *)
(* publications, invocations and changes by operators.  A row in doubt     *)
(* keeps its task to itself: everything else follows from that.            *)
(***************************************************************************)
EXTENDS Publisher, FiniteSetTheorems, FunctionTheorems, TLAPS

Doubt == {"sending", "uncertain"}
Working == phase \notin {"idle", "open"}
LinkOf(r) == link[outbox[r].gen][outbox[r].task]
Linked(i) == Contents(incidents[i].linked)
Noted(i) == Contents(incidents[i].notes)
NoIncident(r) == \A i \in DOMAIN incidents : ~SameScope(incidents[i].born, r)

(* Rows are pending only in the current generation and cancelled only in   *)
(* earlier ones.                                                           *)
RowsOfTheirTime == \A r \in DOMAIN outbox :
  /\ outbox[r].gen <= generation
  /\ outbox[r].status = "pending" => outbox[r].gen = generation
  /\ outbox[r].status = "cancelled" => outbox[r].gen < generation

(* The process owns the one row it is sending.                             *)
OwnRow ==
  /\ Working => row \in DOMAIN outbox /\ outbox[row].status = "sending"
  /\ ~Working => row = 0
  /\ answered => phase \in Waiting
  /\ \A r \in DOMAIN outbox : outbox[r].status = "sending" => phase = "idle" \/ r = row

(* A link leads to an incident of its task.                                *)
LinksRight == \A g \in Gen, t \in Task :
  LET i == link[g][t]
  IN  i # None => /\ i \in DOMAIN incidents
                  /\ incidents[i].born \in DOMAIN outbox
                  /\ outbox[incidents[i].born].gen = g
                  /\ outbox[incidents[i].born].task = t

(* An incident is linked, or the row that made it is in doubt.             *)
BornRight == \A i \in DOMAIN incidents :
  LET b == incidents[i].born
  IN  /\ b \in DOMAIN outbox
      /\ \/ outbox[b].status \in Doubt \cup Sent /\ LinkOf(b) = i
         \/ outbox[b].status \in Doubt /\ LinkOf(b) = None

(* Only what was taken up is noted. *)
NotedTaken == \A i \in DOMAIN incidents : \A r \in Noted(i) :
  r \in DOMAIN outbox /\ outbox[r].status \in Doubt \cup Sent

Awaits == [create |-> "creating", resolve |-> "resolving",
           link |-> "linking", note |-> "noting"]

(* A call that has not been carried out.                                   *)
CallOpen(c) ==
  /\ c.op = "create" => LinkOf(c.row) = None /\ NoIncident(c.row)
  /\ c.op # "create" => c.incident = LinkOf(c.row) /\ c.incident # None
  /\ c.op \in {"resolve", "note"} => c.row \notin Noted(c.incident)
  /\ c.op = "resolve" => incidents[c.incident].born = c.row /\ outbox[c.row].closes
  /\ c.op \in {"note", "link"} => incidents[c.incident].born # c.row
  /\ c.op = "link" => c.event \in Event /\ c.event \notin Linked(c.incident)

(* A row has at most one call under way, and is in doubt meanwhile.        *)
CallRight(c) ==
  /\ c.row \in DOMAIN outbox /\ outbox[c.row].status \in Doubt
  /\ \A d \in wire : d.row = c.row => d = c
  /\ Working /\ c.row = row => phase = Awaits[c.op] /\ ~answered
  /\ CallOpen(c)

WireRight == \A c \in wire : CallRight(c)

(* What the process knows at each of its phases.                           *)
Creating ==
  /\ phase \in {"toCreate", "creating"} => LinkOf(row) = None
  /\ phase = "toCreate" => NoIncident(row)
  /\ phase = "creating" /\ answered =>
       /\ incident \in DOMAIN incidents
       /\ incidents[incident].born = row
       /\ row \notin Noted(incident)
       /\ outbox[row].evidence \subseteq Linked(incident)

Resolving ==
  /\ phase \in {"toResolve", "resolving"} =>
       /\ outbox[row].closes
       /\ incident = LinkOf(row) /\ incident # None
       /\ incidents[incident].born = row
       /\ outbox[row].evidence \subseteq Linked(incident)
  /\ phase = "toResolve" => row \notin Noted(incident)
  /\ phase = "resolving" /\ answered => row \in Noted(incident)

Updating ==
  /\ phase \in {"reading", "toLink", "linking", "noting"} =>
       incident = LinkOf(row) /\ incident # None /\ incidents[incident].born # row
  /\ phase \in {"reading", "toLink", "linking"} => row \notin Noted(incident)
  /\ phase \in {"toLink", "linking"} => toLink \cap Linked(incident) = {}
  /\ phase = "toLink" \/ (phase = "linking" /\ answered) =>
       outbox[row].evidence \subseteq Linked(incident) \cup toLink
  /\ phase = "linking" => \A c \in wire : c.row = row =>
       /\ c.event \notin toLink
       /\ outbox[row].evidence \subseteq Linked(incident) \cup toLink \cup {c.event}
  /\ phase = "noting" => outbox[row].evidence \subseteq Linked(incident)
  /\ phase = "noting" /\ answered => row \in Noted(incident)

(* The linked incident shows a row with all its evidence.                  *)
Shown(r, i) ==
  /\ LinkOf(r) = i /\ i # None
  /\ \/ incidents[i].born = r /\ (outbox[r].closes => r \in Noted(i))
     \/ r \in Noted(i)
  /\ outbox[r].evidence \subseteq Linked(i)

Committing == phase = "commit" => Shown(row, incident)

Inv == /\ TypeOK /\ RowsOfTheirTime /\ OwnRow /\ LinksRight /\ BornRight
       /\ NotedTaken /\ WireRight /\ Creating /\ Resolving /\ Updating /\ Committing
       /\ OneIncident /\ NotesInOrder /\ SentIsShown /\ NoOvertaking

-----------------------------------------------------------------------------
(* Types                                                                   *)

(* create_incident links the whole evidence, each reading once. *)
LEMMA BatchIs ==
  ASSUME NEW S \in SUBSET Event
  PROVE  /\ Batch(S) \in Seq(Event)
         /\ Contents(Batch(S)) = S
         /\ \A k, l \in DOMAIN Batch(S) : Batch(S)[k] = Batch(S)[l] => k = l
<1> DEFINE n == Cardinality(S)
           OntoS(s) == \A e \in S : \E i \in DOMAIN s : s[i] = e
<1>1. /\ IsFiniteSet(S) /\ n \in Nat
      /\ ExistsBijection(1..n, S)
    BY PublisherAssumption, FS_Subset, FS_CardinalityType
<1>2. PICK f \in Bijection(1..n, S) : TRUE
    BY <1>1, Fun_ExistsBij
<1>3. f \in [1..n -> S] /\ OntoS(f)
    BY DEF Bijection, Injection, Surjection
<1>4. Batch(S) \in [1..n -> S] /\ OntoS(Batch(S))
  <2>1. Batch(S) = CHOOSE s \in [1..n -> S] : OntoS(s)
      BY DEF Batch
  <2> HIDE DEF n, OntoS
  <2> QED
      BY <1>3, <2>1
<1>5. Batch(S) \in Surjection(1..n, S)
    BY <1>4 DEF Surjection
<1>6. IsFiniteSet(1..n) /\ Cardinality(1..n) = n
    BY <1>1, FS_Interval
<1>7. Batch(S) \in Injection(1..n, S)
    BY <1>5, <1>6, FS_SurjSameCardinalityImpliesInj
<1> HIDE DEF n
<1>8. Batch(S) \in Seq(Event)
    BY <1>1, <1>4
<1>9. \A k, l \in 1..n : Batch(S)[k] = Batch(S)[l] => k = l
    BY <1>7, Fun_InjectionProperties
<1>10. Contents(Batch(S)) = S
    BY <1>4 DEF Contents
<1> QED
    BY <1>4, <1>8, <1>9, <1>10

LEMMA RowType ==
  ASSUME TypeOK, NEW r \in DOMAIN outbox
  PROVE  /\ outbox[r] \in Row /\ r \in Nat /\ r # 0 /\ r <= Len(outbox)
         /\ outbox[r].gen \in Gen /\ outbox[r].gen \in Nat
         /\ outbox[r].task \in Task /\ outbox[r].closes \in BOOLEAN
         /\ outbox[r].evidence \in SUBSET Event /\ outbox[r].status \in RowStatus
         /\ LinkOf(r) \in Nat \cup {None}
<1>1. outbox[r] \in Row /\ r \in Nat /\ r # 0 /\ r <= Len(outbox)
    BY DEF TypeOK
<1>2. /\ outbox[r].gen \in Gen /\ outbox[r].task \in Task /\ outbox[r].closes \in BOOLEAN
      /\ outbox[r].evidence \in SUBSET Event /\ outbox[r].status \in RowStatus
    BY <1>1 DEF Row
<1>3. LinkOf(r) \in Nat \cup {None}
    BY <1>2 DEF TypeOK, LinkOf
<1> QED
    BY <1>1, <1>2, <1>3 DEF Gen

LEMMA IncidentType ==
  ASSUME TypeOK, NEW i \in DOMAIN incidents
  PROVE  /\ incidents[i] \in Incident /\ i \in Nat /\ i # None /\ i <= Len(incidents)
         /\ incidents[i].born \in Nat /\ incidents[i].status \in IncidentStatus
         /\ incidents[i].linked \in Seq(Event) /\ incidents[i].notes \in Seq(Nat)
         /\ Linked(i) \subseteq Event /\ Noted(i) \subseteq Nat
<1>1. incidents[i] \in Incident /\ i \in Nat /\ i # None /\ i <= Len(incidents)
    BY PublisherAssumption DEF TypeOK
<1>2. /\ incidents[i].born \in Nat /\ incidents[i].status \in IncidentStatus
      /\ incidents[i].linked \in Seq(Event) /\ incidents[i].notes \in Seq(Nat)
    BY <1>1 DEF Incident
<1>3. Linked(i) \subseteq Event /\ Noted(i) \subseteq Nat
    BY <1>2 DEF Linked, Noted, Contents
<1> QED
    BY <1>1, <1>2, <1>3


(* What a row is about never changes, and no row is deleted. *)
RowsKept ==
  /\ DOMAIN outbox \subseteq DOMAIN outbox'
  /\ \A r \in DOMAIN outbox :
       /\ outbox'[r].gen = outbox[r].gen /\ outbox'[r].task = outbox[r].task
       /\ outbox'[r].closes = outbox[r].closes
       /\ outbox'[r].evidence = outbox[r].evidence

LEMMA StatusChange ==
  ASSUME NEW x \in Row, NEW st \in RowStatus
  PROVE  LET y == [x EXCEPT !.status = st]
         IN  /\ y \in Row /\ y.status = st /\ y.gen = x.gen /\ y.task = x.task
             /\ y.closes = x.closes /\ y.evidence = x.evidence
BY DEF Row

LEMMA OneRowChange ==
  ASSUME TypeOK, NEW r \in DOMAIN outbox, NEW st \in RowStatus,
         outbox' = [outbox EXCEPT ![r].status = st]
  PROVE  /\ outbox' \in Seq(Row) /\ RowsKept
         /\ DOMAIN outbox' = DOMAIN outbox
         /\ \A s \in DOMAIN outbox : s # r => outbox'[s].status = outbox[s].status
         /\ outbox'[r].status = st
<1>1. /\ outbox \in Seq(Row) /\ outbox[r] \in Row
    BY DEF TypeOK
<1> DEFINE y == [outbox[r] EXCEPT !.status = st]
<1>2. /\ y \in Row /\ y.status = st /\ y.gen = outbox[r].gen /\ y.task = outbox[r].task
      /\ y.closes = outbox[r].closes /\ y.evidence = outbox[r].evidence
    BY <1>1, StatusChange
<1>3. outbox' = [outbox EXCEPT ![r] = y]
    OBVIOUS
<1> HIDE DEF y
<1>4. /\ outbox' \in Seq(Row) /\ DOMAIN outbox' = DOMAIN outbox /\ outbox'[r] = y
      /\ \A s \in DOMAIN outbox : s # r => outbox'[s] = outbox[s]
    BY <1>1, <1>2, <1>3
<1> QED
    BY <1>2, <1>4 DEF RowsKept

LEMMA ManyRowsChange ==
  ASSUME TypeOK, NEW from \in RowStatus, NEW to \in RowStatus,
         outbox' = [r \in DOMAIN outbox |->
           IF outbox[r].status = from THEN [outbox[r] EXCEPT !.status = to] ELSE outbox[r]]
  PROVE  /\ outbox' \in Seq(Row) /\ RowsKept
         /\ DOMAIN outbox' = DOMAIN outbox
         /\ \A r \in DOMAIN outbox : outbox'[r].status =
              IF outbox[r].status = from THEN to ELSE outbox[r].status
<1>1. outbox \in Seq(Row) /\ \A r \in DOMAIN outbox : outbox[r] \in Row
    BY DEF TypeOK
<1>2. \A r \in DOMAIN outbox :
        /\ outbox'[r] \in Row
        /\ outbox'[r].status = IF outbox[r].status = from THEN to ELSE outbox[r].status
        /\ outbox'[r].gen = outbox[r].gen /\ outbox'[r].task = outbox[r].task
        /\ outbox'[r].closes = outbox[r].closes
        /\ outbox'[r].evidence = outbox[r].evidence
    BY <1>1, StatusChange
<1>3. DOMAIN outbox' = DOMAIN outbox /\ DOMAIN outbox = 1..Len(outbox) /\ Len(outbox) \in Nat
    BY <1>1
<1>4. outbox' \in [1..Len(outbox) -> Row]
    BY <1>2, <1>3
<1>5. outbox' \in Seq(Row)
    BY <1>3, <1>4
<1> QED
    BY <1>2, <1>3, <1>5 DEF RowsKept

-----------------------------------------------------------------------------
(* Steps that leave the links and the incidents' history alone             *)

IncidentsKept ==
  /\ DOMAIN incidents' = DOMAIN incidents
  /\ \A i \in DOMAIN incidents : /\ incidents'[i].born = incidents[i].born
                                 /\ incidents'[i].linked = incidents[i].linked
                                 /\ incidents'[i].notes = incidents[i].notes

Quiet == RowsKept /\ IncidentsKept /\ link' = link

(* A row in doubt stays so, or is sent under the link it has. *)
DoubtEnds == \A r \in DOMAIN outbox :
  /\ outbox[r].status \in Sent => outbox'[r].status \in Sent
  /\ outbox[r].status \in Doubt =>
       \/ outbox'[r].status \in Doubt
       \/ outbox'[r].status \in Sent /\ LinkOf(r) # None

LEMMA ScopeKept ==
  ASSUME RowsKept, NEW r \in DOMAIN outbox, NEW s \in DOMAIN outbox
  PROVE  SameScope(r, s)' <=> SameScope(r, s)
BY DEF RowsKept, SameScope

LEMMA ScopeIsEquivalence ==
  ASSUME NEW r, NEW s, NEW t, SameScope(r, s)
  PROVE  SameScope(s, r) /\ (SameScope(s, t) => SameScope(r, t))
BY DEF SameScope

(* A scope has one row in doubt, and rows sent only before it. *)
LEMMA OneInDoubt ==
  ASSUME TypeOK, NoOvertaking, NEW r \in DOMAIN outbox, NEW s \in DOMAIN outbox,
         SameScope(r, s), outbox[r].status \in Doubt,
         outbox[s].status \in Doubt \cup Sent
  PROVE  /\ s <= r
         /\ outbox[s].status \in Doubt => r = s
<1>1. r \in Nat /\ s \in Nat
    BY RowType
<1>2. SameScope(s, r)
    BY DEF SameScope
<1>3. r < s => outbox[r].status \in Sent
    BY DEF NoOvertaking, Doubt, Sent
<1>4. s < r => outbox[s].status \in Sent
    BY <1>2 DEF NoOvertaking, Doubt, Sent
<1> QED
    BY <1>1, <1>3, <1>4 DEF Doubt, Sent

(* Rows of a scope have the same link. *)
LEMMA OneLink ==
  ASSUME NEW r, NEW s, SameScope(r, s)
  PROVE  LinkOf(r) = LinkOf(s)
BY DEF SameScope, LinkOf

LEMMA LinkedIncident ==
  ASSUME TypeOK, LinksRight, NEW r \in DOMAIN outbox, LinkOf(r) # None
  PROVE  /\ LinkOf(r) \in DOMAIN incidents
         /\ incidents[LinkOf(r)].born \in DOMAIN outbox
         /\ SameScope(incidents[LinkOf(r)].born, r)
<1>1. outbox[r].gen \in Gen /\ outbox[r].task \in Task
    BY RowType
<1> QED
    BY <1>1 DEF LinksRight, LinkOf, SameScope

LEMMA QuietView ==
  ASSUME Quiet
  PROVE  /\ \A i \in DOMAIN incidents : /\ incidents'[i].born = incidents[i].born
                                        /\ Linked(i)' = Linked(i) /\ Noted(i)' = Noted(i)
         /\ \A r \in DOMAIN outbox : LinkOf(r)' = LinkOf(r)
         /\ \A r \in DOMAIN outbox, i \in DOMAIN incidents : Shown(r, i)' <=> Shown(r, i)
<1>1. \A i \in DOMAIN incidents :
        incidents'[i].born = incidents[i].born /\ Linked(i)' = Linked(i) /\ Noted(i)' = Noted(i)
    BY DEF Quiet, IncidentsKept, Linked, Noted, Contents
<1>2. \A r \in DOMAIN outbox : LinkOf(r)' = LinkOf(r)
    BY DEF Quiet, RowsKept, LinkOf
<1>3. ASSUME NEW r \in DOMAIN outbox, NEW i \in DOMAIN incidents
      PROVE  Shown(r, i)' <=> Shown(r, i)
    BY <1>1, <1>2 DEF Quiet, RowsKept, Shown
<1> QED
    BY <1>1, <1>2, <1>3

LEMMA QuietNoIncident ==
  ASSUME Quiet, BornRight, NEW r \in DOMAIN outbox
  PROVE  NoIncident(r)' <=> NoIncident(r)
<1>1. \A i \in DOMAIN incidents : incidents[i].born \in DOMAIN outbox
    BY DEF BornRight
<1>2. \A i \in DOMAIN incidents :
        SameScope(incidents[i].born, r)' <=> SameScope(incidents[i].born, r)
  <2> TAKE i \in DOMAIN incidents
  <2>1. incidents'[i].born = incidents[i].born
      BY DEF Quiet, IncidentsKept
  <2> QED
      BY <1>1, <2>1 DEF SameScope, Quiet, RowsKept
<1> QED
    BY <1>2 DEF NoIncident, Quiet, IncidentsKept

(* What is said of incidents survives such a step. *)
LEMMA QuietIncidents ==
  ASSUME Inv, Quiet, DoubtEnds
  PROVE  LinksRight' /\ BornRight' /\ NotedTaken' /\ OneIncident' /\ NotesInOrder'
<1> USE DEF Inv
<1>1. LinksRight'
    BY DEF LinksRight, Quiet, RowsKept, IncidentsKept
<1>2. BornRight'
  <2> SUFFICES ASSUME NEW i \in DOMAIN incidents
               PROVE  LET b == incidents[i].born
                      IN  /\ b \in DOMAIN outbox'
                          /\ \/ outbox'[b].status \in Doubt \cup Sent /\ LinkOf(b)' = i
                             \/ outbox'[b].status \in Doubt /\ LinkOf(b)' = None
      BY DEF BornRight, Quiet, IncidentsKept, LinkOf
  <2> DEFINE b == incidents[i].born
  <2>1. b \in DOMAIN outbox /\ b \in DOMAIN outbox'
      BY DEF BornRight, Quiet, RowsKept
  <2>2. LinkOf(b)' = LinkOf(b)
      BY <2>1, QuietView
  <2>3. \/ outbox[b].status \in Doubt \cup Sent /\ LinkOf(b) = i
        \/ outbox[b].status \in Doubt /\ LinkOf(b) = None
      BY DEF BornRight
  <2> QED
      BY <2>1, <2>2, <2>3 DEF DoubtEnds
<1>3. NotedTaken'
  <2> SUFFICES ASSUME NEW i \in DOMAIN incidents, NEW r \in Noted(i)'
               PROVE  r \in DOMAIN outbox' /\ outbox'[r].status \in Doubt \cup Sent
      BY DEF NotedTaken, Quiet, IncidentsKept
  <2>1. r \in Noted(i)
      BY QuietView
  <2>2. r \in DOMAIN outbox /\ outbox[r].status \in Doubt \cup Sent
      BY <2>1 DEF NotedTaken
  <2> QED
      BY <2>2 DEF DoubtEnds, Quiet, RowsKept
<1>4. OneIncident'
  <2> SUFFICES ASSUME NEW i \in DOMAIN incidents, NEW j \in DOMAIN incidents, i # j
               PROVE  ~SameScope(incidents[i].born, incidents[j].born)'
      BY DEF OneIncident, Quiet, IncidentsKept
  <2>1. ~SameScope(incidents[i].born, incidents[j].born)
      BY DEF OneIncident
  <2>2. incidents[i].born \in DOMAIN outbox /\ incidents[j].born \in DOMAIN outbox
      BY DEF BornRight
  <2>3. incidents'[i].born = incidents[i].born /\ incidents'[j].born = incidents[j].born
      BY DEF Quiet, IncidentsKept
  <2> QED
      BY <2>1, <2>2, <2>3 DEF SameScope, Quiet, RowsKept
<1>5. NotesInOrder'
  <2> SUFFICES ASSUME NEW i \in DOMAIN incidents, NEW k \in DOMAIN incidents[i].notes
               PROVE  LET inc == incidents[i]
                      IN  /\ SameScope(inc.notes[k], inc.born)'
                          /\ \/ inc.notes[k] > inc.born
                             \/ inc.notes[k] = inc.born /\ outbox'[inc.born].closes
                          /\ \A l \in DOMAIN inc.notes :
                               k < l => inc.notes[k] < inc.notes[l]
      BY DEF NotesInOrder, Quiet, IncidentsKept, SameScope
  <2> DEFINE n == incidents[i].notes[k]
             b == incidents[i].born
  <2>1. b \in DOMAIN outbox
      BY DEF BornRight
  <2>2. n \in Noted(i)
      BY DEF Noted, Contents
  <2>3. n \in DOMAIN outbox
      BY <2>2 DEF NotedTaken
  <2>4. /\ SameScope(n, b)
        /\ n > b \/ (n = b /\ outbox[b].closes)
        /\ \A l \in DOMAIN incidents[i].notes :
             k < l => incidents[i].notes[k] < incidents[i].notes[l]
      BY DEF NotesInOrder
  <2>5. incidents'[i].born = b /\ incidents'[i].notes = incidents[i].notes
      BY DEF Quiet, IncidentsKept
  <2>6. outbox'[b].closes = outbox[b].closes
      BY <2>1 DEF Quiet, RowsKept
  <2>7. SameScope(n, b)'
      BY <2>1, <2>3, <2>4, <2>5 DEF SameScope, Quiet, RowsKept
  <2> QED
      BY <2>4, <2>6, <2>7
<1> QED
    BY <1>1, <1>2, <1>3, <1>4, <1>5

(* Rows sent stay shown, and rows shown may be marked as sent. *)
LEMMA QuietSent ==
  ASSUME Inv, Quiet,
         \A r \in DOMAIN outbox' : outbox'[r].status \in Sent =>
           /\ r \in DOMAIN outbox
           /\ outbox[r].status \in Sent \/ \E i : Shown(r, i)
  PROVE  SentIsShown'
<1> USE DEF Inv
<1>1. ASSUME NEW r \in DOMAIN outbox', outbox'[r].status \in Sent
      PROVE  \E i \in DOMAIN incidents' :
               /\ link'[outbox'[r].gen][outbox'[r].task] = i
               /\ \/ /\ incidents'[i].born = r
                     /\ outbox'[r].closes => r \in Contents(incidents'[i].notes)
                  \/ r \in Contents(incidents'[i].notes)
               /\ outbox'[r].evidence \subseteq Contents(incidents'[i].linked)
  <2>1. r \in DOMAIN outbox
      BY <1>1
  <2>2. \E i : Shown(r, i) /\ i \in DOMAIN incidents
    <3>1. CASE outbox[r].status \in Sent
      <4>1. PICK i \in DOMAIN incidents :
              /\ link[outbox[r].gen][outbox[r].task] = i
              /\ \/ /\ incidents[i].born = r
                    /\ outbox[r].closes => r \in Contents(incidents[i].notes)
                 \/ r \in Contents(incidents[i].notes)
              /\ outbox[r].evidence \subseteq Contents(incidents[i].linked)
          BY <2>1, <3>1 DEF SentIsShown
      <4>2. i # None
          BY IncidentType
      <4> QED
          BY <4>1, <4>2 DEF Shown, LinkOf, Noted, Linked
    <3>2. CASE outbox[r].status \notin Sent
      <4>1. PICK i : Shown(r, i)
          BY <1>1, <3>2
      <4>2. LinkOf(r) = i /\ i # None
          BY <4>1 DEF Shown
      <4> QED
          BY <2>1, <4>1, <4>2, LinkedIncident
    <3> QED
        BY <3>1, <3>2
  <2>3. PICK i \in DOMAIN incidents : Shown(r, i)
      BY <2>2
  <2>4. Shown(r, i)' /\ i \in DOMAIN incidents'
      BY <2>1, <2>3, QuietView DEF Quiet, IncidentsKept
  <2> QED
      BY <2>4 DEF Shown, LinkOf, Noted, Linked
<1>2. ASSUME NEW i \in DOMAIN incidents', NEW k \in DOMAIN incidents'[i].linked,
             NEW l \in DOMAIN incidents'[i].linked,
             incidents'[i].linked[k] = incidents'[i].linked[l]
      PROVE  k = l
    BY <1>2 DEF SentIsShown, Quiet, IncidentsKept
<1> QED
    BY <1>1, <1>2 DEF SentIsShown

(* Calls stay right while their rows stay in doubt. *)
LEMMA QuietCalls ==
  ASSUME Inv, Quiet, wire' = wire,
         \A c \in wire : /\ outbox'[c.row].status \in Doubt
                         /\ Working' /\ c.row = row' => phase' = Awaits[c.op] /\ ~answered'
  PROVE  WireRight'
<1> USE DEF Inv
<1> SUFFICES ASSUME NEW c \in wire PROVE CallRight(c)'
    BY DEF WireRight
<1>1. CallRight(c)
    BY DEF WireRight
<1>2. c.row \in DOMAIN outbox
    BY <1>1 DEF CallRight
<1>3. LinkOf(c.row)' = LinkOf(c.row) /\ (NoIncident(c.row)' <=> NoIncident(c.row))
    BY <1>2, QuietView, QuietNoIncident
<1>4. c.op # "create" => c.incident \in DOMAIN incidents
    BY <1>1, <1>2, LinkedIncident DEF CallRight, CallOpen
<1>5. c.op # "create" => /\ Noted(c.incident)' = Noted(c.incident)
                         /\ Linked(c.incident)' = Linked(c.incident)
                         /\ incidents'[c.incident].born = incidents[c.incident].born
    BY <1>4, QuietView
<1>6. c.row \in DOMAIN outbox' /\ outbox'[c.row].closes = outbox[c.row].closes
    BY <1>2 DEF Quiet, RowsKept
<1>7. c.op \in {"create", "resolve", "link", "note"}
    BY DEF TypeOK, Call
<1>8. CallOpen(c)'
  <2> SUFFICES
      /\ c.op = "create" => LinkOf(c.row)' = None /\ NoIncident(c.row)'
      /\ c.op # "create" => c.incident = LinkOf(c.row)' /\ c.incident # None
      /\ c.op \in {"resolve", "note"} => c.row \notin Noted(c.incident)'
      /\ c.op = "resolve" => incidents'[c.incident].born = c.row /\ outbox'[c.row].closes
      /\ c.op \in {"note", "link"} => incidents'[c.incident].born # c.row
      /\ c.op = "link" => c.event \in Event /\ c.event \notin Linked(c.incident)'
      BY DEF CallOpen
  <2> QED
      BY <1>1, <1>3, <1>5, <1>6, <1>7 DEF CallRight, CallOpen
<1>9. \A d \in wire' : d.row = c.row => d = c
    BY <1>1 DEF CallRight
<1> QED
    BY <1>6, <1>8, <1>9 DEF CallRight

(* What the process knows survives a step of somebody else. *)
LEMMA QuietProcess ==
  ASSUME Inv, Quiet, UNCHANGED <<process, wire>>,
         \A r \in DOMAIN outbox : outbox[r].status \in Doubt =>
           outbox'[r].status = outbox[r].status
  PROVE  WireRight' /\ Creating' /\ Resolving' /\ Updating' /\ Committing'
<1> USE DEF Inv
<1>1. WireRight'
  <2>1. \A c \in wire : outbox'[c.row].status \in Doubt
      BY DEF WireRight, CallRight
  <2>2. \A c \in wire : Working /\ c.row = row => phase = Awaits[c.op] /\ ~answered
      BY DEF WireRight, CallRight
  <2> QED
      BY <2>1, <2>2, QuietCalls DEF process, Working
<1>2. CASE ~Working
    BY <1>1, <1>2 DEF Working, process, Creating, Resolving, Updating, Committing
<1>3. CASE Working
  <2>1. row \in DOMAIN outbox
      BY <1>3 DEF OwnRow
  <2>2. LinkOf(row) # None => LinkOf(row) \in DOMAIN incidents
      BY <2>1, LinkedIncident
  <2>3. /\ outbox'[row].closes = outbox[row].closes
        /\ outbox'[row].evidence = outbox[row].evidence
        /\ LinkOf(row)' = LinkOf(row)
        /\ NoIncident(row)' <=> NoIncident(row)
      BY <2>1, QuietView, QuietNoIncident DEF Quiet, RowsKept, process
  <2>4. incident \in DOMAIN incidents =>
          /\ incidents'[incident].born = incidents[incident].born
          /\ Linked(incident)' = Linked(incident) /\ Noted(incident)' = Noted(incident)
          /\ Shown(row, incident)' <=> Shown(row, incident)
      BY <2>1, QuietView DEF process
  <2>5. DOMAIN incidents' = DOMAIN incidents
      BY DEF Quiet, IncidentsKept
  <2>6. Creating'
      BY <2>3, <2>4, <2>5 DEF Creating, process
  <2>7. Resolving'
      BY <2>2, <2>3, <2>4 DEF Resolving, process
  <2>8. Updating'
      BY <2>2, <2>3, <2>4 DEF Updating, process
  <2>9. Committing'
      BY <2>2, <2>4 DEF Committing, Shown, process
  <2> QED
      BY <1>1, <2>6, <2>7, <2>8, <2>9
<1> QED
    BY <1>2, <1>3

-----------------------------------------------------------------------------
(* Steps of the store and of operators                                     *)

LEMMA OthersKeep ==
  ASSUME Inv, Quiet, UNCHANGED <<process, wire>>,
         TypeOK', RowsOfTheirTime', NoOvertaking',
         \A r \in DOMAIN outbox : outbox[r].status \in Doubt \cup Sent =>
           outbox'[r].status = outbox[r].status,
         \A r \in DOMAIN outbox' : outbox'[r].status \in {"sending"} \cup Sent =>
           r \in DOMAIN outbox /\ outbox[r].status = outbox'[r].status
  PROVE  Inv'
<1>1. OwnRow'
    BY DEF Inv, OwnRow, Working, process, Quiet, RowsKept, Doubt
<1>2. DoubtEnds
    BY DEF DoubtEnds
<1>3. LinksRight' /\ BornRight' /\ NotedTaken' /\ OneIncident' /\ NotesInOrder'
    BY <1>2, QuietIncidents
<1>4. SentIsShown'
    BY QuietSent
<1>5. WireRight' /\ Creating' /\ Resolving' /\ Updating' /\ Committing'
    BY QuietProcess
<1> QED
    BY <1>1, <1>3, <1>4, <1>5 DEF Inv

LEMMA EnqueueKeeps ==
  ASSUME Inv, NEW t \in Task, NEW closes \in BOOLEAN, NEW evidence \in SUBSET Event,
         Enqueue(t, closes, evidence)
  PROVE  Inv'
<1> USE DEF Inv
<1> DEFINE new == [gen |-> generation, task |-> t, closes |-> closes,
                   evidence |-> evidence, status |-> "pending"]
           n == Len(outbox) + 1
<1>1. new \in Row /\ new.status = "pending" /\ new.gen = generation
    BY DEF TypeOK, Row, RowStatus
<1>2. outbox' = Append(outbox, new)
    BY DEF Enqueue
<1> HIDE DEF new
<1>3. /\ outbox' \in Seq(Row) /\ n \in Nat /\ DOMAIN outbox = 1..(n - 1)
      /\ DOMAIN outbox' = 1..n
      /\ outbox'[n] = new /\ \A r \in DOMAIN outbox : outbox'[r] = outbox[r]
    BY <1>1, <1>2 DEF TypeOK
<1> HIDE DEF n
<1>4. \A r \in DOMAIN outbox' : r \in DOMAIN outbox \/ r = n
    BY <1>3
<1>5. Quiet /\ UNCHANGED <<process, wire>>
    BY <1>3 DEF Quiet, RowsKept, IncidentsKept, Enqueue
<1>6. TypeOK'
    BY <1>3 DEF TypeOK, Enqueue, process
<1>7. RowsOfTheirTime'
  <2>1. generation' = generation /\ generation \in Nat
      BY DEF Enqueue, TypeOK, Gen
  <2> QED
      BY <1>1, <1>3, <1>4, <2>1 DEF RowsOfTheirTime
<1>8. NoOvertaking'
  <2> SUFFICES ASSUME NEW r \in DOMAIN outbox', NEW s \in DOMAIN outbox',
                      r < s, SameScope(r, s)',
                      outbox'[s].status \notin {"pending", "cancelled"}
               PROVE  outbox'[r].status \in Sent
      BY DEF NoOvertaking
  <2>1. s \in DOMAIN outbox
      BY <1>1, <1>3, <1>4
  <2>2. r \in DOMAIN outbox
      BY <1>3, <2>1
  <2>3. SameScope(r, s)
      BY <1>5, <2>1, <2>2, ScopeKept DEF Quiet
  <2> QED
      BY <1>3, <2>1, <2>2, <2>3 DEF NoOvertaking
<1>9. \A r \in DOMAIN outbox' : outbox'[r].status \in {"sending"} \cup Sent =>
        r \in DOMAIN outbox /\ outbox[r].status = outbox'[r].status
    BY <1>1, <1>3, <1>4 DEF Sent
<1> QED
    BY <1>3, <1>5, <1>6, <1>7, <1>8, <1>9, OthersKeep

(* A change of statuses that takes nothing up keeps the rows of a task in  *)
(* order.                                                                  *)
LEMMA OrderKept ==
  ASSUME NoOvertaking, RowsKept, DOMAIN outbox' = DOMAIN outbox,
         \A r \in DOMAIN outbox :
           /\ outbox[r].status \in Sent => outbox'[r].status \in Sent
           /\ outbox[r].status \in {"pending", "cancelled"} =>
                outbox'[r].status \in {"pending", "cancelled"}
  PROVE  NoOvertaking'
<1> SUFFICES ASSUME NEW r \in DOMAIN outbox, NEW s \in DOMAIN outbox,
                    r < s, SameScope(r, s)',
                    outbox'[s].status \notin {"pending", "cancelled"}
             PROVE  outbox'[r].status \in Sent
    BY DEF NoOvertaking
<1>1. SameScope(r, s)
    BY ScopeKept
<1>2. outbox[r].status \in Sent
    BY <1>1 DEF NoOvertaking
<1> QED
    BY <1>2

LEMMA ResetKeeps == ASSUME Inv, Reset PROVE Inv'
<1> USE DEF Inv
<1>1. "pending" \in RowStatus /\ "cancelled" \in RowStatus
    BY DEF RowStatus
<1>2. /\ outbox' \in Seq(Row) /\ RowsKept
      /\ DOMAIN outbox' = DOMAIN outbox
      /\ \A r \in DOMAIN outbox : outbox'[r].status =
           IF outbox[r].status = "pending" THEN "cancelled" ELSE outbox[r].status
    BY <1>1, ManyRowsChange DEF Reset
<1>3. generation' = generation + 1 /\ generation \in Nat /\ generation' \in Gen
    BY PublisherAssumption DEF Reset, TypeOK, Gen
<1>4. Quiet /\ UNCHANGED <<process, wire>>
    BY <1>2 DEF Quiet, IncidentsKept, Reset
<1>5. TypeOK'
    BY <1>2, <1>3 DEF TypeOK, Reset, process
<1>6. RowsOfTheirTime'
  <2> SUFFICES ASSUME NEW r \in DOMAIN outbox
               PROVE  /\ outbox'[r].gen < generation'
                      /\ outbox'[r].status # "pending"
      BY <1>2, <1>3, RowType DEF RowsOfTheirTime, RowsKept
  <2> QED
      BY <1>2, <1>3, RowType DEF RowsOfTheirTime, RowsKept
<1>7. NoOvertaking'
    BY <1>2, OrderKept DEF Sent
<1> QED
    BY <1>2, <1>4, <1>5, <1>6, <1>7, OthersKeep DEF Doubt, Sent

LEMMA OperatorSetsKeeps ==
  ASSUME Inv, NEW i \in DOMAIN incidents, NEW status \in IncidentStatus,
         OperatorSets(i, status)
  PROVE  Inv'
<1> USE DEF Inv
<1> DEFINE x == [incidents[i] EXCEPT !.status = status]
<1>1. incidents \in Seq(Incident) /\ incidents[i] \in Incident
    BY DEF TypeOK
<1>2. /\ x \in Incident /\ x.born = incidents[i].born
      /\ x.linked = incidents[i].linked /\ x.notes = incidents[i].notes
    BY <1>1 DEF Incident
<1>3. incidents' = [incidents EXCEPT ![i] = x]
    BY DEF OperatorSets
<1> HIDE DEF x
<1>4. incidents' \in Seq(Incident) /\ IncidentsKept
    BY <1>1, <1>2, <1>3 DEF IncidentsKept
<1>5. Quiet /\ UNCHANGED <<store, process, wire>>
    BY <1>4 DEF Quiet, RowsKept, OperatorSets, store
<1>6. TypeOK'
    BY <1>4, PublisherAssumption DEF TypeOK, OperatorSets, store, process
<1>7. RowsOfTheirTime' /\ NoOvertaking'
    BY <1>5 DEF RowsOfTheirTime, NoOvertaking, SameScope, store
<1> QED
    BY <1>5, <1>6, <1>7, OthersKeep DEF store

-----------------------------------------------------------------------------
(* Steps after which no row is being worked on                             *)

(* The process ends, or a new one opens: nothing is left to know.          *)
LEMMA NobodyWorks ==
  ASSUME Inv, Quiet, DoubtEnds, ~Working', row' = 0, answered' = FALSE, wire' = wire,
         TypeOK', RowsOfTheirTime', SentIsShown', NoOvertaking',
         \A c \in wire : outbox'[c.row].status \in Doubt,
         phase' = "open" => \A r \in DOMAIN outbox' : outbox'[r].status # "sending"
  PROVE  Inv'
<1>1. phase' \in {"idle", "open"}
    BY DEF Working
<1>2. OwnRow'
    BY <1>1 DEF OwnRow, Working
<1>3. LinksRight' /\ BornRight' /\ NotedTaken' /\ OneIncident' /\ NotesInOrder'
    BY QuietIncidents
<1>4. WireRight'
    BY QuietCalls
<1>5. Creating' /\ Resolving' /\ Updating' /\ Committing'
    BY <1>1 DEF Creating, Resolving, Updating, Committing
<1> QED
    BY <1>2, <1>3, <1>4, <1>5 DEF Inv

LEMMA CallsInDoubt ==
  ASSUME WireRight
  PROVE  \A c \in wire : c.row \in DOMAIN outbox /\ outbox[c.row].status \in Doubt
BY DEF WireRight, CallRight

LEMMA OpenKeeps == ASSUME Inv, Open PROVE Inv'
<1> USE DEF Inv
<1>1. "sending" \in RowStatus /\ "uncertain" \in RowStatus
    BY DEF RowStatus
<1>2. /\ outbox' \in Seq(Row) /\ RowsKept
      /\ DOMAIN outbox' = DOMAIN outbox
      /\ \A r \in DOMAIN outbox : outbox'[r].status =
           IF outbox[r].status = "sending" THEN "uncertain" ELSE outbox[r].status
    BY <1>1, ManyRowsChange DEF Open, MarkInterrupted
<1>3. Quiet /\ wire' = wire
    BY <1>2 DEF Quiet, IncidentsKept, Open
<1>4. ~Working /\ ~Working' /\ row' = 0 /\ answered' = FALSE
    BY DEF Open, Working, OwnRow, TypeOK, Waiting
<1>5. TypeOK'
    BY <1>2, PublisherAssumption DEF TypeOK, Open
<1>6. RowsOfTheirTime'
    BY <1>2 DEF RowsOfTheirTime, RowsKept, Open
<1>7. NoOvertaking'
    BY <1>2, OrderKept DEF Sent
<1>8. SentIsShown'
    BY <1>2, <1>3, QuietSent DEF Sent
<1>9. DoubtEnds
    BY <1>2 DEF DoubtEnds, Doubt, Sent
<1>10. \A c \in wire : outbox'[c.row].status \in Doubt
    BY <1>2, CallsInDoubt DEF Doubt
<1> QED
    BY <1>2, <1>3, <1>4, <1>5, <1>6, <1>7, <1>8, <1>9, <1>10, NobodyWorks

(* The process stops and leaves the store as it is. *)
LEMMA QuitKeeps ==
  ASSUME Inv, Quit, UNCHANGED <<store, wire, incidents, invocations, operator>>
  PROVE  Inv'
<1> USE DEF Inv
<1>1. Quiet
    BY DEF Quiet, RowsKept, IncidentsKept, store
<1>2. ~Working' /\ row' = 0 /\ answered' = FALSE /\ phase' = "idle"
    BY DEF Quit, Working
<1>3. TypeOK'
    BY PublisherAssumption DEF TypeOK, Quit, store
<1>4. RowsOfTheirTime' /\ NoOvertaking' /\ SentIsShown'
    BY DEF RowsOfTheirTime, NoOvertaking, SentIsShown, SameScope, store
<1>5. DoubtEnds
    BY DEF DoubtEnds, store
<1>6. \A c \in wire : outbox'[c.row].status \in Doubt
    BY CallsInDoubt DEF store
<1> QED
    BY <1>1, <1>2, <1>3, <1>4, <1>5, <1>6, NobodyWorks

(* Before the first candidate everything of its scope was sent, and after  *)
(* it nothing was taken up.                                                *)
LEMMA CandidateComesNext ==
  ASSUME Inv, NEW r \in DOMAIN outbox, First(r), NEW s \in DOMAIN outbox,
         SameScope(s, r), s # r
  PROVE  /\ s < r => outbox[s].status \in Sent
         /\ r < s => outbox[s].status \in {"pending", "cancelled"}
<1> USE DEF Inv
<1>1. /\ r \in Nat /\ s \in Nat
      /\ outbox[s].status \in RowStatus
      /\ outbox[r].status = "pending" /\ outbox[r].gen = generation
      /\ outbox[s].gen = generation
    BY RowType DEF First, Candidate, SameScope
<1>2. outbox[s].status \notin Stuck
    BY DEF First, Candidate, Blocked, SameScope
<1>3. outbox[s].status # "cancelled"
    BY <1>1, RowType DEF RowsOfTheirTime, TypeOK, Gen
<1>4. outbox[s].status \in Sent \cup {"pending"}
    BY <1>1, <1>2, <1>3 DEF RowStatus, Stuck, Sent
<1>5. ASSUME s < r PROVE outbox[s].status # "pending"
  <2>1. Blocked(s) <=> Blocked(r)
      BY DEF Blocked, SameScope
  <2>2. outbox[s].status = "pending" => Candidate(s)
      BY <1>1, <2>1 DEF First, Candidate
  <2> QED
      BY <1>1, <1>5, <2>2 DEF First
<1>6. ASSUME r < s PROVE outbox[s].status \notin Sent
  <2>1. SameScope(r, s)
      BY DEF SameScope
  <2> QED
      BY <1>1, <1>6, <2>1 DEF NoOvertaking, Sent
<1> QED
    BY <1>4, <1>5, <1>6

(* So the first candidate may be taken up. *)
LEMMA TakenUpInOrder ==
  ASSUME Inv, NEW r \in DOMAIN outbox, First(r), RowsKept,
         DOMAIN outbox' = DOMAIN outbox,
         \A s \in DOMAIN outbox : s # r => outbox'[s].status = outbox[s].status
  PROVE  NoOvertaking'
<1> USE DEF Inv
<1> SUFFICES ASSUME NEW p \in DOMAIN outbox, NEW s \in DOMAIN outbox,
                    p < s, SameScope(p, s)',
                    outbox'[s].status \notin {"pending", "cancelled"}
             PROVE  outbox'[p].status \in Sent
    BY DEF NoOvertaking
<1>1. SameScope(p, s) /\ p \in Nat /\ s \in Nat /\ p # s /\ r \in Nat
    BY ScopeKept, RowType
<1>2. CASE s = r
    BY <1>1, <1>2, CandidateComesNext
<1>3. CASE p = r
  <2>1. SameScope(s, r)
      BY <1>1, <1>3 DEF SameScope
  <2> QED
      BY <1>1, <1>3, <2>1, CandidateComesNext
<1>4. CASE s # r /\ p # r
    BY <1>1, <1>4 DEF NoOvertaking
<1> QED
    BY <1>2, <1>3, <1>4

LEMMA BlockKeeps ==
  ASSUME Inv, NEW r \in DOMAIN outbox, Block(r)
  PROVE  Inv'
<1> USE DEF Inv
<1>1. "blocked" \in RowStatus
    BY DEF RowStatus
<1>2. /\ outbox' \in Seq(Row) /\ RowsKept
      /\ DOMAIN outbox' = DOMAIN outbox
      /\ \A s \in DOMAIN outbox : s # r => outbox'[s].status = outbox[s].status
      /\ outbox'[r].status = "blocked"
    BY <1>1, OneRowChange DEF Block
<1>3. outbox[r].status = "pending" /\ First(r)
    BY DEF Block, First, Candidate
<1>4. Quiet /\ wire' = wire
    BY <1>2 DEF Quiet, IncidentsKept, Block
<1>5. ~Working' /\ row' = 0 /\ answered' = FALSE /\ phase' = "idle"
    BY DEF Block, Quit, Working
<1>6. TypeOK'
    BY <1>2, PublisherAssumption DEF TypeOK, Quit, Block
<1>7. RowsOfTheirTime'
    BY <1>2 DEF RowsOfTheirTime, RowsKept, Block
<1>8. NoOvertaking'
    BY <1>2, <1>3, TakenUpInOrder
<1>9. SentIsShown'
    BY <1>2, <1>4, QuietSent DEF Sent
<1>10. DoubtEnds
    BY <1>2, <1>3 DEF DoubtEnds, Doubt, Sent
<1>11. \A c \in wire : outbox'[c.row].status \in Doubt
    BY <1>2, <1>3, CallsInDoubt DEF Doubt
<1> QED
    BY <1>4, <1>5, <1>6, <1>7, <1>8, <1>9, <1>10, <1>11, NobodyWorks

LEMMA CommitKeeps == ASSUME Inv, Commit PROVE Inv'
<1> USE DEF Inv
<1> DEFINE st == IF outbox[row].gen = generation THEN "sent" ELSE "sent_obsolete"
<1>1. row \in DOMAIN outbox /\ outbox[row].status = "sending"
    BY DEF OwnRow, Working, Commit
<1>2. st \in RowStatus /\ st \in Sent
    BY DEF RowStatus, Sent
<1>3. outbox' = [outbox EXCEPT ![row].status = st]
    BY DEF Commit
<1> HIDE DEF st
<1>4. /\ outbox' \in Seq(Row) /\ RowsKept
      /\ DOMAIN outbox' = DOMAIN outbox
      /\ \A s \in DOMAIN outbox : s # row => outbox'[s].status = outbox[s].status
      /\ outbox'[row].status = st
    BY <1>1, <1>2, <1>3, OneRowChange
<1>5. Quiet /\ wire' = wire
    BY <1>4 DEF Quiet, IncidentsKept, Commit
<1>6. ~Working' /\ row' = 0 /\ answered' = FALSE /\ phase' = "idle"
    BY DEF Commit, Quit, Working
<1>7. TypeOK'
    BY <1>4, PublisherAssumption DEF TypeOK, Quit, Commit
<1>8. RowsOfTheirTime'
    BY <1>2, <1>4 DEF RowsOfTheirTime, RowsKept, Commit, Sent
<1>9. NoOvertaking'
    BY <1>1, <1>2, <1>4, OrderKept DEF Sent
<1>10. Shown(row, incident) /\ LinkOf(row) # None
    BY DEF Committing, Commit, Shown
<1>11. SentIsShown'
    BY <1>4, <1>5, <1>10, QuietSent
<1>12. DoubtEnds
    BY <1>2, <1>4, <1>10 DEF DoubtEnds
<1>13. \A c \in wire : outbox'[c.row].status \in Doubt
  <2> TAKE c \in wire
  <2>1. c.row \in DOMAIN outbox /\ outbox[c.row].status \in Doubt
      BY CallsInDoubt
  <2>2. c.row # row
      BY DEF WireRight, CallRight, Commit, Working, Awaits, TypeOK, Call
  <2> QED
      BY <1>4, <2>1, <2>2
<1> QED
    BY <1>5, <1>6, <1>7, <1>8, <1>9, <1>11, <1>12, <1>13, NobodyWorks

LEMMA GiveUpKeeps == ASSUME Inv, GiveUp PROVE Inv'
<1> USE DEF Inv
<1>1. row \in DOMAIN outbox /\ outbox[row].status = "sending"
    BY DEF OwnRow, Working, GiveUp, Waiting
<1>2. /\ outbox' \in Seq(Row) /\ RowsKept
      /\ DOMAIN outbox' = DOMAIN outbox
      /\ \A s \in DOMAIN outbox : s # row => outbox'[s].status = outbox[s].status
      /\ outbox'[row].status = "uncertain"
    BY <1>1, OneRowChange DEF GiveUp, GiveUpStatus, RowStatus
<1>3. Quiet /\ wire' = wire
    BY <1>2 DEF Quiet, IncidentsKept, GiveUp
<1>4. ~Working' /\ row' = 0 /\ answered' = FALSE /\ phase' = "idle"
    BY DEF GiveUp, Quit, Working
<1>5. TypeOK'
    BY <1>2, PublisherAssumption DEF TypeOK, Quit, GiveUp
<1>6. RowsOfTheirTime'
    BY <1>2 DEF RowsOfTheirTime, RowsKept, GiveUp
<1>7. NoOvertaking'
    BY <1>1, <1>2, OrderKept DEF Sent
<1>8. SentIsShown'
    BY <1>2, <1>3, QuietSent DEF Sent
<1>9. DoubtEnds
    BY <1>1, <1>2 DEF DoubtEnds, Doubt, Sent
<1>10. \A c \in wire : outbox'[c.row].status \in Doubt
    BY <1>2, CallsInDoubt DEF Doubt
<1> QED
    BY <1>3, <1>4, <1>5, <1>6, <1>7, <1>8, <1>9, <1>10, NobodyWorks

-----------------------------------------------------------------------------
(* Steps of a process that works on a row                                  *)

(* A row in doubt is alone in its scope, so the row taken up has no call   *)
(* under way and its task has no incident that is not linked.              *)
LEMMA StartKeeps ==
  ASSUME Inv, NEW r \in DOMAIN outbox, Start(r)
  PROVE  Inv'
<1> USE DEF Inv
<1>1. /\ outbox' \in Seq(Row) /\ RowsKept
      /\ DOMAIN outbox' = DOMAIN outbox
      /\ \A s \in DOMAIN outbox : s # r => outbox'[s].status = outbox[s].status
      /\ outbox'[r].status = "sending"
    BY OneRowChange DEF Start, RowStatus
<1>2. outbox[r].status = "pending" /\ First(r)
    BY DEF Start, First, Candidate
<1>3. Quiet /\ wire' = wire
    BY <1>1 DEF Quiet, IncidentsKept, Start
<1>4. /\ Working' /\ row' = r /\ ~answered' /\ incident' = LinkOf(r)
      /\ IF LinkOf(r) = None THEN phase' = "toCreate" ELSE phase' = "reading"
    BY DEF Start, Working, OwnRow, TypeOK, Waiting, LinkOf
<1>5. TypeOK'
    BY <1>1, <1>4, RowType DEF TypeOK, Start
<1>6. RowsOfTheirTime'
    BY <1>1 DEF RowsOfTheirTime, RowsKept, Start
<1>7. OwnRow'
  <2>1. \A s \in DOMAIN outbox : outbox[s].status # "sending"
      BY RowType DEF OwnRow, Start, Working
  <2> QED
      BY <1>1, <1>4, <2>1 DEF OwnRow
<1>8. NoOvertaking'
    BY <1>1, <1>2, TakenUpInOrder
<1>9. SentIsShown'
    BY <1>1, <1>3, QuietSent DEF Sent
<1>10. LinksRight' /\ BornRight' /\ NotedTaken' /\ OneIncident' /\ NotesInOrder'
  <2>1. DoubtEnds
      BY <1>1, <1>2 DEF DoubtEnds, Doubt, Sent
  <2> QED
      BY <1>3, <2>1, QuietIncidents
<1>11. WireRight'
  <2>1. \A c \in wire : c.row # r /\ outbox'[c.row].status \in Doubt
      BY <1>1, <1>2, CallsInDoubt DEF Doubt
  <2> QED
      BY <1>3, <1>4, <2>1, QuietCalls
<1>12. ASSUME LinkOf(r) = None PROVE NoIncident(r)
  <2> SUFFICES ASSUME NEW i \in DOMAIN incidents, SameScope(incidents[i].born, r)
               PROVE  FALSE
      BY DEF NoIncident
  <2> DEFINE b == incidents[i].born
  <2>1. b \in DOMAIN outbox /\ i # None
      BY IncidentType DEF BornRight
  <2>2. \/ outbox[b].status \in Doubt \cup Sent /\ LinkOf(b) = i
        \/ outbox[b].status \in Doubt /\ LinkOf(b) = None
      BY DEF BornRight
  <2>3. LinkOf(b) = None
      BY <1>12, OneLink
  <2>4. outbox[b].status \in Doubt
      BY <2>1, <2>2, <2>3
  <2>5. b # r /\ b \in Nat /\ r \in Nat
      BY <1>2, <2>1, <2>4, RowType DEF Doubt
  <2>6. outbox[b].status \in Sent \/ outbox[b].status \in {"pending", "cancelled"}
      BY <1>2, <2>1, <2>5, CandidateComesNext
  <2> QED
      BY <2>4, <2>6 DEF Doubt, Sent
<1>13. Creating'
  <2>1. LinkOf(r)' = LinkOf(r) /\ (NoIncident(r)' <=> NoIncident(r))
      BY <1>3, QuietView, QuietNoIncident
  <2> QED
      BY <1>4, <1>12, <2>1 DEF Creating
<1>14. Updating'
  <2> SUFFICES ASSUME LinkOf(r) # None
               PROVE  /\ LinkOf(r)' = LinkOf(r)
                      /\ incidents'[LinkOf(r)].born # r
                      /\ r \notin Noted(LinkOf(r))'
      BY <1>4 DEF Updating
  <2> DEFINE i == LinkOf(r)
  <2>1. i \in DOMAIN incidents
      BY LinkedIncident
  <2>2. incidents[i].born # r
      BY <1>2, <2>1 DEF BornRight, Doubt, Sent
  <2>3. r \notin Noted(i)
      BY <1>2, <2>1 DEF NotedTaken, Doubt, Sent
  <2> QED
      BY <1>3, <2>1, <2>2, <2>3, QuietView
<1>15. Resolving' /\ Committing'
    BY <1>4 DEF Resolving, Committing
<1> QED
    BY <1>5, <1>6, <1>7, <1>8, <1>9, <1>10, <1>11, <1>13, <1>14, <1>15

(* What does not mention the process or the wire.                          *)
DataInv == /\ RowsOfTheirTime /\ LinksRight /\ BornRight /\ NotedTaken
           /\ OneIncident /\ NotesInOrder /\ SentIsShown /\ NoOvertaking

LEMMA DataKept ==
  ASSUME DataInv, UNCHANGED <<store, incidents>>
  PROVE  DataInv'
<1> USE DEF DataInv, store
<1>1. RowsOfTheirTime' /\ LinksRight' /\ NotedTaken' /\ NoOvertaking'
    BY DEF RowsOfTheirTime, LinksRight, NotedTaken, Noted, NoOvertaking, SameScope
<1>2. BornRight'
    BY DEF BornRight, LinkOf
<1>3. OneIncident' /\ NotesInOrder' /\ SentIsShown'
    BY DEF OneIncident, NotesInOrder, SentIsShown, SameScope
<1> QED
    BY <1>1, <1>2, <1>3

(* A row has no call under way when the process is between two calls.      *)
LEMMA NoOwnCalls ==
  ASSUME Inv, Working, phase \notin Waiting \/ answered, NEW c \in wire
  PROVE  c.row # row
<1>1. Awaits[c.op] \in Waiting
    BY DEF Inv, TypeOK, Call, Awaits, Waiting
<1> QED
    BY <1>1 DEF Inv, WireRight, CallRight

(* The process goes on to its next phase, sends nothing, and the last call *)
(* has been answered.                                                      *)
LEMMA MovesOn ==
  ASSUME Inv, UNCHANGED <<store, incidents, wire, row>>, Working, Working',
         phase \notin Waiting \/ answered, ~answered', TypeOK'
  PROVE  DataInv' /\ OwnRow' /\ WireRight'
<1> USE DEF Inv
<1>1. DataInv'
    BY DataKept DEF DataInv
<1>2. OwnRow'
    BY DEF OwnRow, Working, store
<1>3. WireRight'
  <2>1. Quiet
      BY DEF Quiet, RowsKept, IncidentsKept, store
  <2>2. \A c \in wire : c.row # row /\ outbox'[c.row].status \in Doubt
      BY NoOwnCalls, CallsInDoubt DEF store
  <2> QED
      BY <2>1, <2>2, QuietCalls
<1> QED
    BY <1>1, <1>2, <1>3

(* The process sends a call that has not been carried out. *)
LEMMA SendsCall ==
  ASSUME Inv, UNCHANGED <<store, incidents, row, answered>>, Working,
         phase \notin Waiting, NEW n \in Call, n.row = row, wire' = wire \cup {n},
         phase' = Awaits[n.op], CallOpen(n)
  PROVE  /\ DataInv' /\ OwnRow' /\ WireRight' /\ ~answered'
         /\ \A c \in wire' : c.row = row => c = n
<1> USE DEF Inv
<1>1. DataInv'
    BY DataKept DEF DataInv
<1>2. Working' /\ ~answered'
    BY DEF Working, OwnRow, Awaits, Call, TypeOK
<1>3. OwnRow'
    BY <1>2 DEF OwnRow, Working, store
<1>4. \A c \in wire : c.row # row
    BY NoOwnCalls
<1>5. ASSUME NEW c \in wire' PROVE CallRight(c)'
  <2>1. CallOpen(c)
      BY <1>5 DEF WireRight, CallRight
  <2>2. CallOpen(c)'
      BY <2>1 DEF CallOpen, LinkOf, NoIncident, SameScope, Noted, Linked, store
  <2>3. c.row \in DOMAIN outbox /\ outbox[c.row].status \in Doubt
      BY <1>5, CallsInDoubt DEF OwnRow, Doubt
  <2>4. \A d \in wire' : d.row = c.row => d = c
      BY <1>4, <1>5 DEF WireRight, CallRight
  <2>5. c.row = row => phase' = Awaits[c.op]
      BY <1>4, <1>5
  <2> QED
      BY <1>2, <2>2, <2>3, <2>4, <2>5 DEF CallRight, store
<1> QED
    BY <1>1, <1>2, <1>3, <1>4, <1>5 DEF WireRight

LEMMA SendCreateKeeps == ASSUME Inv, SendCreate PROVE Inv'
<1> USE DEF Inv
<1> DEFINE n == Send("create", None, None)
<1>1. n \in Call /\ n.row = row /\ n.op = "create" /\ Awaits[n.op] = "creating"
    BY DEF Send, Call, TypeOK, Awaits
<1>2. Working /\ phase \notin Waiting
    BY DEF SendCreate, Working, Waiting
<1>3. CallOpen(n)
    BY <1>1 DEF CallOpen, Creating, SendCreate
<1>4. wire' = wire \cup {n} /\ phase' = "creating"
    BY DEF SendCreate
<1> HIDE DEF n
<1>5. DataInv' /\ OwnRow' /\ WireRight' /\ ~answered'
    BY <1>1, <1>2, <1>3, <1>4, SendsCall DEF SendCreate
<1>6. TypeOK'
    BY <1>1, <1>4, <1>5 DEF TypeOK, SendCreate, store, Waiting
<1>7. Creating'
    BY <1>4, <1>5 DEF Creating, SendCreate, LinkOf, store
<1>8. Resolving' /\ Updating' /\ Committing'
    BY <1>4 DEF Resolving, Updating, Committing
<1> QED
    BY <1>5, <1>6, <1>7, <1>8 DEF DataInv

LEMMA SendResolveKeeps == ASSUME Inv, SendResolve PROVE Inv'
<1> USE DEF Inv
<1> DEFINE n == Send("resolve", incident, None)
<1>1. /\ n \in Call /\ n.row = row /\ n.op = "resolve" /\ n.incident = incident
      /\ Awaits[n.op] = "resolving"
    BY DEF Send, Call, TypeOK, Awaits
<1>2. Working /\ phase \notin Waiting
    BY DEF SendResolve, Working, Waiting
<1>3. CallOpen(n)
    BY <1>1 DEF CallOpen, Resolving, SendResolve
<1>4. wire' = wire \cup {n} /\ phase' = "resolving"
    BY DEF SendResolve
<1> HIDE DEF n
<1>5. DataInv' /\ OwnRow' /\ WireRight' /\ ~answered'
    BY <1>1, <1>2, <1>3, <1>4, SendsCall DEF SendResolve
<1>6. TypeOK'
    BY <1>1, <1>4, <1>5 DEF TypeOK, SendResolve, store, Waiting
<1>7. Resolving'
    BY <1>4, <1>5 DEF Resolving, SendResolve, LinkOf, Linked, store
<1>8. Creating' /\ Updating' /\ Committing'
    BY <1>4 DEF Creating, Updating, Committing
<1> QED
    BY <1>5, <1>6, <1>7, <1>8 DEF DataInv

LEMMA SendLinkKeeps ==
  ASSUME Inv, NEW e \in Event, SendLink(e)
  PROVE  Inv'
<1> USE DEF Inv
<1> DEFINE n == Send("link", incident, e)
<1>1. /\ n \in Call /\ n.row = row /\ n.op = "link" /\ n.incident = incident
      /\ n.event = e /\ Awaits[n.op] = "linking"
    BY DEF Send, Call, TypeOK, Awaits
<1>2. Working /\ phase \notin Waiting
    BY DEF SendLink, Working, Waiting
<1>3. /\ incident = LinkOf(row) /\ incident # None
      /\ incidents[incident].born # row /\ row \notin Noted(incident)
      /\ toLink \cap Linked(incident) = {} /\ e \in toLink
      /\ outbox[row].evidence \subseteq Linked(incident) \cup toLink
    BY DEF Updating, SendLink
<1>4. CallOpen(n)
    BY <1>1, <1>3 DEF CallOpen
<1>5. wire' = wire \cup {n} /\ phase' = "linking" /\ toLink' = toLink \ {e}
    BY DEF SendLink
<1> HIDE DEF n
<1>6. /\ DataInv' /\ OwnRow' /\ WireRight' /\ ~answered'
      /\ \A c \in wire' : c.row = row => c = n
    BY <1>1, <1>2, <1>4, <1>5, SendsCall DEF SendLink
<1>7. TypeOK'
    BY <1>1, <1>5, <1>6 DEF TypeOK, SendLink, store, Waiting
<1>8. Updating'
  <2>1. /\ LinkOf(row)' = LinkOf(row) /\ Linked(incident)' = Linked(incident)
        /\ Noted(incident)' = Noted(incident) /\ row' = row /\ incident' = incident
        /\ outbox' = outbox /\ incidents' = incidents
      BY DEF SendLink, LinkOf, Linked, Noted, store
  <2>2. \A c \in wire' : c.row = row =>
          /\ c.event \notin toLink'
          /\ outbox[row].evidence \subseteq Linked(incident) \cup toLink' \cup {c.event}
      BY <1>1, <1>3, <1>5, <1>6
  <2> QED
      BY <1>3, <1>5, <1>6, <2>1, <2>2 DEF Updating
<1>9. Creating' /\ Resolving' /\ Committing'
    BY <1>5 DEF Creating, Resolving, Committing
<1> QED
    BY <1>6, <1>7, <1>8, <1>9 DEF DataInv

LEMMA SendNoteKeeps == ASSUME Inv, SendNote PROVE Inv'
<1> USE DEF Inv
<1> DEFINE n == Send("note", incident, None)
<1>1. /\ n \in Call /\ n.row = row /\ n.op = "note" /\ n.incident = incident
      /\ Awaits[n.op] = "noting"
    BY DEF Send, Call, TypeOK, Awaits
<1>2. Working /\ phase \notin Waiting
    BY DEF SendNote, Working, Waiting
<1>3. /\ incident = LinkOf(row) /\ incident # None
      /\ incidents[incident].born # row /\ row \notin Noted(incident)
      /\ outbox[row].evidence \subseteq Linked(incident)
    BY DEF Updating, SendNote
<1>4. CallOpen(n)
    BY <1>1, <1>3 DEF CallOpen
<1>5. wire' = wire \cup {n} /\ phase' = "noting"
    BY DEF SendNote, NoteCall
<1> HIDE DEF n
<1>6. DataInv' /\ OwnRow' /\ WireRight' /\ ~answered'
    BY <1>1, <1>2, <1>4, <1>5, SendsCall DEF SendNote
<1>7. TypeOK'
    BY <1>1, <1>5, <1>6 DEF TypeOK, SendNote, store, Waiting
<1>8. Updating'
    BY <1>3, <1>5, <1>6 DEF Updating, SendNote, LinkOf, Linked, store
<1>9. Creating' /\ Resolving' /\ Committing'
    BY <1>5 DEF Creating, Resolving, Committing
<1> QED
    BY <1>6, <1>7, <1>8, <1>9 DEF DataInv

LEMMA ReadIncidentKeeps == ASSUME Inv, ReadIncident PROVE Inv'
<1> USE DEF Inv
<1>1. Working /\ Working' /\ phase \notin Waiting /\ phase' = "toLink"
    BY DEF ReadIncident, Working, Waiting
<1>2. row \in DOMAIN outbox /\ ~answered /\ ~answered'
    BY <1>1 DEF OwnRow, ReadIncident
<1>3. TypeOK'
    BY <1>1, <1>2, RowType DEF TypeOK, ReadIncident, Missing, store
<1>4. DataInv' /\ OwnRow' /\ WireRight'
    BY <1>1, <1>2, <1>3, MovesOn DEF ReadIncident
<1>5. Updating'
  <2>1. /\ incident = LinkOf(row) /\ incident # None
        /\ incidents[incident].born # row /\ row \notin Noted(incident)
      BY DEF Updating, ReadIncident
  <2>2. toLink' = outbox[row].evidence \ Linked(incident)
      BY DEF ReadIncident, Missing, Linked
  <2>3. /\ LinkOf(row)' = LinkOf(row) /\ Linked(incident)' = Linked(incident)
        /\ Noted(incident)' = Noted(incident) /\ row' = row /\ incident' = incident
        /\ outbox' = outbox /\ incidents' = incidents
      BY DEF ReadIncident, LinkOf, Linked, Noted, store
  <2> QED
      BY <1>1, <2>1, <2>2, <2>3 DEF Updating
<1>6. Creating' /\ Resolving' /\ Committing'
    BY <1>1 DEF Creating, Resolving, Committing
<1> QED
    BY <1>3, <1>4, <1>5, <1>6 DEF DataInv

LEMMA LinkAnsweredKeeps == ASSUME Inv, LinkAnswered PROVE Inv'
<1> USE DEF Inv
<1>1. Working /\ Working' /\ answered /\ phase' = "toLink" /\ ~answered'
    BY DEF LinkAnswered, Working
<1>2. TypeOK'
    BY <1>1 DEF TypeOK, LinkAnswered, store
<1>3. DataInv' /\ OwnRow' /\ WireRight'
    BY <1>1, <1>2, MovesOn DEF LinkAnswered
<1>4. Updating'
    BY <1>1 DEF Updating, LinkAnswered, LinkOf, Linked, Noted, store
<1>5. Creating' /\ Resolving' /\ Committing'
    BY <1>1 DEF Creating, Resolving, Committing
<1> QED
    BY <1>2, <1>3, <1>4, <1>5 DEF DataInv

LEMMA LastCallAnsweredKeeps == ASSUME Inv, LastCallAnswered PROVE Inv'
<1> USE DEF Inv
<1>1. Working /\ Working' /\ answered /\ phase' = "commit" /\ ~answered'
    BY DEF LastCallAnswered, Working
<1>2. TypeOK'
    BY <1>1 DEF TypeOK, LastCallAnswered, store
<1>3. DataInv' /\ OwnRow' /\ WireRight'
    BY <1>1, <1>2, MovesOn DEF LastCallAnswered
<1>4. Committing'
  <2>1. Shown(row, incident)
      BY <1>1 DEF LastCallAnswered, Resolving, Updating, Shown
  <2> QED
      BY <2>1 DEF Committing, Shown, LinkOf, Linked, Noted, LastCallAnswered, store
<1>5. Creating' /\ Resolving' /\ Updating'
    BY <1>1 DEF Creating, Resolving, Updating
<1> QED
    BY <1>2, <1>3, <1>4, <1>5 DEF DataInv

(* The row is alone in its scope, so nothing else relied on there being no *)
(* link.                                                                   *)
LEMMA StoreLinkKeeps == ASSUME Inv, StoreLink PROVE Inv'
<1> USE DEF Inv
<1> DEFINE g == outbox[row].gen
           t == outbox[row].task
<1>1. /\ Working /\ Working' /\ answered /\ ~answered'
      /\ phase' = IF outbox[row].closes THEN "toResolve" ELSE "commit"
      /\ UNCHANGED <<generation, outbox, row, incident, toLink, wire, incidents>>
    BY DEF StoreLink, Working
<1>2. row \in DOMAIN outbox /\ outbox[row].status = "sending"
    BY <1>1 DEF OwnRow
<1>3. /\ LinkOf(row) = None
      /\ incident \in DOMAIN incidents /\ incidents[incident].born = row
      /\ row \notin Noted(incident)
      /\ outbox[row].evidence \subseteq Linked(incident)
    BY DEF StoreLink, Creating
<1>4. /\ g \in Gen /\ t \in Task /\ outbox[row].closes \in BOOLEAN
      /\ incident \in Nat /\ incident # None
    BY <1>2, <1>3, RowType, IncidentType
<1>5. /\ link' \in [Gen -> [Task -> Nat \cup {None}]]
      /\ link'[g][t] = incident
      /\ \A h \in Gen, u \in Task : h # g \/ u # t => link'[h][u] = link[h][u]
  <2>1. link \in [Gen -> [Task -> Nat \cup {None}]]
      BY DEF TypeOK
  <2>2. link' = [link EXCEPT ![g][t] = incident]
      BY DEF StoreLink
  <2> HIDE DEF g, t
  <2> QED
      BY <1>4, <2>1, <2>2
<1>6. LinkOf(row)' = incident
    BY <1>1, <1>5 DEF LinkOf
<1>7. \A r \in DOMAIN outbox : ~SameScope(r, row) => LinkOf(r)' = LinkOf(r)
    BY <1>1, <1>5, RowType DEF SameScope, LinkOf
<1> HIDE DEF g, t
<1>8. TypeOK'
    BY <1>1, <1>5 DEF TypeOK, StoreLink
<1>9. RowsOfTheirTime' /\ NotedTaken' /\ OneIncident' /\ NotesInOrder' /\ NoOvertaking'
    BY <1>1 DEF RowsOfTheirTime, NotedTaken, Noted, OneIncident, NotesInOrder,
                NoOvertaking, SameScope
<1>10. OwnRow'
    BY <1>1, <1>2 DEF OwnRow, Working
<1>11. LinksRight'
    BY <1>1, <1>2, <1>3, <1>5 DEF LinksRight, g, t
<1>12. BornRight'
  <2> SUFFICES ASSUME NEW i \in DOMAIN incidents, NEW b, b = incidents[i].born
               PROVE  /\ b \in DOMAIN outbox
                      /\ \/ outbox[b].status \in Doubt \cup Sent /\ LinkOf(b)' = i
                         \/ outbox[b].status \in Doubt /\ LinkOf(b)' = None
      BY <1>1 DEF BornRight, LinkOf
  <2>1. CASE SameScope(b, row)
    <3>1. i = incident
        BY <1>3, <2>1 DEF OneIncident
    <3>2. b = row
        BY <1>3, <3>1
    <3> QED
        BY <1>1, <1>2, <1>6, <3>1, <3>2 DEF Doubt, LinkOf
  <2>2. CASE ~SameScope(b, row)
    <3>1. b \in DOMAIN outbox
        BY DEF BornRight
    <3>2. LinkOf(b)' = LinkOf(b)
        BY <1>7, <2>2, <3>1
    <3> QED
        BY <3>1, <3>2 DEF BornRight
  <2> QED
      BY <2>1, <2>2
<1>13. SentIsShown'
  <2> SUFFICES ASSUME NEW r \in DOMAIN outbox, outbox[r].status \in Sent
               PROVE  LinkOf(r)' = LinkOf(r)
      BY <1>1 DEF SentIsShown, LinkOf
  <2>1. PICK i \in DOMAIN incidents : LinkOf(r) = i
      BY DEF SentIsShown, LinkOf
  <2>2. i # None
      BY IncidentType
  <2>3. ~SameScope(r, row)
      BY <1>3, <2>1, <2>2, OneLink
  <2> QED
      BY <1>7, <2>3
<1>14. WireRight'
  <2> SUFFICES ASSUME NEW c \in wire PROVE CallRight(c)'
      BY <1>1 DEF WireRight
  <2>1. CallRight(c) /\ c.row # row
      BY <1>1, NoOwnCalls DEF WireRight
  <2>2. c.row \in DOMAIN outbox /\ outbox[c.row].status \in Doubt
      BY <2>1 DEF CallRight
  <2>3. ~SameScope(c.row, row)
      BY <1>2, <2>1, <2>2, OneInDoubt DEF Doubt
  <2>4. LinkOf(c.row)' = LinkOf(c.row)
      BY <1>7, <2>2, <2>3
  <2>5. CallOpen(c)'
      BY <1>1, <2>1, <2>4 DEF CallRight, CallOpen, NoIncident, SameScope, Noted, Linked
  <2> QED
      BY <1>1, <2>1, <2>2, <2>5 DEF CallRight
<1>15. Creating' /\ Updating'
    BY <1>1 DEF Creating, Updating
<1>16. Resolving'
    BY <1>1, <1>3, <1>4, <1>6 DEF Resolving, Noted, Linked
<1>17. Committing'
    BY <1>1, <1>3, <1>4, <1>6 DEF Committing, Shown, Noted, Linked
<1> QED
    BY <1>8, <1>9, <1>10, <1>11, <1>12, <1>13, <1>14, <1>15, <1>16, <1>17

-----------------------------------------------------------------------------
(* A call arrives                                                          *)

(* The row of a call that is under way, and what else may be about it.     *)
LEMMA Arriving ==
  ASSUME Inv, NEW c \in wire, Arrive(c)
  PROVE  /\ c.row \in DOMAIN outbox /\ outbox[c.row].status \in Doubt /\ CallOpen(c)
         /\ UNCHANGED <<store, phase, row, toLink>> /\ wire' = wire \ {c}
         /\ \A d \in wire' : d \in wire /\ d.row # c.row
         /\ Working /\ row = c.row => phase = Awaits[c.op] /\ ~answered
         /\ ~(Working /\ row = c.row) => UNCHANGED <<answered, incident>>
         /\ c.op # "create" => incident' = incident
         /\ c.op \in {"create", "resolve", "link", "note"}
         /\ answered' \in BOOLEAN /\ (answered' => phase \in Waiting)
<1> USE DEF Inv
<1>1. CallRight(c) /\ c \in Call
    BY DEF WireRight, TypeOK
<1>2. \A d \in wire' : d \in wire /\ d.row # c.row
    BY <1>1 DEF Arrive, CallRight
<1>3. phase \in Waiting => Working
    BY DEF Waiting, Working
<1>4. answered' \in BOOLEAN /\ (answered' => phase \in Waiting)
  <2>1. answered \in BOOLEAN /\ (answered => phase \in Waiting)
      BY DEF TypeOK, OwnRow
  <2>2. CASE answered' = answered
      BY <2>1, <2>2
  <2>3. CASE answered' = TRUE /\ phase \in Waiting
      BY <2>3
  <2> QED
      BY <2>2, <2>3 DEF Arrive
<1> QED
    BY <1>1, <1>2, <1>3, <1>4 DEF Arrive, CallRight, Call

(* Two rows in doubt are of different tasks. *)
LEMMA DoubtsApart ==
  ASSUME Inv, NEW r \in DOMAIN outbox, NEW s \in DOMAIN outbox, r # s,
         outbox[r].status \in Doubt, outbox[s].status \in Doubt
  PROVE  /\ ~SameScope(r, s)
         /\ LinkOf(r) # None => LinkOf(r) # LinkOf(s)
<1> USE DEF Inv
<1>1. ~SameScope(r, s)
    BY OneInDoubt
<1>2. ASSUME LinkOf(r) # None, LinkOf(r) = LinkOf(s) PROVE FALSE
  <2>1. SameScope(incidents[LinkOf(r)].born, r) /\ SameScope(incidents[LinkOf(r)].born, s)
      BY <1>2, LinkedIncident
  <2> QED
      BY <1>1, <2>1 DEF SameScope
<1> QED
    BY <1>1, <1>2

(* A new incident disturbs nobody: its task had none, and its row is the   *)
(* only one of the task in doubt.                                          *)
LEMMA CreateArrives ==
  ASSUME Inv, NEW c \in wire, Arrive(c), c.op = "create"
  PROVE  Inv'
<1> USE DEF Inv
<1> DEFINE r == c.row
<1> PICK j : j = Len(incidents) + 1
    OBVIOUS
<1> PICK x : x = Created(r)
    OBVIOUS
<1>1. /\ r \in DOMAIN outbox /\ outbox[r].status \in Doubt
      /\ UNCHANGED <<generation, outbox, link, phase, row, toLink>> /\ wire' = wire \ {c}
      /\ \A d \in wire' : d \in wire /\ d.row # r
      /\ Working /\ row = r => phase = "creating" /\ ~answered
      /\ ~(Working /\ row = r) => UNCHANGED <<answered, incident>>
      /\ answered' \in BOOLEAN /\ (answered' => phase \in Waiting)
    BY Arriving DEF Awaits, store
<1>2. LinkOf(r) = None /\ NoIncident(r)
    BY Arriving DEF CallOpen
<1>3. r \in Nat /\ outbox[r].evidence \in SUBSET Event
    BY <1>1, RowType
<1>4. /\ x \in Incident /\ x.born = r /\ x.notes = <<>>
      /\ Contents(x.linked) = outbox[r].evidence
      /\ \A k, l \in DOMAIN x.linked : x.linked[k] = x.linked[l] => k = l
    BY <1>3, BatchIs DEF Created, Incident, IncidentStatus
<1>5. incidents' = Append(incidents, x)
    BY DEF Arrive, Applied
<1> HIDE DEF r
<1>6. /\ incidents' \in Seq(Incident) /\ j \in Nat
      /\ DOMAIN incidents = 1..(j - 1) /\ DOMAIN incidents' = 1..j
      /\ incidents'[j] = x
      /\ \A i \in DOMAIN incidents : incidents'[i] = incidents[i]
    BY <1>4, <1>5 DEF TypeOK
<1>7. /\ \A i \in DOMAIN incidents' : i \in DOMAIN incidents \/ i = j
      /\ j \notin DOMAIN incidents /\ \A i \in DOMAIN incidents : i \in DOMAIN incidents'
    BY <1>6
<1>8. /\ Linked(j)' = outbox[r].evidence /\ Noted(j)' = {}
      /\ \A i \in DOMAIN incidents : Linked(i)' = Linked(i) /\ Noted(i)' = Noted(i)
    BY <1>4, <1>6 DEF Linked, Noted, Contents
<1>9. \A s \in DOMAIN outbox : LinkOf(s)' = LinkOf(s)
    BY <1>1 DEF LinkOf
<1>10. TypeOK'
  <2>1. incident' \in Nat \cup {None}
      BY <1>6 DEF Arrive, TypeOK
  <2>2. invocations' = invocations /\ operator' = operator
      BY DEF Arrive
  <2> QED
      BY <1>1, <1>6, <2>1, <2>2 DEF TypeOK
<1>11. RowsOfTheirTime' /\ NoOvertaking' /\ OwnRow'
    BY <1>1 DEF RowsOfTheirTime, NoOvertaking, SameScope, OwnRow, Working
<1>12. LinksRight'
    BY <1>1, <1>6, <1>7 DEF LinksRight
<1>13. BornRight'
  <2> SUFFICES ASSUME NEW i \in DOMAIN incidents', NEW b, b = incidents'[i].born
               PROVE  /\ b \in DOMAIN outbox
                      /\ \/ outbox[b].status \in Doubt \cup Sent /\ LinkOf(b) = i
                         \/ outbox[b].status \in Doubt /\ LinkOf(b) = None
      BY <1>1 DEF BornRight, LinkOf
  <2>1. CASE i = j
      BY <1>1, <1>2, <1>4, <1>6, <2>1
  <2>2. CASE i \in DOMAIN incidents
      BY <1>6, <2>2 DEF BornRight
  <2> QED
      BY <1>7, <2>1, <2>2
<1>14. NotedTaken'
  <2> SUFFICES ASSUME NEW i \in DOMAIN incidents', NEW s \in Noted(i)'
               PROVE  s \in DOMAIN outbox /\ outbox[s].status \in Doubt \cup Sent
      BY <1>1 DEF NotedTaken
  <2>1. i \in DOMAIN incidents /\ s \in Noted(i)
      BY <1>7, <1>8
  <2> QED
      BY <2>1 DEF NotedTaken
<1>15. OneIncident'
  <2> SUFFICES ASSUME NEW i \in DOMAIN incidents', NEW k \in DOMAIN incidents', i # k,
                      incidents'[i].born = incidents'[i].born
               PROVE  ~SameScope(incidents'[i].born, incidents'[k].born)
      BY <1>1 DEF OneIncident, SameScope
  <2>1. \A m \in DOMAIN incidents :
          /\ ~SameScope(incidents[m].born, r)
          /\ ~SameScope(r, incidents[m].born)
      BY <1>2 DEF NoIncident, SameScope
  <2> QED
      BY <1>4, <1>6, <1>7, <2>1 DEF OneIncident
<1>16. NotesInOrder'
  <2> SUFFICES ASSUME NEW i \in DOMAIN incidents', NEW k \in DOMAIN incidents'[i].notes
               PROVE  LET inc == incidents'[i]
                      IN  /\ SameScope(inc.notes[k], inc.born)
                          /\ \/ inc.notes[k] > inc.born
                             \/ inc.notes[k] = inc.born /\ outbox[inc.born].closes
                          /\ \A l \in DOMAIN inc.notes :
                               k < l => inc.notes[k] < inc.notes[l]
      BY <1>1 DEF NotesInOrder, SameScope
  <2>1. i \in DOMAIN incidents
      BY <1>4, <1>6, <1>7
  <2> QED
      BY <1>6, <2>1 DEF NotesInOrder
<1>17. SentIsShown'
  <2>1. ASSUME NEW s \in DOMAIN outbox, outbox[s].status \in Sent
        PROVE  \E i \in DOMAIN incidents' :
                 /\ link[outbox[s].gen][outbox[s].task] = i
                 /\ \/ /\ incidents'[i].born = s
                       /\ outbox[s].closes => s \in Contents(incidents'[i].notes)
                    \/ s \in Contents(incidents'[i].notes)
                 /\ outbox[s].evidence \subseteq Contents(incidents'[i].linked)
      BY <1>6, <1>7, <2>1 DEF SentIsShown
  <2>2. ASSUME NEW i \in DOMAIN incidents', NEW k \in DOMAIN incidents'[i].linked,
               NEW l \in DOMAIN incidents'[i].linked,
               incidents'[i].linked[k] = incidents'[i].linked[l]
        PROVE  k = l
    <3>1. CASE i = j
        BY <1>4, <1>6, <2>2, <3>1
    <3>2. CASE i \in DOMAIN incidents
        BY <1>6, <2>2, <3>2 DEF SentIsShown
    <3> QED
        BY <1>7, <3>1, <3>2
  <2> QED
      BY <1>1, <2>1, <2>2 DEF SentIsShown
<1>18. \A s \in DOMAIN outbox : s # r /\ outbox[s].status \in Doubt /\ NoIncident(s)
         => NoIncident(s)'
  <2> SUFFICES ASSUME NEW s \in DOMAIN outbox, s # r, outbox[s].status \in Doubt,
                      NoIncident(s), NEW i \in DOMAIN incidents', NEW b,
                      b = incidents'[i].born
               PROVE  ~SameScope(b, s)
      BY <1>1 DEF NoIncident, SameScope
  <2>1. ~SameScope(r, s)
      BY <1>1, DoubtsApart
  <2> QED
      BY <1>4, <1>6, <1>7, <2>1 DEF NoIncident
<1>19. WireRight'
  <2> SUFFICES ASSUME NEW d \in wire, d.row # r PROVE CallRight(d)'
      BY <1>1 DEF WireRight
  <2>1. CallRight(d) /\ d.row \in DOMAIN outbox /\ outbox[d.row].status \in Doubt
      BY DEF WireRight, CallRight
  <2>2. d.op # "create" => d.incident \in DOMAIN incidents
      BY <2>1, LinkedIncident DEF CallRight, CallOpen
  <2>3. CallOpen(d)'
    <3>1. d.op = "create" => NoIncident(d.row)'
        BY <1>18, <2>1 DEF CallRight, CallOpen
    <3>2. d.op # "create" => /\ Noted(d.incident)' = Noted(d.incident)
                             /\ Linked(d.incident)' = Linked(d.incident)
                             /\ incidents'[d.incident] = incidents[d.incident]
        BY <1>6, <1>8, <2>2
    <3>3. LinkOf(d.row)' = LinkOf(d.row) /\ outbox' = outbox
        BY <1>1, <1>9, <2>1
    <3>4. d.op \in {"create", "resolve", "link", "note"}
        BY DEF TypeOK, Call
    <3> QED
        BY <2>1, <3>1, <3>2, <3>3, <3>4 DEF CallRight, CallOpen
  <2>4. Working /\ d.row = row => phase = Awaits[d.op] /\ ~answered'
      BY <1>1, <2>1 DEF CallRight
  <2> QED
      BY <1>1, <2>1, <2>3, <2>4 DEF CallRight, Working
<1>20. CASE ~Working
  <2>1. Creating' /\ Resolving' /\ Updating' /\ Committing'
      BY <1>1, <1>20 DEF Creating, Resolving, Updating, Committing, Working
  <2> QED
      BY <1>10, <1>11, <1>12, <1>13, <1>14, <1>15, <1>16, <1>17, <1>19, <2>1
<1>21. CASE Working /\ row = r
  <2>1. phase = "creating" /\ phase' = "creating" /\ row' = r
      BY <1>1, <1>21
  <2>2. answered' => incident' = j
      BY <1>1, <1>21 DEF Arrive
  <2>3. LinkOf(r)' = None /\ j \in DOMAIN incidents'
      BY <1>1, <1>2, <1>6, <1>9
  <2>4. Creating'
    <3> SUFFICES ASSUME answered'
                 PROVE  /\ j \in DOMAIN incidents' /\ incidents'[j].born = r
                        /\ r \notin Noted(j)'
                        /\ outbox[r].evidence \subseteq Linked(j)'
        BY <1>1, <2>1, <2>2, <2>3 DEF Creating, Noted, Linked
    <3> QED
        BY <1>4, <1>6, <1>8, <2>3
  <2>5. Resolving' /\ Updating' /\ Committing'
      BY <2>1 DEF Resolving, Updating, Committing
  <2> QED
      BY <1>10, <1>11, <1>12, <1>13, <1>14, <1>15, <1>16, <1>17, <1>19, <2>4, <2>5
<1>22. CASE Working /\ row # r
  <2>1. /\ row \in DOMAIN outbox /\ outbox[row].status \in Doubt
        /\ answered' = answered /\ incident' = incident /\ row' = row /\ phase' = phase
        /\ toLink' = toLink /\ outbox' = outbox /\ LinkOf(row)' = LinkOf(row)
      BY <1>1, <1>9, <1>22 DEF OwnRow, Doubt
  <2>2. NoIncident(row) => NoIncident(row)'
      BY <1>18, <1>22, <2>1
  <2>3. LinkOf(row) # None => LinkOf(row) \in DOMAIN incidents
      BY <2>1, LinkedIncident
  <2>4. incident \in DOMAIN incidents =>
          /\ incident \in DOMAIN incidents' /\ incidents'[incident] = incidents[incident]
          /\ Noted(incident)' = Noted(incident) /\ Linked(incident)' = Linked(incident)
      BY <1>6, <1>7, <1>8, <2>1
  <2>5. Creating'
      BY <2>1, <2>2, <2>4 DEF Creating
  <2>6. Resolving'
      BY <2>1, <2>3, <2>4 DEF Resolving
  <2>7. Updating'
      BY <1>1, <2>1, <2>3, <2>4 DEF Updating
  <2>8. Committing'
      BY <2>1, <2>3, <2>4 DEF Committing, Shown
  <2> QED
      BY <1>10, <1>11, <1>12, <1>13, <1>14, <1>15, <1>16, <1>17, <1>19, <2>5, <2>6,
         <2>7, <2>8
<1> QED
    BY <1>20, <1>21, <1>22

LEMMA AppendContents ==
  ASSUME NEW S, NEW s \in Seq(S), NEW x \in S
  PROVE  /\ Append(s, x) \in Seq(S) /\ Len(s) \in Nat /\ DOMAIN s = 1..Len(s)
         /\ DOMAIN Append(s, x) = 1..(Len(s) + 1)
         /\ Append(s, x)[Len(s) + 1] = x
         /\ \A k \in DOMAIN s : Append(s, x)[k] = s[k]
         /\ Contents(Append(s, x)) = Contents(s) \cup {x}
<1>1. /\ Append(s, x) \in Seq(S) /\ Len(s) \in Nat /\ DOMAIN s = 1..Len(s)
      /\ DOMAIN Append(s, x) = 1..(Len(s) + 1)
      /\ Append(s, x)[Len(s) + 1] = x
      /\ \A k \in DOMAIN s : Append(s, x)[k] = s[k]
    OBVIOUS
<1>2. \A k \in DOMAIN Append(s, x) : k \in DOMAIN s \/ k = Len(s) + 1
    BY <1>1
<1>3. Contents(Append(s, x)) = Contents(s) \cup {x}
  <2> DEFINE a == Append(s, x)
  <2>1. /\ Len(s) + 1 \in DOMAIN a
        /\ \A k \in DOMAIN s : k \in DOMAIN a
      BY <1>1
  <2> HIDE DEF a
  <2> QED
      BY <1>1, <1>2, <2>1 DEF Contents, a
<1> QED
    BY <1>1, <1>3

(* What a call other than create_incident does to its incident. *)
LEMMA AtIncident ==
  ASSUME Inv, NEW c \in wire, Arrive(c), c.op # "create", NEW i, i = c.incident
  PROVE  /\ i \in DOMAIN incidents /\ LinkOf(c.row) = i
         /\ SameScope(incidents[i].born, c.row)
         /\ incidents' \in Seq(Incident) /\ DOMAIN incidents' = DOMAIN incidents
         /\ \A k \in DOMAIN incidents : k # i => incidents'[k] = incidents[k]
         /\ incidents'[i].born = incidents[i].born
         /\ c.op = "link" => /\ incidents'[i].linked = Append(incidents[i].linked, c.event)
                             /\ incidents'[i].notes = incidents[i].notes
         /\ c.op # "link" => /\ incidents'[i].linked = incidents[i].linked
                             /\ incidents'[i].notes = Append(incidents[i].notes, c.row)
         /\ c.op # "resolve" => incidents'[i].status = incidents[i].status
<1> USE DEF Inv
<1> DEFINE inc == incidents[i]
           x == IF c.op = "resolve" THEN [AppendNote(inc, c.row) EXCEPT !.status = "resolved"]
                ELSE IF c.op = "link" THEN [inc EXCEPT !.linked = Append(@, c.event)]
                ELSE AppendNote(inc, c.row)
<1>1. /\ c.row \in DOMAIN outbox /\ LinkOf(c.row) = i /\ i # None
      /\ c.op = "link" => c.event \in Event
      /\ c.op \in {"resolve", "link", "note"}
    BY Arriving DEF CallOpen
<1>2. i \in DOMAIN incidents /\ SameScope(incidents[i].born, c.row)
    BY <1>1, LinkedIncident
<1>3. inc \in Incident /\ c.row \in Nat
    BY <1>1, <1>2, RowType, IncidentType
<1>4. /\ x \in Incident /\ x.born = inc.born
      /\ c.op = "link" => x.linked = Append(inc.linked, c.event) /\ x.notes = inc.notes
      /\ c.op # "link" => x.linked = inc.linked /\ x.notes = Append(inc.notes, c.row)
      /\ c.op # "resolve" => x.status = inc.status
  <2>1. inc.linked \in Seq(Event) /\ inc.notes \in Seq(Nat)
      BY <1>3 DEF Incident
  <2>2. Append(inc.notes, c.row) \in Seq(Nat)
      BY <1>3, <2>1
  <2>3. c.op = "link" => Append(inc.linked, c.event) \in Seq(Event)
      BY <1>1, <2>1
  <2> HIDE DEF inc
  <2> QED
      BY <1>1, <1>3, <2>2, <2>3 DEF AppendNote, Incident, IncidentStatus
<1>5. incidents' = [incidents EXCEPT ![i] = x]
    BY <1>1 DEF Arrive, Applied
<1> HIDE DEF x
<1>6. incidents \in Seq(Incident)
    BY DEF TypeOK
<1>7. /\ incidents' \in Seq(Incident) /\ DOMAIN incidents' = DOMAIN incidents
      /\ incidents'[i] = x
      /\ \A k \in DOMAIN incidents : k # i => incidents'[k] = incidents[k]
    BY <1>2, <1>4, <1>5, <1>6
<1> QED
    BY <1>1, <1>2, <1>4, <1>7

(* The incident keeps what it had and gets what the call brings.           *)
LEMMA AtIncidentView ==
  ASSUME Inv, NEW c \in wire, Arrive(c), c.op # "create", NEW i, i = c.incident
  PROVE  /\ Linked(i)' = Linked(i) \cup (IF c.op = "link" THEN {c.event} ELSE {})
         /\ Noted(i)' = Noted(i) \cup (IF c.op = "link" THEN {} ELSE {c.row})
         /\ \A k \in DOMAIN incidents : k # i =>
              Linked(k)' = Linked(k) /\ Noted(k)' = Noted(k)
<1> USE DEF Inv
<1>1. /\ i \in DOMAIN incidents
      /\ \A k \in DOMAIN incidents : k # i => incidents'[k] = incidents[k]
      /\ c.op = "link" => /\ incidents'[i].linked = Append(incidents[i].linked, c.event)
                          /\ incidents'[i].notes = incidents[i].notes
      /\ c.op # "link" => /\ incidents'[i].linked = incidents[i].linked
                          /\ incidents'[i].notes = Append(incidents[i].notes, c.row)
    BY SMTT(20), AtIncident
<1>2. incidents[i].linked \in Seq(Event) /\ incidents[i].notes \in Seq(Nat)
    BY <1>1, IncidentType
<1>3. c.row \in Nat /\ (c.op = "link" => c.event \in Event)
    BY Arriving, RowType DEF CallOpen
<1>4. c.op = "link" => Contents(Append(incidents[i].linked, c.event))
                         = Contents(incidents[i].linked) \cup {c.event}
    BY <1>2, <1>3, AppendContents
<1>5. Contents(Append(incidents[i].notes, c.row)) = Contents(incidents[i].notes) \cup {c.row}
    BY <1>2, <1>3, AppendContents
<1>6. \A k \in DOMAIN incidents : k # i => Linked(k)' = Linked(k) /\ Noted(k)' = Noted(k)
    BY <1>1 DEF Linked, Noted
<1> QED
    BY <1>1, <1>4, <1>5, <1>6 DEF Linked, Noted

(* A publication is noted after those before it: they were sent, and it    *)
(* is the only one of its task in doubt.                                   *)
LEMMA NotesStayInOrder ==
  ASSUME Inv, NEW c \in wire, Arrive(c), c.op # "create"
  PROVE  NotesInOrder'
<1> USE DEF Inv
<1> DEFINE r == c.row
           i == c.incident
<1>1. /\ r \in DOMAIN outbox /\ outbox[r].status \in Doubt /\ CallOpen(c)
      /\ outbox' = outbox
      /\ c.op \in {"create", "resolve", "link", "note"}
    BY Arriving DEF store
<1>2. /\ i \in DOMAIN incidents /\ SameScope(incidents[i].born, r)
      /\ DOMAIN incidents' = DOMAIN incidents
      /\ \A k \in DOMAIN incidents : k # i => incidents'[k] = incidents[k]
      /\ incidents'[i].born = incidents[i].born
      /\ c.op = "link" => incidents'[i].notes = incidents[i].notes
      /\ c.op # "link" => incidents'[i].notes = Append(incidents[i].notes, r)
    BY SMTT(20), AtIncident
<1> HIDE DEF r, i
<1> SUFFICES ASSUME NEW m \in DOMAIN incidents, NEW k \in DOMAIN incidents'[m].notes
             PROVE  LET inc == incidents'[m]
                    IN  /\ SameScope(inc.notes[k], inc.born)
                        /\ \/ inc.notes[k] > inc.born
                           \/ inc.notes[k] = inc.born /\ outbox[inc.born].closes
                        /\ \A l \in DOMAIN inc.notes :
                             k < l => inc.notes[k] < inc.notes[l]
    BY <1>1, <1>2 DEF NotesInOrder, SameScope
<1>3. CASE m # i \/ c.op = "link"
  <2>1. /\ incidents'[m].born = incidents[m].born
        /\ incidents'[m].notes = incidents[m].notes
      BY <1>2, <1>3
  <2> QED
      BY <2>1 DEF NotesInOrder
<1>4. CASE m = i /\ c.op # "link"
  <2> DEFINE b == incidents[i].born
             notes == incidents[i].notes
             n == Len(notes)
  <2>1. b \in DOMAIN outbox /\ outbox[b].status \in Doubt \cup Sent
      BY <1>2 DEF BornRight
  <2>2. r \in Nat /\ b \in Nat /\ SameScope(b, r) /\ SameScope(r, b)
      BY <1>1, <1>2, <2>1, RowType DEF SameScope
  <2>3. b <= r
      BY <1>1, <2>1, <2>2, OneInDoubt
  <2>4. r > b \/ (r = b /\ outbox[b].closes)
    <3>1. c.op = "resolve" => r = b /\ outbox[b].closes
        BY <1>1 DEF CallOpen, r, i
    <3>2. c.op = "note" => r # b
        BY <1>1 DEF CallOpen, r, i
    <3> QED
        BY <1>1, <1>4, <2>2, <2>3, <3>1, <3>2
  <2>5. /\ n \in Nat /\ DOMAIN notes = 1..n /\ DOMAIN incidents'[i].notes = 1..(n + 1)
        /\ incidents'[i].notes[n + 1] = r
        /\ \A l \in 1..n : incidents'[i].notes[l] = notes[l]
    <3>1. notes \in Seq(Nat)
        BY <1>2, IncidentType
    <3> HIDE DEF notes
    <3>2. incidents'[i].notes = Append(notes, r)
        BY <1>2, <1>4 DEF notes
    <3> QED
        BY <2>2, <3>1, <3>2, AppendContents
  <2>6. ASSUME NEW l \in 1..n
        PROVE  /\ SameScope(notes[l], b)
               /\ notes[l] > b \/ (notes[l] = b /\ outbox[b].closes)
               /\ \A o \in 1..n : l < o => notes[l] < notes[o]
               /\ notes[l] < r
    <3>1. /\ SameScope(notes[l], b)
          /\ notes[l] > b \/ (notes[l] = b /\ outbox[b].closes)
          /\ \A o \in 1..n : l < o => notes[l] < notes[o]
        BY <1>2, <2>5 DEF NotesInOrder
    <3>2. notes[l] \in Noted(i)
        BY <2>5 DEF Noted, Contents
    <3>3. notes[l] \in DOMAIN outbox /\ outbox[notes[l]].status \in Doubt \cup Sent
        BY <1>2, <3>2 DEF NotedTaken
    <3>4. SameScope(r, notes[l])
        BY <2>2, <3>1 DEF SameScope
    <3>5. notes[l] <= r /\ notes[l] \in Nat
        BY <1>1, <3>3, <3>4, OneInDoubt, RowType
    <3>6. r \notin Noted(i)
        BY <1>1, <1>4 DEF CallOpen, r, i
    <3> QED
        BY <2>2, <3>1, <3>2, <3>5, <3>6
  <2>7. incidents'[i].born = b
      BY <1>2
  <2> HIDE DEF n, notes, b
  <2>8. k \in 1..n \/ k = n + 1
      BY <1>4, <2>5
  <2>9. CASE k \in 1..n
    <3>1. \A l \in 1..(n + 1) : k < l => incidents'[i].notes[k] < incidents'[i].notes[l]
        BY <2>5, <2>6, <2>9
    <3> QED
        BY <1>4, <2>5, <2>6, <2>7, <2>9, <3>1
  <2>10. CASE k = n + 1
      BY <1>4, <2>2, <2>4, <2>5, <2>7, <2>10
  <2> QED
      BY <2>8, <2>9, <2>10
<1> QED
    BY <1>3, <1>4

(* What an incident shows stays shown, and a reading that was missing is   *)
(* linked once.                                                            *)
LEMMA SentStaysShown ==
  ASSUME Inv, NEW c \in wire, Arrive(c), c.op # "create"
  PROVE  SentIsShown'
<1> USE DEF Inv
<1> DEFINE i == c.incident
<1>1. UNCHANGED <<outbox, link>> /\ CallOpen(c)
    BY Arriving DEF store
<1>2. /\ i \in DOMAIN incidents /\ DOMAIN incidents' = DOMAIN incidents
      /\ \A k \in DOMAIN incidents : k # i => incidents'[k] = incidents[k]
      /\ incidents'[i].born = incidents[i].born
      /\ c.op = "link" => incidents'[i].linked = Append(incidents[i].linked, c.event)
      /\ c.op # "link" => incidents'[i].linked = incidents[i].linked
    BY AtIncident
<1>3. \A k \in DOMAIN incidents : Linked(k) \subseteq Linked(k)' /\ Noted(k) \subseteq Noted(k)'
    BY AtIncidentView
<1>4. ASSUME NEW r \in DOMAIN outbox, outbox[r].status \in Sent
      PROVE  \E k \in DOMAIN incidents :
               /\ link[outbox[r].gen][outbox[r].task] = k
               /\ \/ incidents'[k].born = r /\ (outbox[r].closes => r \in Noted(k)')
                  \/ r \in Noted(k)'
               /\ outbox[r].evidence \subseteq Linked(k)'
  <2>1. PICK k \in DOMAIN incidents :
          /\ link[outbox[r].gen][outbox[r].task] = k
          /\ \/ incidents[k].born = r /\ (outbox[r].closes => r \in Noted(k))
             \/ r \in Noted(k)
          /\ outbox[r].evidence \subseteq Linked(k)
      BY <1>4 DEF SentIsShown, Noted, Linked
  <2>2. incidents'[k].born = incidents[k].born
      BY <1>2
  <2> QED
      BY <1>3, <2>1, <2>2
<1>5. ASSUME NEW m \in DOMAIN incidents, NEW k \in DOMAIN incidents'[m].linked,
             NEW l \in DOMAIN incidents'[m].linked,
             incidents'[m].linked[k] = incidents'[m].linked[l]
      PROVE  k = l
  <2>1. \A o, p \in DOMAIN incidents[m].linked :
          incidents[m].linked[o] = incidents[m].linked[p] => o = p
      BY DEF SentIsShown
  <2>2. CASE m # i \/ c.op # "link"
    <3>1. incidents'[m].linked = incidents[m].linked
        BY <1>2, <2>2
    <3> QED
        BY <1>5, <2>1, <3>1
  <2>3. CASE m = i /\ c.op = "link"
    <3> DEFINE linked == incidents[i].linked
               n == Len(linked)
    <3>1. c.event \in Event /\ linked \in Seq(Event)
        BY <1>1, <1>2, <2>3, IncidentType DEF CallOpen
    <3>2. c.event \notin Contents(linked)
        BY <1>1, <2>3 DEF CallOpen, Linked
    <3>3. incidents'[m].linked = Append(linked, c.event)
        BY <1>2, <2>3
    <3> HIDE DEF linked
    <3>4. /\ n \in Nat /\ DOMAIN linked = 1..n
          /\ DOMAIN incidents'[m].linked = 1..(n + 1)
          /\ incidents'[m].linked[n + 1] = c.event
          /\ \A o \in 1..n : incidents'[m].linked[o] = linked[o]
        BY <3>1, <3>3, AppendContents
    <3>5. \A o \in 1..n : linked[o] # c.event
        BY <3>2, <3>4 DEF Contents
    <3>6. k \in 1..n \/ k = n + 1
        BY <3>4
    <3>7. l \in 1..n \/ l = n + 1
        BY <3>4
    <3>8. \A o, p \in 1..n : linked[o] = linked[p] => o = p
        BY <2>1, <2>3, <3>4 DEF linked
    <3> QED
        BY <1>5, <3>4, <3>5, <3>6, <3>7, <3>8
  <2> QED
      BY <2>2, <2>3
<1> QED
    BY <1>1, <1>2, <1>4, <1>5 DEF SentIsShown, Noted, Linked

(* The other calls are about other incidents. *)
LEMMA OtherCallsStay ==
  ASSUME Inv, NEW c \in wire, Arrive(c), c.op # "create"
  PROVE  WireRight'
<1> USE DEF Inv
<1> DEFINE r == c.row
           i == c.incident
<1>1. /\ r \in DOMAIN outbox /\ outbox[r].status \in Doubt
      /\ UNCHANGED <<generation, outbox, link, phase, row, toLink>>
      /\ \A d \in wire' : d \in wire /\ d.row # r
      /\ ~(Working /\ row = r) => UNCHANGED <<answered, incident>>
    BY Arriving DEF store
<1>2. /\ i \in DOMAIN incidents /\ LinkOf(r) = i /\ i # None
      /\ DOMAIN incidents' = DOMAIN incidents
      /\ \A k \in DOMAIN incidents : k # i => incidents'[k] = incidents[k]
      /\ \A k \in DOMAIN incidents : incidents'[k].born = incidents[k].born
  <2>1. /\ i \in DOMAIN incidents /\ LinkOf(r) = i
        /\ DOMAIN incidents' = DOMAIN incidents
        /\ \A k \in DOMAIN incidents : k # i => incidents'[k] = incidents[k]
        /\ incidents'[i].born = incidents[i].born
      BY AtIncident
  <2> QED
      BY <2>1, IncidentType
<1>3. \A k \in DOMAIN incidents : k # i => Linked(k)' = Linked(k) /\ Noted(k)' = Noted(k)
    BY AtIncidentView
<1> HIDE DEF r, i
<1> SUFFICES ASSUME NEW d \in wire, d.row # r PROVE CallRight(d)'
    BY <1>1 DEF WireRight
<1>4. CallRight(d) /\ d.row \in DOMAIN outbox /\ outbox[d.row].status \in Doubt
    BY DEF WireRight, CallRight
<1>5. LinkOf(d.row) # i
    BY <1>1, <1>2, <1>4, DoubtsApart
<1>6. d.op # "create" => d.incident \in DOMAIN incidents /\ d.incident # i
    BY <1>4, <1>5, LinkedIncident DEF CallRight, CallOpen
<1>7. CallOpen(d)'
  <2>1. d.op # "create" => /\ Noted(d.incident)' = Noted(d.incident)
                           /\ Linked(d.incident)' = Linked(d.incident)
                           /\ incidents'[d.incident] = incidents[d.incident]
      BY <1>2, <1>3, <1>6
  <2>2. LinkOf(d.row)' = LinkOf(d.row) /\ outbox' = outbox
      BY <1>1 DEF LinkOf
  <2>3. NoIncident(d.row)' <=> NoIncident(d.row)
      BY <1>1, <1>2 DEF NoIncident, SameScope
  <2>4. d.op \in {"create", "resolve", "link", "note"}
      BY DEF TypeOK, Call
  <2> QED
      BY <1>4, <2>1, <2>2, <2>3, <2>4 DEF CallRight, CallOpen
<1>8. \A e \in wire' : e.row = d.row => e = d
    BY <1>1, <1>4 DEF CallRight
<1>9. Working /\ d.row = row => phase = Awaits[d.op] /\ ~answered'
    BY <1>1, <1>4 DEF CallRight
<1> QED
    BY <1>1, <1>4, <1>7, <1>8, <1>9 DEF CallRight, Working

(* A process that works on another row works on another incident.          *)
LEMMA OtherRowStays ==
  ASSUME Inv, NEW c \in wire, Arrive(c), c.op # "create", Working, row # c.row
  PROVE  Creating' /\ Resolving' /\ Updating' /\ Committing'
<1> USE DEF Inv
<1> DEFINE i == c.incident
<1>1. /\ c.row \in DOMAIN outbox /\ outbox[c.row].status \in Doubt
      /\ UNCHANGED <<outbox, link, phase, row, toLink, answered, incident>>
      /\ \A d \in wire' : d \in wire
    BY Arriving DEF store
<1>2. /\ i \in DOMAIN incidents /\ LinkOf(c.row) = i /\ i # None
      /\ SameScope(incidents[i].born, c.row)
      /\ DOMAIN incidents' = DOMAIN incidents
      /\ \A k \in DOMAIN incidents : k # i => incidents'[k] = incidents[k]
      /\ \A k \in DOMAIN incidents : incidents'[k].born = incidents[k].born
  <2>1. /\ i \in DOMAIN incidents /\ LinkOf(c.row) = i
        /\ SameScope(incidents[i].born, c.row)
        /\ DOMAIN incidents' = DOMAIN incidents
        /\ \A k \in DOMAIN incidents : k # i => incidents'[k] = incidents[k]
        /\ incidents'[i].born = incidents[i].born
      BY AtIncident
  <2> QED
      BY <2>1, IncidentType
<1>3. \A k \in DOMAIN incidents : k # i => Linked(k)' = Linked(k) /\ Noted(k)' = Noted(k)
    BY AtIncidentView
<1> HIDE DEF i
<1>4. row \in DOMAIN outbox /\ outbox[row].status \in Doubt
    BY DEF OwnRow, Doubt
<1>5. ~SameScope(row, c.row) /\ LinkOf(row) # i
    BY <1>1, <1>2, <1>4, DoubtsApart
<1>6. LinkOf(row) # None => LinkOf(row) \in DOMAIN incidents
    BY <1>4, LinkedIncident
<1>7. LinkOf(row)' = LinkOf(row)
    BY <1>1 DEF LinkOf
<1>8. NoIncident(row)' <=> NoIncident(row)
    BY <1>1, <1>2 DEF NoIncident, SameScope
<1>9. incident \in DOMAIN incidents /\ incident # i =>
        /\ incident \in DOMAIN incidents' /\ incidents'[incident] = incidents[incident]
        /\ Noted(incident)' = Noted(incident) /\ Linked(incident)' = Linked(incident)
    BY <1>1, <1>2, <1>3
<1>10. Creating'
  <2>1. incident \in DOMAIN incidents /\ incidents[incident].born = row => incident # i
      BY <1>2, <1>5
  <2> QED
      BY <1>1, <1>7, <1>8, <1>9, <2>1 DEF Creating
<1>11. Resolving'
    BY <1>1, <1>5, <1>6, <1>7, <1>9 DEF Resolving
<1>12. Updating'
    BY <1>1, <1>5, <1>6, <1>7, <1>9 DEF Updating
<1>13. Committing'
    BY <1>1, <1>5, <1>6, <1>7, <1>9 DEF Committing, Shown
<1> QED
    BY <1>10, <1>11, <1>12, <1>13

(* A process that works on the row waits for this call, and learns what it *)
(* brought only from its answer.                                           *)
LEMMA OwnRowLearns ==
  ASSUME Inv, NEW c \in wire, Arrive(c), c.op # "create", Working, row = c.row
  PROVE  Creating' /\ Resolving' /\ Updating' /\ Committing'
<1> USE DEF Inv
<1>1. /\ UNCHANGED <<outbox, link, phase, row, toLink>> /\ incident' = incident
      /\ \A d \in wire' : d.row # row
      /\ phase = Awaits[c.op] /\ c.op \in {"resolve", "link", "note"}
      /\ CallOpen(c)
    BY Arriving DEF store
<1>2. LinkOf(row)' = LinkOf(row) /\ LinkOf(row) = c.incident
    BY <1>1 DEF LinkOf, CallOpen
<1>3. incident = c.incident
    BY <1>1, <1>2 DEF Awaits, Resolving, Updating
<1>4. /\ incident \in DOMAIN incidents /\ incidents'[incident].born = incidents[incident].born
      /\ Linked(incident)' = Linked(incident) \cup (IF c.op = "link" THEN {c.event} ELSE {})
      /\ Noted(incident)' = Noted(incident) \cup (IF c.op = "link" THEN {} ELSE {row})
  <2> PICK i : i = c.incident
      OBVIOUS
  <2>1. /\ i \in DOMAIN incidents /\ incidents'[i].born = incidents[i].born
        /\ Linked(i)' = Linked(i) \cup (IF c.op = "link" THEN {c.event} ELSE {})
        /\ Noted(i)' = Noted(i) \cup (IF c.op = "link" THEN {} ELSE {row})
      BY AtIncident, AtIncidentView
  <2> QED
      BY <1>1, <1>3, <2>1 DEF Linked, Noted
<1>5. CASE c.op = "resolve"
  <2>1. phase = "resolving"
      BY <1>1, <1>5 DEF Awaits
  <2>2. Resolving'
      BY <1>1, <1>2, <1>4, <1>5, <2>1 DEF Resolving
  <2> QED
      BY <1>1, <2>1, <2>2 DEF Creating, Updating, Committing
<1>6. CASE c.op = "link"
  <2>1. phase = "linking"
      BY <1>1, <1>6 DEF Awaits
  <2>2. /\ c.event \notin toLink
        /\ outbox[row].evidence \subseteq Linked(incident) \cup toLink \cup {c.event}
        /\ toLink \cap Linked(incident) = {} /\ row \notin Noted(incident)
        /\ incident = LinkOf(row) /\ incident # None /\ incidents[incident].born # row
      BY <2>1 DEF Updating
  <2>3. Updating'
      BY <1>1, <1>2, <1>4, <1>6, <2>1, <2>2 DEF Updating
  <2> QED
      BY <1>1, <2>1, <2>3 DEF Creating, Resolving, Committing
<1>7. CASE c.op = "note"
  <2>1. phase = "noting"
      BY <1>1, <1>7 DEF Awaits
  <2>2. Updating'
      BY <1>1, <1>2, <1>4, <1>7, <2>1 DEF Updating
  <2> QED
      BY <1>1, <2>1, <2>2 DEF Creating, Resolving, Committing
<1> QED
    BY <1>1, <1>5, <1>6, <1>7

LEMMA ArriveKeeps ==
  ASSUME Inv, NEW c \in wire, Arrive(c)
  PROVE  Inv'
<1> USE DEF Inv
<1>1. CASE c.op = "create"
    BY <1>1, CreateArrives
<1>2. CASE c.op # "create"
  <2>1. /\ UNCHANGED <<generation, outbox, link, phase, row, toLink>>
        /\ wire' \subseteq wire /\ incident' = incident
        /\ answered' \in BOOLEAN /\ (answered' => phase \in Waiting)
        /\ c.row \in DOMAIN outbox /\ outbox[c.row].status \in Doubt
      BY <1>2, Arriving DEF store
  <2>2. /\ incidents' \in Seq(Incident) /\ DOMAIN incidents' = DOMAIN incidents
        /\ \A k \in DOMAIN incidents : incidents'[k].born = incidents[k].born
      BY <1>2, AtIncident
  <2>3. \A k \in DOMAIN incidents : Noted(k)' \subseteq Noted(k) \cup {c.row}
      BY <1>2, AtIncidentView
  <2>4. TypeOK'
    <3>1. invocations' = invocations /\ operator' = operator
        BY DEF Arrive
    <3> QED
        BY <2>1, <2>2, <3>1 DEF TypeOK
  <2>5. RowsOfTheirTime' /\ NoOvertaking' /\ OwnRow'
      BY <2>1 DEF RowsOfTheirTime, NoOvertaking, SameScope, OwnRow, Working
  <2>6. LinksRight'
      BY <2>1, <2>2 DEF LinksRight
  <2>7. BornRight' /\ OneIncident'
      BY <2>1, <2>2 DEF BornRight, LinkOf, OneIncident, SameScope
  <2>8. NotedTaken'
    <3> SUFFICES ASSUME NEW k \in DOMAIN incidents, NEW s \in Noted(k)'
                 PROVE  s \in DOMAIN outbox /\ outbox[s].status \in Doubt \cup Sent
        BY <2>1, <2>2 DEF NotedTaken
    <3> QED
        BY <2>1, <2>3 DEF NotedTaken
  <2>9. NotesInOrder' /\ SentIsShown' /\ WireRight'
      BY <1>2, NotesStayInOrder, SentStaysShown, OtherCallsStay
  <2>10. Creating' /\ Resolving' /\ Updating' /\ Committing'
    <3>1. CASE ~Working
        BY <2>1, <3>1 DEF Working, Creating, Resolving, Updating, Committing
    <3>2. CASE Working
        BY <1>2, <3>2, OtherRowStays, OwnRowLearns
    <3> QED
        BY <3>1, <3>2
  <2> QED
      BY <2>4, <2>5, <2>6, <2>7, <2>8, <2>9, <2>10
<1> QED
    BY <1>1, <1>2

-----------------------------------------------------------------------------
(* The invariant                                                           *)

LEMMA InitInv == Init => Inv
<1> SUFFICES ASSUME Init PROVE Inv
    OBVIOUS
<1>1. TypeOK
    BY SMTT(20), PublisherAssumption DEF Init, TypeOK, Gen
<1>2. /\ outbox = <<>> /\ incidents = <<>> /\ wire = {} /\ phase = "idle" /\ row = 0
      /\ answered = FALSE /\ DOMAIN outbox = {} /\ DOMAIN incidents = {}
      /\ link = [g \in Gen |-> [t \in Task |-> None]]
    BY DEF Init
<1>3. RowsOfTheirTime /\ BornRight /\ NotedTaken /\ OneIncident /\ NotesInOrder
      /\ SentIsShown /\ NoOvertaking
    BY <1>2 DEF RowsOfTheirTime, BornRight, NotedTaken, OneIncident, NotesInOrder,
                SentIsShown, NoOvertaking
<1>4. LinksRight
    BY <1>2 DEF LinksRight
<1>5. OwnRow /\ WireRight /\ Creating /\ Resolving /\ Updating /\ Committing
    BY <1>2 DEF OwnRow, Working, WireRight, Creating, Resolving, Updating, Committing
<1> QED
    BY <1>1, <1>3, <1>4, <1>5 DEF Inv

LEMMA StutterKeeps == ASSUME Inv, UNCHANGED vars PROVE Inv'
<1>1. Quiet /\ UNCHANGED <<process, wire, outbox, generation>>
    BY DEF vars, process, Quiet, RowsKept, IncidentsKept
<1>2. TypeOK'
    BY DEF Inv, vars, TypeOK
<1>3. RowsOfTheirTime' /\ NoOvertaking'
    BY <1>1 DEF Inv, RowsOfTheirTime, NoOvertaking, SameScope
<1> QED
    BY <1>1, <1>2, <1>3, OthersKeep

LEMMA NextInv == Inv /\ [Next]_vars => Inv'
<1> SUFFICES ASSUME Inv, [Next]_vars PROVE Inv'
    OBVIOUS
<1>1. CASE \E t \in Task, closes \in BOOLEAN, evidence \in SUBSET Event :
             Enqueue(t, closes, evidence)
    BY <1>1, EnqueueKeeps
<1>2. CASE Reset
    BY <1>2, ResetKeeps
<1>3. CASE \E i \in DOMAIN incidents, status \in IncidentStatus : OperatorSets(i, status)
    BY <1>3, OperatorSetsKeeps
<1>4. CASE \E c \in wire : Arrive(c)
    BY <1>4, ArriveKeeps
<1>5. CASE PublisherStep
  <2>1. CASE Open
      BY <2>1, OpenKeeps
  <2>2. CASE NothingToSend \/ Crash
      BY <2>2, QuitKeeps DEF NothingToSend, Crash
  <2>3. CASE \E r \in DOMAIN outbox : Block(r) \/ Start(r)
      BY <2>3, BlockKeeps, StartKeeps
  <2>4. CASE SendCreate \/ SendResolve \/ SendNote \/ \E e \in Event : SendLink(e)
      BY <2>4, SendCreateKeeps, SendResolveKeeps, SendNoteKeeps, SendLinkKeeps
  <2>5. CASE StoreLink
      BY <2>5, StoreLinkKeeps
  <2>6. CASE ReadIncident \/ LinkAnswered \/ LastCallAnswered
      BY <2>6, ReadIncidentKeeps, LinkAnsweredKeeps, LastCallAnsweredKeeps
  <2>7. CASE Commit \/ GiveUp
      BY <2>7, CommitKeeps, GiveUpKeeps
  <2> QED
      BY <1>5, <2>1, <2>2, <2>3, <2>4, <2>5, <2>6, <2>7 DEF PublisherStep
<1>6. CASE UNCHANGED vars
    BY <1>6, StutterKeeps
<1> QED
    BY <1>1, <1>2, <1>3, <1>4, <1>5, <1>6 DEF Next

LEMMA InvAlways == Spec => []Inv
BY InitInv, NextInv, PTL DEF Spec

(* Every state the publisher, its calls and the platform reach is typed.   *)
THEOREM PublisherTyped == Spec => []TypeOK
<1>1. Inv => TypeOK
    BY DEF Inv
<1> QED
    BY <1>1, InvAlways, PTL

(* A task of a generation gets at most one incident from create_incident,  *)
(* however many calls are lost, late, or answered to a publisher that died *)
(* before it stored the link.                                              *)
THEOREM IncidentsAreUnique == Spec => []OneIncident
<1>1. Inv => OneIncident
    BY DEF Inv
<1> QED
    BY <1>1, InvAlways, PTL

(* The notes of an incident are publications of its own task, each once,   *)
(* in the order of the outbox.                                             *)
THEOREM NotesAreInOrder == Spec => []NotesInOrder
<1>1. Inv => NotesInOrder
    BY DEF Inv
<1> QED
    BY <1>1, InvAlways, PTL

(* A row is marked sent only when the linked incident shows it with all    *)
(* of its evidence, and no reading is linked twice.                        *)
THEOREM SentRowsAreShown == Spec => []SentIsShown
<1>1. Inv => SentIsShown
    BY DEF Inv
<1> QED
    BY <1>1, InvAlways, PTL

(* Publications of a task are taken up in order, and an ambiguous write    *)
(* stops its task.                                                         *)
THEOREM RowsAreTakenInOrder == Spec => []NoOvertaking
<1>1. Inv => NoOvertaking
    BY DEF Inv
<1> QED
    BY <1>1, InvAlways, PTL

-----------------------------------------------------------------------------
(* What a step never does                                                  *)

Ended == Sent \cup {"uncertain", "blocked", "cancelled"}

(* A row moves only forward. *)
RowForward(r) ==
  /\ outbox[r].status # "pending" => outbox'[r].status # "pending"
  /\ outbox[r].status \in Ended => outbox'[r].status = outbox[r].status

LEMMA OnlyForward ==
  ASSUME Inv, [Next]_vars, NEW r \in DOMAIN outbox
  PROVE  RowForward(r)
<1> USE DEF RowForward, Ended, Sent
<1>1. ASSUME NEW t \in Task, NEW closes \in BOOLEAN, NEW evidence \in SUBSET Event,
             Enqueue(t, closes, evidence)
      PROVE  outbox'[r] = outbox[r]
    BY <1>1 DEF Inv, TypeOK, Enqueue
<1>2. CASE Reset
  <2>1. outbox'[r] = IF outbox[r].status = "pending"
                       THEN [outbox[r] EXCEPT !.status = "cancelled"] ELSE outbox[r]
      BY <1>2 DEF Reset
  <2>2. outbox[r].status = "pending" \/ outbox'[r] = outbox[r]
      BY <2>1
  <2> QED
      BY <2>2
<1>3. CASE Open
  <2>1. outbox'[r] = IF outbox[r].status = "sending"
                       THEN [outbox[r] EXCEPT !.status = "uncertain"] ELSE outbox[r]
      BY <1>3 DEF Open, MarkInterrupted
  <2>2. CASE outbox[r].status = "sending"
    <3>1. outbox[r] \in Row
        BY RowType DEF Inv
    <3>2. outbox'[r].status = "uncertain"
        BY <2>1, <2>2, <3>1, StatusChange DEF RowStatus
    <3> QED
        BY <2>2, <3>2
  <2>3. CASE outbox[r].status # "sending"
      BY <2>1, <2>3
  <2> QED
      BY <2>2, <2>3
<1>4. ASSUME NEW s \in DOMAIN outbox, outbox[s].status = "pending", NEW st \in RowStatus,
             outbox' = [outbox EXCEPT ![s].status = st]
      PROVE  RowForward(r)
  <2>1. r # s => outbox'[r].status = outbox[r].status
      BY <1>4, OneRowChange DEF Inv
  <2> QED
      BY <1>4, <2>1
<1>5. ASSUME NEW s \in DOMAIN outbox, Block(s) \/ Start(s) PROVE RowForward(r)
  <2>1. /\ outbox[s].status = "pending"
        /\ \/ outbox' = [outbox EXCEPT ![s].status = "blocked"]
           \/ outbox' = [outbox EXCEPT ![s].status = "sending"]
      BY <1>5 DEF Block, Start, First, Candidate
  <2> QED
      BY <1>4, <2>1 DEF RowStatus
<1>6. ASSUME Commit \/ GiveUp PROVE RowForward(r)
  <2>1. row \in DOMAIN outbox /\ outbox[row].status = "sending"
      BY <1>6 DEF Inv, OwnRow, Working, Commit, GiveUp, Waiting
  <2>2. PICK st \in {"sent", "sent_obsolete", "uncertain"} :
          outbox' = [outbox EXCEPT ![row].status = st]
      BY <1>6 DEF Commit, GiveUp, GiveUpStatus
  <2>3. /\ outbox'[row].status = st
        /\ r # row => outbox'[r].status = outbox[r].status
      BY <2>1, <2>2, OneRowChange DEF Inv, RowStatus
  <2> QED
      BY <2>1, <2>2, <2>3
<1>7. ASSUME outbox' = outbox PROVE RowForward(r)
    BY <1>7
<1>8. ASSUME \/ \E i \in DOMAIN incidents, status \in IncidentStatus : OperatorSets(i, status)
             \/ \E c \in wire : Arrive(c)
             \/ NothingToSend \/ SendCreate \/ StoreLink \/ SendResolve \/ ReadIncident
             \/ \E e \in Event : SendLink(e)
             \/ LinkAnswered \/ SendNote \/ LastCallAnswered \/ Crash
             \/ UNCHANGED vars
      PROVE  outbox' = outbox
    BY <1>8 DEF OperatorSets, Arrive, NothingToSend, SendCreate, StoreLink, SendResolve,
        ReadIncident, SendLink, LinkAnswered, SendNote, LastCallAnswered, Crash, vars, store
<1> QED
    BY <1>1, <1>2, <1>3, <1>5, <1>6, <1>7, <1>8 DEF Next, PublisherStep

(* An ambiguous write is never blindly replayed: no row that was taken up  *)
(* becomes pending again, and one that ended keeps its status.             *)
THEOREM RowsAreNeverReplayed == Spec => NeverReplayed
<1> DEFINE A(r) ==
      /\ outbox[r].status # "pending" => outbox'[r].status # "pending"
      /\ outbox[r].status \in Sent \cup {"uncertain", "blocked", "cancelled"}
           => outbox'[r].status = outbox[r].status
<1>1. Inv /\ [Next]_vars => [\A r \in DOMAIN outbox : A(r)]_vars
    BY OnlyForward DEF RowForward, Ended
<1> QED
    BY <1>1, InvAlways, PTL DEF Spec, NeverReplayed

LEMMA StatusOnlyByOperator ==
  ASSUME Inv, [Next]_vars, NEW i \in DOMAIN incidents,
         outbox[incidents[i].born].status \in Sent, operator' = operator
  PROVE  incidents'[i].status = incidents[i].status
<1>1. ASSUME incidents' = incidents PROVE incidents'[i].status = incidents[i].status
    BY <1>1
<1>2. ASSUME NEW k \in DOMAIN incidents, NEW status \in IncidentStatus,
             OperatorSets(k, status)
      PROVE  FALSE
    BY <1>2 DEF OperatorSets, Inv, TypeOK
<1>3. ASSUME NEW c \in wire, Arrive(c)
      PROVE  incidents'[i].status = incidents[i].status
  <2>1. CASE c.op = "create"
    <3>1. incidents' = Append(incidents, Created(c.row))
        BY <1>3, <2>1 DEF Arrive, Applied
    <3> QED
        BY <3>1 DEF Inv, TypeOK
  <2>2. CASE c.op # "create"
    <3>1. PICK k : k = c.incident
        OBVIOUS
    <3>2. /\ k \in DOMAIN incidents
          /\ \A m \in DOMAIN incidents : m # k => incidents'[m] = incidents[m]
          /\ c.op # "resolve" => incidents'[k].status = incidents[k].status
        BY <1>3, <2>2, <3>1, AtIncident
    <3>3. c.op = "resolve" => /\ incidents[k].born = c.row
                              /\ outbox[c.row].status \in Doubt
        BY <1>3, <3>1, Arriving DEF CallOpen
    <3>4. c.op = "resolve" => i # k
        BY <3>3 DEF Doubt, Sent
    <3> QED
        BY <3>2, <3>4
  <2> QED
      BY <2>1, <2>2
<1>4. ASSUME \/ \E t \in Task, closes \in BOOLEAN, evidence \in SUBSET Event :
                  Enqueue(t, closes, evidence)
             \/ Reset \/ PublisherStep \/ UNCHANGED vars
      PROVE  incidents' = incidents
    BY <1>4 DEF Enqueue, Reset, PublisherStep, Open, NothingToSend, Block, Start,
        SendCreate, StoreLink, SendResolve, ReadIncident, SendLink, LinkAnswered,
        SendNote, LastCallAnswered, Commit, GiveUp, Crash, vars
<1> QED
    BY <1>1, <1>2, <1>3, <1>4 DEF Next

(* After the publication that made an incident was sent, its status moves  *)
(* only when an operator moves it: no late resolve is still under way.     *)
THEOREM OperatorsKeepTheStatus == Spec => OperatorStatusKept
<1> DEFINE A(i) == /\ outbox[incidents[i].born].status \in Sent
                   /\ operator' = operator
                   => incidents'[i].status = incidents[i].status
<1>1. Inv /\ [Next]_vars => [\A i \in DOMAIN incidents : A(i)]_vars
    BY StatusOnlyByOperator
<1> QED
    BY <1>1, InvAlways, PTL DEF Spec, OperatorStatusKept
=============================================================================
