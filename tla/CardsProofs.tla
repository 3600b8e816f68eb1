---------------------------- MODULE CardsProofs ----------------------------
(***************************************************************************)
(* Proofs about Cards, for any watches, readings, scope and number of      *)
(* requests, streams and faults.  What the projection shows is in scope    *)
(* and identified by its revision, whatever the watches do.  The watches   *)
(* that come from channel checks are rebuilt by a fold over all facts; its *)
(* recursion equation is proved by minimal counterexample over finite sets *)
(* of facts, and from it what the reducer's links are worth.               *)
(***************************************************************************)
EXTENDS Cards, FiniteSetTheorems, WellFoundedInduction, TLAPS

(* What revisions tell is kept by this: no snapshot is ahead of the context. *)
RevisionInv ==
  /\ revision \in Nat
  /\ cards = [i \in Id |-> cards[i]]
  /\ \A s \in Snapshots : s.revision \in Nat /\ s.revision <= revision
  /\ RevisionTells

(* What a step may do to the projection: nothing, or go on to a new revision. *)
GoesOn ==
  /\ revision' \in Nat /\ revision <= revision'
  /\ revision' = revision => cards' = cards
  /\ cards' = [i \in Id |-> cards'[i]]

(* A refresh that changes anything moves the context's revision.            *)
LEMMA SnapshotGoesOn ==
  ASSUME revision \in Nat, cards = [i \in Id |-> cards[i]], Snapshot
  PROVE  GoesOn
<1> DEFINE new == Refreshed
           changed == {i \in Id : new[i] # cards[i]}
<1>1. cards' = new /\ revision' = revision + Cardinality(changed)
  BY DEF Snapshot, Changed
<1>2. new = [i \in Id |-> new[i]]
  BY DEF Refreshed
<1>3. IsFiniteSet(changed)
  <2>1. IsFiniteSet(Id)
    BY CardsAssumption, FS_AddElement DEF Id
  <2> QED BY <2>1, FS_Subset
<1>4. Cardinality(changed) \in Nat
  BY <1>3, FS_CardinalityType
<1>5. Cardinality(changed) = 0 => new = cards
  <2> HIDE DEF new
  <2>1. Cardinality(changed) = 0 => changed = {}
    BY <1>3, FS_EmptySet
  <2>2. ASSUME changed = {} PROVE new = cards
    <3>1. \A i \in Id : new[i] = cards[i]
      BY <2>2
    <3> QED BY <3>1, <1>2
  <2> QED BY <2>1, <2>2
<1> HIDE DEF new, changed
<1> QED BY <1>1, <1>2, <1>4, <1>5 DEF GoesOn

(* A step that goes on and shows nobody anything but what was shown, or is  *)
(* shown now, keeps the invariant.                                          *)
LEMMA RevisionStep ==
  ASSUME RevisionInv, GoesOn,
         Snapshots' \subseteq Snapshots \cup {[revision |-> revision', cards |-> cards']}
  PROVE  RevisionInv'
<1> DEFINE now == [revision |-> revision, cards |-> cards]
           next == [revision |-> revision', cards |-> cards']
<1>1. now \in Snapshots
  BY DEF Snapshots
<1>2. next.revision = revision' /\ next.cards = cards'
  OBVIOUS
<1>3. now.revision = revision /\ now.cards = cards
  OBVIOUS
<1> HIDE DEF now, next
<1>4. \A s \in Snapshots' : s.revision \in Nat /\ s.revision <= revision'
  BY <1>2 DEF RevisionInv, GoesOn, next
<1>5. \A s \in Snapshots : s.revision = revision' => s.cards = cards'
  <2> SUFFICES ASSUME NEW s \in Snapshots, s.revision = revision'
               PROVE  s.cards = cards'
    OBVIOUS
  <2>1. revision' = revision
    BY DEF RevisionInv, GoesOn
  <2>2. s.cards = cards
    BY <2>1, <1>1, <1>3 DEF RevisionInv, RevisionTells
  <2> QED BY <2>1, <2>2 DEF GoesOn
<1>6. \A s, t \in Snapshots' : s.revision = t.revision => s.cards = t.cards
  <2> SUFFICES ASSUME NEW s \in Snapshots', NEW t \in Snapshots', s.revision = t.revision
               PROVE  s.cards = t.cards
    OBVIOUS
  <2>1. s \in Snapshots \/ s = next
    BY DEF next
  <2>2. t \in Snapshots \/ t = next
    BY DEF next
  <2>3. CASE s \in Snapshots /\ t \in Snapshots
    BY <2>3 DEF RevisionInv, RevisionTells
  <2>4. CASE s \in Snapshots /\ t = next
    BY <2>4, <1>2, <1>5
  <2>5. CASE s = next /\ t \in Snapshots
    BY <2>5, <1>2, <1>5
  <2>6. CASE s = next /\ t = next
    BY <2>6
  <2> QED BY <2>1, <2>2, <2>3, <2>4, <2>5, <2>6
<1> QED BY <1>4, <1>6 DEF RevisionInv, RevisionTells, GoesOn

LEMMA RevisionInit == Init => RevisionInv
<1> SUFFICES ASSUME Init PROVE RevisionInv
  OBVIOUS
<1>1. Snapshots = {[revision |-> 0, cards |-> cards]}
  BY DEF Init, Snapshots
<1>2. cards = [i \in Id |-> cards[i]]
  BY DEF Init
<1> QED BY <1>1, <1>2 DEF Init, RevisionInv, RevisionTells

(* Steps that leave the projection alone.                                   *)
LEMMA UnchangedGoesOn ==
  ASSUME RevisionInv, UNCHANGED <<cards, revision>>
  PROVE  GoesOn
BY DEF RevisionInv, GoesOn

LEMMA RevisionNext == RevisionInv /\ [Next]_vars => RevisionInv'
<1> SUFFICES ASSUME RevisionInv, [Next]_vars PROVE RevisionInv'
  OBVIOUS
<1> DEFINE next == [revision |-> revision', cards |-> cards']
<1>1. ASSUME UNCHANGED <<view, answers>>
      PROVE  Snapshots' \subseteq Snapshots \cup {next}
  BY <1>1 DEF Snapshots
<1>2. CASE Tick
  BY <1>2, <1>1, UnchangedGoesOn, RevisionStep DEF Tick, page
<1>3. CASE \E e \in Event : Finish(e)
  BY <1>3, <1>1, UnchangedGoesOn, RevisionStep DEF Finish, page
<1>4. CASE Poll
  BY <1>4, <1>1, SnapshotGoesOn, RevisionStep DEF Poll, page, RevisionInv
<1>5. CASE Answer
  <2>1. Snapshots' \subseteq Snapshots \cup {next}
    BY <1>5 DEF Answer, Snapshots
  <2> QED BY <1>5, <2>1, SnapshotGoesOn, RevisionStep DEF Answer, RevisionInv
<1>6. CASE Receive
  <2>1. PICK s \in answers : view' = (IF Accepts(s) THEN s ELSE view)
                             /\ answers' = answers \ {s}
    BY <1>6 DEF Receive
  <2>2. Snapshots' \subseteq Snapshots \cup {next}
    BY <2>1 DEF Snapshots
  <2> QED BY <1>6, <2>2, UnchangedGoesOn, RevisionStep DEF Receive
<1>7. CASE RequestFails
  <2>1. answers' \subseteq answers /\ view' = view
    BY <1>7 DEF RequestFails
  <2>2. Snapshots' \subseteq Snapshots \cup {next}
    BY <2>1 DEF Snapshots
  <2> QED BY <1>7, <2>2, UnchangedGoesOn, RevisionStep DEF RequestFails
<1>8. CASE StreamBreaks
  BY <1>8, <1>1, UnchangedGoesOn, RevisionStep DEF StreamBreaks, page
<1>9. CASE OpenStream
  BY <1>9, <1>1, SnapshotGoesOn, RevisionStep DEF OpenStream, RevisionInv
<1>10. CASE AskAgain
  BY <1>10, <1>1, UnchangedGoesOn, RevisionStep DEF AskAgain
<1>11. CASE UNCHANGED vars
  BY <1>11, <1>1, UnchangedGoesOn, RevisionStep DEF vars, page
<1> QED BY <1>2, <1>3, <1>4, <1>5, <1>6, <1>7, <1>8, <1>9, <1>10, <1>11 DEF Next

(* UIService.snapshot, refreshAgent: whatever the watches do and however    *)
(* answers overtake each other, snapshots with the same snapshot_revision   *)
(* show the same cards.                                                     *)
THEOREM RevisionsIdentify == Spec => []RevisionTells
<1>1. RevisionInv => RevisionTells
  BY DEF RevisionInv
<1> QED BY RevisionInit, RevisionNext, <1>1, PTL DEF Spec
-----------------------------------------------------------------------------
(* What cards in scope needs: a card shows events of the generation, and    *)
(* the clock never goes back.                                               *)
ScopeInv ==
  /\ clock \in Nat
  /\ \A i \in Id : cards[i] # NoCard => cards[i].content.evidence \subseteq Event
  /\ CardsInScope

(* A refresh writes only what is in scope and leaves the other cards.       *)
LEMMA SnapshotInScope ==
  ASSUME ScopeInv, Snapshot, clock' = clock
  PROVE  ScopeInv'
<1>1. cards' = Refreshed
  BY DEF Snapshot
<1>2. ASSUME NEW i \in Id, cards'[i] # NoCard
      PROVE  /\ cards'[i].content.evidence \subseteq Event
             /\ \A e \in cards'[i].content.evidence : TimeOf[e] <= clock /\ SourceOf[e] \in Device
  <2> DEFINE content == Content(i)
  <2>1. content.evidence = Evidence(i) \ NoReading
    BY DEF Content
  <2> HIDE DEF content
  <2>2. CASE cards'[i] = cards[i]
    BY <1>2, <2>2 DEF ScopeInv, CardsInScope
  <2>3. CASE cards'[i] # cards[i]
    <3>1. i \in Watches /\ Visible(i) /\ cards'[i] = Written(cards[i], content)
      BY <1>1, <1>2, <2>3 DEF Refreshed, content
    <3>2. cards'[i].content = content
      BY <3>1, <2>3 DEF Written
    <3>3. Evidence(i) \subseteq Event
      BY DEF Evidence
    <3> QED BY <3>1, <3>2, <3>3, <2>1 DEF Visible
  <2> QED BY <2>2, <2>3
<1> QED BY <1>2 DEF ScopeInv, CardsInScope

(* Time that passes puts nothing out of scope.                              *)
LEMMA ClockInScope ==
  ASSUME ScopeInv, cards' = cards, clock' \in {clock, clock + 1}
  PROVE  ScopeInv'
<1>1. clock' \in Nat /\ clock <= clock'
  BY DEF ScopeInv
<1>2. ASSUME NEW i \in Id, cards[i] # NoCard, NEW e \in cards[i].content.evidence
      PROVE  TimeOf[e] <= clock' /\ SourceOf[e] \in Device
  <2>1. e \in Event /\ TimeOf[e] <= clock /\ SourceOf[e] \in Device
    BY <1>2 DEF ScopeInv, CardsInScope
  <2>2. TimeOf[e] \in Int
    BY <2>1, CardsAssumption DEF Time
  <2> QED BY <1>1, <2>1, <2>2 DEF ScopeInv
<1> QED BY <1>1, <1>2 DEF ScopeInv, CardsInScope

LEMMA ScopeInit == Init => ScopeInv
BY DEF Init, ScopeInv, CardsInScope

LEMMA ScopeNext == ScopeInv /\ [Next]_vars => ScopeInv'
<1> SUFFICES ASSUME ScopeInv, [Next]_vars PROVE ScopeInv'
  OBVIOUS
<1>1. CASE Tick
  BY <1>1, ClockInScope DEF Tick
<1>2. CASE \E e \in Event : Finish(e)
  BY <1>2, ClockInScope DEF Finish
<1>3. CASE Poll
  BY <1>3, SnapshotInScope DEF Poll, store
<1>4. CASE Answer
  BY <1>4, SnapshotInScope DEF Answer, store
<1>5. CASE Receive
  BY <1>5, ClockInScope DEF Receive, store
<1>6. CASE RequestFails
  BY <1>6, ClockInScope DEF RequestFails, store
<1>7. CASE StreamBreaks
  BY <1>7, ClockInScope DEF StreamBreaks, store
<1>8. CASE OpenStream
  BY <1>8, SnapshotInScope DEF OpenStream, store
<1>9. CASE AskAgain
  BY <1>9, ClockInScope DEF AskAgain, store
<1>10. CASE UNCHANGED vars
  BY <1>10, ClockInScope DEF vars, store
<1> QED BY <1>1, <1>2, <1>3, <1>4, <1>5, <1>6, <1>7, <1>8, <1>9, <1>10 DEF Next

(* UIService._refresh_cards: whatever is reported, with evidence of         *)
(* whichever devices, a card shows nothing from outside the subject's       *)
(* devices and nothing of the future, also while it is stale.               *)
THEOREM ScopeKept == Spec => []CardsInScope
<1>1. ScopeInv => CardsInScope
  BY DEF ScopeInv
<1> QED BY ScopeInit, ScopeNext, <1>1, PTL DEF Spec

-----------------------------------------------------------------------------
(* How checks are linked, for any facts                                    *)

Distinct(S) == \A f, g \in S : f.event = g.event => f = g
FactsRight(S) ==
  /\ IsFiniteSet(S) /\ Distinct(S)
  /\ \A f \in S : f.event \in Nat /\ f.time \in Int /\ f.event # None

(* Any non-empty set of numbers has a least.                                *)
LEMMA LeastIs ==
  ASSUME NEW T, T \subseteq Nat, T # {}
  PROVE  \E n \in T : \A m \in T : n <= m
<1>1. PICK n \in T : \A m \in T : ~ (<<m, n>> \in OpToRel(<, Nat))
  BY NatLessThanWellFounded, WFMin
<1>2. ASSUME NEW m \in T PROVE ~(m < n)
  <2>1. m \in Nat /\ n \in Nat
    OBVIOUS
  <2> QED BY <1>1, <2>1 DEF OpToRel
<1>3. \A m \in T : m \in Int /\ n \in Int
  OBVIOUS
<1> QED BY <1>2, <1>3

(* So a set of finite sets that is not empty has one of least cardinality.  *)
LEMMA SmallestIs ==
  ASSUME NEW S, IsFiniteSet(S), NEW B, B \subseteq SUBSET S, B # {}
  PROVE  \E s \in B : \A t \in B : Cardinality(s) <= Cardinality(t)
<1> DEFINE T == {Cardinality(s) : s \in B}
<1>1. T \subseteq Nat /\ T # {}
  BY FS_Subset, FS_CardinalityType
<1>2. PICK n \in T : \A m \in T : n <= m
  BY <1>1, LeastIs
<1> QED BY <1>2

LEMMA SmallerIs ==
  ASSUME NEW s, IsFiniteSet(s), NEW x \in s
  PROVE  /\ IsFiniteSet(s \ {x}) /\ Cardinality(s \ {x}) \in Nat
         /\ Cardinality(s \ {x}) < Cardinality(s)
         /\ ~(Cardinality(s) <= Cardinality(s \ {x}))
<1>1. IsFiniteSet(s \ {x}) /\ Cardinality(s \ {x}) = Cardinality(s) - 1
  BY FS_RemoveElement
<1>2. Cardinality(s) \in Nat /\ Cardinality(s \ {x}) \in Nat
  BY <1>1, FS_CardinalityType
<1> QED BY <1>1, <1>2

(* Facts are totally ordered by their time and event. *)
IsLatest(T, f) == f \in T /\ \A g \in T \ {f} : Before(g, f)

LEMMA HasLatest ==
  ASSUME NEW S, FactsRight(S), NEW T, T \subseteq S, T # {}
  PROVE  \E f : IsLatest(T, f)
<1> DEFINE B == {U \in SUBSET S : U # {} /\ ~\E f : IsLatest(U, f)}
<1> SUFFICES ASSUME B # {} PROVE FALSE
  OBVIOUS
<1>1. PICK U \in B : \A V \in B : Cardinality(U) <= Cardinality(V)
  BY SmallestIs DEF FactsRight
<1>2. PICK x \in U : TRUE
  BY <1>1
<1>3. IsFiniteSet(U)
  BY <1>1, FS_Subset DEF FactsRight
<1>4. U \ {x} \notin B
  BY <1>1, <1>2, <1>3, SmallerIs
<1>5. CASE U \ {x} = {}
  <2>1. IsLatest(U, x)
    BY <1>2, <1>5 DEF IsLatest
  <2> QED BY <2>1, <1>1
<1>6. CASE U \ {x} # {}
  <2>1. PICK y : IsLatest(U \ {x}, y)
    BY <1>4, <1>6, <1>1
  <2>2. \A g \in U : g.event \in Nat /\ g.time \in Int
    BY <1>1 DEF FactsRight
  <2>3. x \in U /\ y \in U /\ x.event # y.event
    BY <1>1, <1>2, <2>1 DEF IsLatest, FactsRight, Distinct
  <2>4. CASE Before(x, y)
    <3>1. IsLatest(U, y)
      BY <2>1, <2>4 DEF IsLatest
    <3> QED BY <3>1, <1>1
  <2>5. CASE ~Before(x, y)
    <3>1. Before(y, x)
      BY <2>2, <2>3, <2>5 DEF Before
    <3>2. ASSUME NEW g \in U \ {x} PROVE Before(g, x)
      <4>1. CASE g = y
        BY <4>1, <3>1
      <4>2. CASE g # y
        <5>1. Before(g, y)
          BY <2>1, <4>2 DEF IsLatest
        <5> QED BY <5>1, <3>1, <2>2, <2>3 DEF Before
      <4> QED BY <4>1, <4>2
    <3>3. IsLatest(U, x)
      BY <1>2, <3>2 DEF IsLatest
    <3> QED BY <3>3, <1>1
  <2> QED BY <2>4, <2>5
<1> QED BY <1>5, <1>6

LEMMA LatestIs ==
  ASSUME NEW S, FactsRight(S), NEW T, T \subseteq S, T # {}
  PROVE  IsLatest(T, Latest(T))
BY HasLatest DEF IsLatest, Latest

LEMMA LatestIsOne ==
  ASSUME NEW S, FactsRight(S), NEW f \in S, \A g \in S \ {f} : Before(g, f)
  PROVE  Latest(S) = f
<1>1. IsLatest(S, Latest(S))
  BY LatestIs
<1>2. \A g \in S : g.event \in Nat /\ g.time \in Int
  BY DEF FactsRight
<1>3. ASSUME Latest(S) # f PROVE FALSE
  <2>1. Before(f, Latest(S)) /\ Before(Latest(S), f) /\ Latest(S) \in S
    BY <1>1, <1>3 DEF IsLatest
  <2> QED BY <2>1, <1>2 DEF Before
<1> QED BY <1>3

-----------------------------------------------------------------------------
(* The fold of the reducer *)
Step(g, s) == IF s = {} THEN {} ELSE Link(g[s \ {Latest(s)}], Latest(s))
Solves(P, g) == g = [s \in P |-> Step(g, s)]
SolvesAll(S, g) == Solves(SUBSET S, g)

LEMMA FoldIs ==
  ASSUME NEW P, NEW g, Solves(P, g), NEW s \in P
  PROVE  g[s] = Step(g, s)
<1>1. [t \in P |-> Step(g, t)][s] = Step(g, s)
  OBVIOUS
<1> QED BY <1>1 DEF Solves

LEMMA RebuildIs == ASSUME NEW S PROVE Rebuild(S) = (CHOOSE g : SolvesAll(S, g))[S]
BY DEF Rebuild, MapThenFoldSet, SolvesAll, Solves, Step

(* Two folds agree where both are defined. *)
LEMMA FoldsAgree ==
  ASSUME NEW S, FactsRight(S), NEW T, T \subseteq S,
         NEW g, NEW h, SolvesAll(S, g), SolvesAll(T, h)
  PROVE  g[T] = h[T]
<1> DEFINE B == {s \in SUBSET T : g[s] # h[s]}
<1> SUFFICES ASSUME B # {} PROVE FALSE
  OBVIOUS
<1>1. PICK s \in B : \A t \in B : Cardinality(s) <= Cardinality(t)
  BY SmallestIs DEF FactsRight
<1>2. g[s] = Step(g, s) /\ h[s] = Step(h, s)
  BY <1>1, FoldIs DEF SolvesAll
<1>3. s # {}
  BY <1>1, <1>2 DEF Step
<1> DEFINE l == Latest(s) t == s \ {l}
<1>4. l \in s /\ IsFiniteSet(s)
  BY <1>1, <1>3, LatestIs, FS_Subset DEF IsLatest, FactsRight
<1>5. t \in SUBSET T /\ t \notin B
  BY <1>1, <1>3, <1>4, SmallerIs
<1> QED BY <1>1, <1>2, <1>3, <1>5 DEF Step

(* The recursion has a solution: it is extended from the sets of fewer than *)
(* n facts to those of n.                                                   *)
LEMMA FoldExists ==
  ASSUME NEW S, FactsRight(S)
  PROVE  \E g : SolvesAll(S, g)
<1> DEFINE Sub(n) == {s \in SUBSET S : Cardinality(s) < n}
           B == {n \in Nat : ~\E g : Solves(Sub(n), g)}
<1>0. \A s \in SUBSET S : IsFiniteSet(s) /\ Cardinality(s) \in Nat
  BY FS_Subset, FS_CardinalityType DEF FactsRight
<1>1. ASSUME B # {} PROVE FALSE
  <2>1. PICK n \in B : \A m \in B : n <= m
    BY <1>1, LeastIs
  <2>2. n # 0
    <3>1. SUFFICES ASSUME n = 0 PROVE \E g : Solves(Sub(n), g)
      BY <2>1
    <3>2. Sub(n) = {}
      BY <1>0, <3>1
    <3>3. PICK g : g = [s \in {} |-> {}]
      OBVIOUS
    <3>4. g = [s \in {} |-> Step(g, s)]
      BY <3>3
    <3>5. Solves({}, g)
      BY <3>4 DEF Solves
    <3> QED BY <3>2, <3>5
  <2>3. n - 1 \in Nat /\ n - 1 \notin B
    <3>1. n \in Nat
      OBVIOUS
    <3>2. n - 1 \in Nat /\ ~(n <= n - 1)
      BY <3>1, <2>2
    <3> HIDE DEF B
    <3> QED BY <3>2, <2>1
  <2>4. PICK g : Solves(Sub(n - 1), g)
    BY <2>3
  <2> DEFINE h == [s \in Sub(n) |-> Step(g, s)]
  <2>5. ASSUME NEW s \in Sub(n) PROVE Step(g, s) = Step(h, s)
    <3>1. CASE s = {}
      BY <3>1 DEF Step
    <3>2. CASE s # {}
      <4> DEFINE l == Latest(s) t == s \ {l}
      <4>1. l \in s
        BY <3>2, LatestIs DEF IsLatest
      <4>2. t \in SUBSET S /\ Cardinality(t) < Cardinality(s)
        BY <4>1, <1>0, SmallerIs
      <4>3. t \in Sub(n - 1) /\ t \in Sub(n)
        BY <4>2, <1>0, <2>1
      <4>4. g[t] = Step(g, t) /\ h[t] = Step(g, t)
        <5> HIDE DEF t, Sub
        <5> QED BY <4>3, <2>4, FoldIs
      <4> HIDE DEF h
      <4> QED BY <4>4, <3>2 DEF Step
    <3> QED BY <3>1, <3>2
  <2>6. h = [s \in Sub(n) |-> Step(h, s)]
    <3> HIDE DEF Sub
    <3>1. \A s \in Sub(n) : Step(g, s) = Step(h, s)
      BY <2>5
    <3>2. h = [s \in Sub(n) |-> Step(g, s)]
      OBVIOUS
    <3> HIDE DEF h
    <3> QED BY <3>1, <3>2
  <2>7. Solves(Sub(n), h)
    <3> HIDE DEF h, Sub
    <3> QED BY <2>6 DEF Solves
  <2> HIDE DEF h
  <2> QED BY <2>7, <2>1
<1> DEFINE n == Cardinality(S) + 1
<1>2. n \in Nat /\ n \notin B
  <2>1. Cardinality(S) \in Nat
    BY <1>0
  <2>2. B = {}
    BY <1>1
  <2> HIDE DEF B
  <2> QED BY <2>1, <2>2
<1>3. Sub(n) = SUBSET S
  <2>1. \A s \in SUBSET S : Cardinality(s) <= Cardinality(S)
    BY FS_Subset DEF FactsRight
  <2> QED BY <2>1, <1>0
<1>4. PICK g : Solves(Sub(n), g)
  BY <1>2
<1> QED BY <1>3, <1>4 DEF SolvesAll

(* rebuild(): facts are linked in order, and one that is the latest is       *)
(* linked to what the others gave.                                          *)
LEMMA RebuildStep ==
  ASSUME NEW S, FactsRight(S), S # {}
  PROVE  Rebuild(S) = Link(Rebuild(S \ {Latest(S)}), Latest(S))
<1> PICK T : T = S \ {Latest(S)}
  OBVIOUS
<1>1. T \in SUBSET S /\ FactsRight(T)
  BY FS_Subset DEF FactsRight, Distinct
<1>2. PICK g : g = CHOOSE x : SolvesAll(S, x)
  OBVIOUS
<1>3. PICK h : h = CHOOSE x : SolvesAll(T, x)
  OBVIOUS
<1>4. SolvesAll(S, g) /\ SolvesAll(T, h)
  BY <1>1, <1>2, <1>3, FoldExists
<1>5. Rebuild(S) = g[S] /\ Rebuild(T) = h[T]
  BY <1>2, <1>3, RebuildIs
<1>6. g[S] = Link(g[T], Latest(S))
  <2>1. S \in SUBSET S
    OBVIOUS
  <2>2. g[S] = Step(g, S)
    BY <1>4, <2>1, FoldIs DEF SolvesAll
  <2> QED BY <2>2 DEF Step
<1>7. g[T] = h[T]
  BY <1>1, <1>4, FoldsAgree
<1> QED BY <1>5, <1>6, <1>7

LEMMA RebuildNone == Rebuild({}) = {}
<1>1. FactsRight({})
  BY FS_EmptySet DEF FactsRight, Distinct
<1> DEFINE g == CHOOSE g : SolvesAll({}, g)
<1>2. SolvesAll({}, g)
  BY <1>1, FoldExists
<1>3. Rebuild({}) = g[{}]
  BY RebuildIs
<1>4. {} \in SUBSET {}
  OBVIOUS
<1> HIDE DEF g
<1>5. g[{}] = Step(g, {})
  BY <1>2, <1>4, FoldIs DEF SolvesAll
<1> QED BY <1>3, <1>5 DEF Step

(* How checks hang together once the facts S are linked.                    *)
Events(S) == {f.event : f \in S}

IsCheck(c) ==
  c = [ref |-> c.ref, source |-> c.source, team |-> c.team, request |-> c.request,
       channel |-> c.channel, assignment |-> c.assignment, assignedAt |-> c.assignedAt,
       acknowledgement |-> c.acknowledgement, evidence |-> c.evidence, last |-> c.last]

(* The checks whose assignment a reply may answer. *)
CouldMean(C, r) ==
  {c \in C : /\ c.assignment # None /\ c.source = r.source /\ c.channel = r.channel
             /\ r.time - c.assignedAt \in 1..ReplyWindow
             /\ r.team \in {None, c.team}}

(* A check was opened, last heard of and assigned its channel by facts of S. *)
Rests(S, c) ==
  /\ IsCheck(c)
  /\ c.ref \in Events(S) /\ Roles(c) \subseteq Events(S)
  /\ \E f \in S : f.time = c.last
  /\ c.channel = None <=> c.assignment = None
  /\ c.assignment # None =>
       \E a \in S : /\ a.event = c.assignment /\ a.source = c.source
                    /\ a.channel = c.channel /\ a.time = c.assignedAt /\ a.time <= c.last
Answers(S, C, c) ==
  c.acknowledgement # None =>
    \E r \in S : r.event = c.acknowledgement /\ CouldMean(C, r) = {c}

Linked(S, C) ==
  /\ IsFiniteSet(C)
  /\ \A c \in C : Rests(S, c) /\ Answers(S, C, c)
  /\ \A c, d \in C : c # d => c.ref # d.ref /\ Roles(c) \cap Roles(d) = {}

(* f comes after the facts of S. *)
Follows(S, f) ==
  /\ f.time \in Int /\ f.event # None /\ f.event \notin Events(S)
  /\ \A g \in S : g.time \in Int /\ g.time <= f.time

(* What f may make of a check c, of C or new: e. *)
Opened(c, f) ==
  /\ c.ref = f.event /\ c.source = f.source /\ Roles(c) \subseteq {f.event}
  /\ c.channel = None /\ c.assignment = None /\ c.acknowledgement = None
Continued(c, e, f) ==
  /\ IsCheck(e) /\ e.ref = c.ref /\ e.source = c.source /\ e.team = c.team
  /\ e.last = f.time /\ Roles(e) \subseteq Roles(c) \cup {f.event}
SameChannel(c, e) ==
  e.channel = c.channel /\ e.assignment = c.assignment /\ e.assignedAt = c.assignedAt
GivenChannel(c, e, f) ==
  /\ c.channel = None /\ c.source = f.source
  /\ e.channel = f.channel /\ f.channel # None /\ e.assignment = f.event
  /\ e.assignedAt = f.time
Swapped(C, c, e) == (C \ {c}) \cup {e}
Relinked(C, f, c, e) ==
  /\ c \in C \/ (c \notin C /\ Opened(c, f))
  /\ Continued(c, e, f)
  /\ SameChannel(c, e) \/ GivenChannel(c, e, f)
  /\ \/ e.acknowledgement = c.acknowledgement
     \/ e.acknowledgement = f.event /\ CouldMean(Swapped(C, c, e), f) = {e}

LEMMA OthersDiffer ==
  ASSUME NEW S, NEW C, Linked(S, C), NEW f, Follows(S, f), NEW c, NEW e, Relinked(C, f, c, e),
         NEW d \in C \ {c}
  PROVE  d.ref # e.ref /\ d # e /\ Roles(d) \cap Roles(e) = {}
<1>1. e.ref = c.ref /\ Roles(e) \subseteq Roles(c) \cup {f.event}
  BY DEF Relinked, Continued
<1>2. d.ref \in Events(S) /\ Roles(d) \subseteq Events(S) /\ f.event \notin Events(S)
  BY DEF Linked, Rests, Follows
<1>3. CASE c \in C
  <2>1. c.ref # d.ref /\ Roles(c) \cap Roles(d) = {}
    BY <1>3 DEF Linked
  <2> QED BY <1>1, <1>2, <2>1
<1>4. CASE Opened(c, f)
  <2>1. c.ref = f.event /\ Roles(c) \subseteq {f.event}
    BY <1>4 DEF Opened
  <2> QED BY <1>1, <1>2, <2>1
<1> QED BY <1>3, <1>4 DEF Relinked

(* What an earlier reply could mean is what it was. *)
LEMMA MeantBefore ==
  ASSUME NEW S, NEW C, Linked(S, C), NEW f, Follows(S, f), NEW c, NEW e, Relinked(C, f, c, e),
         NEW r \in S
  PROVE  LET D == Swapped(C, c, e)
         IN  /\ \A d \in C \ {c} : CouldMean(C, r) = {d} => CouldMean(D, r) = {d}
             /\ c \in C /\ CouldMean(C, r) = {c} => CouldMean(D, r) = {e}
<1> DEFINE D == Swapped(C, c, e)
<1>1. \A d \in C \ {c} : d \in CouldMean(D, r) <=> d \in CouldMean(C, r)
  BY DEF CouldMean, Swapped
<1>2. e.source = c.source /\ e.team = c.team
  BY DEF Relinked, Continued
<1>3. c.assignment = None => c \notin CouldMean(C, r)
  BY DEF CouldMean
<1>4. e \in CouldMean(D, r) <=> c \in CouldMean(C, r)
  <2>1. CASE SameChannel(c, e) /\ c \in C
    BY <2>1, <1>2 DEF SameChannel, CouldMean, Swapped
  <2>2. CASE SameChannel(c, e) /\ Opened(c, f)
    BY <2>2 DEF SameChannel, Opened, CouldMean
  <2>3. CASE GivenChannel(c, e, f)
    <3>1. r.time \in Int /\ f.time \in Int /\ r.time <= f.time
      BY DEF Follows
    <3>2. e.assignedAt = f.time
      BY <2>3 DEF GivenChannel
    <3>3. e \notin CouldMean(D, r)
      <4>1. ~(r.time - f.time \in 1..ReplyWindow)
        BY <3>1, WindowAssumption
      <4> QED BY <4>1, <3>2 DEF CouldMean
    <3>4. c.assignment = None
      BY <2>3 DEF GivenChannel, Relinked, Opened, Linked, Rests
    <3> QED BY <3>3, <3>4, <1>3
  <2> QED BY <2>1, <2>2, <2>3 DEF Relinked
<1>5. CouldMean(D, r) \subseteq (C \ {c}) \cup {e} /\ CouldMean(C, r) \subseteq C
  BY DEF CouldMean, Swapped
<1>6. \A d \in C \ {c} : d # e
  BY OthersDiffer
<1> HIDE DEF D
<1>7. ASSUME NEW d \in C \ {c}, CouldMean(C, r) = {d} PROVE CouldMean(D, r) = {d}
  BY <1>1, <1>4, <1>5, <1>7
<1>8. ASSUME c \in C, CouldMean(C, r) = {c} PROVE CouldMean(D, r) = {e}
  BY <1>1, <1>4, <1>5, <1>8
<1> QED BY <1>7, <1>8 DEF D

LEMMA RestsOn ==
  ASSUME NEW S, NEW f, NEW c, Rests(S, c)
  PROVE  Rests(S \cup {f}, c)
<1>1. Events(S) \subseteq Events(S \cup {f})
  BY DEF Events
<1> QED BY <1>1 DEF Rests

LEMMA RestsAnew ==
  ASSUME NEW S, NEW C, Linked(S, C), NEW f, Follows(S, f), NEW c, NEW e, Relinked(C, f, c, e)
  PROVE  Rests(S \cup {f}, e)
<1> DEFINE N == S \cup {f}
<1>1. Events(S) \subseteq Events(N) /\ f.event \in Events(N)
  BY DEF Events
<1>2. /\ IsCheck(e) /\ e.ref = c.ref /\ e.source = c.source /\ e.last = f.time
      /\ Roles(e) \subseteq Roles(c) \cup {f.event}
  BY DEF Relinked, Continued
<1>3. c.ref \in Events(N) /\ Roles(c) \subseteq Events(N)
  <2>1. CASE c \in C
    BY <2>1, <1>1 DEF Linked, Rests
  <2>2. CASE Opened(c, f)
    BY <2>2, <1>1 DEF Opened
  <2> QED BY <2>1, <2>2 DEF Relinked
<1>4. e.ref \in Events(N) /\ Roles(e) \subseteq Events(N)
  BY <1>1, <1>2, <1>3
<1>5. (c.channel = None <=> c.assignment = None) /\ (c \in C \/ c.assignment = None)
  BY DEF Relinked, Opened, Linked, Rests
<1>6. e.channel = None <=> e.assignment = None
  BY <1>5 DEF Relinked, SameChannel, GivenChannel, Follows
<1>7. ASSUME e.assignment # None
      PROVE  \E a \in N : /\ a.event = e.assignment /\ a.source = e.source
                          /\ a.channel = e.channel /\ a.time = e.assignedAt /\ a.time <= e.last
  <2>1. CASE SameChannel(c, e)
    <3>1. c \in C /\ c.assignment # None
      BY <1>5, <1>7, <2>1 DEF SameChannel
    <3>2. PICK a \in S : /\ a.event = c.assignment /\ a.source = c.source
                         /\ a.channel = c.channel /\ a.time = c.assignedAt
      BY <3>1 DEF Linked, Rests
    <3>3. a.time <= f.time
      BY DEF Follows
    <3> QED BY <3>2, <3>3, <2>1, <1>2 DEF SameChannel
  <2>2. CASE GivenChannel(c, e, f)
    <3>1. f.time <= f.time
      BY DEF Follows
    <3> QED BY <3>1, <2>2, <1>2 DEF GivenChannel
  <2> QED BY <2>1, <2>2 DEF Relinked
<1> HIDE DEF N
<1>8. f \in N
  BY DEF N
<1> QED BY <1>2, <1>4, <1>6, <1>7, <1>8 DEF Rests, N

LEMMA RelinkKeeps ==
  ASSUME NEW S, NEW C, Linked(S, C), NEW f, Follows(S, f), NEW c, NEW e, Relinked(C, f, c, e)
  PROVE  Linked(S \cup {f}, Swapped(C, c, e))
<1> DEFINE N == S \cup {f} D == Swapped(C, c, e)
<1>1. IsFiniteSet(D)
  <2>1. IsFiniteSet(C \ {c})
    BY FS_Subset DEF Linked
  <2> QED BY <2>1, FS_AddElement DEF Swapped
<1>2. ASSUME NEW d \in C \ {c} PROVE Rests(N, d) /\ Answers(N, D, d)
  <2>1. Rests(N, d)
    BY RestsOn DEF Linked
  <2>2. ASSUME d.acknowledgement # None
        PROVE  \E r \in N : r.event = d.acknowledgement /\ CouldMean(D, r) = {d}
    <3>1. PICK r \in S : r.event = d.acknowledgement /\ CouldMean(C, r) = {d}
      BY <2>2 DEF Linked, Answers
    <3>2. CouldMean(D, r) = {d}
      BY <3>1, MeantBefore
    <3> QED BY <3>1, <3>2
  <2> QED BY <2>1, <2>2 DEF Answers
<1>3. Rests(N, e)
  BY RestsAnew
<1>4. ASSUME e.acknowledgement # None
      PROVE  \E r \in N : r.event = e.acknowledgement /\ CouldMean(D, r) = {e}
  <2>1. CASE e.acknowledgement = f.event /\ CouldMean(D, f) = {e}
    BY <2>1
  <2>2. CASE e.acknowledgement = c.acknowledgement
    <3>1. c \in C
      BY <1>4, <2>2 DEF Relinked, Opened
    <3>2. PICK r \in S : r.event = c.acknowledgement /\ CouldMean(C, r) = {c}
      BY <3>1, <1>4, <2>2 DEF Linked, Answers
    <3>3. CouldMean(D, r) = {e}
      BY <3>1, <3>2, MeantBefore
    <3> QED BY <3>2, <3>3, <2>2
  <2> QED BY <2>1, <2>2 DEF Relinked
<1>5. Answers(N, D, e)
  BY <1>4 DEF Answers
<1>6. ASSUME NEW x \in D, NEW y \in D, x # y
      PROVE  x.ref # y.ref /\ Roles(x) \cap Roles(y) = {}
  <2>1. (x \in C \ {c} \/ x = e) /\ (y \in C \ {c} \/ y = e)
    BY DEF Swapped
  <2>2. CASE x = e \/ y = e
    BY <2>1, <2>2, <1>6, OthersDiffer
  <2>3. CASE x \in C \ {c} /\ y \in C \ {c}
    BY <2>3, <1>6 DEF Linked
  <2> QED BY <2>1, <2>2, <2>3
<1>7. \A x \in D : x \in C \ {c} \/ x = e
  BY DEF Swapped
<1> HIDE DEF N, D
<1>8. Linked(N, D)
  BY <1>1, <1>2, <1>3, <1>5, <1>6, <1>7 DEF Linked
<1> QED BY <1>8 DEF N, D

LEMMA LinkedOn ==
  ASSUME NEW S, NEW C, Linked(S, C), NEW f
  PROVE  Linked(S \cup {f}, C)
<1>1. \A c \in C : Rests(S \cup {f}, c)
  BY RestsOn DEF Linked
<1>2. \A c \in C : Answers(S \cup {f}, C, c)
  BY DEF Linked, Answers
<1> QED BY <1>1, <1>2 DEF Linked

-----------------------------------------------------------------------------
(* One fact is linked                                                      *)

LEMMA NewCheckIs ==
  ASSUME NEW S, NEW C, Linked(S, C), NEW f, Follows(S, f)
  PROVE  IsCheck(NewCheck(f)) /\ Opened(NewCheck(f), f) /\ NewCheck(f) \notin C
<1>1. IsCheck(NewCheck(f)) /\ Opened(NewCheck(f), f)
  BY DEF NewCheck, IsCheck, Opened, Roles
<1>2. \A c \in C : c.ref # f.event
  BY DEF Linked, Rests, Follows
<1> QED BY <1>1, <1>2 DEF Opened

(* A check as a fact leaves it: extended, assigned, replied to.             *)
ExtendedBy(c, f, e) ==
  /\ IsCheck(e) /\ e.ref = c.ref /\ e.source = c.source /\ e.team = c.team
  /\ e.request = c.request /\ e.channel = c.channel
  /\ e.assignment = c.assignment /\ e.assignedAt = c.assignedAt
  /\ e.acknowledgement = c.acknowledgement
  /\ e.evidence = c.evidence \cup f.cites /\ e.last = f.time

LEMMA ExtendIs ==
  ASSUME NEW c, IsCheck(c), NEW f
  PROVE  ExtendedBy(c, f, Extend(c, f))
<1> PICK e : e = Extend(c, f)
  OBVIOUS
<1>1. PICK x : x = c.evidence \cup f.cites
  OBVIOUS
<1>2. PICK t : t = f.time
  OBVIOUS
<1>3. e = [c EXCEPT !.last = t, !.evidence = x]
  BY <1>1, <1>2 DEF Extend
<1>4. /\ IsCheck(e) /\ e.ref = c.ref /\ e.source = c.source /\ e.team = c.team
      /\ e.request = c.request /\ e.channel = c.channel
      /\ e.assignment = c.assignment /\ e.assignedAt = c.assignedAt
      /\ e.acknowledgement = c.acknowledgement /\ e.evidence = x /\ e.last = t
  BY ONLY <1>3, IsCheck(c) DEF IsCheck
<1> QED BY <1>1, <1>2, <1>4 DEF ExtendedBy

AssignedBy(c, f, e) ==
  /\ IsCheck(e) /\ e.ref = c.ref /\ e.source = c.source /\ e.team = c.team
  /\ e.request = c.request /\ e.channel = f.channel
  /\ e.assignment = f.event /\ e.assignedAt = f.time
  /\ e.acknowledgement = c.acknowledgement
  /\ e.evidence = c.evidence \cup f.cites /\ e.last = f.time

LEMMA AssignedIs ==
  ASSUME NEW c, IsCheck(c), NEW f
  PROVE  AssignedBy(c, f, Assigned(c, f))
<1> PICK e : e = Assigned(c, f)
  OBVIOUS
<1>1. PICK d : d = Extend(c, f)
  OBVIOUS
<1>2. /\ IsCheck(d) /\ d.ref = c.ref /\ d.source = c.source /\ d.team = c.team
      /\ d.request = c.request /\ d.acknowledgement = c.acknowledgement
      /\ d.evidence = c.evidence \cup f.cites /\ d.last = f.time
  <2>1. ExtendedBy(c, f, d)
    BY <1>1, ExtendIs
  <2> QED BY ONLY <2>1 DEF ExtendedBy
<1>3. PICK h, n, t : h = f.channel /\ n = f.event /\ t = f.time
  OBVIOUS
<1>4. e = [d EXCEPT !.channel = h, !.assignment = n, !.assignedAt = t]
  BY <1>1, <1>3 DEF Assigned
<1>5. /\ IsCheck(e) /\ e.ref = d.ref /\ e.source = d.source /\ e.team = d.team
      /\ e.request = d.request /\ e.channel = h /\ e.assignment = n /\ e.assignedAt = t
      /\ e.acknowledgement = d.acknowledgement /\ e.evidence = d.evidence /\ e.last = d.last
  <2>1. IsCheck(d)
    BY <1>2
  <2> QED BY ONLY <1>4, <2>1 DEF IsCheck
<1> QED BY <1>2, <1>3, <1>5 DEF AssignedBy

AcknowledgedBy(c, f, e) ==
  /\ IsCheck(e) /\ e.ref = c.ref /\ e.source = c.source /\ e.team = c.team
  /\ e.request = c.request /\ e.channel = c.channel
  /\ e.assignment = c.assignment /\ e.assignedAt = c.assignedAt
  /\ e.acknowledgement = f.event
  /\ e.evidence = c.evidence \cup f.cites /\ e.last = f.time

LEMMA AcknowledgedIs ==
  ASSUME NEW c, IsCheck(c), NEW f
  PROVE  AcknowledgedBy(c, f, Acknowledged(c, f))
<1> PICK e : e = Acknowledged(c, f)
  OBVIOUS
<1>1. PICK d : d = Extend(c, f)
  OBVIOUS
<1>2. /\ IsCheck(d) /\ d.ref = c.ref /\ d.source = c.source /\ d.team = c.team
      /\ d.request = c.request /\ d.channel = c.channel
      /\ d.assignment = c.assignment /\ d.assignedAt = c.assignedAt
      /\ d.evidence = c.evidence \cup f.cites /\ d.last = f.time
  <2>1. ExtendedBy(c, f, d)
    BY <1>1, ExtendIs
  <2> QED BY ONLY <2>1 DEF ExtendedBy
<1>3. PICK n : n = f.event
  OBVIOUS
<1>4. e = [d EXCEPT !.acknowledgement = n]
  BY <1>1, <1>3 DEF Acknowledged
<1>5. /\ IsCheck(e) /\ e.ref = d.ref /\ e.source = d.source /\ e.team = d.team
      /\ e.request = d.request /\ e.channel = d.channel
      /\ e.assignment = d.assignment /\ e.assignedAt = d.assignedAt
      /\ e.acknowledgement = n /\ e.evidence = d.evidence /\ e.last = d.last
  <2>1. IsCheck(d)
    BY <1>2
  <2> QED BY ONLY <1>4, <2>1 DEF IsCheck
<1> QED BY <1>2, <1>3, <1>5 DEF AcknowledgedBy

(* What a link leaves every check: its name, its request and its channel.  *)
Kept(c, d) ==
  /\ d.ref = c.ref /\ d.request = c.request /\ c.evidence \subseteq d.evidence
  /\ c.channel # None => d.channel = c.channel /\ d.assignment = c.assignment
Extended(C, D) == \A c \in C : \E d \in D : Kept(c, d)

LEMMA KeptSelf == ASSUME NEW c PROVE Kept(c, c)
BY DEF Kept

LEMMA SwapExtends ==
  ASSUME NEW C, NEW c, NEW e, c \in C => Kept(c, e)
  PROVE  Extended(C, Swapped(C, c, e))
<1> SUFFICES ASSUME NEW d \in C PROVE \E x \in Swapped(C, c, e) : Kept(d, x)
  BY DEF Extended
<1>1. CASE d = c
  BY <1>1 DEF Swapped
<1>2. CASE d # c
  BY <1>2, KeptSelf DEF Swapped
<1> QED BY <1>1, <1>2

(* The links of f extend the checks and hang together.                     *)
Good(S, C, f, D) == Linked(S \cup {f}, D) /\ Extended(C, D)

LEMMA NoLink ==
  ASSUME NEW S, NEW C, Linked(S, C), NEW f
  PROVE  Good(S, C, f, C)
BY LinkedOn, KeptSelf DEF Good, Extended

LEMMA OneOf ==
  ASSUME NEW C, IsFiniteSet(C), NEW P \in SUBSET C, Cardinality(P) = 1
  PROVE  \E c \in P : P = {c}
BY FS_Subset, FS_Singleton

LEMMA LinkRequestGood ==
  ASSUME NEW S, NEW C, Linked(S, C), NEW f, Follows(S, f)
  PROVE  Good(S, C, f, LinkRequest(C, f))
<1> DEFINE P == IF f.team = None THEN {} ELSE Pending(C, f)
           c == IF Cardinality(P) = 1 THEN CHOOSE x \in P : TRUE ELSE NewCheck(f)
           e == Requested(c, f)
<1>1. LinkRequest(C, f) = Swapped(C, c, e)
  BY DEF LinkRequest, Swapped
<1>2. P \subseteq C /\ IsFiniteSet(C)
  BY DEF Pending, Candidates, Linked
<1>3. c \in C \/ c = NewCheck(f)
  <2> HIDE DEF P
  <2> QED BY <1>2, OneOf
<1> HIDE DEF P, c, e
<1>4. IsCheck(c) /\ (c \in C \/ (c \notin C /\ Opened(c, f)))
  BY <1>3, NewCheckIs DEF Linked, Rests
<1>5. /\ IsCheck(e) /\ e.ref = c.ref /\ e.source = c.source /\ e.team = c.team
      /\ e.request = c.request /\ e.channel = c.channel
      /\ e.assignment = c.assignment /\ e.assignedAt = c.assignedAt
      /\ e.acknowledgement = c.acknowledgement
      /\ e.evidence = c.evidence \cup f.cites /\ e.last = f.time
  <2>1. ExtendedBy(c, f, e)
    BY <1>4, ExtendIs DEF e, Requested
  <2> QED BY ONLY <2>1 DEF ExtendedBy
<1>6. Roles(e) \subseteq Roles(c)
  BY <1>5 DEF Roles
<1>7. Relinked(C, f, c, e)
  BY <1>4, <1>5, <1>6 DEF Relinked, Continued, SameChannel
<1>8. Kept(c, e)
  BY <1>5 DEF Kept
<1> QED BY <1>1, <1>7, <1>8, RelinkKeeps, SwapExtends DEF Good

LEMMA LinkAssignmentGood ==
  ASSUME NEW S, NEW C, Linked(S, C), NEW f, Follows(S, f), f.channel # None
  PROVE  Good(S, C, f, LinkAssignment(C, f))
<1> DEFINE P == Pending(C, f)
           c == IF Cardinality(P) = 1 THEN CHOOSE x \in P : TRUE ELSE NewCheck(f)
           e == Assigned(c, f)
<1>1. LinkAssignment(C, f) = C \/ LinkAssignment(C, f) = Swapped(C, c, e)
  BY DEF LinkAssignment, Swapped
<1>2. /\ P \subseteq C /\ IsFiniteSet(C)
      /\ \A x \in P : x.channel = None /\ x.source = f.source
  BY DEF Pending, Candidates, Linked
<1>3. (c \in C /\ c.channel = None /\ c.source = f.source) \/ c = NewCheck(f)
  <2> HIDE DEF P
  <2> QED BY <1>2, OneOf
<1> HIDE DEF P, c, e
<1>4. /\ IsCheck(c) /\ (c \in C \/ (c \notin C /\ Opened(c, f)))
      /\ c.channel = None /\ c.source = f.source
  BY <1>3, NewCheckIs DEF Linked, Rests, Opened
<1>5. /\ IsCheck(e) /\ e.ref = c.ref /\ e.source = c.source /\ e.team = c.team
      /\ e.request = c.request /\ e.channel = f.channel
      /\ e.assignment = f.event /\ e.assignedAt = f.time
      /\ e.acknowledgement = c.acknowledgement
      /\ e.evidence = c.evidence \cup f.cites /\ e.last = f.time
  <2>1. AssignedBy(c, f, e)
    BY <1>4, AssignedIs DEF e
  <2> QED BY ONLY <2>1 DEF AssignedBy
<1>6. Roles(e) \subseteq Roles(c) \cup {f.event}
  BY <1>5 DEF Roles
<1>7. Relinked(C, f, c, e)
  BY <1>4, <1>5, <1>6 DEF Relinked, Continued, GivenChannel
<1>8. Kept(c, e)
  BY <1>4, <1>5 DEF Kept
<1>9. Good(S, C, f, Swapped(C, c, e))
  BY <1>7, <1>8, RelinkKeeps, SwapExtends DEF Good
<1> QED BY <1>1, <1>9, NoLink

(* A check whose assignment the reply could mean is one of those it answers: *)
(* it was last heard of after its assignment, so within the link window.     *)
LEMMA MeantIsAnswered ==
  ASSUME NEW S, NEW C, Linked(S, C), NEW f, Follows(S, f)
  PROVE  CouldMean(C, f) = Answered(C, f)
<1>1. ASSUME NEW d \in CouldMean(C, f) PROVE d \in Answered(C, f)
  <2>1. /\ d \in C /\ d.assignment # None /\ d.source = f.source /\ d.channel = f.channel
        /\ f.time - d.assignedAt \in 1..ReplyWindow /\ f.team \in {None, d.team}
    BY DEF CouldMean
  <2>2. PICK a \in S : a.time = d.assignedAt /\ a.time <= d.last
    BY <2>1 DEF Linked, Rests
  <2>3. PICK g \in S : g.time = d.last
    BY <2>1 DEF Linked, Rests
  <2>4. f.time \in Int /\ a.time \in Int /\ g.time \in Int /\ g.time <= f.time
    BY DEF Follows
  <2>5. f.time - d.last \in 0..LinkWindow
    BY <2>1, <2>2, <2>3, <2>4, WindowAssumption
  <2> QED BY <2>1, <2>5 DEF Answered, Candidates
<1>2. ASSUME NEW d \in Answered(C, f) PROVE d \in CouldMean(C, f)
  BY DEF Answered, Candidates, CouldMean
<1> QED BY <1>1, <1>2

LEMMA LinkReplyGood ==
  ASSUME NEW S, NEW C, Linked(S, C), NEW f, Follows(S, f)
  PROVE  Good(S, C, f, LinkReply(C, f))
<1>1. CASE Cardinality(Answered(C, f)) # 1
  BY <1>1, NoLink DEF LinkReply
<1>2. CASE Cardinality(Answered(C, f)) = 1
  <2>1. Answered(C, f) \subseteq C /\ IsFiniteSet(C)
    BY DEF Answered, Candidates, Linked
  <2>2. PICK c \in C : Answered(C, f) = {c}
    BY <1>2, <2>1, OneOf
  <2>3. PICK e : e = Acknowledged(c, f)
    OBVIOUS
  <2>4. LinkReply(C, f) = Swapped(C, c, e)
    BY <1>2, <2>2, <2>3 DEF LinkReply, Swapped
  <2>5. IsCheck(c)
    BY DEF Linked, Rests
  <2>6. /\ IsCheck(e) /\ e.ref = c.ref /\ e.source = c.source /\ e.team = c.team
        /\ e.request = c.request /\ e.channel = c.channel
        /\ e.assignment = c.assignment /\ e.assignedAt = c.assignedAt
        /\ e.acknowledgement = f.event
        /\ e.evidence = c.evidence \cup f.cites /\ e.last = f.time
    <3>1. AcknowledgedBy(c, f, e)
      BY <2>3, <2>5, AcknowledgedIs
    <3> QED BY ONLY <3>1 DEF AcknowledgedBy
  <2>7. Roles(e) \subseteq Roles(c) \cup {f.event}
    BY <2>6 DEF Roles
  <2>8. CouldMean(C, f) = {c}
    BY <2>2, MeantIsAnswered
  <2>9. CouldMean(Swapped(C, c, e), f) = {e}
    <3>1. e \in CouldMean(Swapped(C, c, e), f)
      BY <2>6, <2>8 DEF CouldMean, Swapped
    <3>2. \A d \in C \ {c} : d \notin CouldMean(Swapped(C, c, e), f)
      BY <2>8 DEF CouldMean
    <3>3. CouldMean(Swapped(C, c, e), f) \subseteq (C \ {c}) \cup {e}
      BY DEF CouldMean, Swapped
    <3> QED BY <3>1, <3>2, <3>3
  <2>10. Relinked(C, f, c, e)
    BY <2>6, <2>7, <2>9 DEF Relinked, Continued, SameChannel
  <2>11. Kept(c, e)
    BY <2>6 DEF Kept
  <2> QED BY <2>4, <2>10, <2>11, RelinkKeeps, SwapExtends DEF Good
<1> QED BY <1>1, <1>2

LEMMA LinkGood ==
  ASSUME NEW S, NEW C, Linked(S, C), NEW f, Follows(S, f)
  PROVE  Good(S, C, f, Link(C, f))
<1>1. CASE f.action = "requested"
  BY <1>1, LinkRequestGood DEF Link
<1>2. CASE f.action = "assigned" /\ f.channel # None
  <2>1. Link(C, f) = LinkAssignment(C, f)
    BY <1>2 DEF Link
  <2> QED BY <1>2, <2>1, LinkAssignmentGood
<1>3. CASE f.action = "acknowledged" /\ f.channel # None
  <2>1. Link(C, f) = LinkReply(C, f)
    BY <1>3 DEF Link
  <2> QED BY <2>1, LinkReplyGood
<1>4. CASE ~(\/ f.action = "requested"
             \/ f.action = "assigned" /\ f.channel # None
             \/ f.action = "acknowledged" /\ f.channel # None)
  <2>1. Link(C, f) = C
    BY <1>4 DEF Link
  <2> QED BY <2>1, NoLink
<1> QED BY <1>1, <1>2, <1>3, <1>4

LEMMA FollowsIs ==
  ASSUME NEW S, FactsRight(S), NEW f \in S, \A g \in S \ {f} : Before(g, f)
  PROVE  Follows(S \ {f}, f)
<1>1. f.time \in Int /\ f.event \in Nat /\ f.event # None
  BY DEF FactsRight
<1>2. ASSUME NEW g \in S \ {f}
      PROVE  g.time \in Int /\ g.time <= f.time /\ g.event # f.event
  BY <1>1 DEF FactsRight, Distinct, Before
<1> QED BY <1>1, <1>2 DEF Follows, Events

(* Whatever the facts are, the checks rebuilt from them hang together.     *)
LEMMA RebuildLinked ==
  ASSUME NEW S, FactsRight(S)
  PROVE  Linked(S, Rebuild(S))
<1> DEFINE B == {T \in SUBSET S : ~Linked(T, Rebuild(T))}
<1> SUFFICES ASSUME B # {} PROVE FALSE
  OBVIOUS
<1>1. PICK T \in B : \A U \in B : Cardinality(T) <= Cardinality(U)
  BY SmallestIs DEF FactsRight
<1>2. FactsRight(T) /\ IsFiniteSet(T)
  BY <1>1, FS_Subset DEF FactsRight, Distinct
<1>3. T # {}
  <2>1. Linked({}, {})
    BY FS_EmptySet DEF Linked
  <2> QED BY <1>1, <2>1, RebuildNone
<1>4. PICK f : f = Latest(T)
  OBVIOUS
<1>5. f \in T /\ \A g \in T \ {f} : Before(g, f)
  BY <1>1, <1>3, <1>4, LatestIs DEF IsLatest
<1>6. T \ {f} \notin B
  BY <1>1, <1>2, <1>5, SmallerIs
<1>7. Linked(T \ {f}, Rebuild(T \ {f}))
  BY <1>1, <1>6
<1>8. Follows(T \ {f}, f)
  BY <1>2, <1>5, FollowsIs
<1>9. Linked((T \ {f}) \cup {f}, Link(Rebuild(T \ {f}), f))
  BY <1>7, <1>8, LinkGood DEF Good
<1>10. (T \ {f}) \cup {f} = T /\ Rebuild(T) = Link(Rebuild(T \ {f}), f)
  BY <1>2, <1>3, <1>4, <1>5, RebuildStep
<1> QED BY <1>1, <1>9, <1>10

(* channels.rebuild: "delayed delivery has the same result as replay".  A  *)
(* fact that comes last is linked to what there was.                       *)
LEMMA RebuildNext ==
  ASSUME NEW S, NEW f, FactsRight(S \cup {f}), f \notin S, \A g \in S : Before(g, f)
  PROVE  Rebuild(S \cup {f}) = Link(Rebuild(S), f) /\ Extended(Rebuild(S), Rebuild(S \cup {f}))
<1> DEFINE N == S \cup {f}
<1>1. N \ {f} = S /\ f \in N /\ N # {}
  OBVIOUS
<1>2. \A g \in N \ {f} : Before(g, f)
  OBVIOUS
<1> HIDE DEF N
<1>3. Latest(N) = f
  BY <1>1, <1>2, LatestIsOne DEF N
<1>4. FactsRight(N) /\ FactsRight(S)
  <2>1. S \in SUBSET N
    BY <1>1
  <2> QED BY <2>1, FS_Subset DEF FactsRight, Distinct, N
<1>5. Rebuild(N) = Link(Rebuild(S), f)
  BY <1>1, <1>3, <1>4, RebuildStep
<1>6. Linked(S, Rebuild(S)) /\ Follows(S, f)
  BY <1>1, <1>2, <1>4, RebuildLinked, FollowsIs
<1> QED BY <1>5, <1>6, LinkGood DEF Good, N

-----------------------------------------------------------------------------
(* The facts the workers record                                            *)

FactsInv ==
  /\ IsFiniteSet(facts) /\ Distinct(facts)
  /\ \A f \in facts : f.event \in read /\ f.time = TimeOf[f.event]
  /\ read \subseteq Event
  /\ checks = Rebuild(facts)

LEMMA EventIs ==
  ASSUME NEW e \in Event
  PROVE  e \in Nat /\ TimeOf[e] \in Int /\ e # None
<1>1. Event \subseteq Nat /\ None \notin Event
  BY CardsAssumption
<1>2. TimeOf[e] \in 0..MaxTime /\ MaxTime \in Nat
  BY CardsAssumption DEF Time
<1> QED BY <1>1, <1>2

LEMMA FactsAreRight == ASSUME FactsInv PROVE FactsRight(facts)
<1>1. ASSUME NEW f \in facts PROVE f.event \in Nat /\ f.time \in Int /\ f.event # None
  <2>1. f.event \in Event /\ f.time = TimeOf[f.event]
    BY DEF FactsInv
  <2> QED BY <2>1, EventIs
<1> QED BY <1>1 DEF FactsInv, FactsRight

(* Nothing but the record of a new event changes the facts. *)
Recorded(f) ==
  /\ f.event \in Event \ read /\ f.time = TimeOf[f.event]
  /\ read' = read \cup {f.event}
  /\ facts' = facts \cup {f} /\ checks' = Rebuild(facts')
Unheard == UNCHANGED <<facts, checks>> /\ read \subseteq read' /\ read' \subseteq read \cup Event

LEMMA FinishRecords ==
  ASSUME NEW e \in Event, Finish(e)
  PROVE  Unheard \/ \E f : Recorded(f)
<1>1. e \notin read /\ read' = read \cup {e}
  BY DEF Finish
<1>2. PICK x \in Readings[e] : IF x.action = "reported" THEN Report(e, x) ELSE Record(e, x)
  BY DEF Finish
<1>3. CASE Report(e, x)
  BY <1>1, <1>3 DEF Report, Unheard
<1>4. CASE Record(e, x)
  <2>1. PICK f : f = [event |-> e, time |-> TimeOf[e], source |-> SourceOf[e],
                      action |-> x.action, team |-> x.team, channel |-> x.channel,
                      cites |-> x.cites]
    OBVIOUS
  <2>2. f.event = e /\ f.time = TimeOf[e]
    BY <2>1
  <2>3. facts' = facts \cup {f} /\ checks' = Rebuild(facts')
    BY <1>4, <2>1 DEF Record
  <2> QED BY <1>1, <2>2, <2>3 DEF Recorded
<1> QED BY <1>2, <1>3, <1>4

LEMMA StepRecords ==
  ASSUME [Next]_vars
  PROVE  Unheard \/ \E f : Recorded(f)
<1>1. ASSUME NEW e \in Event, Finish(e) PROVE Unheard \/ \E f : Recorded(f)
  BY <1>1, FinishRecords
<1>2. CASE Tick \/ Poll \/ Answer \/ Receive
  BY <1>2 DEF Tick, Poll, Answer, Receive, store, Unheard
<1>3. CASE RequestFails \/ StreamBreaks \/ OpenStream \/ AskAgain
  BY <1>3 DEF RequestFails, StreamBreaks, OpenStream, AskAgain, store, Unheard
<1>4. CASE UNCHANGED vars
  BY <1>4 DEF vars, store, Unheard
<1> QED BY <1>1, <1>2, <1>3, <1>4 DEF Next

LEMMA FactsInit == Init => FactsInv
BY RebuildNone, FS_EmptySet DEF Init, FactsInv, Distinct

LEMMA FactsNext == FactsInv /\ [Next]_vars => FactsInv'
<1> SUFFICES ASSUME FactsInv, [Next]_vars PROVE FactsInv'
  OBVIOUS
<1>1. CASE Unheard
  BY <1>1 DEF Unheard, FactsInv, Distinct
<1>2. ASSUME NEW f, Recorded(f) PROVE FactsInv'
  <2>1. f.event \in Event \ read /\ f.time = TimeOf[f.event]
        /\ read' = read \cup {f.event} /\ facts' = facts \cup {f} /\ checks' = Rebuild(facts')
    BY <1>2 DEF Recorded
  <2>2. IsFiniteSet(facts')
    BY <2>1, FS_AddElement DEF FactsInv
  <2>3. Distinct(facts')
    BY <2>1 DEF FactsInv, Distinct
  <2>4. \A g \in facts' : g.event \in read' /\ g.time = TimeOf[g.event]
    BY <2>1 DEF FactsInv
  <2> QED BY <2>1, <2>2, <2>3, <2>4 DEF FactsInv, Distinct
<1> QED BY <1>1, <1>2, StepRecords

(* channels.rebuild: nothing plays a part in two checks, and a reply is     *)
(* linked to the only assignment it can mean, whatever the models extract   *)
(* and in whatever order workers finish.                                    *)
THEOREM RepliesSupportOneExchange == Spec => []SupportedByExchange
<1>1. ASSUME FactsInv PROVE SupportedByExchange
  <2>1. FactsRight(facts) /\ Linked(facts, checks)
    BY <1>1, FactsAreRight, RebuildLinked DEF FactsInv
  <2>2. \A f \in facts : Fact(f.event) = f
    BY <2>1 DEF Fact, FactsRight, Distinct
  <2>3. ASSUME NEW c \in checks, c.acknowledgement # None
        PROVE  LET reply == Fact(c.acknowledgement)
                   couldMean == {d \in checks :
                     /\ d.assignment # None
                     /\ LET a == Fact(d.assignment)
                        IN /\ a.source = reply.source /\ a.channel = reply.channel
                           /\ reply.time - a.time \in 1..ReplyWindow
                     /\ reply.team \in {None, d.team}}
               IN couldMean = {c}
    <3>1. PICK r \in facts : r.event = c.acknowledgement /\ CouldMean(checks, r) = {c}
      BY <2>1, <2>3 DEF Linked, Answers
    <3>2. Fact(c.acknowledgement) = r
      BY <2>2, <3>1
    <3>3. ASSUME NEW d \in checks, d.assignment # None
          PROVE  LET a == Fact(d.assignment)
                 IN  a.source = d.source /\ a.channel = d.channel /\ a.time = d.assignedAt
      <4>1. PICK a \in facts : /\ a.event = d.assignment /\ a.source = d.source
                               /\ a.channel = d.channel /\ a.time = d.assignedAt
        BY <2>1, <3>3 DEF Linked, Rests
      <4> QED BY <4>1, <2>2
    <3> DEFINE M == {d \in checks :
                     /\ d.assignment # None
                     /\ LET a == Fact(d.assignment)
                        IN /\ a.source = r.source /\ a.channel = r.channel
                           /\ r.time - a.time \in 1..ReplyWindow
                     /\ r.team \in {None, d.team}}
    <3>4. M = CouldMean(checks, r)
      BY <3>3 DEF CouldMean
    <3> HIDE DEF M
    <3>5. M = {c}
      BY <3>1, <3>4
    <3> QED BY <3>2, <3>5 DEF M
  <2>4. \A c, d \in checks : c # d => Roles(c) \cap Roles(d) = {}
    BY <2>1 DEF Linked
  <2> QED BY <2>3, <2>4 DEF SupportedByExchange
<1> QED BY FactsInit, FactsNext, <1>1, PTL DEF Spec

(* channels.rebuild: "delayed delivery has the same result as replay".  The *)
(* checks are those of the facts in their order, and a fact that is the     *)
(* latest tears none of them apart.                                         *)
THEOREM InOrderNothingIsTorn == Spec => InOrderExtends
<1> DEFINE A == \A f \in facts' \ facts :
       (\A g \in facts : Before(g, f)) =>
         \A c \in checks : \E d \in checks' :
           /\ d.ref = c.ref /\ d.request = c.request /\ c.evidence \subseteq d.evidence
           /\ c.channel # None => d.channel = c.channel /\ d.assignment = c.assignment
<1>1. ASSUME FactsInv, FactsInv', [Next]_vars PROVE A
  <2>1. CASE Unheard
    BY <2>1 DEF Unheard
  <2>2. ASSUME NEW h, Recorded(h) PROVE A
    <3> SUFFICES ASSUME NEW f \in facts' \ facts, \A g \in facts : Before(g, f)
                 PROVE  Extended(checks, checks')
      BY DEF Extended, Kept
    <3>1. facts' = facts \cup {f} /\ f \notin facts
      BY <2>2 DEF Recorded
    <3>2. FactsRight(facts')
      <4>1. ASSUME NEW g \in facts' PROVE g.event \in Nat /\ g.time \in Int /\ g.event # None
        <5>1. g.event \in Event /\ g.time = TimeOf[g.event]
          BY <1>1 DEF FactsInv
        <5> QED BY <5>1, EventIs
      <4> QED BY <4>1, <1>1 DEF FactsInv, FactsRight, Distinct
    <3>3. checks = Rebuild(facts) /\ checks' = Rebuild(facts')
      BY <1>1 DEF FactsInv
    <3> QED BY <3>1, <3>2, <3>3, RebuildNext
  <2> QED BY <1>1, <2>1, <2>2, StepRecords
<1>2. FactsInv /\ FactsInv' /\ [Next]_vars => [A]_vars
  BY <1>1
<1> HIDE DEF A
<1>3. Spec => []FactsInv /\ [][Next]_vars
  BY FactsInit, FactsNext, PTL DEF Spec
<1>4. Spec => [][A]_vars
  BY <1>2, <1>3, PTL
<1> QED BY <1>4 DEF A, InOrderExtends
=============================================================================
