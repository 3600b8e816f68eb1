-------------------------- MODULE UIQuestionsProofs -------------------------
(***************************************************************************)
(* UIQuestions, for any events, keys, workers, engine answers and bounds:  *)
(* its safety properties, and that it implements the question desk.        *)
(***************************************************************************)
EXTENDS UIQuestions, FiniteSetTheorems, TLAPS

Question == [status : {"absent"} \cup Unfinished \cup Terminal, revision : Nat,
             asOf : Time, searched : BOOLEAN, evidence : SUBSET Event, row : Nat,
             claims : Nat, token : Nat, leased : BOOLEAN]
Outcome == {"ready", "insufficient_data", "error"}
Claim == [gen : Gen, key : Key \cup {NoKey}, token : Nat, events : SUBSET Event,
          status : Outcome, evidence : SUBSET Event]

TypeOK ==
  /\ generation \in Gen /\ clock \in Time
  /\ stored \in [Gen -> SUBSET Event]
  /\ questions \in [Gen -> [Key -> Question]]
  /\ revision \in [Gen -> Nat]
  /\ held \in [Worker -> Claim]
  /\ phase \in [Worker -> {"idle", "claimed", "retrieved", "asking", "answered"}]

(* Only finitely many questions were asked, so a count of them is one.     *)
RowsFinite == \A g \in Gen : IsFiniteSet(Rows(g))

(* A question that was not asked is blank, and none was asked of a         *)
(* generation that has not begun.                                          *)
NotAsked ==
  /\ \A g \in Gen, k \in Key : questions[g][k].status = "absent" =>
       questions[g][k] = NoQuestion
  /\ \A g \in Gen : g > generation => Rows(g) = {}

(* What a worker holds: a question that was asked, events its answer may   *)
(* rest on, and at the end an answer that rests on them.                   *)
Holds(w) ==
  /\ held[w].gen <= generation /\ held[w].key \in Key
  /\ HeldQuestion(w).status # "absent"
  /\ held[w].events \subseteq Eligible(w)
  /\ phase[w] = "asking" \/ (phase[w] = "answered" /\ held[w].status # "error") =>
       HeldQuestion(w).searched
  /\ phase[w] = "answered" =>
       /\ held[w].evidence \subseteq held[w].events \ NoReading
       /\ held[w].status = "ready" <=> held[w].evidence # {}

WorkersHold == \A w \in Worker : phase[w] # "idle" => Holds(w)

Inv == TypeOK /\ RowsFinite /\ NotAsked /\ AnswersGrounded /\ WorkersHold

-----------------------------------------------------------------------------
(* What happens to one question                                            *)

(* AnswersGrounded, of one question among the events stored.               *)
Grounded(q, events) ==
  /\ q.status \in {"ready", "insufficient_data"} => q.searched
  /\ \A e \in q.evidence : e \in events \ NoReading /\ TimeOf[e] <= q.asOf
  /\ q.status = "ready" <=> q.evidence # {}

(* What is never taken back from a question that was asked.                *)
Continues(q, r) ==
  q.status # "absent" => /\ r.status # "absent" /\ r.asOf = q.asOf
                         /\ q.searched => r.searched

(* A reader sees every change by its revision.                             *)
Tells(q, r) ==
  /\ r.revision >= q.revision
  /\ Visible(r) # Visible(q) => q.status = "absent" \/ r.revision > q.revision

Asked(n) == [NoQuestion EXCEPT !.status = "queued", !.asOf = clock, !.row = n]

LEMMA AskedIs ==
  ASSUME NEW n \in Nat, clock \in Time
  PROVE  /\ Asked(n) \in Question /\ Asked(n).status = "queued"
         /\ Asked(n).asOf = clock /\ Asked(n).evidence = {}
         /\ Asked(n).revision = 0
BY DEF Asked, NoQuestion, Question, Unfinished

LEMMA CancelledIs ==
  ASSUME NEW q \in Question
  PROVE  /\ Cancelled(q) \in Question /\ Cancelled(q).status = "cancelled"
         /\ Cancelled(q).revision = q.revision + 1
         /\ Cancelled(q).asOf = q.asOf /\ Cancelled(q).evidence = q.evidence
         /\ Cancelled(q).searched = q.searched
<1> DEFINE n == q.revision + 1
           x == [q EXCEPT !.status = "cancelled", !.revision = n, !.token = 0,
                          !.leased = FALSE]
<1>1. n \in Nat
    BY DEF Question
<1>2. Cancelled(q) = x
    BY DEF Cancelled
<1> HIDE DEF n
<1>3. x \in Question
    BY <1>1 DEF Question, Terminal
<1>4. /\ x.status = "cancelled" /\ x.revision = n
      /\ x.asOf = q.asOf /\ x.evidence = q.evidence /\ x.searched = q.searched
    BY DEF Question
<1> QED
    BY <1>2, <1>3, <1>4 DEF n

LEMMA ClaimedIs ==
  ASSUME NEW q \in Question
  PROVE  /\ Claimed(q) \in Question /\ Claimed(q).status = "running"
         /\ Claimed(q).revision = q.revision + 1
         /\ Claimed(q).asOf = q.asOf /\ Claimed(q).evidence = q.evidence
         /\ Claimed(q).searched = q.searched
<1> DEFINE n == q.revision + 1
           c == q.claims + 1
           x == [q EXCEPT !.status = "running", !.revision = n, !.claims = c,
                          !.token = c, !.leased = TRUE]
<1>1. n \in Nat /\ c \in Nat
    BY DEF Question
<1>2. Claimed(q) = x
    BY DEF Claimed
<1> HIDE DEF n, c
<1>3. x \in Question
    BY <1>1 DEF Question, Unfinished
<1>4. /\ x.status = "running" /\ x.revision = n
      /\ x.asOf = q.asOf /\ x.evidence = q.evidence /\ x.searched = q.searched
    BY DEF Question
<1> QED
    BY <1>2, <1>3, <1>4 DEF n

LEMMA ShownIs ==
  ASSUME NEW q \in Question
  PROVE  /\ Shown(q) \in Question /\ Shown(q).status = q.status
         /\ Shown(q).revision = q.revision + 1
         /\ Shown(q).asOf = q.asOf /\ Shown(q).evidence = q.evidence
         /\ Shown(q).searched = TRUE
<1> DEFINE n == q.revision + 1
           x == [q EXCEPT !.searched = TRUE, !.revision = n]
<1>1. n \in Nat
    BY DEF Question
<1>2. Shown(q) = x
    BY DEF Shown
<1> HIDE DEF n
<1>3. x \in Question
    BY <1>1 DEF Question
<1>4. /\ x.status = q.status /\ x.revision = n
      /\ x.asOf = q.asOf /\ x.evidence = q.evidence /\ x.searched = TRUE
    BY DEF Question
<1> QED
    BY <1>2, <1>3, <1>4 DEF n

LEMMA SavedIs ==
  ASSUME NEW w \in Worker, NEW q \in Question, held[w] \in Claim
  PROVE  LET s == Saved(w, q)
             now == held[w].gen = generation
         IN  /\ s \in Question /\ s.asOf = q.asOf /\ s.searched = q.searched
             /\ s.revision = q.revision + 1
             /\ s.status = IF now THEN held[w].status ELSE "cancelled"
             /\ s.evidence = IF now THEN held[w].evidence ELSE {}
             /\ s.status \in Terminal
<1>1. held[w].status \in Outcome /\ held[w].evidence \in SUBSET Event
    BY DEF Claim
<1> DEFINE st == IF held[w].gen = generation THEN held[w].status ELSE "cancelled"
           ev == IF held[w].gen = generation THEN held[w].evidence ELSE {}
           n == q.revision + 1
           x == [q EXCEPT !.status = st, !.evidence = ev, !.revision = n,
                          !.token = 0, !.leased = FALSE]
<1>2. st \in Terminal /\ ev \in SUBSET Event
    BY <1>1 DEF Outcome, Terminal
<1>3. n \in Nat
    BY DEF Question
<1>4. Saved(w, q) = x
    BY DEF Saved
<1> HIDE DEF st, ev, n
<1>5. x \in Question
    BY <1>2, <1>3 DEF Question
<1>6. /\ x.status = st /\ x.evidence = ev /\ x.revision = n
      /\ x.asOf = q.asOf /\ x.searched = q.searched
    BY DEF Question
<1> HIDE DEF x
<1> QED
    BY <1>2, <1>4, <1>5, <1>6 DEF st, ev, n

LEMMA ExpiredIs ==
  ASSUME NEW q \in Question
  PROVE  LET x == [q EXCEPT !.leased = FALSE]
         IN  /\ x \in Question /\ x.status = q.status /\ x.revision = q.revision
             /\ x.asOf = q.asOf /\ x.evidence = q.evidence /\ x.searched = q.searched
BY DEF Question

LEMMA GroundedView ==
  AnswersGrounded <=> \A g \in Gen, k \in Key : Grounded(questions[g][k], stored[g])
BY DEF AnswersGrounded, Grounded

(* A question changes at one key of one generation.                        *)
OnlyAt(g, k) == \A h \in Gen, j \in Key :
  h # g \/ j # k => questions'[h][j] = questions[h][j]

LEMMA OneChange ==
  ASSUME TypeOK, NEW g \in Gen, NEW k \in Key, NEW q \in Question,
         questions' = [questions EXCEPT ![g][k] = q]
  PROVE  /\ questions' \in [Gen -> [Key -> Question]]
         /\ questions'[g][k] = q /\ OnlyAt(g, k)
<1>1. questions \in [Gen -> [Key -> Question]]
    BY DEF TypeOK
<1> QED
    BY <1>1 DEF OnlyAt

LEMMA OneRevision ==
  ASSUME TypeOK, NEW g \in Gen, revision' = [revision EXCEPT ![g] = @ + 1]
  PROVE  /\ revision' \in [Gen -> Nat] /\ revision'[g] = revision[g] + 1
         /\ \A h \in Gen : revision'[h] >= revision[h]
BY DEF TypeOK

(* What a step may do to one question. *)
QuestionStep(g, k) ==
  LET q == questions[g][k]
      r == questions'[g][k]
  IN  /\ Continues(q, r) /\ Tells(q, r) /\ Grounded(r, stored[g])
      /\ Visible(r) # Visible(q) => revision'[g] > revision[g]
      /\ q.status = "absent" => r = q \/ (g = generation /\ r.status = "queued")

LEMMA QuestionType ==
  ASSUME TypeOK, NEW g \in Gen, NEW k \in Key
  PROVE  /\ questions[g][k] \in Question
         /\ questions[g][k].revision \in Nat
         /\ questions[g][k].status \in {"absent"} \cup Unfinished \cup Terminal
         /\ questions[g][k].evidence \subseteq Event
         /\ questions[g][k].asOf \in Time
<1>1. questions[g][k] \in Question
    BY DEF TypeOK
<1> QED
    BY <1>1 DEF Question

(* Nothing is claimed before the end. *)
LEMMA UnfinishedClaimsNothing ==
  ASSUME Inv, NEW g \in Gen, NEW k \in Key, questions[g][k].status \in Unfinished
  PROVE  questions[g][k].evidence = {} /\ questions[g][k].status # "absent"
BY DEF Inv, AnswersGrounded, Unfinished

LEMMA UnchangedStep ==
  ASSUME Inv, NEW g \in Gen, NEW k \in Key, questions'[g][k] = questions[g][k]
  PROVE  QuestionStep(g, k)
<1>1. Grounded(questions[g][k], stored[g])
    BY GroundedView DEF Inv
<1> QED
    BY <1>1, QuestionType DEF Inv, QuestionStep, Continues, Tells

LEMMA AskedStep ==
  ASSUME Inv, NEW k \in Key, NEW n \in Nat, questions[generation][k].status = "absent",
         questions'[generation][k] = Asked(n),
         revision'[generation] = revision[generation] + 1
  PROVE  QuestionStep(generation, k)
<1>1. generation \in Gen /\ clock \in Time /\ revision[generation] \in Nat
    BY DEF Inv, TypeOK
<1>2. questions[generation][k] = NoQuestion
    BY <1>1 DEF Inv, NotAsked
<1>3. /\ Asked(n).status = "queued" /\ Asked(n).evidence = {}
      /\ Asked(n).revision = 0
    BY <1>1, AskedIs
<1>4. questions[generation][k].revision = 0
    BY <1>2 DEF NoQuestion
<1> QED
    BY <1>1, <1>3, <1>4 DEF QuestionStep, Continues, Tells, Grounded

(* A question whose visible part stays, or that is withdrawn, with its own *)
(* and its context's revision raised.                                      *)
LEMMA UnfinishedStep ==
  ASSUME Inv, NEW g \in Gen, NEW k \in Key, questions[g][k].status \in Unfinished,
         LET q == questions[g][k]
             r == questions'[g][k]
         IN  /\ r.status \in Unfinished \cup {"cancelled"}
             /\ r.asOf = q.asOf /\ r.evidence = q.evidence
             /\ q.searched => r.searched
             /\ \/ r.revision = q.revision + 1 /\ revision'[g] > revision[g]
                \/ r.revision = q.revision /\ r.status = q.status /\ r.searched = q.searched
  PROVE  QuestionStep(g, k)
<1> DEFINE q == questions[g][k]
           r == questions'[g][k]
<1>1. q.evidence = {} /\ q.status # "absent" /\ q.revision \in Nat
    BY UnfinishedClaimsNothing, QuestionType DEF Inv
<1>2. Continues(q, r)
    BY DEF Continues, Unfinished
<1>3. Grounded(r, stored[g])
    BY <1>1 DEF Grounded, Unfinished
<1>4. Tells(q, r) /\ (Visible(r) # Visible(q) => revision'[g] > revision[g])
  <2>1. CASE r.revision = q.revision + 1 /\ revision'[g] > revision[g]
      BY <1>1, <2>1 DEF Tells
  <2>2. CASE r.revision = q.revision /\ r.status = q.status /\ r.searched = q.searched
    <3>1. Visible(r) = Visible(q)
        BY <2>2 DEF Visible
    <3> QED
        BY <1>1, <2>2, <3>1 DEF Tells
  <2> QED
      BY <2>1, <2>2
<1> QED
    BY <1>1, <1>2, <1>3, <1>4 DEF QuestionStep

LEMMA EligibleKnown ==
  ASSUME TypeOK, NEW w \in Worker, held[w].key \in Key
  PROVE  /\ held[w].gen \in Gen /\ HeldQuestion(w) \in Question
         /\ \A e \in Eligible(w) : /\ e \in stored[held[w].gen]
                                   /\ TimeOf[e] <= HeldQuestion(w).asOf
<1>1. held[w].gen \in Gen
    BY DEF TypeOK, Claim
<1> QED
    BY <1>1, QuestionType DEF HeldQuestion, Eligible

(* An answer is saved over a running question with what its worker holds.  *)
LEMMA SavedStep ==
  ASSUME Inv, NEW w \in Worker, phase[w] = "answered", HeldQuestion(w).status = "running",
         questions'[held[w].gen][held[w].key] = Saved(w, HeldQuestion(w)),
         revision'[held[w].gen] = revision[held[w].gen] + 1
  PROVE  QuestionStep(held[w].gen, held[w].key)
<1> DEFINE g == held[w].gen
           k == held[w].key
           q == HeldQuestion(w)
           r == Saved(w, q)
<1>1. Holds(w) /\ held[w] \in Claim /\ k \in Key
    BY DEF Inv, WorkersHold, Holds, TypeOK
<1>2. /\ g \in Gen /\ q \in Question
      /\ \A e \in Eligible(w) : e \in stored[g] /\ TimeOf[e] <= q.asOf
    BY <1>1, EligibleKnown DEF Inv
<1>3. q.revision \in Nat /\ q = questions[g][k] /\ revision[g] \in Nat
    BY <1>2 DEF Question, HeldQuestion, Inv, TypeOK
<1>4. /\ r.asOf = q.asOf /\ r.searched = q.searched
      /\ r.revision = q.revision + 1
      /\ r.status = IF g = generation THEN held[w].status ELSE "cancelled"
      /\ r.evidence = IF g = generation THEN held[w].evidence ELSE {}
      /\ r.status \in Terminal
    BY <1>1, <1>2, SavedIs
<1>5. /\ held[w].status # "error" => q.searched
      /\ held[w].evidence \subseteq Eligible(w) \ NoReading
      /\ held[w].status = "ready" <=> held[w].evidence # {}
    BY <1>1 DEF Holds
<1> HIDE DEF g, k, q, r
<1>6. Grounded(r, stored[g])
    BY <1>2, <1>4, <1>5 DEF Grounded
<1>7. Continues(q, r) /\ Tells(q, r)
    BY <1>3, <1>4 DEF Continues, Tells, Terminal
<1>8. q.status # "absent"
    BY DEF q
<1>9. q = questions[g][k] /\ r = questions'[g][k] /\ revision'[g] > revision[g]
  <2>1. r = questions'[g][k] /\ revision'[g] = revision[g] + 1
      BY DEF g, k, q, r
  <2> QED
      BY <1>3, <2>1
<1>10. QuestionStep(g, k)
    BY ONLY <1>6, <1>7, <1>8, <1>9 DEF QuestionStep
<1> QED
    BY <1>10 DEF g, k

-----------------------------------------------------------------------------
(* What a step does to all questions                                       *)

QuestionsMove ==
  /\ questions' \in [Gen -> [Key -> Question]] /\ revision' \in [Gen -> Nat]
  /\ \A g \in Gen, k \in Key : QuestionStep(g, k)
  /\ \A g \in Gen : IsFiniteSet(Rows(g)')

LEMMA RowsGrow ==
  ASSUME RowsFinite, NEW g \in Gen, NEW k,
         \A j \in Key : questions'[g][j].status # "absent" =>
           j = k \/ questions[g][j].status # "absent"
  PROVE  IsFiniteSet(Rows(g)')
<1>1. Rows(g)' \subseteq Rows(g) \cup {k}
    BY DEF Rows
<1>2. IsFiniteSet(Rows(g) \cup {k})
    BY FS_AddElement DEF RowsFinite
<1> QED
    BY <1>1, <1>2, FS_Subset

LEMMA RowsStay ==
  ASSUME Inv, \A g \in Gen, k \in Key : questions[g][k].status = "absent" =>
                questions'[g][k] = questions[g][k]
  PROVE  \A g \in Gen : IsFiniteSet(Rows(g)')
<1> TAKE g \in Gen
<1>1. Rows(g)' \subseteq Rows(g)
    BY DEF Rows
<1> QED
    BY <1>1, FS_Subset DEF Inv, RowsFinite

LEMMA SubmitMoves ==
  ASSUME Inv, NEW k \in Key, Submit(k)
  PROVE  /\ QuestionsMove /\ OnlyAt(generation, k)
         /\ questions'[generation][k].status = "queued"
         /\ questions'[generation][k].asOf = clock
         /\ questions'[generation][k].evidence = {}
<1> USE DEF Inv
<1> DEFINE n == Cardinality(Rows(generation))
<1>1. generation \in Gen /\ clock \in Time
    BY DEF TypeOK
<1>2. n \in Nat
    BY <1>1, FS_CardinalityType DEF RowsFinite
<1>3. questions' = [questions EXCEPT ![generation][k] = Asked(n)]
    BY DEF Submit, Asked
<1> HIDE DEF n
<1>4. /\ Asked(n) \in Question /\ Asked(n).status = "queued"
      /\ Asked(n).asOf = clock /\ Asked(n).evidence = {}
    BY <1>1, <1>2, AskedIs
<1>5. /\ questions' \in [Gen -> [Key -> Question]]
      /\ questions'[generation][k] = Asked(n) /\ OnlyAt(generation, k)
    BY <1>1, <1>3, <1>4, OneChange
<1>6. revision' \in [Gen -> Nat] /\ revision'[generation] = revision[generation] + 1
    BY <1>1, OneRevision DEF Submit
<1>7. ASSUME NEW g \in Gen, NEW j \in Key PROVE QuestionStep(g, j)
  <2>1. CASE g = generation /\ j = k
      BY <1>2, <1>5, <1>6, <2>1, AskedStep DEF Submit, Unused
  <2>2. CASE g # generation \/ j # k
      BY <1>5, <2>2, UnchangedStep DEF OnlyAt
  <2> QED
      BY <2>1, <2>2
<1>8. \A g \in Gen : IsFiniteSet(Rows(g)')
    BY <1>5, RowsGrow DEF OnlyAt
<1> QED
    BY <1>4, <1>5, <1>6, <1>7, <1>8 DEF QuestionsMove

LEMMA CancelMoves ==
  ASSUME Inv, NEW k \in Key, Cancel(k)
  PROVE  /\ QuestionsMove /\ OnlyAt(generation, k)
         /\ questions'[generation][k] = Cancelled(questions[generation][k])
<1> USE DEF Inv
<1> DEFINE q == questions[generation][k]
<1>1. generation \in Gen /\ q \in Question /\ q.status \in Unfinished
    BY QuestionType DEF TypeOK, Cancel
<1>2. questions' = [questions EXCEPT ![generation][k] = Cancelled(q)]
    BY DEF Cancel
<1>3. /\ Cancelled(q) \in Question /\ Cancelled(q).status = "cancelled"
      /\ Cancelled(q).revision = q.revision + 1
      /\ Cancelled(q).asOf = q.asOf /\ Cancelled(q).evidence = q.evidence
      /\ Cancelled(q).searched = q.searched
    BY <1>1, CancelledIs
<1>4. /\ questions' \in [Gen -> [Key -> Question]]
      /\ questions'[generation][k] = Cancelled(q) /\ OnlyAt(generation, k)
    BY <1>1, <1>2, <1>3, OneChange
<1>5. /\ revision' \in [Gen -> Nat] /\ revision'[generation] = revision[generation] + 1
      /\ revision[generation] \in Nat
    BY <1>1, OneRevision DEF Cancel, TypeOK
<1>6. ASSUME NEW g \in Gen, NEW j \in Key PROVE QuestionStep(g, j)
  <2>1. CASE g = generation /\ j = k
      BY <1>1, <1>3, <1>4, <1>5, <2>1, UnfinishedStep
  <2>2. CASE g # generation \/ j # k
      BY <1>4, <2>2, UnchangedStep DEF OnlyAt
  <2> QED
      BY <2>1, <2>2
<1>7. \A g \in Gen : IsFiniteSet(Rows(g)')
    BY <1>1, <1>4, RowsStay DEF OnlyAt, Unfinished
<1> QED
    BY <1>4, <1>5, <1>6, <1>7 DEF QuestionsMove

(* The questions of earlier generations that a claim withdraws. *)
LEMMA ObsoleteCounted ==
  ASSUME Inv, NEW g \in Gen
  PROVE  /\ Cardinality(Obsolete(g)) \in Nat
         /\ \A k \in Obsolete(g) : /\ k \in Key /\ g < generation
                                   /\ questions[g][k].status \in Unfinished
                                   /\ Cardinality(Obsolete(g)) > 0
<1>1. Obsolete(g) \subseteq Rows(g)
    BY DEF Obsolete, Rows, Unfinished
<1>2. IsFiniteSet(Obsolete(g))
    BY <1>1, FS_Subset DEF Inv, RowsFinite
<1>3. Cardinality(Obsolete(g)) \in Nat
    BY <1>2, FS_CardinalityType
<1>4. ASSUME NEW k \in Obsolete(g)
      PROVE  /\ k \in Key /\ g < generation
             /\ questions[g][k].status \in Unfinished
             /\ Cardinality(Obsolete(g)) > 0
  <2>1. k \in Key /\ g # generation /\ questions[g][k].status \in Unfinished
      BY DEF Obsolete
  <2>2. g <= generation
      BY <1>1 DEF Inv, NotAsked, TypeOK, Gen
  <2>3. Cardinality(Obsolete(g)) # 0
      BY <1>2, FS_EmptySet
  <2> QED
      BY <1>3, <2>1, <2>2, <2>3 DEF Inv, TypeOK, Gen
<1> QED
    BY <1>3, <1>4

(* A claim withdraws what is obsolete and may take one question.           *)
ClaimSweeps(g, j) ==
  questions'[g][j] = IF j \in Obsolete(g) THEN Cancelled(questions[g][j])
                                          ELSE questions[g][j]

LEMMA ClaimDoes ==
  ASSUME Inv, NEW w \in Worker, ClaimQuestion(w)
  PROVE  /\ questions' \in [Gen -> [Key -> Question]] /\ revision' \in [Gen -> Nat]
         /\ \A g \in Gen : revision'[g] >= revision[g]
                           /\ (Obsolete(g) # {} => revision'[g] > revision[g])
         /\ \/ /\ \A g \in Gen, j \in Key : ClaimSweeps(g, j)
               /\ UNCHANGED <<held, phase>>
            \/ \E k \in Key :
                 /\ Claimable(k)
                 /\ questions'[generation][k] = Claimed(questions[generation][k])
                 /\ revision'[generation] > revision[generation]
                 /\ \A g \in Gen, j \in Key : g # generation \/ j # k => ClaimSweeps(g, j)
                 /\ held' = [held EXCEPT ![w] =
                      [NoClaim EXCEPT !.gen = generation, !.key = k,
                                      !.token = questions[generation][k].claims + 1]]
                 /\ phase' = [phase EXCEPT ![w] = "claimed"]
<1> USE DEF Inv
<1>1. generation \in Gen /\ \A g \in Gen : revision[g] \in Nat
    BY DEF TypeOK
<1>2. \A g \in Gen : /\ Cardinality(Obsolete(g)) \in Nat
                     /\ Obsolete(g) # {} => Cardinality(Obsolete(g)) > 0
    BY ObsoleteCounted
<1>3. Obsolete(generation) = {}
    BY DEF Obsolete
<1>4. \A g \in Gen, j \in Key :
        /\ questions[g][j] \in Question /\ Cancelled(questions[g][j]) \in Question
        /\ Claimed(questions[g][j]) \in Question
    BY QuestionType, CancelledIs, ClaimedIs
<1>5. ASSUME NEW k \in Key, First(k),
             questions' = [g \in Gen |-> [j \in Key |->
               IF j \in Obsolete(g) THEN Cancelled(questions[g][j])
               ELSE IF g = generation /\ j = k THEN Claimed(questions[g][j])
               ELSE questions[g][j]]],
             revision' = [g \in Gen |-> IF g = generation
               THEN revision[g] + 1
               ELSE revision[g] + Cardinality(Obsolete(g))]
      PROVE  /\ questions' \in [Gen -> [Key -> Question]] /\ revision' \in [Gen -> Nat]
             /\ \A g \in Gen : revision'[g] >= revision[g]
                               /\ (Obsolete(g) # {} => revision'[g] > revision[g])
             /\ Claimable(k)
             /\ questions'[generation][k] = Claimed(questions[generation][k])
             /\ revision'[generation] > revision[generation]
             /\ \A g \in Gen, j \in Key : g # generation \/ j # k => ClaimSweeps(g, j)
  <2>1. questions' \in [Gen -> [Key -> Question]]
      BY <1>4, <1>5
  <2>2. revision' \in [Gen -> Nat]
      BY <1>1, <1>2, <1>5
  <2>3. \A g \in Gen : revision'[g] >= revision[g]
                       /\ (Obsolete(g) # {} => revision'[g] > revision[g])
      BY <1>1, <1>2, <1>5
  <2>4. revision'[generation] > revision[generation]
      BY <1>1, <1>5
  <2>5. questions'[generation][k] = Claimed(questions[generation][k])
      BY <1>1, <1>3, <1>5
  <2>6. \A g \in Gen, j \in Key : g # generation \/ j # k => ClaimSweeps(g, j)
      BY <1>5 DEF ClaimSweeps
  <2> QED
      BY <1>5, <2>1, <2>2, <2>3, <2>4, <2>5, <2>6 DEF First
<1>6. ASSUME questions' = [g \in Gen |-> [j \in Key |->
               IF j \in Obsolete(g) THEN Cancelled(questions[g][j]) ELSE questions[g][j]]],
             revision' = [g \in Gen |-> revision[g] + Cardinality(Obsolete(g))]
      PROVE  /\ questions' \in [Gen -> [Key -> Question]] /\ revision' \in [Gen -> Nat]
             /\ \A g \in Gen : revision'[g] >= revision[g]
                               /\ (Obsolete(g) # {} => revision'[g] > revision[g])
             /\ \A g \in Gen, j \in Key : ClaimSweeps(g, j)
  <2>1. questions' \in [Gen -> [Key -> Question]]
      BY <1>4, <1>6
  <2>2. revision' \in [Gen -> Nat]
      BY <1>1, <1>2, <1>6
  <2>3. \A g \in Gen : revision'[g] >= revision[g]
                       /\ (Obsolete(g) # {} => revision'[g] > revision[g])
      BY <1>1, <1>2, <1>6
  <2>4. \A g \in Gen, j \in Key : ClaimSweeps(g, j)
      BY <1>6 DEF ClaimSweeps
  <2> QED
      BY <2>1, <2>2, <2>3, <2>4
<1>7. CASE \E k \in Key :
             /\ First(k)
             /\ questions' = [g \in Gen |-> [j \in Key |->
                  IF j \in Obsolete(g) THEN Cancelled(questions[g][j])
                  ELSE IF g = generation /\ j = k THEN Claimed(questions[g][j])
                  ELSE questions[g][j]]]
             /\ revision' = [g \in Gen |-> IF g = generation
                  THEN revision[g] + 1
                  ELSE revision[g] + Cardinality(Obsolete(g))]
             /\ held' = [held EXCEPT ![w] =
                  [NoClaim EXCEPT !.gen = generation, !.key = k,
                                  !.token = questions[generation][k].claims + 1]]
             /\ phase' = [phase EXCEPT ![w] = "claimed"]
    BY <1>5, <1>7
<1>8. CASE /\ questions' = [g \in Gen |-> [j \in Key |->
                IF j \in Obsolete(g) THEN Cancelled(questions[g][j]) ELSE questions[g][j]]]
           /\ revision' = [g \in Gen |-> revision[g] + Cardinality(Obsolete(g))]
           /\ UNCHANGED <<held, phase>>
    BY <1>6, <1>8
<1> QED
    BY <1>7, <1>8 DEF ClaimQuestion

LEMMA ClaimMoves ==
  ASSUME Inv, NEW w \in Worker, ClaimQuestion(w)
  PROVE  QuestionsMove
<1> USE DEF Inv
<1>1. /\ questions' \in [Gen -> [Key -> Question]] /\ revision' \in [Gen -> Nat]
      /\ \A g \in Gen : revision'[g] >= revision[g]
                        /\ (Obsolete(g) # {} => revision'[g] > revision[g])
    BY ClaimDoes
<1>2. ASSUME NEW g \in Gen, NEW j \in Key, ClaimSweeps(g, j) PROVE QuestionStep(g, j)
  <2>1. CASE j \in Obsolete(g)
    <3>1. questions[g][j] \in Question /\ questions[g][j].status \in Unfinished
        BY <2>1, QuestionType, ObsoleteCounted
    <3>2. LET q == questions[g][j]
              r == questions'[g][j]
          IN  /\ r.status = "cancelled" /\ r.revision = q.revision + 1
              /\ r.asOf = q.asOf /\ r.evidence = q.evidence /\ r.searched = q.searched
        BY <1>2, <2>1, <3>1, CancelledIs DEF ClaimSweeps
    <3>3. revision'[g] > revision[g]
        BY <1>1, <2>1
    <3> QED
        BY <3>1, <3>2, <3>3, UnfinishedStep
  <2>2. CASE j \notin Obsolete(g)
      BY <1>2, <2>2, UnchangedStep DEF ClaimSweeps
  <2> QED
      BY <2>1, <2>2
<1>3. ASSUME NEW k \in Key, Claimable(k), revision'[generation] > revision[generation],
             questions'[generation][k] = Claimed(questions[generation][k])
      PROVE  QuestionStep(generation, k)
  <2>1. /\ generation \in Gen /\ questions[generation][k] \in Question
        /\ questions[generation][k].status \in Unfinished
      BY <1>3, QuestionType DEF TypeOK, Claimable, Unfinished
  <2>2. LET q == questions[generation][k]
            r == questions'[generation][k]
        IN  /\ r.status = "running" /\ r.revision = q.revision + 1
            /\ r.asOf = q.asOf /\ r.evidence = q.evidence /\ r.searched = q.searched
      BY <1>3, <2>1, ClaimedIs
  <2> QED
      BY <1>3, <2>1, <2>2, UnfinishedStep DEF Unfinished
<1>4. \A g \in Gen, j \in Key : QuestionStep(g, j)
  <2>1. CASE \A g \in Gen, j \in Key : ClaimSweeps(g, j)
      BY <1>2, <2>1
  <2>2. CASE \E k \in Key :
               /\ Claimable(k)
               /\ questions'[generation][k] = Claimed(questions[generation][k])
               /\ revision'[generation] > revision[generation]
               /\ \A g \in Gen, j \in Key : g # generation \/ j # k => ClaimSweeps(g, j)
      BY <1>2, <1>3, <2>2
  <2> QED
      BY <2>1, <2>2, ClaimDoes
<1>5. \A g \in Gen, j \in Key : questions[g][j].status = "absent" =>
        questions'[g][j] = questions[g][j]
  <2>1. \A g \in Gen : \A j \in Obsolete(g) : questions[g][j].status # "absent"
      BY ObsoleteCounted DEF Unfinished
  <2>2. \A k \in Key : Claimable(k) => questions[generation][k].status # "absent"
      BY DEF Claimable
  <2>3. \A g \in Gen, j \in Key : ClaimSweeps(g, j) /\ questions[g][j].status = "absent"
          => questions'[g][j] = questions[g][j]
      BY <2>1 DEF ClaimSweeps
  <2> QED
      BY <2>2, <2>3, ClaimDoes
<1> QED
    BY <1>1, <1>4, <1>5, RowsStay DEF QuestionsMove

LEMMA HeldTyped ==
  ASSUME Inv, NEW w \in Worker, phase[w] # "idle"
  PROVE  /\ Holds(w) /\ held[w] \in Claim /\ held[w].gen \in Gen /\ held[w].key \in Key
         /\ HeldQuestion(w) = questions[held[w].gen][held[w].key]
         /\ HeldQuestion(w) \in Question
         /\ held[w].gen <= generation
         /\ held[w].events \subseteq Event /\ held[w].status \in Outcome
<1>1. Holds(w) /\ held[w] \in Claim /\ held[w].key \in Key
    BY DEF Inv, WorkersHold, Holds, TypeOK
<1>2. held[w].gen \in Gen /\ HeldQuestion(w) \in Question
    BY <1>1, EligibleKnown DEF Inv
<1> QED
    BY <1>1, <1>2 DEF Claim, Holds, HeldQuestion

LEMMA NothingMoves ==
  ASSUME Inv, UNCHANGED <<questions, revision>>
  PROVE  QuestionsMove
<1>1. \A g \in Gen, k \in Key : QuestionStep(g, k)
    BY UnchangedStep
<1>2. \A g \in Gen : IsFiniteSet(Rows(g)')
    BY RowsStay
<1> QED
    BY <1>1, <1>2 DEF QuestionsMove, Inv, TypeOK

LEMMA RecordMoves ==
  ASSUME Inv, NEW w \in Worker, phase[w] = "retrieved", Owns(w),
         questions' = [questions EXCEPT ![held[w].gen][held[w].key] = Shown(@)],
         revision' = [revision EXCEPT ![held[w].gen] = @ + 1]
  PROVE  /\ QuestionsMove /\ OnlyAt(held[w].gen, held[w].key)
         /\ questions'[held[w].gen][held[w].key] = Shown(HeldQuestion(w))
<1> DEFINE g == held[w].gen
           k == held[w].key
           q == HeldQuestion(w)
<1>1. g \in Gen /\ k \in Key /\ q = questions[g][k] /\ q \in Question
    BY HeldTyped
<1>2. q.status \in Unfinished
    BY DEF Owns, Unfinished
<1>3. questions' = [questions EXCEPT ![g][k] = Shown(q)]
    BY <1>1
<1>4. /\ Shown(q) \in Question /\ Shown(q).status = q.status
      /\ Shown(q).revision = q.revision + 1
      /\ Shown(q).asOf = q.asOf /\ Shown(q).evidence = q.evidence
      /\ Shown(q).searched = TRUE
    BY <1>1, ShownIs
<1> HIDE DEF g, k, q
<1>5. /\ questions' \in [Gen -> [Key -> Question]]
      /\ questions'[g][k] = Shown(q) /\ OnlyAt(g, k)
    BY <1>1, <1>3, <1>4, OneChange DEF Inv
<1>6. /\ revision' \in [Gen -> Nat] /\ revision'[g] = revision[g] + 1 /\ revision[g] \in Nat
    BY <1>1, OneRevision DEF Inv, TypeOK, g
<1>7. ASSUME NEW h \in Gen, NEW j \in Key PROVE QuestionStep(h, j)
  <2>1. CASE h = g /\ j = k
    <3>1. LET r == questions'[g][k]
          IN  /\ r.status \in Unfinished /\ r.revision = q.revision + 1
              /\ r.asOf = q.asOf /\ r.evidence = q.evidence /\ r.searched = TRUE
        BY <1>2, <1>4, <1>5
    <3>2. questions[g][k].status \in Unfinished /\ revision'[g] > revision[g]
        BY <1>1, <1>2, <1>6
    <3> QED
        BY <1>1, <2>1, <3>1, <3>2, UnfinishedStep
  <2>2. CASE h # g \/ j # k
      BY <1>5, <2>2, UnchangedStep DEF OnlyAt
  <2> QED
      BY <2>1, <2>2
<1>8. \A h \in Gen : IsFiniteSet(Rows(h)')
    BY <1>1, <1>2, <1>5, RowsStay DEF OnlyAt, Unfinished
<1> QED
    BY <1>5, <1>6, <1>7, <1>8 DEF QuestionsMove, g, k, q

LEMMA SaveMoves ==
  ASSUME Inv, NEW w \in Worker, phase[w] = "answered", Owns(w),
         questions' = [questions EXCEPT ![held[w].gen][held[w].key] = Saved(w, @)],
         revision' = [revision EXCEPT ![held[w].gen] = @ + 1]
  PROVE  /\ QuestionsMove /\ OnlyAt(held[w].gen, held[w].key)
         /\ questions'[held[w].gen][held[w].key] = Saved(w, HeldQuestion(w))
<1> DEFINE g == held[w].gen
           k == held[w].key
           q == HeldQuestion(w)
<1>1. g \in Gen /\ k \in Key /\ q = questions[g][k] /\ q \in Question
    BY HeldTyped
<1>2. q.status = "running"
    BY DEF Owns
<1>3. questions' = [questions EXCEPT ![g][k] = Saved(w, q)]
    BY <1>1
<1>4. Saved(w, q) \in Question
    BY <1>1, SavedIs, HeldTyped
<1>5. /\ questions' \in [Gen -> [Key -> Question]]
      /\ questions'[g][k] = Saved(w, q) /\ OnlyAt(g, k)
  <2> HIDE DEF g, k, q
  <2> QED
      BY <1>1, <1>3, <1>4, OneChange DEF Inv
<1>6. revision' \in [Gen -> Nat] /\ revision'[g] = revision[g] + 1
    BY <1>1, OneRevision DEF Inv
<1>7. ASSUME NEW h \in Gen, NEW j \in Key PROVE QuestionStep(h, j)
  <2>1. CASE h = g /\ j = k
      BY <1>2, <1>5, <1>6, <2>1, SavedStep
  <2>2. CASE h # g \/ j # k
      BY <1>5, <2>2, UnchangedStep DEF OnlyAt
  <2> QED
      BY <2>1, <2>2
<1>8. \A h \in Gen : IsFiniteSet(Rows(h)')
    BY <1>1, <1>2, <1>5, RowsStay DEF OnlyAt
<1> QED
    BY <1>5, <1>6, <1>7, <1>8 DEF QuestionsMove

LEMMA ExpireMoves ==
  ASSUME Inv, NEW g \in Gen, NEW k \in Key, ExpireLease(g, k)
  PROVE  /\ QuestionsMove /\ OnlyAt(g, k)
         /\ questions'[g][k].status = questions[g][k].status
         /\ questions'[g][k].asOf = questions[g][k].asOf
         /\ questions'[g][k].evidence = questions[g][k].evidence
<1> DEFINE q == questions[g][k]
           x == [q EXCEPT !.leased = FALSE]
<1>1. q \in Question /\ q.status \in Unfinished
    BY QuestionType DEF Inv, ExpireLease, Unfinished
<1>2. questions' = [questions EXCEPT ![g][k] = x]
    BY DEF ExpireLease
<1>3. /\ x \in Question /\ x.status = q.status /\ x.revision = q.revision
      /\ x.asOf = q.asOf /\ x.evidence = q.evidence /\ x.searched = q.searched
    BY <1>1, ExpiredIs
<1> HIDE DEF x
<1>4. /\ questions' \in [Gen -> [Key -> Question]]
      /\ questions'[g][k] = x /\ OnlyAt(g, k)
    BY <1>2, <1>3, OneChange DEF Inv
<1>5. revision' \in [Gen -> Nat] /\ revision' = revision
    BY DEF ExpireLease, Inv, TypeOK
<1>6. ASSUME NEW h \in Gen, NEW j \in Key PROVE QuestionStep(h, j)
  <2>1. CASE h = g /\ j = k
      BY <1>1, <1>3, <1>4, <2>1, UnfinishedStep
  <2>2. CASE h # g \/ j # k
      BY <1>4, <2>2, UnchangedStep DEF OnlyAt
  <2> QED
      BY <2>1, <2>2
<1>7. \A h \in Gen : IsFiniteSet(Rows(h)')
    BY <1>1, <1>4, RowsStay DEF OnlyAt, Unfinished
<1> QED
    BY <1>3, <1>4, <1>5, <1>6, <1>7 DEF QuestionsMove

LEMMA StepMoves == ASSUME Inv, [Next]_vars PROVE QuestionsMove
<1>1. CASE \E k \in Key : Submit(k) \/ Cancel(k)
    BY <1>1, SubmitMoves, CancelMoves
<1>2. ASSUME NEW w \in Worker, WorkerStep(w) PROVE QuestionsMove
  <2>1. CASE ClaimQuestion(w)
      BY <2>1, ClaimMoves
  <2>2. CASE RecordRetrieval(w)
      BY <2>2, RecordMoves, NothingMoves DEF RecordRetrieval
  <2>3. CASE SaveResult(w)
      BY <2>3, SaveMoves, NothingMoves DEF SaveResult
  <2>4. CASE \/ Retrieve(w) \/ RetrieveFails(w) \/ EngineFails(w)
             \/ \E claims \in Answers : EngineAnswers(w, claims)
      BY <2>4, NothingMoves DEF Retrieve, RetrieveFails, EngineFails, EngineAnswers
  <2> QED
      BY <1>2, <2>1, <2>2, <2>3, <2>4 DEF WorkerStep
<1>3. CASE \E g \in Gen, k \in Key : ExpireLease(g, k)
    BY <1>3, ExpireMoves
<1>4. CASE \/ \E e \in Event : Ingest(e)
           \/ \E ms \in Time : Tick(ms)
           \/ Reset \/ Restart \/ UNCHANGED vars
    BY <1>4, NothingMoves DEF Ingest, Tick, Reset, Restart, vars
<1> QED
    BY <1>1, <1>2, <1>3, <1>4 DEF Next

-----------------------------------------------------------------------------
(* What a step does to the session and the workers                         *)

SessionMoves ==
  /\ generation' \in Gen /\ generation <= generation' /\ clock' \in Time
  /\ stored' \in [Gen -> SUBSET Event] /\ \A g \in Gen : stored[g] \subseteq stored'[g]

LEMMA StepSession == ASSUME Inv, [Next]_vars PROVE SessionMoves
<1> USE DEF Inv
<1>1. /\ generation \in Gen /\ generation \in Nat /\ clock \in Time /\ 0 \in Time
      /\ stored \in [Gen -> SUBSET Event]
    BY QuestionsAssumption DEF TypeOK, Gen, Time
<1>2. ASSUME NEW e \in Event, Ingest(e) PROVE SessionMoves
    BY <1>1, <1>2 DEF SessionMoves, Ingest
<1>3. ASSUME NEW ms \in Time, Tick(ms) PROVE SessionMoves
    BY <1>1, <1>3 DEF SessionMoves, Tick
<1>4. CASE Reset
    BY <1>1, <1>4, QuestionsAssumption DEF SessionMoves, Reset, Gen
<1>5. ASSUME UNCHANGED <<generation, clock, stored>> PROVE SessionMoves
    BY <1>1, <1>5 DEF SessionMoves
<1>6. ASSUME NEW w \in Worker, WorkerStep(w) PROVE UNCHANGED <<generation, clock, stored>>
    BY <1>6 DEF WorkerStep, ClaimQuestion, Retrieve, RetrieveFails, RecordRetrieval,
                EngineAnswers, EngineFails, SaveResult
<1>7. ASSUME \/ \E k \in Key : Submit(k) \/ Cancel(k)
             \/ \E g \in Gen, k \in Key : ExpireLease(g, k)
             \/ Restart \/ UNCHANGED vars
      PROVE  UNCHANGED <<generation, clock, stored>>
    BY <1>7 DEF Submit, Cancel, ExpireLease, Restart, vars
<1> QED
    BY <1>2, <1>3, <1>4, <1>5, <1>6, <1>7 DEF Next

(* A worker goes on with what it holds.                                    *)
LEMMA StillHolds ==
  ASSUME Inv, QuestionsMove, SessionMoves, NEW w \in Worker, phase[w] # "idle",
         held'[w].gen = held[w].gen, held'[w].key = held[w].key,
         held'[w].events \subseteq Eligible(w),
         phase'[w] = "asking" \/ (phase'[w] = "answered" /\ held'[w].status # "error") =>
           questions'[held[w].gen][held[w].key].searched,
         phase'[w] = "answered" =>
           /\ held'[w].evidence \subseteq held'[w].events \ NoReading
           /\ held'[w].status = "ready" <=> held'[w].evidence # {}
  PROVE  Holds(w)'
<1>1. /\ Holds(w) /\ held[w].gen \in Gen /\ held[w].key \in Key
      /\ HeldQuestion(w) = questions[held[w].gen][held[w].key]
    BY HeldTyped
<1>2. Continues(HeldQuestion(w), questions'[held[w].gen][held[w].key])
    BY <1>1 DEF QuestionsMove, QuestionStep
<1>3. /\ HeldQuestion(w)'.status # "absent"
      /\ HeldQuestion(w)'.asOf = HeldQuestion(w).asOf
    BY <1>1, <1>2 DEF Continues, Holds, HeldQuestion
<1>4. held'[w].gen <= generation'
    BY <1>1 DEF Holds, SessionMoves, Inv, TypeOK, Gen
<1>5. Eligible(w) \subseteq Eligible(w)'
    BY <1>1, <1>3 DEF Eligible, SessionMoves
<1> QED
    BY <1>1, <1>3, <1>4, <1>5 DEF Holds, HeldQuestion

LEMMA HoldsOn ==
  ASSUME Inv, QuestionsMove, SessionMoves, NEW w \in Worker, phase[w] # "idle",
         held'[w] = held[w], phase'[w] = phase[w]
  PROVE  Holds(w)'
<1>1. /\ Holds(w) /\ held[w].gen \in Gen /\ held[w].key \in Key
      /\ HeldQuestion(w) = questions[held[w].gen][held[w].key]
    BY HeldTyped
<1>2. HeldQuestion(w).searched => questions'[held[w].gen][held[w].key].searched
    BY <1>1 DEF QuestionsMove, QuestionStep, Continues, Holds
<1> QED
    BY <1>1, <1>2, StillHolds DEF Holds

LEMMA OutcomeHeld ==
  ASSUME Inv, NEW w \in Worker, NEW s \in Outcome, NEW ev \in SUBSET Event,
         held' = [held EXCEPT ![w].status = s, ![w].evidence = ev]
  PROVE  /\ held' \in [Worker -> Claim]
         /\ held'[w].status = s /\ held'[w].evidence = ev
         /\ held'[w].gen = held[w].gen /\ held'[w].key = held[w].key
         /\ held'[w].events = held[w].events
         /\ \A v \in Worker : v # w => held'[v] = held[v]
<1> DEFINE c == [held[w] EXCEPT !.status = s]
           d == [c EXCEPT !.evidence = ev]
<1>1. held \in [Worker -> Claim] /\ held[w] \in Claim
    BY DEF Inv, TypeOK
<1>2. /\ c \in Claim /\ c.status = s /\ c.gen = held[w].gen /\ c.key = held[w].key
      /\ c.events = held[w].events
    BY <1>1 DEF Claim
<1>3. held' = [held EXCEPT ![w] = d]
    BY <1>1
<1> HIDE DEF c
<1>4. /\ d \in Claim /\ d.status = c.status /\ d.evidence = ev /\ d.gen = c.gen
      /\ d.key = c.key /\ d.events = c.events
    BY <1>2 DEF Claim
<1> HIDE DEF d
<1> QED
    BY <1>1, <1>2, <1>3, <1>4

Phases == {"idle", "claimed", "retrieved", "asking", "answered"}

LEMMA PhaseTyped ==
  ASSUME Inv, NEW w \in Worker, NEW p \in Phases, phase' = [phase EXCEPT ![w] = p]
  PROVE  /\ phase' \in [Worker -> Phases] /\ phase'[w] = p
         /\ \A v \in Worker : v # w => phase'[v] = phase[v]
BY DEF Inv, TypeOK, Phases

(* The workers are right after a step.                                     *)
WorkersRight == /\ held' \in [Worker -> Claim] /\ phase' \in [Worker -> Phases]
                /\ \A w \in Worker : phase'[w] # "idle" => Holds(w)'

(* One worker moves, the others go on. *)
LEMMA OneWorkerMoves ==
  ASSUME Inv, QuestionsMove, SessionMoves, NEW w \in Worker, NEW p \in Phases,
         phase' = [phase EXCEPT ![w] = p], held' \in [Worker -> Claim],
         \A v \in Worker : v # w => held'[v] = held[v],
         p = "idle" \/ Holds(w)'
  PROVE  WorkersRight
<1>1. /\ phase' \in [Worker -> Phases] /\ phase'[w] = p
      /\ \A v \in Worker : v # w => phase'[v] = phase[v]
    BY PhaseTyped
<1>2. ASSUME NEW v \in Worker, phase'[v] # "idle" PROVE Holds(v)'
  <2>1. CASE v = w
      BY <1>1, <1>2, <2>1
  <2>2. CASE v # w
      BY <1>1, <1>2, <2>2, HoldsOn
  <2> QED
      BY <2>1, <2>2
<1> QED
    BY <1>1, <1>2 DEF WorkersRight

LEMMA NoWorkerMoves ==
  ASSUME Inv, QuestionsMove, SessionMoves, UNCHANGED <<held, phase>>
  PROVE  WorkersRight
<1>1. \A w \in Worker : phase'[w] # "idle" => Holds(w)'
    BY HoldsOn
<1> QED
    BY <1>1 DEF WorkersRight, Inv, TypeOK, Phases

LEMMA ReleaseRight ==
  ASSUME Inv, QuestionsMove, SessionMoves, NEW w \in Worker, Release(w)
  PROVE  WorkersRight
<1>1. NoClaim \in Claim
    BY QuestionsAssumption DEF NoClaim, Claim, Gen, Outcome
<1>2. /\ held' \in [Worker -> Claim]
      /\ \A v \in Worker : v # w => held'[v] = held[v]
    BY <1>1 DEF Inv, TypeOK, Release
<1> QED
    BY <1>2, OneWorkerMoves DEF Release, Phases

LEMMA ClaimRight ==
  ASSUME Inv, QuestionsMove, SessionMoves, NEW w \in Worker, ClaimQuestion(w)
  PROVE  WorkersRight
<1>1. CASE UNCHANGED <<held, phase>>
    BY <1>1, NoWorkerMoves
<1>2. ASSUME NEW k \in Key, Claimable(k),
             questions'[generation][k] = Claimed(questions[generation][k]),
             held' = [held EXCEPT ![w] =
               [NoClaim EXCEPT !.gen = generation, !.key = k,
                               !.token = questions[generation][k].claims + 1]],
             phase' = [phase EXCEPT ![w] = "claimed"]
      PROVE  WorkersRight
  <2> DEFINE n == questions[generation][k].claims + 1
             c == [NoClaim EXCEPT !.gen = generation, !.key = k, !.token = n]
  <2>1. generation \in Gen /\ questions[generation][k] \in Question
      BY QuestionType DEF Inv, TypeOK
  <2>2. n \in Nat
      BY <2>1 DEF Question
  <2> HIDE DEF n
  <2>3. /\ c \in Claim /\ c.gen = generation /\ c.key = k /\ c.events = {}
      BY <2>1, <2>2 DEF NoClaim, Claim, Outcome
  <2>4. held' = [held EXCEPT ![w] = c]
      BY <1>2 DEF n
  <2> HIDE DEF c
  <2>5. /\ held' \in [Worker -> Claim] /\ held'[w] = c
        /\ \A v \in Worker : v # w => held'[v] = held[v]
      BY <2>3, <2>4 DEF Inv, TypeOK
  <2>6. questions'[generation][k].status = "running"
      BY <1>2, <2>1, ClaimedIs
  <2>7. phase'[w] = "claimed"
      BY <1>2 DEF Inv, TypeOK
  <2>8. Holds(w)'
    <3>1. generation' = generation
        BY DEF ClaimQuestion
    <3>2. generation <= generation
        BY <2>1, QuestionsAssumption DEF Gen
    <3> QED
        BY <2>3, <2>5, <2>6, <2>7, <3>1, <3>2 DEF Holds, HeldQuestion
  <2> QED
      BY <1>2, <2>5, <2>8, OneWorkerMoves DEF Phases
<1> QED
    BY <1>1, <1>2, ClaimDoes

LEMMA RetrieveRight ==
  ASSUME Inv, QuestionsMove, SessionMoves, NEW w \in Worker, Retrieve(w)
  PROVE  WorkersRight
<1>1. PICK found \in SUBSET Eligible(w) : held' = [held EXCEPT ![w].events = found]
    BY DEF Retrieve
<1>2. /\ phase[w] = "claimed" /\ phase' = [phase EXCEPT ![w] = "retrieved"]
      /\ phase'[w] = "retrieved"
    BY DEF Retrieve, Inv, TypeOK
<1>3. /\ held[w] \in Claim /\ found \in SUBSET Event
  <2>1. Eligible(w) \subseteq Event
      BY <1>2, HeldTyped DEF Eligible, Inv, TypeOK
  <2> QED
      BY <1>2, <2>1, HeldTyped
<1> DEFINE c == [held[w] EXCEPT !.events = found]
<1>4. c \in Claim /\ c.events = found /\ c.gen = held[w].gen /\ c.key = held[w].key
    BY <1>3 DEF Claim
<1>5. held' = [held EXCEPT ![w] = c]
    BY <1>1
<1> HIDE DEF c
<1>6. /\ held' \in [Worker -> Claim] /\ held'[w] = c
      /\ \A v \in Worker : v # w => held'[v] = held[v]
    BY <1>4, <1>5 DEF Inv, TypeOK
<1>7. Holds(w)'
    BY <1>2, <1>4, <1>6, StillHolds
<1> QED
    BY <1>2, <1>6, <1>7, OneWorkerMoves DEF Phases

LEMMA RecordRight ==
  ASSUME Inv, QuestionsMove, SessionMoves, NEW w \in Worker, RecordRetrieval(w)
  PROVE  WorkersRight
<1>1. CASE Owns(w)
  <2>1. /\ phase[w] = "retrieved" /\ phase' = [phase EXCEPT ![w] = "asking"]
        /\ held' = held
        /\ questions' = [questions EXCEPT ![held[w].gen][held[w].key] = Shown(@)]
        /\ revision' = [revision EXCEPT ![held[w].gen] = @ + 1]
      BY <1>1 DEF RecordRetrieval
  <2>2. phase'[w] = "asking"
      BY <2>1 DEF Inv, TypeOK
  <2>3. questions'[held[w].gen][held[w].key].searched
      BY <1>1, <2>1, RecordMoves, HeldTyped, ShownIs
  <2>4. Holds(w)
      BY <2>1, HeldTyped
  <2>5. held[w].events \subseteq Eligible(w)
      BY <2>4 DEF Holds
  <2>6. Holds(w)'
      BY <2>1, <2>2, <2>3, <2>5, StillHolds
  <2> QED
      BY <2>1, <2>6, OneWorkerMoves DEF Phases, Inv, TypeOK
<1>2. CASE Release(w)
    BY <1>2, ReleaseRight
<1> QED
    BY <1>1, <1>2 DEF RecordRetrieval

LEMMA FailRight ==
  ASSUME Inv, QuestionsMove, SessionMoves, NEW w \in Worker, phase[w] # "idle", Fail(w)
  PROVE  WorkersRight
<1>1. /\ held' \in [Worker -> Claim]
      /\ held'[w].status = "error" /\ held'[w].evidence = {}
      /\ held'[w].gen = held[w].gen /\ held'[w].key = held[w].key
      /\ held'[w].events = held[w].events
      /\ \A v \in Worker : v # w => held'[v] = held[v]
  <2>1. "error" \in Outcome /\ {} \in SUBSET Event
      BY DEF Outcome
  <2>2. held' = [held EXCEPT ![w].status = "error", ![w].evidence = {}]
      BY DEF Fail
  <2> QED
      BY <2>1, <2>2, OutcomeHeld
<1>2. phase' = [phase EXCEPT ![w] = "answered"] /\ phase'[w] = "answered"
    BY DEF Fail, Inv, TypeOK
<1>3. held[w].events \subseteq Eligible(w)
    BY HeldTyped DEF Holds
<1>4. Holds(w)'
    BY <1>1, <1>2, <1>3, StillHolds
<1> QED
    BY <1>1, <1>2, <1>4, OneWorkerMoves DEF Phases

(* Of an answer only claims with readings are kept. *)
LEMMA EngineAnswersRight ==
  ASSUME Inv, QuestionsMove, SessionMoves, NEW w \in Worker, NEW claims \in Answers,
         EngineAnswers(w, claims)
  PROVE  WorkersRight
<1> DEFINE s == IF Kept(claims) # {} THEN "ready" ELSE "insufficient_data"
           ev == UNION Kept(claims)
<1>1. /\ phase[w] = "asking" /\ UNION claims \subseteq held[w].events
      /\ held' = [held EXCEPT ![w].status = s, ![w].evidence = ev]
      /\ phase' = [phase EXCEPT ![w] = "answered"]
      /\ questions' = questions
    BY DEF EngineAnswers
<1>2. /\ Holds(w) /\ held[w].events \subseteq Event
      /\ HeldQuestion(w) = questions[held[w].gen][held[w].key]
    BY <1>1, HeldTyped
<1>3. ev \subseteq held[w].events \ NoReading
    BY <1>1 DEF Kept
<1>4. Kept(claims) # {} <=> ev # {}
    BY DEF Kept
<1>5. s \in Outcome /\ ev \in SUBSET Event /\ (s = "ready" <=> ev # {})
    BY <1>2, <1>3, <1>4 DEF Outcome
<1> HIDE DEF s, ev
<1>6. /\ held' \in [Worker -> Claim]
      /\ held'[w].status = s /\ held'[w].evidence = ev
      /\ held'[w].gen = held[w].gen /\ held'[w].key = held[w].key
      /\ held'[w].events = held[w].events
      /\ \A v \in Worker : v # w => held'[v] = held[v]
    BY <1>1, <1>5, OutcomeHeld
<1>7. phase'[w] = "answered"
    BY <1>1 DEF Inv, TypeOK
<1>8. held[w].events \subseteq Eligible(w) /\ questions'[held[w].gen][held[w].key].searched
    BY <1>1, <1>2 DEF Holds
<1>9. Holds(w)'
    BY <1>1, <1>3, <1>5, <1>6, <1>7, <1>8, StillHolds
<1> QED
    BY <1>1, <1>6, <1>9, OneWorkerMoves DEF Phases

LEMMA StepWorkers ==
  ASSUME Inv, [Next]_vars, QuestionsMove, SessionMoves
  PROVE  WorkersRight
<1>1. ASSUME NEW w \in Worker, WorkerStep(w) PROVE WorkersRight
  <2>1. CASE RetrieveFails(w) \/ EngineFails(w)
      BY <2>1, FailRight DEF RetrieveFails, EngineFails
  <2>2. CASE SaveResult(w)
      BY <2>2, ReleaseRight DEF SaveResult
  <2> QED
      BY <1>1, <2>1, <2>2, ClaimRight, RetrieveRight, RecordRight, EngineAnswersRight
      DEF WorkerStep
<1>2. CASE Restart
  <2>1. NoClaim \in Claim
      BY QuestionsAssumption DEF NoClaim, Claim, Gen, Outcome
  <2> QED
      BY <1>2, <2>1 DEF Restart, WorkersRight, Phases
<1>3. ASSUME \/ \E e \in Event : Ingest(e)
             \/ \E ms \in Time : Tick(ms)
             \/ Reset
             \/ \E k \in Key : Submit(k) \/ Cancel(k)
             \/ \E g \in Gen, k \in Key : ExpireLease(g, k)
             \/ UNCHANGED vars
      PROVE  WorkersRight
    BY <1>3, NoWorkerMoves DEF Ingest, Tick, Reset, Submit, Cancel, ExpireLease, vars
<1> QED
    BY <1>1, <1>2, <1>3 DEF Next

-----------------------------------------------------------------------------
(* The invariant                                                           *)

LEMMA InitInv == Init => Inv
<1> SUFFICES ASSUME Init PROVE Inv
    OBVIOUS
<1>1. NoQuestion \in Question /\ NoClaim \in Claim /\ 0 \in Gen /\ 0 \in Time
    BY QuestionsAssumption DEF NoQuestion, Question, NoClaim, Claim, Gen, Time, Outcome
<1>2. TypeOK
    BY <1>1 DEF Init, TypeOK
<1>3. \A g \in Gen, k \in Key : questions[g][k] = NoQuestion
    BY DEF Init
<1>4. \A g \in Gen : Rows(g) = {}
    BY <1>3 DEF Rows, NoQuestion
<1>5. RowsFinite /\ NotAsked
    BY <1>3, <1>4, FS_EmptySet DEF RowsFinite, NotAsked
<1>6. AnswersGrounded
    BY <1>3 DEF AnswersGrounded, NoQuestion
<1>7. WorkersHold
    BY DEF Init, WorkersHold
<1> QED
    BY <1>2, <1>5, <1>6, <1>7 DEF Inv

LEMMA NextInv == Inv /\ [Next]_vars => Inv'
<1> SUFFICES ASSUME Inv, [Next]_vars PROVE Inv'
    OBVIOUS
<1>1. QuestionsMove /\ SessionMoves
    BY StepMoves, StepSession
<1>2. WorkersRight
    BY <1>1, StepWorkers
<1>3. TypeOK' /\ WorkersHold'
    BY <1>1, <1>2 DEF TypeOK, WorkersHold, WorkersRight, QuestionsMove, SessionMoves, Phases
<1>4. RowsFinite'
    BY <1>1 DEF RowsFinite, QuestionsMove
<1>5. NotAsked'
  <2>1. ASSUME NEW g \in Gen, NEW k \in Key, questions'[g][k].status = "absent"
        PROVE  questions'[g][k] = NoQuestion
      BY <1>1, <2>1 DEF QuestionsMove, QuestionStep, Continues, Inv, NotAsked
  <2>2. ASSUME NEW g \in Gen, g > generation', NEW k \in Key
        PROVE  questions'[g][k].status = "absent"
    <3>1. g > generation
        BY <1>1, <2>2 DEF SessionMoves, Inv, TypeOK, Gen
    <3>2. questions[g][k].status = "absent"
        BY <3>1 DEF Inv, NotAsked, Rows
    <3> QED
        BY <1>1, <3>1, <3>2 DEF QuestionsMove, QuestionStep, Inv, TypeOK, Gen
  <2> QED
      BY <2>1, <2>2 DEF NotAsked, Rows
<1>6. AnswersGrounded'
  <2>1. \A g \in Gen, k \in Key : Grounded(questions'[g][k], stored[g])
      BY <1>1 DEF QuestionsMove, QuestionStep
  <2>2. \A g \in Gen, k \in Key : Grounded(questions'[g][k], stored'[g])
      BY <1>1, <2>1 DEF Grounded, SessionMoves
  <2> QED
      BY <2>2 DEF AnswersGrounded, Grounded
<1> QED
    BY <1>3, <1>4, <1>5, <1>6 DEF Inv

LEMMA InvAlways == Spec => []Inv
BY InitInv, NextInv, PTL DEF Spec

(* Whatever the engine answers, whoever cancels, restarts or resets, an    *)
(* answer cites only stored events with a reading id that carry no later   *)
(* time than the question, and shows its retrieval.                        *)
THEOREM EveryAnswerIsGrounded == Spec => []AnswersGrounded
<1>1. Inv => AnswersGrounded
    BY DEF Inv
<1> QED
    BY <1>1, InvAlways, PTL

(* A reader that compares revisions misses no change of an answer.         *)
THEOREM RevisionsAlwaysTell == Spec => RevisionsTell
<1> DEFINE A(g, k) ==
      /\ questions'[g][k].revision >= questions[g][k].revision
      /\ Visible(questions'[g][k]) # Visible(questions[g][k])
           => /\ revision'[g] > revision[g]
              /\ \/ questions[g][k].status = "absent"
                 \/ questions'[g][k].revision > questions[g][k].revision
<1>1. Inv /\ [Next]_vars => [\A g \in Gen, k \in Key : A(g, k)]_vars
    BY StepMoves DEF QuestionsMove, QuestionStep, Tells
<1> QED
    BY <1>1, InvAlways, PTL DEF Spec, RevisionsTell

-----------------------------------------------------------------------------
(* The questions implement the question desk                               *)

Entries == [g \in Gen |-> [k \in Key |-> EntryOf(questions[g][k])]]

LEMMA EntriesAre ==
  /\ \A g \in Gen, k \in Key : Entries[g][k] = EntryOf(questions[g][k])
  /\ \A g \in Gen, k \in Key : Entries'[g][k] = EntryOf(questions'[g][k])
BY DEF Entries

LEMMA EntriesStay ==
  ASSUME \A g \in Gen, k \in Key : EntryOf(questions'[g][k]) = EntryOf(questions[g][k])
  PROVE  Entries' = Entries
<1>1. ASSUME NEW g \in Gen
      PROVE  [k \in Key |-> EntryOf(questions'[g][k])] = [k \in Key |-> EntryOf(questions[g][k])]
    OBVIOUS
<1> QED
    BY <1>1 DEF Entries

LEMMA OneEntry ==
  ASSUME NEW g \in Gen, NEW k \in Key, OnlyAt(g, k), NEW e,
         EntryOf(questions'[g][k]) = e
  PROVE  Entries' = [Entries EXCEPT ![g][k] = e]
<1> DEFINE row(h) == [j \in Key |-> EntryOf(questions[h][j])]
           next(h) == [j \in Key |-> EntryOf(questions'[h][j])]
<1>1. next(g) = [row(g) EXCEPT ![k] = e]
    BY DEF OnlyAt
<1>2. \A h \in Gen : h # g => next(h) = row(h)
    BY DEF OnlyAt
<1>3. Entries = [h \in Gen |-> row(h)] /\ Entries' = [h \in Gen |-> next(h)]
    BY DEF Entries
<1> HIDE DEF row, next
<1>4. [Entries EXCEPT ![g][k] = e] = [Entries EXCEPT ![g] = [row(g) EXCEPT ![k] = e]]
    BY <1>3
<1> QED
    BY <1>1, <1>2, <1>3, <1>4

(* The entry of a question.                                                *)
LEMMA EntryIs ==
  ASSUME NEW q
  PROVE  /\ EntryOf(q).state = IF q.status \in Unfinished THEN "open" ELSE q.status
         /\ EntryOf(q).asOf = q.asOf /\ EntryOf(q).evidence = q.evidence
BY DEF EntryOf

LEMMA SameEntry ==
  ASSUME NEW q, NEW r, q.status = r.status \/ {q.status, r.status} \subseteq Unfinished,
         q.asOf = r.asOf, q.evidence = r.evidence
  PROVE  EntryOf(q) = EntryOf(r)
BY DEF EntryOf

LEMMA EntryWithdrawn ==
  ASSUME NEW q \in Question
  PROVE  /\ q.status \in Unfinished =>
              EntryOf(Cancelled(q)) = Desk!Withdraw(EntryOf(q))
         /\ q.status \notin Unfinished => Desk!Withdraw(EntryOf(q)) = EntryOf(q)
<1>1. ASSUME q.status \in Unfinished
      PROVE  EntryOf(Cancelled(q)) = Desk!Withdraw(EntryOf(q))
  <2>1. EntryOf(Cancelled(q)) =
          [state |-> "cancelled", asOf |-> q.asOf, evidence |-> q.evidence]
      BY CancelledIs DEF EntryOf, Unfinished
  <2>2. EntryOf(q) = [state |-> "open", asOf |-> q.asOf, evidence |-> q.evidence]
      BY <1>1 DEF EntryOf
  <2> QED
      BY <2>1, <2>2 DEF Desk!Withdraw
<1>2. ASSUME q.status \notin Unfinished PROVE Desk!Withdraw(EntryOf(q)) = EntryOf(q)
  <2>1. EntryOf(q).state # "open"
      BY <1>2 DEF EntryOf, Question, Unfinished, Terminal
  <2> QED
      BY <2>1 DEF Desk!Withdraw
<1> QED
    BY <1>1, <1>2

LEMMA SubmitAsks ==
  ASSUME Inv, NEW k \in Key, Submit(k)
  PROVE  Desk!Ask(k)
<1> DEFINE e == [state |-> "open", asOf |-> clock, evidence |-> {}]
<1>1. generation \in Gen
    BY DEF Inv, TypeOK
<1>2. EntryOf(questions'[generation][k]) = e
    BY SubmitMoves DEF EntryOf, Unfinished
<1> HIDE DEF e
<1>3. Entries' = [Entries EXCEPT ![generation][k] = e]
    BY <1>1, <1>2, SubmitMoves, OneEntry
<1>4. Entries[generation][k].state = "absent"
    BY <1>1, EntriesAre, EntryIs DEF Submit, Unused, Unfinished
<1>5. UNCHANGED <<generation, clock, stored>>
    BY DEF Submit
<1> QED
    BY <1>3, <1>4, <1>5 DEF Desk!Ask, Entries, e

LEMMA CancelWithdraws ==
  ASSUME Inv, NEW k \in Key, Cancel(k)
  PROVE  Desk!WithdrawOne(k)
<1> DEFINE e == Desk!Withdraw(Entries[generation][k])
<1>1. generation \in Gen /\ questions[generation][k] \in Question
    BY QuestionType DEF Inv, TypeOK
<1>2. EntryOf(questions'[generation][k]) = e
    BY <1>1, CancelMoves, EntryWithdrawn, EntriesAre DEF Cancel
<1>3. Entries' = [Entries EXCEPT ![generation][k] = e]
  <2> HIDE DEF e
  <2> QED
      BY <1>1, <1>2, CancelMoves, OneEntry
<1>4. UNCHANGED <<generation, clock, stored>>
    BY DEF Cancel
<1> QED
    BY <1>3, <1>4 DEF Desk!WithdrawOne, Entries

(* Withdrawing the questions of earlier generations, as a claim does to all *)
(* of them and a late answer to one.                                        *)
LEMMA ObsoleteWithdrawn ==
  ASSUME NEW gone \in SUBSET {g \in Gen : g < generation}, NEW keys \in SUBSET Key,
         \A g \in Gen, k \in Key : EntryOf(questions'[g][k]) =
           IF g \in gone /\ k \in keys THEN Desk!Withdraw(Entries[g][k]) ELSE Entries[g][k],
         UNCHANGED <<generation, clock, stored>>
  PROVE  Desk!WithdrawObsolete
<1>1. ASSUME NEW g \in Gen
      PROVE  [k \in Key |-> EntryOf(questions'[g][k])] =
             [k \in Key |-> IF g \in gone /\ k \in keys
                              THEN Desk!Withdraw(Entries[g][k]) ELSE Entries[g][k]]
    OBVIOUS
<1>2. Entries' = [g \in Gen |-> [k \in Key |->
        IF g \in gone /\ k \in keys THEN Desk!Withdraw(Entries[g][k]) ELSE Entries[g][k]]]
    BY <1>1 DEF Entries
<1> QED
    BY <1>2 DEF Desk!WithdrawObsolete, Desk!Epoch, Gen, Entries

LEMMA ClaimWithdraws ==
  ASSUME Inv, NEW w \in Worker, ClaimQuestion(w)
  PROVE  Desk!WithdrawObsolete
<1> DEFINE gone == {g \in Gen : g < generation}
           Right(g, j) == EntryOf(questions'[g][j]) =
             IF g \in gone /\ j \in Key THEN Desk!Withdraw(Entries[g][j]) ELSE Entries[g][j]
<1>1. generation \in Gen /\ ~(generation < generation)
    BY QuestionsAssumption DEF Inv, TypeOK, Gen
<1>2. ASSUME NEW g \in Gen, NEW j \in Key, ClaimSweeps(g, j) PROVE Right(g, j)
  <2>1. questions[g][j] \in Question /\ Entries[g][j] = EntryOf(questions[g][j])
      BY QuestionType, EntriesAre DEF Inv
  <2>2. CASE j \in Obsolete(g)
    <3>1. g \in gone /\ questions[g][j].status \in Unfinished
        BY <2>2, ObsoleteCounted
    <3>2. questions'[g][j] = Cancelled(questions[g][j])
        BY <1>2, <2>2 DEF ClaimSweeps
    <3>3. EntryOf(Cancelled(questions[g][j])) = Desk!Withdraw(EntryOf(questions[g][j]))
        BY <2>1, <3>1, EntryWithdrawn
    <3> QED
        BY <2>1, <3>1, <3>2, <3>3
  <2>3. CASE j \notin Obsolete(g)
    <3>1. questions'[g][j] = questions[g][j]
        BY <1>2, <2>3 DEF ClaimSweeps
    <3>2. g = generation \/ questions[g][j].status \notin Unfinished
        BY <2>3 DEF Obsolete
    <3>3. CASE g = generation
        BY <1>1, <2>1, <3>1, <3>3
    <3>4. CASE questions[g][j].status \notin Unfinished
        BY <2>1, <3>1, <3>4, EntryWithdrawn
    <3> QED
        BY <3>2, <3>3, <3>4
  <2> QED
      BY <2>2, <2>3
<1>3. ASSUME NEW k \in Key, Claimable(k),
             questions'[generation][k] = Claimed(questions[generation][k])
      PROVE  Right(generation, k)
  <2>1. /\ questions[generation][k] \in Question
        /\ questions[generation][k].status \in Unfinished
        /\ Entries[generation][k] = EntryOf(questions[generation][k])
      BY <1>1, <1>3, QuestionType, EntriesAre DEF Inv, Claimable, Unfinished
  <2>2. EntryOf(Claimed(questions[generation][k])) = EntryOf(questions[generation][k])
      BY <2>1, ClaimedIs, SameEntry DEF Unfinished
  <2> QED
      BY <1>1, <1>3, <2>1, <2>2
<1>4. \A g \in Gen, j \in Key : Right(g, j)
  <2> HIDE DEF Right
  <2>1. CASE \A g \in Gen, j \in Key : ClaimSweeps(g, j)
      BY <1>2, <2>1
  <2>2. CASE \E k \in Key :
               /\ Claimable(k)
               /\ questions'[generation][k] = Claimed(questions[generation][k])
               /\ \A g \in Gen, j \in Key : g # generation \/ j # k => ClaimSweeps(g, j)
    <3>1. PICK k \in Key :
               /\ Claimable(k)
               /\ questions'[generation][k] = Claimed(questions[generation][k])
               /\ \A g \in Gen, j \in Key : g # generation \/ j # k => ClaimSweeps(g, j)
        BY <2>2
    <3>2. Right(generation, k)
        BY <1>3, <3>1
    <3> QED
        BY <1>2, <3>1, <3>2
  <2> QED
      BY <2>1, <2>2, ClaimDoes
<1>5. UNCHANGED <<generation, clock, stored>>
    BY DEF ClaimQuestion
<1> QED
    BY <1>4, <1>5, ObsoleteWithdrawn

(* Writing the state and the evidence of one entry. *)
Written(g, k, state, evidence) ==
  [Entries EXCEPT ![g][k].state = state, ![g][k].evidence = evidence]

LEMMA EntryAnswered ==
  ASSUME NEW g \in Gen, NEW k \in Key, NEW state, NEW evidence
  PROVE  Written(g, k, state, evidence)
         = [Entries EXCEPT ![g][k] =
             [state |-> state, asOf |-> questions[g][k].asOf, evidence |-> evidence]]
<1> DEFINE x == EntryOf(questions[g][k])
<1>1. Entries[g][k] = x /\ DOMAIN Entries = Gen /\ DOMAIN Entries[g] = Key
    BY DEF Entries
<1> DEFINE a == questions[g][k].asOf
           st == IF questions[g][k].status \in Unfinished THEN "open"
                                                          ELSE questions[g][k].status
           old == questions[g][k].evidence
<1>2. x = [state |-> st, asOf |-> a, evidence |-> old]
    BY DEF EntryOf
<1> HIDE DEF st, a, old
<1>3. [[x EXCEPT !.state = state] EXCEPT !.evidence = evidence]
      = [state |-> state, asOf |-> a, evidence |-> evidence]
  <2>1. [[state |-> st, asOf |-> a, evidence |-> old] EXCEPT !.state = state]
        = [state |-> state, asOf |-> a, evidence |-> old]
      OBVIOUS
  <2>2. [[state |-> state, asOf |-> a, evidence |-> old] EXCEPT !.evidence = evidence]
        = [state |-> state, asOf |-> a, evidence |-> evidence]
      OBVIOUS
  <2> HIDE DEF x
  <2> QED
      BY <1>2, <2>1, <2>2, Zenon
<1> HIDE DEF x
<1>4. Written(g, k, state, evidence)
      = [Entries EXCEPT ![g][k] = [[x EXCEPT !.state = state] EXCEPT !.evidence = evidence]]
    BY <1>1 DEF Written
<1> QED
    BY <1>3, <1>4 DEF a

LEMMA SaveAnswers ==
  ASSUME Inv, NEW w \in Worker, phase[w] = "answered", Owns(w),
         questions' = [questions EXCEPT ![held[w].gen][held[w].key] = Saved(w, @)],
         revision' = [revision EXCEPT ![held[w].gen] = @ + 1],
         UNCHANGED <<generation, clock, stored>>,
         held[w].gen = generation
  PROVE  \E state \in Desk!Answered, evidence \in SUBSET Event :
           Desk!Answer(held[w].key, state, evidence)
<1> DEFINE k == held[w].key
           q == HeldQuestion(w)
           s == held[w].status
           ev == held[w].evidence
           e == [state |-> s, asOf |-> q.asOf, evidence |-> ev]
<1>1. /\ generation \in Gen /\ k \in Key /\ q \in Question /\ held[w] \in Claim
      /\ q = questions[generation][k]
      /\ s \in Outcome /\ Holds(w)
    BY HeldTyped
<1>2. /\ ev \subseteq held[w].events \ NoReading
      /\ held[w].events \subseteq Eligible(w)
      /\ s = "ready" <=> ev # {}
    BY <1>1 DEF Holds
<1>3. ev \in SUBSET Event
    BY <1>2, HeldTyped
<1>4. EntryOf(Saved(w, q)) = e
  <2>1. /\ Saved(w, q).status = s /\ Saved(w, q).asOf = q.asOf
        /\ Saved(w, q).evidence = ev
      BY <1>1, SavedIs
  <2>2. s \notin Unfinished
      BY <1>1 DEF Outcome, Unfinished
  <2> QED
      BY <2>1, <2>2 DEF EntryOf
<1>5. questions'[generation][k] = Saved(w, q) /\ OnlyAt(generation, k)
    BY SaveMoves
<1>6. Entries' = [Entries EXCEPT ![generation][k] = e]
  <2> HIDE DEF e
  <2> QED
      BY <1>1, <1>4, <1>5, OneEntry
<1>7. Entries' = [Entries EXCEPT ![generation][k].state = s, ![generation][k].evidence = ev]
  <2>1. Written(generation, k, s, ev) = [Entries EXCEPT ![generation][k] =
          [state |-> s, asOf |-> questions[generation][k].asOf, evidence |-> ev]]
    <3> HIDE DEF k, s, ev
    <3> QED
        BY <1>1, EntryAnswered
  <2> QED
      BY <1>1, <1>6, <2>1 DEF Written
<1>8. Entries[generation][k].state = "open" /\ Entries[generation][k].asOf = q.asOf
  <2>1. Entries[generation][k] = EntryOf(q)
      BY <1>1, EntriesAre
  <2>2. q.status = "running"
      BY DEF Owns
  <2> QED
      BY <2>1, <2>2 DEF EntryOf, Unfinished
<1>9. ev \subseteq Desk!KnownAsOf(generation, q.asOf) \ NoReading
    BY <1>2 DEF Eligible, Desk!KnownAsOf
<1>10. Desk!Answer(k, s, ev)
  <2> HIDE DEF k, s, ev, q
  <2> QED
      BY <1>2, <1>7, <1>8, <1>9 DEF Desk!Answer, Entries
<1> QED
    BY <1>1, <1>3, <1>10 DEF Desk!Answered, Outcome

(* An answer that comes after a reset is a withdrawal. *)
LEMMA LateSaveWithdraws ==
  ASSUME Inv, NEW w \in Worker, phase[w] = "answered", Owns(w),
         questions' = [questions EXCEPT ![held[w].gen][held[w].key] = Saved(w, @)],
         revision' = [revision EXCEPT ![held[w].gen] = @ + 1],
         UNCHANGED <<generation, clock, stored>>,
         held[w].gen # generation
  PROVE  Desk!WithdrawObsolete
<1> DEFINE g == held[w].gen
           k == held[w].key
           q == HeldQuestion(w)
<1>1. /\ g \in Gen /\ k \in Key /\ q \in Question /\ held[w] \in Claim
      /\ q = questions[g][k] /\ g <= generation
    BY HeldTyped
<1>2. g < generation
    BY <1>1 DEF Inv, TypeOK, Gen
<1>3. q.status = "running" /\ q.evidence = {}
  <2>1. q.status = "running"
      BY DEF Owns
  <2>2. q.status = "ready" <=> q.evidence # {}
      BY <1>1 DEF Inv, AnswersGrounded
  <2> QED
      BY <2>1, <2>2
<1>4. EntryOf(Saved(w, q)) = Desk!Withdraw(EntryOf(q))
  <2>1. /\ Saved(w, q).status = "cancelled" /\ Saved(w, q).asOf = q.asOf
        /\ Saved(w, q).evidence = {}
      BY <1>1, SavedIs
  <2>2. EntryOf(Saved(w, q)) = [state |-> "cancelled", asOf |-> q.asOf, evidence |-> {}]
      BY <2>1 DEF EntryOf, Unfinished
  <2>3. EntryOf(q) = [state |-> "open", asOf |-> q.asOf, evidence |-> {}]
      BY <1>3 DEF EntryOf, Unfinished
  <2> QED
      BY ONLY <2>2, <2>3 DEF Desk!Withdraw
<1>5. questions'[g][k] = Saved(w, q) /\ OnlyAt(g, k)
    BY SaveMoves
<1>6. ASSUME NEW h \in Gen, NEW j \in Key
      PROVE  EntryOf(questions'[h][j]) =
               IF h \in {g} /\ j \in {k} THEN Desk!Withdraw(Entries[h][j]) ELSE Entries[h][j]
  <2> HIDE DEF g, k, q
  <2> QED
    <3>1. Entries[h][j] = EntryOf(questions[h][j])
        BY EntriesAre
    <3>2. CASE h = g /\ j = k
        BY ONLY <1>1, <1>4, <1>5, <3>1, <3>2
    <3>3. CASE h # g \/ j # k
      <4>1. questions'[h][j] = questions[h][j]
          BY <1>5, <3>3 DEF OnlyAt
      <4> QED
          BY ONLY <3>1, <3>3, <4>1
    <3> QED
        BY <3>2, <3>3
<1>7. {g} \in SUBSET {h \in Gen : h < generation} /\ {k} \in SUBSET Key
    BY <1>1, <1>2
<1> HIDE DEF g, k, q
<1>8. UNCHANGED <<generation, clock, stored>>
    OBVIOUS
<1> QED
    BY ONLY <1>6, <1>7, <1>8, ObsoleteWithdrawn

(* Nothing an operator sees of a question changes but its retrieval. *)
LEMMA RecordKeepsEntries ==
  ASSUME Inv, NEW w \in Worker, phase[w] = "retrieved", Owns(w),
         questions' = [questions EXCEPT ![held[w].gen][held[w].key] = Shown(@)],
         revision' = [revision EXCEPT ![held[w].gen] = @ + 1]
  PROVE  Entries' = Entries
<1> DEFINE q == HeldQuestion(w)
<1>1. q = questions[held[w].gen][held[w].key] /\ q \in Question
    BY HeldTyped
<1>2. EntryOf(Shown(q)) = EntryOf(q)
  <2> HIDE DEF q
  <2>1. q \in Question
      BY <1>1
  <2> QED
      BY ONLY <2>1, ShownIs, SameEntry
<1>3. ASSUME NEW h \in Gen, NEW j \in Key
      PROVE  EntryOf(questions'[h][j]) = EntryOf(questions[h][j])
  <2> HIDE DEF q
  <2>1. questions'[held[w].gen][held[w].key] = Shown(q) /\ OnlyAt(held[w].gen, held[w].key)
      BY RecordMoves DEF q
  <2> QED
      BY <1>1, <1>2, <2>1 DEF OnlyAt
<1> QED
    BY <1>3, EntriesStay

LEMMA ExpireKeepsEntries ==
  ASSUME Inv, NEW g \in Gen, NEW k \in Key, ExpireLease(g, k)
  PROVE  Entries' = Entries
<1>1. EntryOf(questions'[g][k]) = EntryOf(questions[g][k])
    BY ExpireMoves, SameEntry
<1>2. \A h \in Gen, j \in Key : EntryOf(questions'[h][j]) = EntryOf(questions[h][j])
    BY <1>1, ExpireMoves DEF OnlyAt
<1> QED
    BY <1>2, EntriesStay

(* No step of a worker but a claim and a save changes an entry. *)
LEMMA WorkerKeepsTheDesk ==
  ASSUME Inv, NEW w \in Worker, WorkerStep(w)
  PROVE  Desk!DeskNext \/ UNCHANGED <<generation, clock, stored, Entries>>
<1>1. CASE ClaimQuestion(w)
    BY <1>1, ClaimWithdraws DEF Desk!DeskNext
<1>2. CASE RecordRetrieval(w)
  <2>1. UNCHANGED <<generation, clock, stored>>
      BY <1>2 DEF RecordRetrieval
  <2>2. questions' = questions => Entries' = Entries
      BY EntriesStay
  <2>3. Entries' = Entries
      BY <1>2, <2>2, RecordKeepsEntries DEF RecordRetrieval
  <2> QED
      BY <2>1, <2>3
<1>3. CASE SaveResult(w)
  <2>1. UNCHANGED <<generation, clock, stored>> /\ phase[w] = "answered"
      BY <1>3 DEF SaveResult
  <2>2. CASE questions' = questions
      BY <2>1, <2>2, EntriesStay
  <2>3. CASE /\ Owns(w)
             /\ questions' = [questions EXCEPT ![held[w].gen][held[w].key] = Saved(w, @)]
             /\ revision' = [revision EXCEPT ![held[w].gen] = @ + 1]
    <3>1. CASE held[w].gen = generation
      <4>1. held[w].key \in Key
          BY <2>1, HeldTyped
      <4>2. \E state \in Desk!Answered, evidence \in SUBSET Event :
              Desk!Answer(held[w].key, state, evidence)
          BY <2>1, <2>3, <3>1, SaveAnswers
      <4> QED
          BY <4>1, <4>2 DEF Desk!DeskNext
    <3>2. CASE held[w].gen # generation
        BY <2>1, <2>3, <3>2, LateSaveWithdraws DEF Desk!DeskNext
    <3> QED
        BY <3>1, <3>2
  <2> QED
      BY <1>3, <2>2, <2>3 DEF SaveResult
<1>4. CASE \/ Retrieve(w) \/ RetrieveFails(w) \/ EngineFails(w)
           \/ \E claims \in Answers : EngineAnswers(w, claims)
    BY <1>4, EntriesStay DEF Retrieve, RetrieveFails, EngineFails, EngineAnswers
<1> QED
    BY <1>1, <1>2, <1>3, <1>4 DEF WorkerStep

LEMMA DeskStep ==
  ASSUME Inv, [Next]_vars
  PROVE  [Desk!DeskNext]_<<generation, clock, stored, Entries>>
<1>1. UNCHANGED questions => Entries' = Entries
    BY EntriesStay
<1>2. ASSUME NEW e \in Event, Ingest(e) PROVE Desk!Learn(e)
    BY <1>1, <1>2 DEF Ingest, Desk!Learn, Entries
<1>3. ASSUME NEW ms \in Time, Tick(ms) PROVE Desk!Advance(ms)
  <2>1. ms >= clock
      BY <1>3, QuestionsAssumption DEF Tick, Inv, TypeOK, Time
  <2> QED
      BY <1>1, <1>3, <2>1 DEF Tick, Desk!Advance, Entries
<1>4. CASE Reset
    BY <1>1, <1>4 DEF Reset, Desk!StartOver, Desk!DeskNext, Entries
<1>5. ASSUME NEW k \in Key, Submit(k) \/ Cancel(k) PROVE Desk!Ask(k) \/ Desk!WithdrawOne(k)
    BY <1>5, SubmitAsks, CancelWithdraws
<1>6. ASSUME NEW g \in Gen, NEW k \in Key, ExpireLease(g, k)
      PROVE  UNCHANGED <<generation, clock, stored, Entries>>
    BY <1>6, ExpireKeepsEntries DEF ExpireLease
<1>7. ASSUME Restart \/ UNCHANGED vars
      PROVE  UNCHANGED <<generation, clock, stored, Entries>>
    BY <1>1, <1>7 DEF Restart, vars
<1>8. (\E e \in Event : Ingest(e)) \/ (\E ms \in Time : Tick(ms))
      \/ (\E k \in Key : Submit(k) \/ Cancel(k)) => Desk!DeskNext
    BY <1>2, <1>3, <1>5 DEF Desk!DeskNext, Desk!Moment, Time
<1> QED
    BY <1>4, <1>6, <1>7, <1>8, WorkerKeepsTheDesk DEF Next, Desk!DeskNext

LEMMA DeskStart == Init => Desk!DeskInit
<1> SUFFICES ASSUME Init PROVE Desk!DeskInit
    OBVIOUS
<1>1. EntryOf(NoQuestion) = Desk!NoEntry
    BY DEF EntryOf, NoQuestion, Unfinished, Desk!NoEntry
<1>2. Entries = [g \in Gen |-> [k \in Key |-> Desk!NoEntry]]
  <2>1. \A g \in Gen, k \in Key : questions[g][k] = NoQuestion
      BY DEF Init
  <2>2. \A g \in Gen : [k \in Key |-> EntryOf(questions[g][k])] = [k \in Key |-> Desk!NoEntry]
      BY <1>1, <2>1
  <2> QED
      BY <2>2 DEF Entries
<1>3. generation = 0 /\ clock = 0 /\ stored = [g \in Gen |-> {}]
    BY DEF Init
<1> QED
    BY <1>2, <1>3 DEF Desk!DeskInit, Desk!Epoch, Gen, Entries

(* With the queue, the leases, the workers and the retries left out, the   *)
(* service behaves as the question desk: each question is frozen at its    *)
(* time and answered at most once, in its own generation, from what was    *)
(* known as of that time.                                                  *)
THEOREM QuestionsImplementTheDesk == Spec => ImplementsDesk
<1>1. Inv /\ [Next]_vars => [Desk!DeskNext]_(Desk!qdvars)
    BY DeskStep DEF Desk!qdvars, Entries
<1> QED
    BY <1>1, DeskStart, InvAlways, PTL DEF Spec, ImplementsDesk, Desk!DeskSpec
=============================================================================
