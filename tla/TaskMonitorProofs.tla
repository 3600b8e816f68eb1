-------------------------- MODULE TaskMonitorProofs -------------------------
(***************************************************************************)
(* What the abstract monitor guarantees, for every value of its constants. *)
(***************************************************************************)
EXTENDS TaskMonitor, TLAPS

MonitorInv == MonitorTypeOK /\ SourcesDisjoint

LEMMA BlankInv == ASSUME MonitorAssumption, Blank PROVE MonitorInv
<1>1. 0 \in Moment
    BY DEF MonitorAssumption, Moment
<1>2. MonitorTypeOK
    BY <1>1 DEF Blank, MonitorTypeOK
<1>3. SourcesDisjoint
    BY DEF Blank, SourcesDisjoint
<1> QED
    BY <1>2, <1>3 DEF MonitorInv

LEMMA NextMonitorInv ==
  ASSUME MonitorAssumption, MonitorInv, [MonitorNext]_tmvars
  PROVE  MonitorInv'
<1> USE DEF MonitorInv
<1>1. ASSUME NEW e \in Event, NEW ms \in Moment, Arrive(e, ms) PROVE MonitorInv'
  <2>1. MonitorTypeOK'
      BY <1>1 DEF Arrive, MonitorTypeOK
  <2>2. SourcesDisjoint'
      BY <1>1 DEF Arrive, MonitorTypeOK, SourcesDisjoint
  <2> QED
      BY <2>1, <2>2
<1>2. ASSUME NEW e \in Event, Read(e) PROVE MonitorInv'
  <2>1. MonitorTypeOK'
      BY <1>2 DEF Read, MonitorTypeOK
  <2>2. /\ \A f \in Event : input[f] = "read" => input'[f] = "read"
        /\ input'[e] = "read"
      BY <1>2 DEF Read, MonitorTypeOK
  <2>3. \A t \in Task : e \notin sources[t]
      BY <1>2 DEF Read, Readable, MonitorTypeOK, SourcesDisjoint
  <2>4. ASSUME sources' = sources PROVE SourcesDisjoint'
      BY <2>2, <2>4 DEF MonitorTypeOK, SourcesDisjoint
  <2>5. ASSUME NEW t \in Task, sources' = [sources EXCEPT ![t] = @ \cup {e}]
        PROVE  SourcesDisjoint'
    <3>1. \A u \in Task : sources'[u] = IF u = t THEN sources[u] \cup {e} ELSE sources[u]
        BY <2>5 DEF MonitorTypeOK
    <3>2. \A u \in Task : \A f \in sources'[u] : input'[f] = "read"
      <4> SUFFICES ASSUME NEW u \in Task, NEW f \in sources'[u] PROVE input'[f] = "read"
          OBVIOUS
      <4>1. f = e \/ f \in sources[u]
          BY <3>1
      <4>2. f \in sources[u] => f \in Event /\ input[f] = "read"
          BY DEF MonitorTypeOK, SourcesDisjoint
      <4> QED
          BY <2>2, <4>1, <4>2
    <3>3. \A u, v \in Task : u # v => sources'[u] \cap sources'[v] = {}
        BY <2>3, <3>1 DEF SourcesDisjoint
    <3> QED
        BY <3>2, <3>3 DEF SourcesDisjoint
  <2>6. sources' = sources \/ \E t \in Task : sources' = [sources EXCEPT ![t] = @ \cup {e}]
      BY <1>2 DEF Read
  <2> QED
      BY <2>1, <2>4, <2>5, <2>6
<1>3. ASSUME NEW e \in Event, GiveUp(e) PROVE MonitorInv'
  <2>1. MonitorTypeOK'
      BY <1>3 DEF GiveUp, MonitorTypeOK
  <2>2. SourcesDisjoint'
      BY <1>3 DEF GiveUp, Readable, MonitorTypeOK, SourcesDisjoint
  <2> QED
      BY <2>1, <2>2
<1>4. ASSUME NEW ms \in Moment, Advance(ms) PROVE MonitorInv'
  <2>1. MonitorTypeOK'
      BY <1>4 DEF Advance, MonitorTypeOK
  <2>2. SourcesDisjoint'
      BY <1>4 DEF Advance, SourcesDisjoint
  <2> QED
      BY <2>1, <2>2
<1>5. CASE StartOver
  <2>1. 0 \in Moment
      BY DEF MonitorAssumption, Moment
  <2>2. MonitorTypeOK'
      BY <1>5, <2>1 DEF StartOver, MonitorTypeOK
  <2>3. SourcesDisjoint'
      BY <1>5 DEF StartOver, SourcesDisjoint
  <2> QED
      BY <2>2, <2>3
<1>6. CASE UNCHANGED tmvars
    BY <1>6 DEF tmvars, MonitorTypeOK, SourcesDisjoint
<1> QED
    BY <1>1, <1>2, <1>3, <1>4, <1>5, <1>6 DEF MonitorNext

(* No message decides two tasks, and none decides one before it is read. *)
THEOREM SourcesNeverShared ==
  ASSUME MonitorAssumption
  PROVE  MonitorSpec => []SourcesDisjoint
<1>1. Blank => MonitorInv
    BY BlankInv
<1>2. MonitorInv /\ [MonitorNext]_tmvars => MonitorInv'
    BY NextMonitorInv
<1>3. MonitorInv => SourcesDisjoint
    BY DEF MonitorInv
<1> QED
    BY <1>1, <1>2, <1>3, PTL DEF MonitorSpec
=============================================================================
