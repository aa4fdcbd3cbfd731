------------------------- MODULE RollingReportProofs -------------------------
(***************************************************************************)
(* What holds of RollingReport for any tasks, sources, contents and        *)
(* producers, however many edits, deployments and faults there are.        *)
(***************************************************************************)
EXTENDS RollingReport, Aggregates, TLAPS

(* The reading passes open a source that is still to be opened.            *)
LEMMA FirstIsMember ==
  ASSUME NEW S \in SUBSET Sources, S # {}
  PROVE  First(S) \in S
<1>1. S \in SUBSET Nat
  BY SourcesAssumption
<1>2. \E m \in S : \A n \in S : m <= n
  BY <1>1, LeastNatural
<1> QED BY <1>2 DEF First

-----------------------------------------------------------------------------
(* Type correctness needs two facts about where a run is: between its two  *)
(* connections to a source that source is still pending, and a run that    *)
(* gets to the contract has made a report.                                 *)
SourceIsPending == \A p \in Producers : pc[p] = "records" => pending[p] # {}
ReportIsMade == \A p \in Producers : pc[p] = "contract" => made[p] # NoReport
TypeInv == TypeOK /\ SourceIsPending /\ ReportIsMade

LEMMA LegacyReportType ==
  ASSUME NEW D \in SUBSET Tasks, NEW r \in Records
  PROVE  LegacyReport(D, r) \in Report
<1>1. NoRevision \in Revisions /\ Unknown \in Created
  BY BoundsAssumption DEF NoRevision, Revisions, Unknown, Created
<1>2. NoEvidence \in Evidence
  BY EvidenceAssumption
<1>3. [logic |-> NoRevision, record |-> r, evidence |-> NoEvidence] \in Decision
  BY <1>1, <1>2 DEF Decision
<1>4. [decision |-> [logic |-> NoRevision, record |-> r, evidence |-> NoEvidence],
       created |-> Unknown, recordPrint |-> NoPrint, evidencePrint |-> NoPrint]
        \in Artifact
  BY <1>1, <1>3 DEF Artifact
<1> QED BY <1>1, <1>4 DEF LegacyReport, Report

LEMMA TypeInit == Init => TypeInv
<1> SUFFICES ASSUME Init PROVE TypeInv
  OBVIOUS
<1>1. NoRevision \in Revisions /\ Unknown \in Created /\ NoEvidence \in Evidence
  BY BoundsAssumption, EvidenceAssumption
  DEF NoRevision, Revisions, Unknown, Created
<1>2. rows \in [Sources -> [Tasks -> Row \cup {Absent}]]
  BY InitialRowsAssumption DEF Init
<1>3. report \in Report \cup {NoReport}
  BY LegacyReportType DEF Init
<1>4. edits \in 0 .. MaxEdits /\ faults \in 0 .. MaxFaults
  BY BoundsAssumption DEF Init
<1>5. TypeOK
  BY <1>1, <1>2, <1>3, <1>4 DEF Init, TypeOK, Steps
<1>6. SourceIsPending /\ ReportIsMade
  BY DEF Init, SourceIsPending, ReportIsMade
<1> QED BY <1>5, <1>6 DEF TypeInv

LEMMA WinnerType ==
  ASSUME TypeOK, NEW p \in Producers, NEW t \in Winners(p)
  PROVE  t \in Tasks /\ picked[p][t] \in Sourced
BY DEF TypeOK, Winners

LEMMA WatermarkType ==
  ASSUME TypeOK, NEW p \in Producers
  PROVE  CurrentWatermark(p) \in Created
<1> DEFINE known == {picked[p][t].created : t \in Winners(p)}
<1>1. known \in SUBSET (0 .. MaxTime)
  BY WinnerType DEF Sourced, Created
<1>2. CASE known = {}
  BY <1>2, BoundsAssumption DEF CurrentWatermark, Unknown, Created
<1>3. CASE known # {}
  <2>1. \E m \in known : \A k \in known : k <= m
    <3> HIDE DEF known
    <3> QED BY <1>1, <1>3, GreatestBelow, BoundsAssumption
  <2>2. (CHOOSE m \in known : \A k \in known : k <= m) \in known
    BY <2>1
  <2> QED BY <1>1, <1>3, <2>2 DEF CurrentWatermark, Created
<1> QED BY <1>2, <1>3

LEMMA ExistingType ==
  ASSUME TypeOK, NEW p \in Producers, NEW t \in Tasks
  PROVE  Existing(p, t) \in Artifact \cup {Absent}
BY DEF TypeOK, Existing, Report

LEMMA DecideType ==
  ASSUME TypeOK, NEW p \in Producers, NEW t \in Winners(p)
  PROVE  Decide(p, t) \in Artifact
<1>1. picked[p][t] \in Sourced /\ t \in Tasks
  BY WinnerType
<1>2. loaded[p] \in Revisions /\ seen[p][t] \in Evidence
  BY <1>1 DEF TypeOK
<1> QED BY <1>1, <1>2 DEF Decide, Artifact, Decision, Sourced

(* The report a run assembles is a report.                                 *)
LEMMA ProducedType ==
  ASSUME TypeOK, NEW p \in Producers
  PROVE  Produced(p) \in Report
<1>1. CurrentWatermark(p) \in Created
  BY WatermarkType
<1>2. label[p] \in Revisions
  BY DEF TypeOK
<1>3. \A t \in Tasks :
        (IF t \in Refreshed(p) THEN Decide(p, t) ELSE Existing(p, t)) \in Artifact \cup {Absent}
  <2> TAKE t \in Tasks
  <2>1. CASE t \in Refreshed(p)
    <3>1. t \in Winners(p)
      BY <2>1 DEF Refreshed
    <3> QED BY <2>1, <3>1, DecideType
  <2>2. CASE t \notin Refreshed(p)
    BY <2>2, ExistingType
  <2> QED BY <2>1, <2>2
<1> QED BY <1>1, <1>2, <1>3 DEF Produced, Report

LEMMA TypeNext == TypeInv /\ [Next]_vars => TypeInv'
<1> SUFFICES ASSUME TypeInv, [Next]_vars PROVE TypeInv'
  OBVIOUS
<1> USE DEF TypeInv
<1>a. NoRevision \in Revisions /\ Unknown \in Created /\ NoEvidence \in Evidence
  BY BoundsAssumption, EvidenceAssumption
  DEF NoRevision, Revisions, Unknown, Created
<1>1. ASSUME NEW s \in Sources, NEW t \in Tasks, NEW row \in Row \cup {Absent},
             EditRow(s, t, row)
      PROVE  TypeInv'
  <2>1. rows' \in [Sources -> [Tasks -> Row \cup {Absent}]]
    BY <1>1 DEF EditRow, TypeOK
  <2>2. edits' \in 0 .. MaxEdits
    BY <1>1, BoundsAssumption DEF EditRow, TypeOK
  <2>3. UNCHANGED <<code, files, faults, pc, locals>>
    BY <1>1 DEF EditRow
  <2> QED BY <2>1, <2>2, <2>3
      DEF TypeOK, SourceIsPending, ReportIsMade, files, locals
<1>2. ASSUME NEW revision \in Revisions \ {NoRevision}, Deploy(revision)
      PROVE  TypeInv'
  <2>1. edits' \in 0 .. MaxEdits
    BY <1>2, BoundsAssumption DEF Deploy, TypeOK
  <2>2. code' \in Revisions /\ UNCHANGED <<rows, files, faults, pc, locals>>
    BY <1>2 DEF Deploy
  <2> QED BY <2>1, <2>2
      DEF TypeOK, SourceIsPending, ReportIsMade, files, locals
<1>f. Fault \/ NoFault => faults' \in 0 .. MaxFaults
  BY BoundsAssumption DEF Fault, NoFault, TypeOK
<1>e. ASSUME NEW p \in Producers, Exit(p), UNCHANGED <<env, report>>,
             faults' \in 0 .. MaxFaults,
             contract' \in [Tasks -> Decision \cup {Absent}]
      PROVE  TypeInv'
  <2>1. TypeOK'
    BY <1>e, <1>a DEF Exit, TypeOK, env, Steps
  <2>2. SourceIsPending' /\ ReportIsMade'
    BY <1>e DEF Exit, TypeOK, SourceIsPending, ReportIsMade
  <2> QED BY <2>1, <2>2
<1>3. ASSUME NEW p \in Producers, Start(p)
      PROVE  TypeInv'
  <2>1. TypeOK'
    BY <1>3, <1>f DEF Start, TypeOK, env, files, Steps
  <2>2. SourceIsPending' /\ ReportIsMade'
    BY <1>3 DEF Start, TypeOK, SourceIsPending, ReportIsMade
  <2> QED BY <2>1, <2>2
<1>4. ASSUME NEW p \in Producers, ReadCreated(p)
      PROVE  TypeInv'
  <2>1. First(pending[p]) \in Sources
    BY <1>4, FirstIsMember DEF ReadCreated, TypeOK
  <2> DEFINE known == [t \in Tasks |->
               LET row == rows[First(pending[p])][t]
               IN  IF row = Absent THEN Unknown ELSE row.created]
             none == [t \in Tasks |-> Unknown]
  <2>2. known \in [Tasks -> Created] /\ none \in [Tasks -> Created]
    BY <2>1, <1>a DEF TypeOK, Row
  <2>3. created' \in [Producers -> [Tasks -> Created]]
    <3>1. created' = [created EXCEPT ![p] = known] \/ created' = [created EXCEPT ![p] = none]
      BY <1>4 DEF ReadCreated
    <3> HIDE DEF known
    <3> HIDE DEF none
    <3> QED BY <2>2, <3>1 DEF TypeOK
  <2>4. TypeOK'
    BY <1>4, <1>f, <2>3 DEF ReadCreated, TypeOK, env, files, Steps
  <2>5. SourceIsPending' /\ ReportIsMade'
    BY <1>4 DEF ReadCreated, TypeOK, SourceIsPending, ReportIsMade
  <2> QED BY <2>4, <2>5
<1>5. ASSUME NEW p \in Producers, ReadRecords(p)
      PROVE  TypeInv'
  <2>1. First(pending[p]) \in Sources
    BY <1>5, FirstIsMember DEF ReadRecords, SourceIsPending, TypeOK
  <2>2. ASSUME NEW s \in Sources
        PROVE  MergeSource(p, s) \in [Tasks -> Sourced \cup {Absent}]
    BY DEF MergeSource, TypeOK, Row, Sourced
  <2>3. picked' \in [Producers -> [Tasks -> Sourced \cup {Absent}]]
    BY <1>5, <2>1, <2>2 DEF ReadRecords, TypeOK
  <2>4. pending' \in [Producers -> SUBSET Sources]
    BY <1>5 DEF ReadRecords, TypeOK, Next1
  <2>5. TypeOK'
    BY <1>5, <1>f, <2>3, <2>4 DEF ReadRecords, TypeOK, env, files, Steps
  <2>6. SourceIsPending' /\ ReportIsMade'
    BY <1>5 DEF ReadRecords, TypeOK, SourceIsPending, ReportIsMade
  <2> QED BY <2>5, <2>6
<1>6. ASSUME NEW p \in Producers, ReadRevision(p)
      PROVE  TypeInv'
  <2>1. {picked[p][t].source : t \in Winners(p)} \in SUBSET Sources
    BY WinnerType DEF Sourced
  <2>2. TypeOK'
    BY <1>6, <2>1 DEF ReadRevision, TypeOK, env, files, Steps
  <2>3. SourceIsPending' /\ ReportIsMade'
    BY <1>6 DEF ReadRevision, TypeOK, SourceIsPending, ReportIsMade
  <2> QED BY <2>2, <2>3
<1>7. ASSUME NEW p \in Producers, ReadEvidence(p)
      PROVE  TypeInv'
  <2> DEFINE s == First(pending[p])
             mine == {t \in Winners(p) : picked[p][t].source = s}
             e == [t \in Tasks |-> IF t \in mine /\ rows[s][t] # Absent
                                  THEN rows[s][t].evidence ELSE seen[p][t]]
  <2>1. s \in Sources
    BY <1>7, FirstIsMember DEF ReadEvidence, TypeOK
  <2>2. e \in [Tasks -> Evidence]
    <3> HIDE DEF s
    <3> HIDE DEF mine
    <3> QED BY <2>1 DEF TypeOK, Row
  <2>3. seen' \in [Producers -> [Tasks -> Evidence]]
    <3>1. seen' = [seen EXCEPT ![p] = e] \/ seen' = seen
      BY <1>7 DEF ReadEvidence
    <3> HIDE DEF e
    <3> QED BY <2>2, <3>1 DEF TypeOK
  <2>4. pending' \in [Producers -> SUBSET Sources]
    BY <1>7 DEF ReadEvidence, TypeOK, Next1
  <2>5. faults' \in 0 .. MaxFaults
    BY <1>7, <1>f DEF ReadEvidence
  <2>6. UNCHANGED <<env, files, pc, loaded, label, prior, created, picked, made>>
    BY <1>7 DEF ReadEvidence
  <2>7. TypeOK'
    BY <2>3, <2>4, <2>5, <2>6 DEF TypeOK, env, files
  <2>8. pc[p] = "evidence" /\ \A q \in Producers \ {p} : pending'[q] = pending[q]
    BY <1>7 DEF ReadEvidence, TypeOK
  <2>9. SourceIsPending' /\ ReportIsMade'
    BY <2>6, <2>8 DEF SourceIsPending, ReportIsMade
  <2> QED BY <2>7, <2>9
<1>8. ASSUME NEW p \in Producers, Save(p)
      PROVE  TypeInv'
  <2>1. Produced(p) \in Report
    BY ProducedType
  <2>2. Produced(p) # NoReport
    BY <2>1, SentinelsAssumption
  <2>3. TypeOK'
    BY <1>8, <2>1 DEF Save, TypeOK, env, Steps
  <2>4. SourceIsPending' /\ ReportIsMade'
    BY <1>8, <2>2 DEF Save, TypeOK, SourceIsPending, ReportIsMade
  <2> QED BY <2>3, <2>4
<1>9. ASSUME NEW p \in Producers, WriteContract(p)
      PROVE  TypeInv'
  <2>1. made[p] \in Report
    BY <1>9 DEF WriteContract, ReportIsMade, TypeOK
  <2>2. \A t \in Winners(p) : made[p].decisions[t].decision \in Decision
    BY <1>9, <2>1, WinnerType DEF WriteContract, Report, Artifact
  <2>3. contract' \in [Tasks -> Decision \cup {Absent}]
    BY <1>9, <2>2 DEF WriteContract
  <2>4. faults' \in 0 .. MaxFaults
    BY <1>9 DEF WriteContract, TypeOK
  <2>5. Exit(p) /\ UNCHANGED <<env, report>>
    BY <1>9 DEF WriteContract
  <2> QED BY <1>e, <2>3, <2>4, <2>5
<1>10. ASSUME NEW p \in Producers, Crash(p)
       PROVE  TypeInv'
  <2>1. faults' \in 0 .. MaxFaults
    BY <1>10, <1>f DEF Crash
  <2>2. contract' \in [Tasks -> Decision \cup {Absent}]
    BY <1>10 DEF Crash, files, TypeOK
  <2>3. Exit(p) /\ UNCHANGED <<env, report>>
    BY <1>10 DEF Crash, files
  <2> QED BY <1>e, <2>1, <2>2, <2>3
<1>11. CASE UNCHANGED vars
  BY <1>11 DEF vars, env, files, locals, TypeOK, SourceIsPending, ReportIsMade
<1> QED BY <1>1, <1>2, <1>3, <1>4, <1>5, <1>6, <1>7, <1>8, <1>9, <1>10, <1>11
    DEF Next, Run

(* Every state of the producer, its inputs and its files is well typed; in *)
(* particular the report that is published is one the next run can load.   *)
THEOREM TypeCorrect == Spec => []TypeOK
<1>1. TypeInv => TypeOK
  BY DEF TypeInv
<1> QED BY <1>1, TypeInit, TypeNext, PTL DEF Spec

-----------------------------------------------------------------------------
(* Why skipping is safe.  A fingerprint in an artifact is the fingerprint  *)
(* of what its decision was made from; a fingerprint that is missing says  *)
(* nothing, but then it matches no record and no evidence either.          *)
Faithful(r) ==
  r # NoReport => \A t \in Tasks : r.decisions[t] # Absent =>
    LET a == r.decisions[t] IN
    /\ a.recordPrint # NoPrint => a.decision.record = a.recordPrint
    /\ a.evidencePrint # NoPrint => a.decision.evidence = a.evidencePrint

PrintsAreFaithful == Faithful(report) /\ \A p \in Producers : Faithful(prior[p])

SkipInv == TypeInv /\ PrintsAreFaithful /\ IncrementalIsFull /\ RelabelRefreshes

(* What Save leaves for the tasks the run read.                            *)
LEMMA ProducedOfWinner ==
  ASSUME TypeInv, PrintsAreFaithful, NEW p \in Producers, NEW t \in Winners(p)
  PROVE  LET d == Produced(p).decisions[t] IN
         /\ d # Absent
         /\ d.decision.record = picked[p][t].record
         /\ d.decision.evidence = seen[p][t]
         /\ \/ d = Decide(p, t)
            \/ /\ prior[p] # NoReport
               /\ prior[p].label = label[p]
               /\ d = prior[p].decisions[t]
<1>1. t \in Tasks /\ picked[p][t] \in Sourced /\ TypeOK
  BY WinnerType DEF TypeInv
<1>2. CASE t \in Refreshed(p)
  <2>1. Produced(p).decisions[t] = Decide(p, t)
    BY <1>1, <1>2 DEF Produced
  <2>2. Decide(p, t) # Absent
    BY <1>1, DecideType, SentinelsAssumption
  <2> QED BY <2>1, <2>2 DEF Decide
<1>3. CASE t \notin Refreshed(p)
  <2> DEFINE a == Existing(p, t)
  <2>1. Produced(p).decisions[t] = a
    BY <1>1, <1>3 DEF Produced
  <2>2. ~PolicyMoved(p) /\ ~IsNew(p, t)
    BY <1>3 DEF Refreshed
  <2>3. prior[p] # NoReport /\ prior[p].label = label[p] /\ a = prior[p].decisions[t]
    BY <2>2 DEF PolicyMoved, Existing
  <2>4. a # Absent /\ a.recordPrint = picked[p][t].record /\ a.evidencePrint = seen[p][t]
    BY <2>2 DEF IsNew
  <2>5. a.recordPrint # NoPrint /\ a.evidencePrint # NoPrint
    BY <1>1, <2>4, SentinelsAssumption DEF TypeOK, Sourced
  <2>6. a.decision.record = a.recordPrint /\ a.decision.evidence = a.evidencePrint
    BY <1>1, <2>3, <2>4, <2>5 DEF PrintsAreFaithful, Faithful
  <2> QED BY <2>1, <2>3, <2>4, <2>6
<1> QED BY <1>2, <1>3

LEMMA ProducedIsFaithful ==
  ASSUME TypeInv, PrintsAreFaithful, NEW p \in Producers
  PROVE  Faithful(Produced(p))
<1> SUFFICES ASSUME NEW t \in Tasks, Produced(p).decisions[t] # Absent
             PROVE  LET a == Produced(p).decisions[t] IN
                    /\ a.recordPrint # NoPrint => a.decision.record = a.recordPrint
                    /\ a.evidencePrint # NoPrint => a.decision.evidence = a.evidencePrint
  BY DEF Faithful
<1>1. CASE t \in Refreshed(p)
  <2>1. Produced(p).decisions[t] = Decide(p, t)
    BY <1>1 DEF Produced
  <2> QED BY <2>1 DEF Decide
<1>2. CASE t \notin Refreshed(p)
  <2>1. Produced(p).decisions[t] = Existing(p, t)
    BY <1>2 DEF Produced
  <2>2. prior[p] # NoReport /\ Existing(p, t) = prior[p].decisions[t]
    BY <2>1 DEF Existing
  <2> QED BY <2>1, <2>2 DEF PrintsAreFaithful, Faithful
<1> QED BY <1>1, <1>2

LEMMA SkipInit == Init => SkipInv
<1> SUFFICES ASSUME Init PROVE SkipInv
  OBVIOUS
<1>1. TypeInv
  BY TypeInit
<1>2. ASSUME NEW D \in SUBSET Tasks, NEW r \in Records
      PROVE  Faithful(LegacyReport(D, r))
  BY DEF Faithful, LegacyReport
<1>3. Faithful(NoReport)
  BY DEF Faithful
<1>4. PrintsAreFaithful
  BY <1>2, <1>3 DEF Init, PrintsAreFaithful
<1>5. IncrementalIsFull /\ RelabelRefreshes
  BY DEF Init, IncrementalIsFull, RelabelRefreshes
<1> QED BY <1>1, <1>4, <1>5 DEF SkipInv

(* A step of a run that keeps what it read, or that is not at the contract *)
(* afterwards, cannot disturb what is said of runs at the contract.        *)
LEMMA ContractFrame ==
  ASSUME IncrementalIsFull, RelabelRefreshes,
         \A q \in Producers : pc'[q] = "contract" =>
           /\ pc[q] = "contract" /\ made'[q] = made[q] /\ picked'[q] = picked[q]
           /\ seen'[q] = seen[q] /\ loaded'[q] = loaded[q]
           /\ label'[q] = label[q] /\ prior'[q] = prior[q]
  PROVE  IncrementalIsFull' /\ RelabelRefreshes'
BY DEF IncrementalIsFull, RelabelRefreshes, Winners

LEMMA SkipNext == SkipInv /\ [Next]_vars => SkipInv'
<1> SUFFICES ASSUME SkipInv, [Next]_vars PROVE SkipInv'
  OBVIOUS
<1>t. TypeInv /\ TypeOK /\ TypeInv' /\ PrintsAreFaithful
      /\ IncrementalIsFull /\ RelabelRefreshes
  BY TypeNext DEF SkipInv, TypeInv
<1>f. Faithful(NoReport)
  BY DEF Faithful
<1>1. ASSUME NEW s \in Sources, NEW t \in Tasks, NEW row \in Row \cup {Absent},
             EditRow(s, t, row)
      PROVE  SkipInv'
  <2>1. UNCHANGED <<report, pc, loaded, label, prior, picked, seen, made>>
    BY <1>1 DEF EditRow, files, locals
  <2>2. PrintsAreFaithful'
    BY <1>t, <2>1 DEF PrintsAreFaithful, Faithful
  <2> QED BY <1>t, <2>1, <2>2, ContractFrame DEF SkipInv
<1>2. ASSUME NEW revision \in Revisions \ {NoRevision}, Deploy(revision)
      PROVE  SkipInv'
  <2>1. UNCHANGED <<report, pc, loaded, label, prior, picked, seen, made>>
    BY <1>2 DEF Deploy, files, locals
  <2>2. PrintsAreFaithful'
    BY <1>t, <2>1 DEF PrintsAreFaithful, Faithful
  <2> QED BY <1>t, <2>1, <2>2, ContractFrame DEF SkipInv
<1>3. ASSUME NEW p \in Producers, Start(p)
      PROVE  SkipInv'
  <2>1. report' = report /\ \A q \in Producers : prior'[q] \in {prior[q], report, NoReport}
    BY <1>3, <1>t DEF Start, files, TypeOK
  <2>2. PrintsAreFaithful'
    BY <1>t, <1>f, <2>1 DEF PrintsAreFaithful, Faithful
  <2>3. \A q \in Producers : pc'[q] = "contract" => q # p
    BY <1>3, <1>t DEF Start, TypeOK
  <2>4. IncrementalIsFull' /\ RelabelRefreshes'
    BY <1>3, <1>t, <2>3, ContractFrame DEF Start, TypeOK
  <2> QED BY <1>t, <2>2, <2>4 DEF SkipInv
<1>4. ASSUME NEW p \in Producers,
             ReadCreated(p) \/ ReadRecords(p) \/ ReadRevision(p) \/ ReadEvidence(p)
      PROVE  SkipInv'
  <2>1. UNCHANGED <<report, prior, loaded, made>>
    BY <1>4 DEF ReadCreated, ReadRecords, ReadRevision, ReadEvidence, files
  <2>2. PrintsAreFaithful'
    BY <1>t, <2>1 DEF PrintsAreFaithful, Faithful
  <2>3. \A q \in Producers : pc'[q] = "contract" => q # p /\ pc[q] = "contract"
    BY <1>4, <1>t DEF ReadCreated, ReadRecords, ReadRevision, ReadEvidence, TypeOK
  <2>4. \A q \in Producers \ {p} :
          picked'[q] = picked[q] /\ seen'[q] = seen[q] /\ label'[q] = label[q]
    BY <1>4, <1>t DEF ReadCreated, ReadRecords, ReadRevision, ReadEvidence, TypeOK
  <2>5. IncrementalIsFull' /\ RelabelRefreshes'
    BY <1>t, <2>1, <2>3, <2>4, ContractFrame
  <2> QED BY <1>t, <2>2, <2>5 DEF SkipInv
<1>5. ASSUME NEW p \in Producers, Save(p)
      PROVE  SkipInv'
  <2>1. report' = Produced(p) /\ made'[p] = Produced(p)
        /\ UNCHANGED <<loaded, label, prior, picked, seen>>
    BY <1>5, <1>t DEF Save, TypeOK
  <2>2. PrintsAreFaithful'
    <3>1. Faithful(report')
      BY <1>t, <2>1, ProducedIsFaithful
    <3> QED BY <1>t, <2>1, <3>1 DEF PrintsAreFaithful, Faithful
  <2>3. \A q \in Producers \ {p} : pc'[q] = pc[q] /\ made'[q] = made[q]
    BY <1>5, <1>t DEF Save, TypeOK
  <2>4. \A t \in Winners(p) :
          /\ made'[p].decisions[t] # Absent
          /\ made'[p].decisions[t].decision.record = picked[p][t].record
          /\ made'[p].decisions[t].decision.evidence = seen[p][t]
    BY <1>t, <2>1, ProducedOfWinner
  <2>5. \/ prior[p] # NoReport /\ prior[p].label = label[p]
        \/ \A t \in Winners(p) : made'[p].decisions[t].decision.logic = loaded[p]
    <3>1. ASSUME NEW t \in Winners(p),
                 ~(prior[p] # NoReport /\ prior[p].label = label[p])
          PROVE  made'[p].decisions[t].decision.logic = loaded[p]
      <4>1. Produced(p).decisions[t] = Decide(p, t)
        BY <1>t, <3>1, ProducedOfWinner
      <4> QED BY <2>1, <4>1 DEF Decide
    <3> QED BY <3>1
  <2>6. IncrementalIsFull' /\ RelabelRefreshes'
    BY <1>t, <2>1, <2>3, <2>4, <2>5 DEF IncrementalIsFull, RelabelRefreshes, Winners
  <2> QED BY <1>t, <2>2, <2>6 DEF SkipInv
<1>6. ASSUME NEW p \in Producers, WriteContract(p) \/ Crash(p)
      PROVE  SkipInv'
  <2>1. Exit(p) /\ report' = report
    BY <1>6 DEF WriteContract, Crash, files
  <2>2. \A q \in Producers : prior'[q] \in {prior[q], NoReport}
    BY <2>1, <1>t DEF Exit, TypeOK
  <2>3. PrintsAreFaithful'
    BY <1>t, <1>f, <2>1, <2>2 DEF PrintsAreFaithful, Faithful
  <2>4. \A q \in Producers : pc'[q] = "contract" => q # p
    BY <2>1, <1>t DEF Exit, TypeOK
  <2>5. IncrementalIsFull' /\ RelabelRefreshes'
    BY <1>t, <2>1, <2>4, ContractFrame DEF Exit, TypeOK
  <2> QED BY <1>t, <2>3, <2>5 DEF SkipInv
<1>7. CASE UNCHANGED vars
  <2>1. UNCHANGED <<report, pc, loaded, label, prior, picked, seen, made>>
    BY <1>7 DEF vars, files, locals
  <2>2. PrintsAreFaithful'
    BY <1>t, <2>1 DEF PrintsAreFaithful, Faithful
  <2> QED BY <1>t, <2>1, <2>2, ContractFrame DEF SkipInv
<1> QED BY <1>1, <1>2, <1>3, <1>4, <1>5, <1>6, <1>7 DEF Next, Run

(* The tasks a run skips keep decisions made from exactly what it read.    *)
THEOREM IncrementalCorrect == Spec => []IncrementalIsFull
<1>1. SkipInv => IncrementalIsFull
  BY DEF SkipInv
<1> QED BY <1>1, SkipInit, SkipNext, PTL DEF Spec

(* A run that changes the revision redecides every task it read.           *)
THEOREM RelabelCorrect == Spec => []RelabelRefreshes
<1>1. SkipInv => RelabelRefreshes
  BY DEF SkipInv
<1> QED BY <1>1, SkipInit, SkipNext, PTL DEF Spec

-----------------------------------------------------------------------------
(* What needs a producer of its own: with a single run at a time and a     *)
(* previous report that is always readable, the report a run works on is   *)
(* the published one until it replaces it, and the one it made afterwards. *)
SoleProducer == ~LoadMayFail /\ \A p, q \in Producers : p = q

Reading == {"created", "records", "evidence"}
PriorIsPublished == \A p \in Producers : pc[p] \in Reading => prior[p] = report
MadeIsPublished == \A p \in Producers : pc[p] = "contract" => made[p] = report
SoleInv == SkipInv /\ PriorIsPublished /\ MadeIsPublished

LEMMA SoleInit == Init => SoleInv
BY SkipInit DEF Init, SoleInv, PriorIsPublished, MadeIsPublished, Reading

LEMMA SoleNext ==
  ASSUME SoleProducer
  PROVE  SoleInv /\ [Next]_vars => SoleInv'
<1> SUFFICES ASSUME SoleInv, [Next]_vars PROVE SoleInv'
  OBVIOUS
<1>t. TypeOK /\ SkipInv' /\ PriorIsPublished /\ MadeIsPublished
  BY SkipNext DEF SoleInv, SkipInv, TypeInv
<1>s. ASSUME NEW p \in Producers, NEW q \in Producers PROVE p = q
  BY DEF SoleProducer
<1>u. ASSUME UNCHANGED <<report, pc, prior, made>>
      PROVE  SoleInv'
  BY <1>t, <1>u DEF SoleInv, PriorIsPublished, MadeIsPublished
<1>1. ASSUME NEW s \in Sources, NEW t \in Tasks, NEW row \in Row \cup {Absent},
             EditRow(s, t, row)
      PROVE  SoleInv'
  BY <1>1, <1>u DEF EditRow, files, locals
<1>2. ASSUME NEW revision \in Revisions \ {NoRevision}, Deploy(revision)
      PROVE  SoleInv'
  BY <1>2, <1>u DEF Deploy, files, locals
<1>3. ASSUME NEW p \in Producers, Start(p)
      PROVE  SoleInv'
  <2>1. prior'[p] = report' /\ pc'[p] = "created"
    BY <1>3, <1>t DEF Start, TypeOK, SoleProducer, files
  <2> QED BY <1>s, <1>t, <2>1 DEF SoleInv, PriorIsPublished, MadeIsPublished
<1>4. ASSUME NEW p \in Producers,
             ReadCreated(p) \/ ReadRecords(p) \/ ReadRevision(p) \/ ReadEvidence(p)
      PROVE  SoleInv'
  <2>1. pc[p] \in Reading /\ pc'[p] \in Reading
    BY <1>4, <1>t DEF ReadCreated, ReadRecords, ReadRevision, ReadEvidence, TypeOK, Reading
  <2>2. UNCHANGED <<report, prior>>
    BY <1>4 DEF ReadCreated, ReadRecords, ReadRevision, ReadEvidence, files
  <2> QED BY <1>s, <1>t, <2>1, <2>2 DEF SoleInv, PriorIsPublished, MadeIsPublished, Reading
<1>5. ASSUME NEW p \in Producers, Save(p)
      PROVE  SoleInv'
  <2>1. pc'[p] = "contract" /\ made'[p] = report'
    BY <1>5, <1>t DEF Save, TypeOK
  <2> QED BY <1>s, <1>t, <2>1 DEF SoleInv, PriorIsPublished, MadeIsPublished, Reading
<1>6. ASSUME NEW p \in Producers, WriteContract(p) \/ Crash(p)
      PROVE  SoleInv'
  <2>1. pc'[p] = "idle"
    BY <1>6, <1>t DEF WriteContract, Crash, Exit, TypeOK
  <2> QED BY <1>s, <1>t, <2>1 DEF SoleInv, PriorIsPublished, MadeIsPublished, Reading
<1>7. CASE UNCHANGED vars
  BY <1>7, <1>u DEF vars, files, locals
<1> QED BY <1>1, <1>2, <1>3, <1>4, <1>5, <1>6, <1>7 DEF Next, Run

LEMMA SoleCorrect ==
  ASSUME SoleProducer
  PROVE  Spec => []SoleInv
<1>1. SoleInv /\ [Next]_vars => SoleInv'
  BY SoleNext
<1> QED BY <1>1, SoleInit, PTL DEF Spec

(* Only Save writes the report, only WriteContract the contract.           *)
LEMMA WritersOfFiles ==
  ASSUME [Next]_vars
  PROVE  /\ report' # report => \E p \in Producers : Save(p)
         /\ contract' # contract => \E p \in Producers : WriteContract(p)
<1>1. CASE UNCHANGED vars
  BY <1>1 DEF vars, files
<1>2. CASE Next
  BY <1>2 DEF Next, Run, EditRow, Deploy, Start, ReadCreated, ReadRecords, ReadRevision,
              ReadEvidence, Save, WriteContract, Crash, files
<1> QED BY <1>1, <1>2

(* A published decision outlives its source.                               *)
THEOREM RetentionCorrect == SoleProducer => (Spec => DecisionsAreRetained)
<1> SUFFICES ASSUME SoleProducer PROVE Spec => DecisionsAreRetained
  OBVIOUS
<1> DEFINE Retains == report # NoReport =>
      \A t \in Tasks : report.decisions[t] # Absent => report'.decisions[t] # Absent
<1>1. SoleInv /\ [Next]_vars => [Retains]_report
  <2> SUFFICES ASSUME SoleInv, [Next]_vars, report' # report, report # NoReport,
                      NEW t \in Tasks, report.decisions[t] # Absent
               PROVE  report'.decisions[t] # Absent
    OBVIOUS
  <2>1. PICK p \in Producers : Save(p)
    BY WritersOfFiles
  <2>2. prior[p] = report /\ report' = Produced(p)
    BY <2>1 DEF SoleInv, PriorIsPublished, Reading, Save
  <2>3. CASE t \in Refreshed(p)
    <3>1. Produced(p).decisions[t] = Decide(p, t)
      BY <2>3 DEF Produced
    <3>2. Decide(p, t) # Absent
      BY <2>3, DecideType, SentinelsAssumption DEF SoleInv, SkipInv, TypeInv, Refreshed
    <3> QED BY <2>2, <3>1, <3>2
  <2>4. CASE t \notin Refreshed(p)
    <3>1. Produced(p).decisions[t] = Existing(p, t)
      BY <2>4 DEF Produced
    <3>2. Existing(p, t) = report.decisions[t]
      BY <2>2 DEF Existing
    <3> QED BY <2>2, <3>1, <3>2
  <2> QED BY <2>3, <2>4
<1>2. Spec => []SoleInv
  BY SoleCorrect
<1> QED BY <1>1, <1>2, PTL DEF Spec, DecisionsAreRetained

(* The contract shows what the report shows at the moment it is replaced.  *)
THEOREM ContractCorrect == SoleProducer => (Spec => ContractFollowsReport)
<1> SUFFICES ASSUME SoleProducer PROVE Spec => ContractFollowsReport
  OBVIOUS
<1> DEFINE Follows == \A t \in Tasks : contract'[t] # Absent =>
      /\ report # NoReport
      /\ report.decisions[t] # Absent
      /\ contract'[t] = report.decisions[t].decision
<1>1. SoleInv /\ [Next]_vars => [Follows]_contract
  <2> SUFFICES ASSUME SoleInv, [Next]_vars, contract' # contract,
                      NEW t \in Tasks, contract'[t] # Absent
               PROVE  /\ report # NoReport
                      /\ report.decisions[t] # Absent
                      /\ contract'[t] = report.decisions[t].decision
    OBVIOUS
  <2>1. PICK p \in Producers : WriteContract(p)
    BY WritersOfFiles
  <2>2. made[p] = report /\ made[p] # NoReport
    BY <2>1 DEF SoleInv, SkipInv, TypeInv, MadeIsPublished, ReportIsMade, WriteContract
  <2>3. t \in Winners(p)
    BY <2>1 DEF WriteContract
  <2> QED BY <2>1, <2>2, <2>3 DEF WriteContract
<1>2. Spec => []SoleInv
  BY SoleCorrect
<1> QED BY <1>1, <1>2, PTL DEF Spec, ContractFollowsReport

-----------------------------------------------------------------------------
(* Refinement.  Save is the publication; every other step only looks.      *)
LEMMA LedgerType ==
  ASSUME NEW r \in Report \cup {NoReport}
  PROVE  LedgerView(r) \in [Tasks -> Decision \cup {Absent}]
BY DEF LedgerView, Report, Artifact

LEMMA RefinesInit == Init => Ledger!Init
<1> SUFFICES ASSUME Init PROVE Ledger!Init
  OBVIOUS
<1>1. TypeOK
  BY TypeInit DEF TypeInv
<1>2. LedgerView(report) \in [Tasks -> Decision \cup {Absent}]
  BY <1>1, LedgerType DEF TypeOK
<1>3. (IF report = NoReport THEN NoRevision ELSE report.label) \in Revisions
  BY <1>1, BoundsAssumption DEF TypeOK, Report, NoRevision, Revisions
<1>4. [p \in Producers |-> Read(p)] = [p \in Producers |-> [t \in Tasks |-> Absent]]
  BY DEF Init, Read
<1>5. loaded \in [Producers -> Revisions]
  BY <1>1 DEF TypeOK
<1> QED BY <1>2, <1>3, <1>4, <1>5 DEF Ledger!Init, Ledger!Decision, Decision

LEMMA SaveRefinesPublish ==
  ASSUME SoleInv, NEW p \in Producers, Save(p)
  PROVE  Ledger!Publish(p, label[p])
<1> DEFINE old == LedgerView(report)
           new == LedgerView(report')
           saw == [q \in Producers |-> Read(q)]
<1>1. TypeInv /\ TypeOK /\ PrintsAreFaithful /\ prior[p] = report
  BY DEF SoleInv, SkipInv, TypeInv, PriorIsPublished, Reading, Save
<1>2. report' = Produced(p) /\ Produced(p) \in Report /\ Produced(p) # NoReport
  BY <1>1, ProducedType, SentinelsAssumption DEF Save
<1>3. new \in [Tasks -> Decision \cup {Absent}]
  BY <1>2, LedgerType
<1>4. report'.label = label[p]
  BY <1>2 DEF Produced
<1>5. UNCHANGED <<saw, loaded>>
  BY DEF Save, Read
<1>6. ASSUME NEW t \in Tasks, saw[p][t] = Absent
      PROVE  new[t] = old[t]
  <2>1. t \notin Winners(p)
    <3>1. CASE picked[p][t] = Absent
      BY <3>1 DEF Winners
    <3>2. CASE picked[p][t] # Absent
      <4>1. picked[p][t] \in Sourced /\ seen[p][t] \in Evidence
        BY <1>1, <3>2 DEF TypeOK
      <4>2. saw[p][t] = [record |-> picked[p][t].record, evidence |-> seen[p][t]]
        BY <3>2 DEF Read
      <4>3. [record |-> picked[p][t].record, evidence |-> seen[p][t]] # Absent
        BY <4>1, <1>1, SentinelsAssumption DEF Inputs, Sourced
      <4> QED BY <1>6, <4>2, <4>3
    <3> QED BY <3>1, <3>2
  <2>2. report'.decisions[t] = Existing(p, t)
    BY <1>2, <2>1 DEF Produced, Refreshed
  <2> QED BY <1>1, <1>2, <2>2 DEF LedgerView, Existing
<1>7. ASSUME NEW t \in Tasks, saw[p][t] # Absent
      PROVE  \/ new[t] = Ledger!Decide(loaded[p], saw[p][t])
             \/ /\ report # NoReport /\ label[p] = report.label
                /\ old[t] # Absent
                /\ new[t] = old[t]
                /\ old[t] = Ledger!Decide(old[t].logic, saw[p][t])
  <2>1. t \in Winners(p) /\ saw[p][t] = [record |-> picked[p][t].record, evidence |-> seen[p][t]]
    BY <1>7 DEF Winners, Read
  <2>2. new[t] = report'.decisions[t].decision
    BY <1>1, <1>2, <2>1, ProducedOfWinner DEF LedgerView
  <2>3. CASE report'.decisions[t] = Decide(p, t)
    BY <2>1, <2>2, <2>3 DEF Decide, Ledger!Decide
  <2>4. CASE report'.decisions[t] # Decide(p, t)
    <3>1. /\ report # NoReport /\ report.label = label[p]
          /\ report'.decisions[t] = report.decisions[t]
          /\ report'.decisions[t] # Absent
          /\ report'.decisions[t].decision.record = picked[p][t].record
          /\ report'.decisions[t].decision.evidence = seen[p][t]
      BY <1>1, <1>2, <2>1, <2>4, ProducedOfWinner
    <3>2. old[t] = report.decisions[t].decision /\ new[t] = old[t]
      BY <2>2, <3>1 DEF LedgerView
    <3>3. old[t] \in Decision
      BY <1>1, <3>1, <3>2 DEF TypeOK, Report, Artifact
    <3>4. old[t] = [logic |-> old[t].logic, record |-> old[t].record, evidence |-> old[t].evidence]
      BY <3>3 DEF Decision
    <3>5. old[t] = Ledger!Decide(old[t].logic, saw[p][t])
      BY <2>1, <3>1, <3>2, <3>4 DEF Ledger!Decide
    <3>6. old[t] # Absent
      BY <3>3, SentinelsAssumption
    <3> QED BY <3>1, <3>2, <3>5, <3>6
  <2> QED BY <2>3, <2>4
<1> QED BY <1>2, <1>3, <1>4, <1>5, <1>6, <1>7
    DEF Ledger!Publish, Ledger!Decision, Decision

LEMMA RefinesNext == SoleInv /\ [Next]_vars => [Ledger!Next]_(Ledger!vars)
<1> SUFFICES ASSUME SoleInv, [Next]_vars PROVE [Ledger!Next]_(Ledger!vars)
  OBVIOUS
<1>1. CASE report' # report
  <2>1. PICK p \in Producers : Save(p)
    BY <1>1, WritersOfFiles
  <2>2. label[p] \in Revisions
    BY DEF SoleInv, SkipInv, TypeInv, TypeOK
  <2> QED BY <2>1, <2>2, SaveRefinesPublish DEF Ledger!Next
<1>2. CASE report' = report
  BY <1>2 DEF Ledger!Next, Ledger!Look
<1> QED BY <1>1, <1>2

(* The incremental producer implements the ledger that redecides in full.  *)
THEOREM RefinesLedger == SoleProducer => (Spec => ImplementsLedger)
<1> SUFFICES ASSUME SoleProducer PROVE Spec => ImplementsLedger
  OBVIOUS
<1> QED BY RefinesInit, RefinesNext, SoleCorrect, PTL DEF Spec, ImplementsLedger, Ledger!Spec
=============================================================================
