------------------------ MODULE ShadowDecisionsProofs -------------------------
(***************************************************************************)
(* What holds of ShadowDecisions for any number of tasks, any links and    *)
(* verdicts, any telemetry, declarations and prices, whichever reads fail  *)
(* and however much is recorded between them.                              *)
(***************************************************************************)
EXTENDS ShadowDecisions, Aggregates, TLAPS

Reading == {"reviewed", "declared", "walked"}

(* The tasks table has the tasks it was set up with.                       *)
Table ==
  /\ \E shape \in Shapes : Tasks = DOMAIN shape
  /\ \A t \in Tasks : DOMAIN rows[t] = {"type", "link", "verdict", "sha", "findings"}

(* How the tables change: what they tell is never taken back.              *)
Later(before, after) ==
  /\ DOMAIN after = DOMAIN before
  /\ \A t \in DOMAIN before :
       /\ after[t].type = before[t].type /\ after[t].link = before[t].link
       /\ before[t].verdict # "none" => after[t] = before[t]

Grown(before, after) ==
  /\ DOMAIN before \subseteq DOMAIN after
  /\ \A t \in DOMAIN before : after[t] = before[t]

Waiting == phase # "done" => report = NoReport

Verdicts == {"none"} \cup {r.verdict : r \in Results}

(* Everything but the contract.                                            *)
Typed ==
  /\ Table /\ Waiting
  /\ \A t \in Tasks : rows[t].verdict \in Verdicts
  /\ DOMAIN told \subseteq Tasks
  /\ \A t \in DOMAIN told : told[t] \in Telemetry
  /\ phase \in {"idle", "done"} \cup Reading
  /\ phase \in Reading => reviewed \in [Tasks -> Facts]
  /\ phase \in {"declared", "walked"} => declared \in [Tasks -> Telemetry \cup {NoTelemetry}]
  /\ phase = "walked" => walked \in [Tasks -> [progress : Facts, unchanged : Facts]]
  /\ report.kind \in {"none", "organic", "printed"}
  /\ phase = "done" <=> report.kind # "none"

-----------------------------------------------------------------------------
(* The tables.                                                             *)
LEMMA ResultIsLater ==
  ASSUME Table, NEW t \in Tasks, NEW result \in Results, RecordResult(t, result)
  PROVE  /\ Later(rows, rows') /\ Table'
         /\ \A u \in Tasks : rows'[u].verdict \in {rows[u].verdict, result.verdict}
<1>1. DOMAIN rows' = DOMAIN rows
  BY DEF RecordResult
<1>2. \A u \in Tasks : u # t => rows'[u] = rows[u]
  BY DEF RecordResult, Tasks
<1>3. /\ rows'[t].type = rows[t].type /\ rows'[t].link = rows[t].link
      /\ rows'[t].verdict = result.verdict
      /\ DOMAIN rows'[t] = DOMAIN rows[t]
      /\ rows[t].verdict = "none"
  BY DEF RecordResult, Tasks, Table
<1>4. Table'
  BY <1>1, <1>2, <1>3 DEF Table, Tasks
<1>5. Later(rows, rows')
  BY <1>1, <1>2, <1>3 DEF Later, Tasks
<1> QED BY <1>2, <1>3, <1>4, <1>5

LEMMA TelemetryIsGrown ==
  ASSUME NEW t \in Tasks, NEW row \in Telemetry, RecordTelemetry(t, row)
  PROVE  /\ Grown(told, told')
         /\ DOMAIN told' = DOMAIN told \cup {t}
         /\ told'[t] = row
BY DEF RecordTelemetry, Grown

LEMMA Steps ==
  ASSUME Table, Next
  PROVE  Later(rows, rows') /\ Grown(told, told') /\ Table'
<1>1. ASSUME NEW t \in Tasks, NEW result \in Results, RecordResult(t, result)
      PROVE  Later(rows, rows') /\ Grown(told, told') /\ Table'
  BY <1>1, ResultIsLater DEF RecordResult, Grown
<1>2. ASSUME NEW t \in Tasks, NEW row \in Telemetry, RecordTelemetry(t, row)
      PROVE  Later(rows, rows') /\ Grown(told, told') /\ Table'
  BY <1>2, TelemetryIsGrown DEF RecordTelemetry, Later, Table, Tasks
<1>3. ASSUME UNCHANGED database
      PROVE  Later(rows, rows') /\ Grown(told, told') /\ Table'
  BY <1>3 DEF database, Later, Grown, Table, Tasks
<1> QED BY <1>1, <1>2, <1>3 DEF Next, ReadReviews, ReadTelemetry, ReadProgress, Publish, PrintReport

-----------------------------------------------------------------------------
(* The readers.                                                            *)
LEMMA FactsOfVerdicts == \A verdict : VerdictFact(verdict) \in Facts
BY DEF VerdictFact, Facts

LEMMA ReviewFactIsFact == \A t : ReviewFact(rows, t) \in Facts
BY FactsOfVerdicts DEF ReviewFact, Facts

LEMMA TasksAreFinite ==
  ASSUME Table
  PROVE  Tasks \in SUBSET Nat /\ IsFiniteSet(Tasks) /\ None \notin Tasks
BY DatabaseAssumption, NoneAssumption DEF Table

(* An approval is the verdict of another task's review.                    *)
LEMMA ReviewFactIsEarned ==
  ASSUME Table, NEW t \in Tasks, ReviewFact(rows, t) = "true"
  PROVE  ApprovedByAnother(t)
<1>1. Reviews(rows, t) # {} /\ VerdictFact(rows[StandingReview(rows, t)].verdict) = "true"
  BY DEF ReviewFact
<1>2. Reviews(rows, t) \in SUBSET Nat /\ IsFiniteSet(Reviews(rows, t))
  BY TasksAreFinite, FS_Subset DEF Reviews, Tasks
<1>3. StandingReview(rows, t) \in Reviews(rows, t)
  BY <1>1, <1>2, MaxIsGreatest DEF StandingReview
<1>4. rows[StandingReview(rows, t)].verdict = "approve"
  BY <1>1 DEF VerdictFact
<1> QED BY <1>3, <1>4 DEF ApprovedByAnother, Reviews, Tasks

LEMMA TelemetryIsTyped ==
  Telemetry \cup {NoTelemetry} \subseteq TelemetryRow
<1>1. NoRisk \in [RiskFacts -> Facts] /\ "unknown" \in Facts
  BY DEF NoRisk, Facts
<1>2. NoTelemetry \in TelemetryRow
  BY <1>1 DEF NoTelemetry, TelemetryRow
<1> QED BY <1>2, DatabaseAssumption

LEMMA ComparedIsTyped ==
  \A prev, last : Compared(prev, last) \in [progress : Facts, unchanged : Facts]
BY DEF Compared, NoProgress, Facts

LEMMA ProgressIsTyped ==
  \A t : Progress(rows, t) \in [progress : Facts, unchanged : Facts]
BY ComparedIsTyped DEF Progress, Judged, NoProgress, Facts

-----------------------------------------------------------------------------
(* Types.                                                                  *)
LEMMA InitTyped == Init => Typed
<1> SUFFICES ASSUME Init PROVE Typed
  OBVIOUS
<1>1. PICK shape \in Shapes : rows = Pending(shape)
  BY DEF Init
<1>2. /\ Tasks = DOMAIN shape
      /\ \A t \in Tasks : /\ DOMAIN rows[t] = {"type", "link", "verdict", "sha", "findings"}
                          /\ rows[t].verdict = "none"
  BY <1>1 DEF Pending, Tasks
<1>3. Table
  BY <1>2 DEF Table
<1> QED BY <1>2, <1>3 DEF Init, Typed, Waiting, NoReport, Reading, Verdicts

LEMMA RecordTyped ==
  ASSUME Typed, phase # "done", UNCHANGED reads, Table',
         Later(rows, rows'), \A t \in Tasks : rows'[t].verdict \in Verdicts,
         DOMAIN told' \subseteq Tasks, \A t \in DOMAIN told' : told'[t] \in Telemetry
  PROVE  Typed'
<1>1. Tasks' = Tasks
  BY DEF Later, Tasks
<1> QED BY <1>1 DEF Typed, Waiting, reads, Reading, NoReport, Verdicts

LEMMA ReadTyped ==
  ASSUME Typed, UNCHANGED database, UNCHANGED report, phase # "done", phase' \in Reading,
         reviewed' \in [Tasks -> Facts],
         phase' \in {"declared", "walked"} => declared' \in [Tasks -> Telemetry \cup {NoTelemetry}],
         phase' = "walked" => walked' \in [Tasks -> [progress : Facts, unchanged : Facts]]
  PROVE  Typed'
BY DEF Typed, Table, Waiting, database, Reading, NoReport, Verdicts, Tasks

LEMMA EndTyped ==
  ASSUME Typed, UNCHANGED database, phase' = "done", report'.kind \in {"organic", "printed"}
  PROVE  Typed'
BY DEF Typed, Table, Waiting, database, Reading, NoReport, Verdicts, Tasks

LEMMA NextTyped == Typed /\ [Next]_vars => Typed'
<1> SUFFICES ASSUME Typed, [Next]_vars PROVE Typed'
  OBVIOUS
<1>1. ASSUME NEW t \in Tasks, NEW result \in Results, RecordResult(t, result)
      PROVE  Typed'
  <2>1. Table' /\ Later(rows, rows')
    BY <1>1, ResultIsLater DEF Typed
  <2>2. \A u \in Tasks : rows'[u].verdict \in Verdicts
    BY <1>1, ResultIsLater DEF Typed, Verdicts
  <2> QED BY <1>1, <2>1, <2>2, RecordTyped DEF RecordResult, Recording, Typed
<1>2. ASSUME NEW t \in Tasks, NEW row \in Telemetry, RecordTelemetry(t, row)
      PROVE  Typed'
  <2>1. Table' /\ Later(rows, rows')
    BY <1>2, Steps DEF Next, Typed
  <2>2. DOMAIN told' = DOMAIN told \cup {t} /\ told'[t] = row /\ Grown(told, told')
    BY <1>2, TelemetryIsGrown
  <2>3. DOMAIN told' \subseteq Tasks /\ \A u \in DOMAIN told' : told'[u] \in Telemetry
    BY <2>2 DEF Typed, Grown
  <2>4. \A u \in Tasks : rows'[u].verdict \in Verdicts
    BY <1>2 DEF RecordTelemetry, Typed
  <2> QED BY <1>2, <2>1, <2>3, <2>4, RecordTyped DEF RecordTelemetry, Recording
<1>3. ASSUME NEW ok \in BOOLEAN, ReadReviews(ok)
      PROVE  Typed'
  <2>1. reviewed' \in [Tasks -> Facts]
    BY <1>3, ReviewFactIsFact DEF ReadReviews, Facts
  <2> QED BY <1>3, <2>1, ReadTyped DEF ReadReviews, Reading
<1>4. ASSUME NEW ok \in BOOLEAN, ReadTelemetry(ok)
      PROVE  Typed'
  <2>1. declared' \in [Tasks -> Telemetry \cup {NoTelemetry}]
    BY <1>4 DEF ReadTelemetry, Told, Typed
  <2> QED BY <1>4, <2>1, ReadTyped DEF ReadTelemetry, Reading, Typed
<1>5. ASSUME NEW ok \in BOOLEAN, ReadProgress(ok)
      PROVE  Typed'
  <2>1. walked' \in [Tasks -> [progress : Facts, unchanged : Facts]]
    BY <1>5, ProgressIsTyped DEF ReadProgress, NoProgress, Facts
  <2> QED BY <1>5, <2>1, ReadTyped DEF ReadProgress, Reading, Typed
<1>6. ASSUME NEW records, NEW dated, Publish(records, dated)
      PROVE  Typed'
  BY <1>6, EndTyped DEF Publish
<1>7. ASSUME NEW records, NEW listed, NEW book, PrintReport(records, listed, book)
      PROVE  Typed'
  BY <1>7, EndTyped DEF PrintReport
<1>8. ASSUME UNCHANGED vars
      PROVE  Typed'
  BY <1>8 DEF vars, Typed, Table, Waiting, Reading, NoReport, Verdicts, Tasks
<1> QED BY <1>1, <1>2, <1>3, <1>4, <1>5, <1>6, <1>7, <1>8 DEF Next

-----------------------------------------------------------------------------
(* What is decided, whatever the record and the evidence.                  *)
EvidenceSet ==
  [review : Facts, risk : [RiskFacts -> Facts], recall : Facts, exempt : Facts,
   progress : Facts, unchanged : Facts, waste : {NoWaste}]

LEMMA FieldsOfEvidence ==
  ASSUME NEW review, NEW row, NEW progress
  PROVE  LET e == Evidence(review, row, progress)
         IN  /\ e.review = review /\ e.risk = RiskOf(row) /\ e.recall = row.recall
             /\ e.exempt = ExemptFact(row)
             /\ e.progress = progress.progress /\ e.unchanged = progress.unchanged
             /\ e.waste = NoWaste
BY DEF Evidence

LEMMA EvidenceIsTyped ==
  ASSUME NEW review \in Facts, NEW row \in TelemetryRow,
         NEW progress \in [progress : Facts, unchanged : Facts]
  PROVE  Evidence(review, row, progress) \in EvidenceSet
<1>1. RiskOf(row) \in [RiskFacts -> Facts]
  BY DEF RiskOf, NoRisk, TelemetryRow, Facts
<1>2. ExemptFact(row) \in Facts
  BY DEF ExemptFact, Facts
<1>3. row.recall \in Facts
  BY DEF TelemetryRow
<1> QED BY <1>1, <1>2, <1>3 DEF Evidence, EvidenceSet

LEMMA OverlaidIsTyped ==
  ASSUME NEW e \in EvidenceSet, NEW listed, NEW type
  PROVE  Overlaid(e, listed, type) \in EvidenceSet
<1>1. Declared(listed, type) \in [RiskFacts -> Facts]
  BY DEF Declared, Truth, RiskFacts, Facts
<1> QED BY <1>1 DEF Overlaid, EvidenceSet

LEMMA FieldsOfDecision ==
  ASSUME NEW r, NEW e, NEW entry
  PROVE  LET d == Decision(r, e, entry)
         IN  /\ d.provider = r.provider /\ d.outcome = r.outcome /\ d.tier = Tier(r, e)
             /\ d.preserving = Preserving(r, e) /\ d.state = QualityState(r, e)
             /\ d.gate = HumanGate(e) /\ d.budget = Budget(r, e)
             /\ d.rounds = Rounds(r, e)
             /\ d.session = SessionTreatment(r, e) /\ d.cache = CacheTreatment(r, e)
             /\ d.costs = PolicyCosts(r, entry) /\ d.waste = Waste(r, e)
             /\ d.review = e.review /\ d.recall = e.recall
             /\ d.observed = r.tokens /\ d.confidence = Confidence(r, e)
             /\ d.providerTier \in {"escalate_allowed", "preserve_current"}
BY DEF Decision

(* What nobody assessed is treated as the most dangerous kind.             *)
LEMMA UnassessedIsSafe ==
  ASSUME NEW r, NEW e, NEW entry, Unassessed(e)
  PROVE  LET d == Decision(r, e, entry)
         IN  d.tier = "safety_or_live" /\ d.gate /\ d.session = "insufficient_evidence"
<1>1. Tier(r, e) = "safety_or_live" /\ HumanGate(e)
  BY DEF Tier, HumanGate
<1>2. SessionTreatment(r, e) = "insufficient_evidence"
  BY DEF SessionTreatment, SessionQuality
<1> QED BY <1>1, <1>2, FieldsOfDecision

(* A rejection or a missed recall withholds every reuse.                   *)
LEMMA RegressionIsWithheld ==
  ASSUME NEW r, NEW e, NEW entry,
         e.review = "false" \/ (e.recall = "false" /\ e.exempt # "true")
  PROVE  LET d == Decision(r, e, entry)
         IN  /\ ~d.preserving
             /\ d.session = "insufficient_evidence" /\ d.cache = "insufficient_evidence"
<1>1. ~Preserving(r, e)
  BY DEF Preserving, RecallOk
<1>2. /\ SessionTreatment(r, e) = "insufficient_evidence"
      /\ CacheTreatment(r, e) = "insufficient_evidence"
  BY <1>1 DEF SessionTreatment, SessionQuality, CacheTreatment
<1> QED BY <1>1, <1>2, FieldsOfDecision

(* A budget needs all that quality needs.                                  *)
LEMMA BudgetNeedsQuality ==
  ASSUME NEW r, NEW e, NEW entry, Decision(r, e, entry).budget # None
  PROVE  Preserving(r, e)
<1>1. QualityState(r, e) = "preserving"
  BY FieldsOfDecision DEF Budget
<1> QED BY <1>1 DEF QualityState

(* An exemption stands only where no recall was observed.                  *)
LEMMA ExemptionIsRecorded ==
  ASSUME NEW row, ExemptFact(row) = "true"
  PROVE  row.exempt = "true" /\ row.recall # "true" /\ row.recall # "false"
BY DEF ExemptFact, RecallState

LEMMA AssessedIsDeclared ==
  ASSUME NEW row, NEW review, NEW progress, ~Unassessed(Evidence(review, row, progress))
  PROVE  row.trusted /\ \A f \in RiskFacts : row.risk[f] # "unknown"
<1>1. \A f \in RiskFacts : RiskOf(row)[f] # "unknown"
  BY FieldsOfEvidence DEF Unassessed
<1>2. "gate" \in RiskFacts
  BY DEF RiskFacts
<1>3. row.trusted
  BY <1>1, <1>2 DEF RiskOf, NoRisk
<1> QED BY <1>1, <1>3 DEF RiskOf

-----------------------------------------------------------------------------
(* The report.                                                             *)
Record(record, t) == [record EXCEPT !.type = rows[t].type]

LEMMA FieldsOfMade ==
  ASSUME NEW t, NEW record, NEW e, NEW provenance, NEW book, NEW created
  PROVE  LET row == Made(t, record, e, provenance, book, created)
             r   == Record(record, t)
             d   == Decision(r, e, Lookup(book, r.provider, r.model))
         IN  /\ row.created = created /\ row.risk = e.risk /\ row.provenance = provenance
             /\ row.decision = d
             /\ row.headroom = Headroom(r, d.budget)
             /\ row.cost = PriceTask(r, book)
BY DEF Artifact, Made, Record

LEMMA RecordIsRecord ==
  ASSUME Table, NEW records \in Records, NEW t \in Tasks
  PROVE  IsRecord(Record(records[t], t)) /\ Record(records[t], t).type = rows[t].type
<1>1. IsRecord(records[t])
  BY RecordAssumption DEF Table
<1> QED BY <1>1 DEF IsRecord, Record

Overlay(listed, t) ==
  Overlaid(Evidence(reviewed[t], NoTelemetry, NoProgress), listed, rows[t].type)

LEMMA PublishedRow ==
  ASSUME Typed, NEW records \in Records, NEW dated \in BOOLEAN, Publish(records, dated),
         NEW t \in Tasks
  PROVE  LET r == Record(records[t], t)
             e == Evidence(reviewed[t], declared[t], walked[t])
             d == Decision(r, e, Lookup({}, r.provider, r.model))
         IN  /\ Row(t)'.decision = d /\ Row(t)'.risk = e.risk
             /\ Row(t)'.provenance = Provenance(declared[t])
             /\ Row(t)'.headroom = Headroom(r, d.budget)
             /\ Row(t)'.cost = PriceTask(r, {})
             /\ e \in EvidenceSet
<1>1. Row(t)' = Made(t, records[t], Evidence(reviewed[t], declared[t], walked[t]),
                     Provenance(declared[t]), {}, IF dated THEN t ELSE None)
  BY DEF Publish, Row
<1>2. Evidence(reviewed[t], declared[t], walked[t]) \in EvidenceSet
  <2>1. /\ reviewed[t] \in Facts /\ declared[t] \in Telemetry \cup {NoTelemetry}
        /\ walked[t] \in [progress : Facts, unchanged : Facts]
    BY DEF Publish, Typed, Reading
  <2>2. declared[t] \in TelemetryRow
    BY <2>1, TelemetryIsTyped
  <2> QED BY <2>1, <2>2, EvidenceIsTyped
<1> QED BY <1>1, <1>2, FieldsOfMade

LEMMA PrintedRow ==
  ASSUME Typed, NEW records \in Records, NEW listed \in Declarations, NEW book \in Books,
         PrintReport(records, listed, book), NEW t \in Tasks
  PROVE  LET r == Record(records[t], t)
             e == Overlay(listed, t)
             d == Decision(r, e, Lookup(book, r.provider, r.model))
         IN  /\ Row(t)'.decision = d /\ Row(t)'.risk = e.risk
             /\ Row(t)'.headroom = Headroom(r, d.budget)
             /\ Row(t)'.cost = PriceTask(r, book)
             /\ e \in EvidenceSet
<1>1. PICK provenance :
        Row(t)' = Made(t, records[t], Overlay(listed, t), provenance, book, None)
  BY DEF PrintReport, Row, Overlay
<1>2. NoProgress \in [progress : Facts, unchanged : Facts]
  BY DEF NoProgress, Facts
<1>3. Overlay(listed, t) \in EvidenceSet
  <2>1. reviewed[t] \in Facts
    BY DEF PrintReport, Typed, Reading
  <2>2. NoTelemetry \in TelemetryRow
    BY TelemetryIsTyped
  <2> QED BY <1>2, <2>1, <2>2, EvidenceIsTyped, OverlaidIsTyped DEF Overlay
<1> QED BY <1>1, <1>3, FieldsOfMade

(* Either nothing is reported yet, or it was in this step or before the    *)
(* state that stays.                                                       *)
LEMMA Ends ==
  ASSUME Typed, [Next]_vars
  PROVE  \/ UNCHANGED vars
         \/ report' = NoReport
         \/ \E records \in Records, dated \in BOOLEAN : Publish(records, dated)
         \/ \E records \in Records, listed \in Declarations, book \in Books :
              PrintReport(records, listed, book)
BY DEF Next, RecordResult, RecordTelemetry, Recording, reads, ReadReviews, ReadTelemetry,
       ReadProgress, Typed, Waiting

(* The tables while the report is made.                                    *)
LEMMA EndKeeps ==
  ASSUME \/ \E records \in Records, dated \in BOOLEAN : Publish(records, dated)
         \/ \E records \in Records, listed \in Declarations, book \in Books :
              PrintReport(records, listed, book)
  PROVE  UNCHANGED database /\ Tasks' = Tasks /\ DOMAIN report'.made = Tasks
BY DEF Publish, PrintReport, database, Tasks

-----------------------------------------------------------------------------
(* Approvals and budgets.  What a reader took from the tables stays in     *)
(* them: a later verdict or row does not take the approval away on which   *)
(* the report is about to be built.                                        *)
Honest ==
  /\ phase \in Reading => \A t \in Tasks : reviewed[t] = "true" => ApprovedByAnother(t)
  /\ phase \in {"declared", "walked"} =>
       \A t \in Tasks : \/ declared[t] = NoTelemetry
                        \/ t \in DOMAIN told /\ declared[t] = told[t]

LEMMA ApprovalStays ==
  ASSUME Later(rows, rows'), NEW t, ApprovedByAnother(t)
  PROVE  ApprovedByAnother(t)'
<1>1. PICK r \in Tasks \ {t} : IsReview(rows[r]) /\ rows[r].link = t /\ rows[r].verdict = "approve"
  BY DEF ApprovedByAnother
<1>2. r \in Tasks' /\ rows'[r] = rows[r]
  BY <1>1 DEF Later, Tasks
<1> QED BY <1>1, <1>2 DEF ApprovedByAnother

LEMMA HonestSteps == Typed /\ Honest /\ [Next]_vars => Honest'
<1> SUFFICES ASSUME Typed, Honest, [Next]_vars PROVE Honest'
  OBVIOUS
<1>1. ASSUME NEW t \in Tasks, NEW x, RecordResult(t, x) \/ RecordTelemetry(t, x), Next
      PROVE  Honest'
  <2>1. Later(rows, rows') /\ Grown(told, told') /\ UNCHANGED reads
    BY <1>1, Steps DEF Typed, RecordResult, RecordTelemetry, Recording
  <2>2. Tasks' = Tasks
    BY <2>1 DEF Later, Tasks
  <2>3. phase' \in Reading =>
          \A u \in Tasks : reviewed'[u] = "true" => ApprovedByAnother(u)'
    BY <2>1, ApprovalStays DEF Honest, reads
  <2>4. phase' \in {"declared", "walked"} =>
          \A u \in Tasks : \/ declared'[u] = NoTelemetry
                           \/ u \in DOMAIN told' /\ declared'[u] = told'[u]
    BY <2>1 DEF Honest, reads, Grown
  <2> QED BY <2>2, <2>3, <2>4 DEF Honest, Reading
<1>2. ASSUME NEW ok \in BOOLEAN, ReadReviews(ok)
      PROVE  Honest'
  <2>1. \A t \in Tasks : reviewed'[t] = "true" => ApprovedByAnother(t)
    BY <1>2, ReviewFactIsEarned DEF ReadReviews, Typed
  <2> QED BY <1>2, <2>1 DEF Honest, ReadReviews, Reading, database, Tasks, ApprovedByAnother
<1>3. ASSUME NEW ok \in BOOLEAN, ReadTelemetry(ok)
      PROVE  Honest'
  BY <1>3 DEF Honest, ReadTelemetry, Reading, database, Tasks, ApprovedByAnother, Told
<1>4. ASSUME NEW ok \in BOOLEAN, ReadProgress(ok)
      PROVE  Honest'
  BY <1>4 DEF Honest, ReadProgress, Reading, database, Tasks, ApprovedByAnother
<1>5. ASSUME phase' = "done" \/ UNCHANGED vars
      PROVE  Honest'
  BY <1>5 DEF Honest, Reading, vars, Tasks, ApprovedByAnother
<1> QED BY <1>1, <1>2, <1>3, <1>4, <1>5 DEF Next, Publish, PrintReport

LEMMA OverlaidKeeps ==
  ASSUME NEW e \in EvidenceSet, NEW listed, NEW type
  PROVE  LET o == Overlaid(e, listed, type)
         IN  o.review = e.review /\ o.recall = e.recall /\ o.exempt = e.exempt
BY DEF Overlaid, EvidenceSet

LEMMA OverlayOf ==
  ASSUME Typed, phase = "reviewed", NEW listed, NEW t \in Tasks
  PROVE  LET e == Overlay(listed, t)
         IN  e.review = reviewed[t] /\ e.recall = "unknown" /\ e.exempt = "unknown"
<1> DEFINE e == Evidence(reviewed[t], NoTelemetry, NoProgress)
<1>1. reviewed[t] \in Facts /\ NoProgress \in [progress : Facts, unchanged : Facts]
  BY DEF Typed, Reading, NoProgress, Facts
<1>2. NoTelemetry \in TelemetryRow
  BY TelemetryIsTyped
<1>3. e \in EvidenceSet
  BY <1>1, <1>2, EvidenceIsTyped
<1>4. e.review = reviewed[t] /\ e.recall = "unknown" /\ e.exempt = "unknown"
  <2>1. ExemptFact(NoTelemetry) = "unknown" /\ NoTelemetry.recall = "unknown"
    BY DEF ExemptFact, RecallState, NoTelemetry
  <2> QED BY <2>1, FieldsOfEvidence
<1> HIDE DEF e
<1> QED BY <1>3, <1>4, OverlaidKeeps DEF e, Overlay

LEMMA ApprovalSteps ==
  Typed /\ Honest /\ ApprovalIsIndependent /\ [Next]_vars => ApprovalIsIndependent'
<1> SUFFICES ASSUME Typed, Honest, ApprovalIsIndependent, [Next]_vars
             PROVE  ApprovalIsIndependent'
  OBVIOUS
<1>1. CASE UNCHANGED vars
  BY <1>1 DEF vars, ApprovalIsIndependent, Row, ApprovedByAnother, Tasks
<1>2. CASE report' = NoReport
  BY <1>2 DEF ApprovalIsIndependent, NoReport
<1>3. ASSUME NEW records \in Records, NEW dated \in BOOLEAN, Publish(records, dated)
      PROVE  ApprovalIsIndependent'
  <2>1. \A t \in Tasks : Row(t)'.decision.review = reviewed[t]
    BY <1>3, PublishedRow, FieldsOfDecision, FieldsOfEvidence
  <2>2. \A t \in Tasks : reviewed[t] = "true" => ApprovedByAnother(t)
    BY <1>3 DEF Honest, Publish, Reading
  <2> QED BY <1>3, <2>1, <2>2, EndKeeps DEF ApprovalIsIndependent, ApprovedByAnother, database
<1>4. ASSUME NEW records \in Records, NEW listed \in Declarations, NEW book \in Books,
             PrintReport(records, listed, book)
      PROVE  ApprovalIsIndependent'
  <2>1. phase = "reviewed"
    BY <1>4 DEF PrintReport
  <2>2. \A t \in Tasks : Row(t)'.decision.review = reviewed[t]
    BY <1>4, <2>1, PrintedRow, FieldsOfDecision, OverlayOf
  <2>3. \A t \in Tasks : reviewed[t] = "true" => ApprovedByAnother(t)
    BY <2>1 DEF Honest, Reading
  <2> QED BY <1>4, <2>2, <2>3, EndKeeps DEF ApprovalIsIndependent, ApprovedByAnother, database
<1> QED BY <1>1, <1>2, <1>3, <1>4, Ends

LEMMA BudgetSteps ==
  Typed /\ Honest /\ BudgetIsEarned /\ [Next]_vars => BudgetIsEarned'
<1> SUFFICES ASSUME Typed, Honest, BudgetIsEarned, [Next]_vars
             PROVE  BudgetIsEarned'
  OBVIOUS
<1> DEFINE Earned(t) == /\ ApprovedByAnother(t)
                        /\ t \in DOMAIN told
                        /\ told[t].recall = "true" \/ (told[t].exempt = "true" /\ FullyDeclared(t))
<1>1. CASE UNCHANGED vars
  BY <1>1 DEF vars, BudgetIsEarned, Row, ApprovedByAnother, FullyDeclared, Tasks
<1>2. CASE report' = NoReport
  BY <1>2 DEF BudgetIsEarned, NoReport
<1>3. ASSUME NEW records \in Records, NEW dated \in BOOLEAN, Publish(records, dated)
      PROVE  BudgetIsEarned'
  <2>1. ASSUME NEW t \in Tasks, Row(t)'.decision.budget # None
        PROVE  Row(t)'.decision.outcome = "success" /\ Earned(t)
    <3> DEFINE r == Record(records[t], t)
               e == Evidence(reviewed[t], declared[t], walked[t])
    <3>1. Preserving(r, e)
      BY <1>3, <2>1, PublishedRow, BudgetNeedsQuality
    <3>2. reviewed[t] = "true" /\ (declared[t].recall = "true" \/ ExemptFact(declared[t]) = "true")
      BY <3>1, FieldsOfEvidence DEF Preserving, RecallOk
    <3>3. ApprovedByAnother(t)
      BY <1>3, <3>2 DEF Honest, Publish, Reading
    <3>4. declared[t] # NoTelemetry
      <4>1. NoTelemetry.recall = "unknown" /\ NoTelemetry.exempt = "unknown"
        BY DEF NoTelemetry
      <4> QED BY <3>2, <4>1, ExemptionIsRecorded
    <3>5. t \in DOMAIN told /\ declared[t] = told[t]
      BY <1>3, <3>4 DEF Honest, Publish
    <3>6. Row(t)'.decision.outcome = "success"
      <4> DEFINE d == Decision(r, e, Lookup({}, r.provider, r.model))
      <4>1. Row(t)'.decision = d
        BY <1>3, PublishedRow
      <4>2. r.outcome = "success"
        BY <3>1 DEF Preserving
      <4> HIDE DEF r, e
      <4>3. d.outcome = r.outcome
        BY FieldsOfDecision
      <4> QED BY <4>1, <4>2, <4>3
    <3>7. CASE declared[t].recall = "true"
      BY <3>3, <3>5, <3>6, <3>7
    <3>8. CASE declared[t].recall # "true"
      <4>1. ExemptFact(declared[t]) = "true"
        BY <3>2, <3>8
      <4>2. ~Unassessed(e)
        BY <3>1, <4>1, FieldsOfEvidence DEF Preserving
      <4>3. FullyDeclared(t)
        BY <3>5, <4>2, AssessedIsDeclared DEF FullyDeclared
      <4> QED BY <3>3, <3>5, <3>6, <4>1, <4>3, ExemptionIsRecorded
    <3> QED BY <3>7, <3>8
  <2> QED BY <1>3, <2>1, EndKeeps DEF BudgetIsEarned, ApprovedByAnother, FullyDeclared, database
<1>4. ASSUME NEW records \in Records, NEW listed \in Declarations, NEW book \in Books,
             PrintReport(records, listed, book)
      PROVE  BudgetIsEarned'
  <2>1. \A t \in Tasks : Row(t)'.decision.budget = None
    <3> TAKE t \in Tasks
    <3> DEFINE r == Record(records[t], t)
               e == Overlay(listed, t)
    <3>1. ~Preserving(r, e)
      BY <1>4, OverlayOf DEF PrintReport, Preserving, RecallOk
    <3> QED BY <1>4, <3>1, PrintedRow, BudgetNeedsQuality
  <2> QED BY <1>4, <2>1, EndKeeps DEF BudgetIsEarned
<1> QED BY <1>1, <1>2, <1>3, <1>4, Ends

-----------------------------------------------------------------------------
(* The checker.  What it demands of a row, which the policy decided from   *)
(* other fields than those the checker reads.                              *)
Sound(row) ==
  /\ ~DeclaredRow(row) => FailSafe(row)
  /\ Regression(row) => Withheld(row)
  /\ ~RecordedRecall(row) => row.decision.recall = "unknown"
  /\ DeclaredRow(row) => ~Escalated(row)
  /\ DeclaredRow(row) /\ row.decision.tier # "safety_or_live" => ~row.decision.gate

LEMMA SoundRowsPass ==
  ASSUME NEW made, \A t \in DOMAIN made : Sound(made[t]),
         NEW since, NEW rerun \in {None, "true"}
  PROVE  /\ Verdict(made, since, rerun) # "DO_NOT_CLOSE"
         /\ D3(made, PostCutoff(made, since)) # "FAIL"
<1> DEFINE counted == PostCutoff(made, since)
<1>1. counted \subseteq DOMAIN made
  BY DEF PostCutoff
<1> HIDE DEF counted
<1>2. \A enough : Graded(enough, TRUE) # "FAIL"
  BY DEF Graded, Insufficient
<1>3. V1(made) # "FAIL"
  BY DEF V1, Graded, Insufficient, Sound
<1>4. V2(made, counted) # "FAIL"
  BY <1>1 DEF V2, Graded, Insufficient, Untimestamped, Sound
<1>5. V3(made, counted, rerun) # "FAIL"
  <2>1. rerun # "false"
    BY NoneAssumption DEF Facts
  <2> QED BY <1>1, <1>2, <2>1 DEF V3, Sound
<1>6. D3(made, counted) # "FAIL"
  BY <1>1 DEF D3, LowIntent, Graded, Insufficient, Sound
<1>7. Verdict(made, since, rerun) # "DO_NOT_CLOSE"
  <2> DEFINE safety == <<V1(made), V2(made, counted), V3(made, counted, rerun)>>
  <2>1. \A i \in DOMAIN safety : safety[i] # "FAIL"
    BY <1>3, <1>4, <1>5
  <2> QED BY <2>1 DEF Verdict, counted
<1> QED BY <1>6, <1>7 DEF counted

(* A row of the producer is sound, whatever the policy had to go by.       *)
LEMMA PublishedIsSound ==
  ASSUME Typed, NEW records \in Records, NEW dated \in BOOLEAN, Publish(records, dated),
         NEW t \in Tasks
  PROVE  Sound(Row(t)')
<1> DEFINE r == Record(records[t], t)
           e == Evidence(reviewed[t], declared[t], walked[t])
           d == Decision(r, e, Lookup({}, r.provider, r.model))
           row == Row(t)'
<1>1. /\ row.decision = d /\ row.risk = e.risk /\ row.provenance = Provenance(declared[t])
      /\ e \in EvidenceSet
  BY PublishedRow
<1>2. /\ e.risk = RiskOf(declared[t]) /\ e.recall = declared[t].recall
      /\ e.exempt = ExemptFact(declared[t])
  BY FieldsOfEvidence
<1>3. declared[t] \in TelemetryRow /\ declared[t].recall \in Facts
  <2>1. declared[t] \in Telemetry \cup {NoTelemetry}
    BY DEF Typed, Publish
  <2> QED BY <2>1, TelemetryIsTyped DEF TelemetryRow
<1>4. DeclaredRow(row) <=> ~Unassessed(e)
  <2>1. row.provenance.risk = "declared" <=> declared[t].trusted
    BY <1>1 DEF Provenance
  <2>2. declared[t].trusted \/ \A f \in RiskFacts : e.risk[f] = "unknown"
    BY <1>2 DEF RiskOf, NoRisk
  <2>3. "gate" \in RiskFacts
    BY DEF RiskFacts
  <2> HIDE DEF e, row
  <2> QED BY <1>1, <2>1, <2>2, <2>3 DEF DeclaredRow, RecordedRisk, Unassessed
<1>5. ~DeclaredRow(row) => FailSafe(row)
  <2> HIDE DEF e, r, row
  <2> QED BY <1>1, <1>4, UnassessedIsSafe DEF FailSafe
<1>6. Regression(row) => Withheld(row)
  <2>1. d.review = e.review /\ d.recall = e.recall
    BY FieldsOfDecision
  <2>2. e.recall = "false" => e.exempt # "true"
    BY <1>2, ExemptionIsRecorded
  <2> HIDE DEF e, r, row
  <2> QED BY <1>1, <2>1, <2>2, RegressionIsWithheld DEF Regression, Withheld
<1>7. ~RecordedRecall(row) => row.decision.recall = "unknown"
  <2>1. d.recall = declared[t].recall
    BY <1>2, FieldsOfDecision
  <2>2. declared[t] = NoTelemetry => declared[t].recall = "unknown"
    BY DEF NoTelemetry
  <2>3. RecallState(declared[t]) \notin {"observed_true", "observed_false"}
          => declared[t].recall = "unknown"
    BY <1>3 DEF RecallState, Facts
  <2>4. row.provenance.recall = IF declared[t] = NoTelemetry THEN "not_recorded"
                                ELSE RecallState(declared[t])
    BY <1>1 DEF Provenance
  <2> HIDE DEF e, r, d, row
  <2> QED BY <1>1, <2>1, <2>2, <2>3, <2>4 DEF RecordedRecall
<1>8. DeclaredRow(row) =>
        /\ row.decision.gate <=> row.risk["gate"] = "true"
        /\ row.decision.tier = "safety_or_live" <=>
             row.risk["safety"] = "true" \/ row.risk["gate"] = "true"
  <2>1. d.gate = HumanGate(e) /\ d.tier = Tier(r, e)
    BY FieldsOfDecision
  <2> HIDE DEF e, r, d, row
  <2> QED BY <1>1, <1>4, <2>1 DEF HumanGate, Tier
<1> HIDE DEF row
<1>9. DeclaredRow(row) => ~Escalated(row)
  BY <1>8 DEF Escalated
<1>10. DeclaredRow(row) /\ row.decision.tier # "safety_or_live" => ~row.decision.gate
  BY <1>8
<1> QED BY <1>5, <1>6, <1>7, <1>9, <1>10 DEF Sound, row

LEMMA SafetySteps == Typed /\ SafetyHolds /\ [Next]_vars => SafetyHolds'
<1> SUFFICES ASSUME Typed, SafetyHolds, [Next]_vars PROVE SafetyHolds'
  OBVIOUS
<1>1. CASE UNCHANGED vars
  BY <1>1 DEF vars, SafetyHolds, Published, Tasks
<1>2. CASE report' = NoReport
  BY <1>2 DEF SafetyHolds, Published, NoReport
<1>3. ASSUME NEW records \in Records, NEW dated \in BOOLEAN, Publish(records, dated)
      PROVE  SafetyHolds'
  <2>1. \A t \in DOMAIN report'.made : Sound(report'.made[t])
    BY <1>3, PublishedIsSound, EndKeeps DEF Row
  <2> QED BY <2>1, SoundRowsPass DEF SafetyHolds
<1>4. ASSUME NEW records \in Records, NEW listed \in Declarations, NEW book \in Books,
             PrintReport(records, listed, book)
      PROVE  SafetyHolds'
  BY <1>4 DEF PrintReport, SafetyHolds, Published
<1> QED BY <1>1, <1>2, <1>3, <1>4, Ends

-----------------------------------------------------------------------------
(* The operator's declaration.                                             *)
LEMMA DeclarationSteps ==
  Typed /\ DeclarationIsHonoured /\ [Next]_vars => DeclarationIsHonoured'
<1> SUFFICES ASSUME Typed, DeclarationIsHonoured, [Next]_vars PROVE DeclarationIsHonoured'
  OBVIOUS
<1>1. CASE UNCHANGED vars
  BY <1>1 DEF vars, DeclarationIsHonoured, Printed, Row, Tasks
<1>2. CASE report' = NoReport
  BY <1>2 DEF DeclarationIsHonoured, Printed, NoReport
<1>3. ASSUME NEW records \in Records, NEW dated \in BOOLEAN, Publish(records, dated)
      PROVE  DeclarationIsHonoured'
  BY <1>3 DEF Publish, DeclarationIsHonoured, Printed
<1>4. ASSUME NEW records \in Records, NEW listed \in Declarations, NEW book \in Books,
             PrintReport(records, listed, book)
      PROVE  DeclarationIsHonoured'
  <2> SUFFICES
        ASSUME NEW t \in Tasks
        PROVE  /\ (\E c \in {"safety", "gate"} : rows[t].type \in listed[c])
                    => Row(t)'.decision.tier = "safety_or_live"
               /\ rows[t].type \in listed["gate"] => Row(t)'.decision.gate
               /\ ~(\E c \in Categories : rows[t].type \in listed[c]) => FailSafe(Row(t)')
    <3>1. report'.listed = listed /\ rows' = rows /\ Tasks' = Tasks
      BY <1>4 DEF PrintReport, database, Tasks
    <3> QED BY <3>1 DEF DeclarationIsHonoured
  <2> DEFINE r == Record(records[t], t)
             e == Overlay(listed, t)
             d == Decision(r, e, Lookup(book, r.provider, r.model))
             type == rows[t].type
  <2>1. Row(t)'.decision = d
    BY <1>4, PrintedRow
  <2>2. d.gate = HumanGate(e) /\ d.tier = Tier(r, e)
    BY FieldsOfDecision
  <2>3. ASSUME \E c \in Categories : type \in listed[c]
        PROVE  e.risk = Declared(listed, type)
    <3>1. Evidence(reviewed[t], NoTelemetry, NoProgress).risk
            = RiskOf(NoTelemetry)
      BY FieldsOfEvidence
    <3> QED BY <2>3 DEF Overlay, Overlaid, Evidence
  <2>4. ASSUME ~(\E c \in Categories : type \in listed[c])
        PROVE  Unassessed(e)
    <3>1. e = Evidence(reviewed[t], NoTelemetry, NoProgress)
      BY <2>4 DEF Overlay, Overlaid
    <3>2. e.risk = NoRisk
      BY <3>1, FieldsOfEvidence DEF RiskOf, NoTelemetry
    <3>3. "gate" \in RiskFacts
      BY DEF RiskFacts
    <3> QED BY <3>2, <3>3 DEF Unassessed, NoRisk
  <2>5. ~(\E c \in Categories : type \in listed[c]) => FailSafe(Row(t)')
    <3> HIDE DEF e, r
    <3> QED BY <2>1, <2>4, UnassessedIsSafe DEF FailSafe
  <2>6. "safety" \in Categories /\ "gate" \in Categories
    BY DEF Categories
  <2>7. type \in listed["safety"] => e.risk["safety"] = "true"
    BY <2>3, <2>6 DEF Declared, Truth
  <2>8. type \in listed["gate"] => e.risk["gate"] = "true"
    BY <2>3, <2>6 DEF Declared, Truth
  <2> HIDE DEF e, r, d
  <2> QED BY <2>1, <2>2, <2>5, <2>7, <2>8 DEF HumanGate, Tier
<1> QED BY <1>1, <1>2, <1>3, <1>4, Ends

-----------------------------------------------------------------------------
(* Numbers.                                                                *)

(* The entry that was looked up is of the task's provider, and of its      *)
(* model or the provider's default: the policy's own check of it passes.   *)
LEMMA LookupIsOwn ==
  ASSUME NEW book, NEW provider, NEW model
  PROVE  LET entry == Lookup(book, provider, model)
         IN  entry = None \/ ( /\ entry \in book /\ entry.provider = provider
                               /\ entry.model \in {None, model} )
BY DEF Lookup

LEMMA CostsAgree ==
  ASSUME NEW r, NEW book
  PROVE  PolicyCosts(r, Lookup(book, r.provider, r.model)) = PriceTask(r, book).components
BY LookupIsOwn DEF PolicyCosts, PriceTask

LEMMA CeilingIsEnough ==
  ASSUME NEW n \in Nat, NEW tier \in DOMAIN BaseRounds
  PROVE  /\ Ceiling(n, Multiplier[tier]) \in Nat
         /\ n <= Ceiling(n, Multiplier[tier])
<1>1. Multiplier[tier] \in {150, 140, 120, 125, 130}
  BY DEF BaseRounds, Multiplier
<1>2. \A k \in {150, 140, 120, 125, 130} :
        (n * k + 99) \div 100 \in Nat /\ n <= (n * k + 99) \div 100
  OBVIOUS
<1> QED BY <1>1, <1>2 DEF Ceiling

LEMMA TiersAreKnown ==
  ASSUME NEW r, NEW e
  PROVE  Tier(r, e) \in DOMAIN BaseRounds
BY DEF Tier, BaseRounds

LEMMA HeadroomIsLeft ==
  ASSUME NEW r, IsRecord(r), NEW e, NEW entry, NEW c \in Components
  PROVE  LET headroom == Headroom(r, Decision(r, e, entry).budget)[c]
         IN  headroom # None => headroom >= 0
<1> DEFINE budget == Budget(r, e)
<1>1. Decision(r, e, entry).budget = budget
  BY FieldsOfDecision
<1>2. r.tokens[c] \in Amounts
  BY DEF IsRecord
<1>3. SUFFICES ASSUME budget # None, r.tokens[c] # None
               PROVE  budget[c] - r.tokens[c] >= 0
  <2> HIDE DEF budget
  <2> QED BY <1>1, <1>3 DEF Headroom
<1>4. r.tokens[c] \in Nat
  BY <1>2, <1>3 DEF Amounts
<1>5. budget[c] = Ceiling(r.tokens[c], Multiplier[Tier(r, e)])
  BY <1>3 DEF Budget, Envelope
<1> HIDE DEF budget
<1> QED BY <1>4, <1>5, TiersAreKnown, CeilingIsEnough

LEMMA NumbersSteps == Typed /\ NumbersAgree /\ [Next]_vars => NumbersAgree'
<1> SUFFICES ASSUME Typed, NumbersAgree, [Next]_vars PROVE NumbersAgree'
  OBVIOUS
<1> DEFINE Agree(row) == /\ row.decision.costs = row.cost.components
                         /\ \A c \in Components : row.headroom[c] # None => row.headroom[c] >= 0
<1>1. CASE UNCHANGED vars
  BY <1>1 DEF vars, NumbersAgree, Row
<1>2. CASE report' = NoReport
  BY <1>2 DEF NumbersAgree, NoReport
<1>3. ASSUME NEW r, IsRecord(r), NEW e, NEW book, NEW row, NEW d,
             d = Decision(r, e, Lookup(book, r.provider, r.model)),
             row.decision = d, row.headroom = Headroom(r, d.budget), row.cost = PriceTask(r, book)
      PROVE  Agree(row)
  BY <1>3, CostsAgree, FieldsOfDecision, HeadroomIsLeft
<1>4. ASSUME NEW records \in Records, NEW dated \in BOOLEAN, Publish(records, dated)
      PROVE  NumbersAgree'
  <2>1. \A t \in Tasks : Agree(Row(t)')
    <3> TAKE t \in Tasks
    <3> DEFINE r == Record(records[t], t)
               e == Evidence(reviewed[t], declared[t], walked[t])
    <3>1. IsRecord(r)
      BY RecordIsRecord DEF Typed
    <3> DEFINE d == Decision(r, e, Lookup({}, r.provider, r.model))
    <3>2. /\ Row(t)'.decision = d /\ Row(t)'.headroom = Headroom(r, d.budget)
          /\ Row(t)'.cost = PriceTask(r, {})
      BY <1>4, PublishedRow
    <3> HIDE DEF r, e, Agree
    <3> QED BY <1>3, <3>1, <3>2
  <2> QED BY <1>4, <2>1, EndKeeps DEF NumbersAgree
<1>5. ASSUME NEW records \in Records, NEW listed \in Declarations, NEW book \in Books,
             PrintReport(records, listed, book)
      PROVE  NumbersAgree'
  <2>1. \A t \in Tasks : Agree(Row(t)')
    <3> TAKE t \in Tasks
    <3> DEFINE r == Record(records[t], t)
               e == Overlay(listed, t)
    <3>1. IsRecord(r)
      BY RecordIsRecord DEF Typed
    <3> DEFINE d == Decision(r, e, Lookup(book, r.provider, r.model))
    <3>2. /\ Row(t)'.decision = d /\ Row(t)'.headroom = Headroom(r, d.budget)
          /\ Row(t)'.cost = PriceTask(r, book)
      BY <1>5, PrintedRow
    <3> HIDE DEF r, e, Agree
    <3> QED BY <1>3, <3>1, <3>2
  <2> QED BY <1>5, <2>1, EndKeeps DEF NumbersAgree
<1> QED BY <1>1, <1>2, <1>4, <1>5, Ends

-----------------------------------------------------------------------------
(* The contract of a decision.                                             *)
LEMMA TotalIsAmount ==
  ASSUME NEW r, IsRecord(r)
  PROVE  TotalTokens(r) \in Amounts
<1>1. r.total \in Amounts /\ r.breakdown \in Amounts /\ r.tokens \in [Components -> Amounts]
  BY DEF IsRecord
<1>2. ASSUME \A c \in Telemetered : r.tokens[c] # None
      PROVE  SumFunctionOnSet(r.tokens, Telemetered) \in Nat
  <2>1. IsFiniteSet({"uncached", "write", "read", "output"})
    <3>1. IsFiniteSet({"output"})
      BY FS_Singleton
    <3>2. IsFiniteSet({"output"} \cup {"read"})
      BY <3>1, FS_AddElement
    <3>3. IsFiniteSet(({"output"} \cup {"read"}) \cup {"write"})
      BY <3>2, FS_AddElement
    <3>4. IsFiniteSet((({"output"} \cup {"read"}) \cup {"write"}) \cup {"uncached"})
      BY <3>3, FS_AddElement
    <3>5. (({"output"} \cup {"read"}) \cup {"write"}) \cup {"uncached"}
            = {"uncached", "write", "read", "output"}
      OBVIOUS
    <3> QED BY <3>4, <3>5
  <2>2. Telemetered = {"uncached", "write", "read", "output"}
    BY DEF Telemetered, Components
  <2>3. \A c \in Telemetered : r.tokens[c] \in Nat
    BY <1>1, <1>2 DEF Telemetered, Amounts
  <2> QED BY <2>1, <2>2, <2>3, SumIsNatural
<1> QED BY <1>1, <1>2 DEF TotalTokens, Amounts

LEMMA RoundsArePositive ==
  ASSUME NEW r, NEW e
  PROVE  Rounds(r, e) \in Nat \ {0}
<1>1. BaseRounds[Tier(r, e)] \in {1, 2, 3}
  BY TiersAreKnown DEF BaseRounds
<1>2. ASSUME NEW base \in {1, 2, 3, 4}
      PROVE  Max({1, base - 1}) \in Nat \ {0}
  <2>1. IsFiniteSet({1, base - 1})
    <3>1. IsFiniteSet({1} \cup {base - 1})
      BY FS_Singleton, FS_AddElement
    <3>2. {1} \cup {base - 1} = {1, base - 1}
      OBVIOUS
    <3> QED BY <3>1, <3>2
  <2>2. {1, base - 1} \in SUBSET Nat
    BY <1>2
  <2>3. Max({1, base - 1}) \in {1, base - 1} /\ 1 <= Max({1, base - 1})
    BY <2>1, <2>2, MaxIsGreatest
  <2> QED BY <2>2, <2>3
<1>3. \A base \in {1, 2, 3} : base + 1 \in {1, 2, 3, 4} /\ base + 0 \in {1, 2, 3, 4}
  OBVIOUS
<1>4. \A base \in {1, 2, 3, 4} : base \in Nat \ {0}
  OBVIOUS
<1> DEFINE base == BaseRounds[Tier(r, e)] + (IF e.progress = "true" THEN 1 ELSE 0)
<1>5. base \in {1, 2, 3, 4}
  BY <1>1, <1>3
<1>6. Rounds(r, e) = IF e.unchanged = "true" THEN Max({1, base - 1}) ELSE base
  BY DEF Rounds
<1> HIDE DEF base
<1> QED BY <1>2, <1>4, <1>5, <1>6

LEMMA CostIsAmount ==
  ASSUME NEW n \in Amounts, NEW rate \in Amounts
  PROVE  Cost(n, rate) \in Amounts
<1>1. \A a, b \in Nat : a * b \in Nat
  OBVIOUS
<1> QED BY <1>1 DEF Cost, Amounts

LEMMA AmountsCount ==
  ASSUME NEW S, NEW f \in [S -> Amounts]
  PROVE  Counts(f, S)
BY DEF Counts, Amounts

LEMMA DecisionMeetsContract ==
  ASSUME NEW r, IsRecord(r), NEW e \in EvidenceSet, NEW entry,
         entry = None \/ entry.rates \in [Components -> Amounts]
  PROVE  MeetsContract(Decision(r, e, entry))
<1> DEFINE d == Decision(r, e, entry)
<1>1. r.tokens \in [Components -> Amounts]
  BY DEF IsRecord
<1>2. d.tier \in DOMAIN BaseRounds
  BY TiersAreKnown, FieldsOfDecision
<1>3. d.preserving \in BOOLEAN /\ d.gate \in BOOLEAN
  <2>1. Preserving(r, e) \in BOOLEAN
    BY DEF Preserving
  <2>2. HumanGate(e) \in BOOLEAN
    BY DEF HumanGate
  <2> QED BY <2>1, <2>2, FieldsOfDecision
<1>4. d.state \in {"preserving", "not_preserving", "unknown"}
  BY FieldsOfDecision DEF QualityState
<1>5. d.budget = None \/ Counts(d.budget, Components)
  <2>1. Envelope(r, Multiplier[Tier(r, e)]) \in [Components -> Amounts]
    <3>1. \A c \in Components : r.tokens[c] = None \/ r.tokens[c] \in Nat
      BY <1>1 DEF Amounts
    <3> QED BY <3>1, TiersAreKnown, CeilingIsEnough DEF Envelope, Amounts
  <2> QED BY <2>1, AmountsCount, FieldsOfDecision DEF Budget
<1>6. d.rounds \in Nat \ {0}
  BY RoundsArePositive, FieldsOfDecision
<1>7. /\ d.session \in {"preserve", "renew", "insufficient_evidence"}
      /\ d.cache \in {"preserve", "no_cache_signal", "insufficient_evidence"}
      /\ d.confidence \in {"high", "medium", "low"}
  BY FieldsOfDecision DEF SessionTreatment, CacheTreatment, Confidence
<1>8. Counts(d.costs, Components)
  <2>1. None \in Amounts
    BY DEF Amounts
  <2>2. PolicyCosts(r, entry) \in [Components -> Amounts]
    BY <1>1, <2>1, CostIsAmount DEF PolicyCosts
  <2> QED BY <2>2, AmountsCount, FieldsOfDecision
<1>9. Counts(d.observed, Components)
  BY <1>1, AmountsCount, FieldsOfDecision
<1>10. Counts(d.waste, WasteKinds)
  <2>1. \A w \in WasteKinds : e.waste[w] = None
    BY DEF EvidenceSet, NoWaste
  <2>2. None \in Amounts
    BY DEF Amounts
  <2>3. Waste(r, e) \in [WasteKinds -> Amounts]
    BY <2>1, <2>2, TotalIsAmount DEF Waste
  <2> QED BY <2>3, AmountsCount, FieldsOfDecision
<1>11. d.review \in Facts /\ d.recall \in Facts
  BY FieldsOfDecision DEF EvidenceSet
<1>12. d.providerTier \in {"preserve_current", "escalate_allowed"}
  BY FieldsOfDecision
<1> HIDE DEF d
<1>13. {d.preserving, d.gate} \subseteq BOOLEAN
  BY <1>3
<1>14. {d.review, d.recall} \subseteq Facts
  BY <1>11
<1>15. MeetsContract(d)
  BY <1>2, <1>13, <1>4, <1>5, <1>6, <1>7, <1>8, <1>9, <1>10, <1>14, <1>12 DEF MeetsContract
<1> QED BY <1>15 DEF d

Contract == \A t \in DOMAIN report.made : MeetsContract(report.made[t].decision)

LEMMA ContractSteps == Typed /\ Contract /\ [Next]_vars => Contract'
<1> SUFFICES ASSUME Typed, Contract, [Next]_vars PROVE Contract'
  OBVIOUS
<1>1. CASE UNCHANGED vars
  BY <1>1 DEF vars, Contract
<1>2. CASE report' = NoReport
  BY <1>2 DEF Contract, NoReport
<1>3. ASSUME NEW records \in Records, NEW dated \in BOOLEAN, Publish(records, dated)
      PROVE  Contract'
  <2>1. ASSUME NEW t \in Tasks PROVE MeetsContract(Row(t)'.decision)
    <3> DEFINE r == Record(records[t], t)
               e == Evidence(reviewed[t], declared[t], walked[t])
               entry == Lookup({}, r.provider, r.model)
    <3>1. Row(t)'.decision = Decision(r, e, entry) /\ e \in EvidenceSet
      BY <1>3, PublishedRow
    <3>2. IsRecord(r)
      BY RecordIsRecord DEF Typed
    <3>3. entry = None
      BY LookupIsOwn
    <3> HIDE DEF r, e, entry
    <3> QED BY <3>1, <3>2, <3>3, DecisionMeetsContract
  <2> QED BY <1>3, <2>1, EndKeeps DEF Contract, Row
<1>4. ASSUME NEW records \in Records, NEW listed \in Declarations, NEW book \in Books,
             PrintReport(records, listed, book)
      PROVE  Contract'
  <2>1. ASSUME NEW t \in Tasks PROVE MeetsContract(Row(t)'.decision)
    <3> DEFINE r == Record(records[t], t)
               e == Overlay(listed, t)
               entry == Lookup(book, r.provider, r.model)
    <3>1. Row(t)'.decision = Decision(r, e, entry) /\ e \in EvidenceSet
      BY <1>4, PrintedRow
    <3>2. IsRecord(r)
      BY RecordIsRecord DEF Typed
    <3>3. entry = None \/ entry.rates \in [Components -> Amounts]
      BY LookupIsOwn, BookAssumption
    <3> HIDE DEF r, e, entry
    <3> QED BY <3>1, <3>2, <3>3, DecisionMeetsContract
  <2> QED BY <1>4, <2>1, EndKeeps DEF Contract, Row
<1> QED BY <1>1, <1>2, <1>3, <1>4, Ends

-----------------------------------------------------------------------------
(* Lineages.  The walk is a function by recursion on the links it took; it *)
(* is put together from the walks that are right so far.                   *)
Walks(table, t, last, path) ==
  path = [n \in 0..last |-> IF n = 0 THEN t ELSE Parent(table, path[n - 1])]

LEMMA PathExists ==
  ASSUME NEW table, NEW t
  PROVE  \E path : Walks(table, t, MaxHops, path)
<1> DEFINE N == {n \in Nat : \E path : Walks(table, t, n, path)}
<1>1. 0 \in N
  <2>1. Walks(table, t, 0, [n \in 0..0 |-> t])
    BY DEF Walks
  <2> QED BY <2>1
<1>2. \A n \in Nat : n \in N => n + 1 \in N
  <2> TAKE n \in Nat
  <2> HAVE n \in N
  <2>1. PICK g : Walks(table, t, n, g)
    OBVIOUS
  <2> DEFINE h == [k \in 0..(n + 1) |-> IF k <= n THEN g[k] ELSE Parent(table, g[n])]
  <2>2. \A k \in 0..n : h[k] = g[k] /\ g[k] = IF k = 0 THEN t ELSE Parent(table, g[k - 1])
    BY <2>1 DEF Walks
  <2>3. h[n + 1] = Parent(table, g[n]) /\ (n + 1) - 1 = n
    OBVIOUS
  <2>4. \A k \in 0..(n + 1) : h[k] = IF k = 0 THEN t ELSE Parent(table, h[k - 1])
    <3> TAKE k \in 0..(n + 1)
    <3>1. CASE k = n + 1
      <4>1. n \in 0..n /\ k # 0 /\ k - 1 = n
        BY <3>1
      <4>2. h[k] = Parent(table, g[n])
        BY <2>3, <3>1
      <4>3. h[k - 1] = g[n]
        BY <2>2, <4>1
      <4> HIDE DEF h
      <4> QED BY <4>1, <4>2, <4>3
    <3>2. CASE k # n + 1
      <4>1. k \in 0..n /\ (k = 0 \/ k - 1 \in 0..n)
        BY <3>2
      <4> HIDE DEF h
      <4> QED BY <2>2, <4>1
    <3> QED BY <3>1, <3>2
  <2>5. Walks(table, t, n + 1, h)
    BY <2>4 DEF Walks
  <2> HIDE DEF h
  <2> QED BY <2>5
<1>3. \A n \in Nat : n \in N
  <2> HIDE DEF N
  <2> QED BY <1>1, <1>2, NaturalsBySteps
<1> QED BY <1>3, HopsAssumption

LEMMA PathWalks ==
  ASSUME NEW table, NEW t
  PROVE  /\ Path(table, t)[0] = t
         /\ \A n \in 0..MaxHops : n # 0 =>
              Path(table, t)[n] = Parent(table, Path(table, t)[n - 1])
<1> DEFINE path == CHOOSE path : Walks(table, t, MaxHops, path)
<1>1. Path(table, t) = path
  BY DEF Path, Walks
<1>2. Walks(table, t, MaxHops, path)
  BY PathExists
<1> HIDE DEF path
<1>3. \A n \in 0..MaxHops : path[n] = IF n = 0 THEN t ELSE Parent(table, path[n - 1])
  BY <1>2 DEF Walks
<1>4. 0 \in 0..MaxHops
  BY HopsAssumption
<1> QED BY <1>1, <1>3, <1>4

(* The walk from a task goes on as the walk from its link.                 *)
LEMMA PathOfChild ==
  ASSUME NEW table, NEW u
  PROVE  \A n \in Nat : n + 1 \in 0..MaxHops =>
           Path(table, u)[n + 1] = Path(table, Parent(table, u))[n]
<1> DEFINE t == Parent(table, u)
           N == {n \in Nat : n + 1 \in 0..MaxHops => Path(table, u)[n + 1] = Path(table, t)[n]}
<1>1. 0 \in N
  BY PathWalks
<1>2. \A n \in Nat : n \in N => n + 1 \in N
  <2> TAKE n \in Nat
  <2> HAVE n \in N
  <2> SUFFICES ASSUME (n + 1) + 1 \in 0..MaxHops
               PROVE  Path(table, u)[(n + 1) + 1] = Path(table, t)[n + 1]
    OBVIOUS
  <2>1. /\ n + 1 \in 0..MaxHops /\ n + 1 # 0 /\ (n + 1) - 1 = n
        /\ (n + 1) + 1 # 0 /\ ((n + 1) + 1) - 1 = n + 1
    BY HopsAssumption
  <2>2. Path(table, u)[(n + 1) + 1] = Parent(table, Path(table, u)[n + 1])
    BY <2>1, PathWalks
  <2>3. Path(table, t)[n + 1] = Parent(table, Path(table, t)[n])
    BY <2>1, PathWalks
  <2> HIDE DEF t
  <2> QED BY <2>1, <2>2, <2>3
<1> HIDE DEF N
<1>3. \A n \in Nat : n \in N
  BY <1>1, <1>2, NaturalsBySteps
<1> QED BY <1>3 DEF N

(* Tables with the same links are walked alike.                            *)
LEMMA PathOfLinks ==
  ASSUME NEW table, NEW other, \A t : Parent(table, t) = Parent(other, t), NEW t
  PROVE  \A n \in 0..MaxHops : Path(table, t)[n] = Path(other, t)[n]
<1> DEFINE N == {n \in Nat : n \in 0..MaxHops => Path(table, t)[n] = Path(other, t)[n]}
<1>1. 0 \in N
  BY PathWalks
<1>2. \A n \in Nat : n \in N => n + 1 \in N
  <2> TAKE n \in Nat
  <2> HAVE n \in N
  <2> SUFFICES ASSUME n + 1 \in 0..MaxHops
               PROVE  Path(table, t)[n + 1] = Path(other, t)[n + 1]
    OBVIOUS
  <2>1. n \in 0..MaxHops /\ n + 1 # 0 /\ (n + 1) - 1 = n
    BY HopsAssumption
  <2> QED BY <2>1, PathWalks
<1> HIDE DEF N
<1>3. \A n \in Nat : n \in N
  BY <1>1, <1>2, NaturalsBySteps
<1> QED BY <1>3 DEF N

Roots(table, t) ==
  {n \in 0..MaxHops : /\ Path(table, t)[n] # None
                      /\ Parent(table, Path(table, t)[n]) = None}

LEMMA RootIsFirst ==
  ASSUME NEW table, NEW t
  PROVE  /\ Roots(table, t) = {} => RootOf(table, t) = None
         /\ \A n \in Roots(table, t) :
              (\A k \in Roots(table, t) : n <= k) => RootOf(table, t) = Path(table, t)[n]
         /\ RootOf(table, t) # None => \E n \in Roots(table, t) : \A k \in Roots(table, t) : n <= k
<1> DEFINE ends == Roots(table, t)
<1>1. RootOf(table, t) = IF ends = {} THEN None ELSE Path(table, t)[Min(ends)]
  BY DEF RootOf, Roots
<1>2. ends \in SUBSET Nat
  BY DEF Roots
<1> HIDE DEF ends
<1>3. ends # {} => Min(ends) \in ends /\ \A k \in ends : Min(ends) <= k
  BY <1>2, MinIsLeast
<1>4. \A n, k \in Nat : n <= k /\ k <= n => n = k
  OBVIOUS
<1>5. \A n \in ends : (\A k \in ends : n <= k) => n = Min(ends)
  BY <1>2, <1>3, <1>4
<1> QED BY <1>1, <1>3, <1>5 DEF ends

LEMMA RootOfChild ==
  ASSUME NEW table, NEW u, Parent(table, u) # None, RootOf(table, u) # None
  PROVE  RootOf(table, Parent(table, u)) = RootOf(table, u)
<1> DEFINE t == Parent(table, u)
<1>1. PICK n \in Roots(table, u) : \A k \in Roots(table, u) : n <= k
  BY RootIsFirst
<1>2. n \in 0..MaxHops /\ n # 0
  <2>1. Path(table, u)[0] = u
    BY PathWalks
  <2> QED BY <1>1, <2>1 DEF Roots
<1>3. n - 1 \in 0..MaxHops /\ n - 1 \in Nat /\ (n - 1) + 1 = n
  BY <1>2, HopsAssumption
<1>4. Path(table, u)[n] = Path(table, t)[n - 1]
  BY <1>2, <1>3, PathOfChild
<1>5. n - 1 \in Roots(table, t)
  BY <1>1, <1>3, <1>4 DEF Roots
<1>6. \A k \in Roots(table, t) : n - 1 <= k
  <2> SUFFICES ASSUME NEW k \in Roots(table, t), ~(n - 1 <= k) PROVE FALSE
    OBVIOUS
  <2>1. k \in 0..MaxHops
    BY DEF Roots
  <2>2. k + 1 \in 0..MaxHops /\ k \in Nat /\ ~(n <= k + 1)
    BY <1>2, <2>1, HopsAssumption
  <2>3. Path(table, u)[k + 1] = Path(table, t)[k]
    BY <2>2, PathOfChild
  <2>4. k + 1 \in Roots(table, u)
    BY <2>2, <2>3 DEF Roots
  <2> QED BY <1>1, <2>2, <2>4
<1> HIDE DEF t
<1>7. RootOf(table, t) = Path(table, t)[n - 1] /\ RootOf(table, u) = Path(table, u)[n]
  BY <1>1, <1>5, <1>6, RootIsFirst
<1> QED BY <1>4, <1>7 DEF t

LEMMA RootOfLinks ==
  ASSUME NEW table, NEW other, \A t : Parent(table, t) = Parent(other, t), NEW t
  PROVE  RootOf(table, t) = RootOf(other, t)
<1>1. \A n \in 0..MaxHops : Path(table, t)[n] = Path(other, t)[n]
  BY PathOfLinks
<1>2. Roots(table, t) = Roots(other, t)
  BY <1>1 DEF Roots
<1>3. CASE Roots(table, t) = {}
  BY <1>2, <1>3, RootIsFirst
<1>4. CASE Roots(table, t) # {}
  <2>1. Roots(table, t) \in SUBSET Nat
    BY DEF Roots
  <2>2. PICK n \in Roots(table, t) : \A k \in Roots(table, t) : n <= k
    BY <1>4, <2>1, LeastNatural
  <2>3. RootOf(table, t) = Path(table, t)[n] /\ RootOf(other, t) = Path(other, t)[n]
    BY <1>2, <2>2, RootIsFirst
  <2>4. n \in 0..MaxHops
    BY DEF Roots
  <2> QED BY <1>1, <2>3, <2>4
<1> QED BY <1>3, <1>4

(* An answer of unchanged names its two reviews.                           *)
Rejected(t) ==
  \E r, q \in Tasks : /\ q < r
                      /\ rows[q].verdict # "none" /\ rows[q].sha = rows[r].sha
                      /\ rows[r].verdict = "request_changes"
                      /\ Lineage(rows, q) = Lineage(rows, t)
                      /\ Lineage(rows, r) = Lineage(rows, t)

LEMMA UnchangedIsRejected ==
  ASSUME Table, NEW t \in Tasks, Progress(rows, t).unchanged = "true"
  PROVE  Rejected(t)
<1> DEFINE root == Lineage(rows, t)
           history == History(rows, root)
           last == Max(history)
           prev == Max(history \ {last})
<1>1. Compared(rows[prev], rows[last]).unchanged = "true" /\ ~(Cardinality(history) < 2)
  BY DEF Progress, Judged, NoProgress
<1>2. history \in SUBSET Nat /\ IsFiniteSet(history) /\ history \subseteq Tasks
  BY TasksAreFinite, FS_Subset DEF History, Tasks
<1>3. history # {}
  BY <1>1, FS_EmptySet
<1>4. last \in history /\ \A n \in history : n <= last
  <2> HIDE DEF history
  <2> QED BY <1>2, <1>3, MaxIsGreatest
<1>5. history \ {last} # {}
  <2>1. Cardinality(history \ {last}) = Cardinality(history) - 1 /\ Cardinality(history) \in Nat
    BY <1>2, <1>4, FS_RemoveElement, FS_CardinalityType
  <2> SUFFICES ASSUME history \ {last} = {} PROVE FALSE
    OBVIOUS
  <2>2. Cardinality(history \ {last}) = 0
    BY FS_EmptySet
  <2> HIDE DEF history, last
  <2>3. Cardinality(history) = 1
    BY <2>1, <2>2
  <2> QED BY <1>1, <2>3
<1>6. prev \in history \ {last}
  <2>1. history \ {last} \in SUBSET Nat /\ IsFiniteSet(history \ {last})
    BY <1>2, FS_Subset
  <2> HIDE DEF history, last
  <2> QED BY <1>5, <2>1, MaxIsGreatest
<1>7. rows[prev].sha = rows[last].sha /\ rows[last].verdict = "request_changes"
  BY <1>1 DEF Compared, NoProgress
<1>8. \A r \in history : rows[r].verdict # "none" /\ Lineage(rows, r) = root
  BY DEF History, Lineage
<1> HIDE DEF root, history, last, prev
<1>9. prev < last
  BY <1>2, <1>4, <1>6
<1> QED BY <1>2, <1>4, <1>6, <1>7, <1>8, <1>9 DEF Rejected, root

LEMMA ProgressIsShared ==
  ASSUME Table, NEW u \in Tasks, NEW t \in Tasks, rows[u].link = t, RootOf(rows, u) # None
  PROVE  Progress(rows, u) = Progress(rows, t)
<1>1. Parent(rows, u) = t /\ t # None
  BY TasksAreFinite DEF Parent, Tasks
<1>2. RootOf(rows, t) = RootOf(rows, u)
  BY <1>1, RootOfChild
<1>3. Lineage(rows, u) = Lineage(rows, t)
  BY <1>2 DEF Lineage, Tasks
<1> QED BY <1>3 DEF Progress

(* What is recorded later leaves lineages and rejections as they are.      *)
LEMMA RootsStay ==
  ASSUME Later(rows, rows'), NEW t
  PROVE  RootOf(rows, t)' = RootOf(rows, t) /\ Lineage(rows, t)' = Lineage(rows, t)
<1>1. \A u : Parent(rows', u) = Parent(rows, u)
  BY DEF Parent, Later
<1>2. RootOf(rows', t) = RootOf(rows, t)
  BY <1>1, RootOfLinks
<1> QED BY <1>2 DEF Lineage, Later

LEMMA RejectionStays ==
  ASSUME Later(rows, rows'), NEW t \in Tasks, Rejected(t)
  PROVE  Rejected(t)'
<1>1. PICK r, q \in Tasks : /\ q < r
                            /\ rows[q].verdict # "none" /\ rows[q].sha = rows[r].sha
                            /\ rows[r].verdict = "request_changes"
                            /\ Lineage(rows, q) = Lineage(rows, t)
                            /\ Lineage(rows, r) = Lineage(rows, t)
  BY DEF Rejected
<1>2. rows'[q] = rows[q] /\ rows'[r] = rows[r] /\ Tasks' = Tasks
  BY <1>1 DEF Later, Tasks
<1>3. /\ Lineage(rows, q)' = Lineage(rows, t)'
      /\ Lineage(rows, r)' = Lineage(rows, t)'
  BY <1>1, RootsStay
<1> QED BY <1>1, <1>2, <1>3 DEF Rejected

JudgedAlike ==
  phase = "walked" =>
    \A t \in Tasks :
      /\ \A u \in Tasks : rows[u].link = t /\ RootOf(rows, u) # None => walked[u] = walked[t]
      /\ walked[t].unchanged = "true" => Rejected(t)

LEMMA LineageSteps == Typed /\ JudgedAlike /\ [Next]_vars => JudgedAlike'
<1> SUFFICES ASSUME Typed, JudgedAlike, [Next]_vars PROVE JudgedAlike'
  OBVIOUS
<1>1. ASSUME NEW t \in Tasks, NEW x, RecordResult(t, x) \/ RecordTelemetry(t, x), Next
      PROVE  JudgedAlike'
  <2>1. Later(rows, rows') /\ UNCHANGED reads
    BY <1>1, Steps DEF Typed, RecordResult, RecordTelemetry, Recording
  <2>2. Tasks' = Tasks /\ \A u \in Tasks : rows'[u].link = rows[u].link
    BY <2>1 DEF Later, Tasks
  <2>3. \A u \in Tasks : RootOf(rows, u)' = RootOf(rows, u)
    BY <2>1, RootsStay
  <2>4. \A u \in Tasks : Rejected(u) => Rejected(u)'
    BY <2>1, RejectionStays
  <2> QED BY <2>1, <2>2, <2>3, <2>4 DEF JudgedAlike, reads
<1>2. ASSUME NEW ok \in BOOLEAN, ReadProgress(ok)
      PROVE  JudgedAlike'
  <2>1. CASE ok
    <3>1. \A t \in Tasks : walked'[t] = Progress(rows, t)
      BY <1>2, <2>1 DEF ReadProgress
    <3>2. \A t, u \in Tasks : rows[u].link = t /\ RootOf(rows, u) # None => walked'[u] = walked'[t]
      BY <3>1, ProgressIsShared DEF Typed
    <3>3. \A t \in Tasks : walked'[t].unchanged = "true" => Rejected(t)
      BY <3>1, UnchangedIsRejected DEF Typed
    <3>4. UNCHANGED rows
      BY <1>2 DEF ReadProgress, database
    <3>5. \A t \in Tasks : Rejected(t)' <=> Rejected(t)
      BY <3>4 DEF Rejected, Tasks
    <3> QED BY <3>2, <3>3, <3>4, <3>5 DEF JudgedAlike, Tasks
  <2>2. CASE ~ok
    <3>1. \A t \in Tasks : walked'[t] = NoProgress
      BY <1>2, <2>2 DEF ReadProgress
    <3>2. UNCHANGED rows /\ NoProgress.unchanged # "true"
      BY <1>2 DEF ReadProgress, database, NoProgress
    <3> QED BY <3>1, <3>2 DEF JudgedAlike, Tasks
  <2> QED BY <2>1, <2>2
<1>3. CASE UNCHANGED vars
  BY <1>3 DEF JudgedAlike, vars, Tasks, Rejected
<1>4. CASE phase' # "walked"
  BY <1>4 DEF JudgedAlike
<1> QED BY <1>1, <1>2, <1>3, <1>4 DEF Next, ReadReviews, ReadTelemetry, Publish, PrintReport

-----------------------------------------------------------------------------
(* The theorems.                                                           *)
Inv == Typed /\ Honest /\ Contract /\ JudgedAlike

LEMMA Inductive == Spec => []Inv
<1>1. Init => Inv
  BY InitTyped DEF Init, Inv, Honest, Contract, JudgedAlike, Reading, NoReport
<1>2. Inv /\ [Next]_vars => Inv'
  BY NextTyped, HonestSteps, ContractSteps, LineageSteps DEF Inv
<1> QED BY <1>1, <1>2, PTL DEF Spec

(* Every reachable state is well-typed and every decision in a report      *)
(* keeps its contract, whatever was recorded, read or missed (policy.py,   *)
(* quality_evidence.py).                                                   *)
THEOREM TypeCorrect == Spec => []TypeOK
<1>1. Inv => TypeOK
  BY DEF Inv, Typed, Contract, TypeOK, Reading, Verdicts
<1> QED BY <1>1, Inductive, PTL

(* A verdict recorded while the producer reads never makes a task its own  *)
(* reviewer, nor a rejected one correct (quality_evidence.py:136-163).     *)
THEOREM ApprovalCorrect == Spec => []ApprovalIsIndependent
<1>1. Init => ApprovalIsIndependent
  BY DEF Init, ApprovalIsIndependent, NoReport
<1>2. Inv /\ ApprovalIsIndependent /\ [Next]_vars => ApprovalIsIndependent'
  BY ApprovalSteps DEF Inv
<1> QED BY <1>1, <1>2, Inductive, PTL DEF Spec

(* A budget is earned by what the tables hold when the report is made,     *)
(* although they were read at three moments (policy.py:355-412).           *)
THEOREM BudgetCorrect == Spec => []BudgetIsEarned
<1>1. Init => BudgetIsEarned
  BY DEF Init, BudgetIsEarned, NoReport
<1>2. Inv /\ BudgetIsEarned /\ [Next]_vars => BudgetIsEarned'
  BY BudgetSteps DEF Inv
<1> QED BY <1>1, <1>2, Inductive, PTL DEF Spec

(* No report of the producer fails a safety criterion of the checker,      *)
(* from whatever time on it counts (acceptance.py:158-219).                *)
THEOREM SafetyCorrect == Spec => []SafetyHolds
<1>1. Init => SafetyHolds
  BY DEF Init, SafetyHolds, Published, NoReport
<1>2. Inv /\ SafetyHolds /\ [Next]_vars => SafetyHolds'
  BY SafetySteps DEF Inv
<1> QED BY <1>1, <1>2, Inductive, PTL DEF Spec

(* A lineage is judged as one however long it is, although its walk is     *)
(* given up after MaxHops links (quality_evidence.py:289-348).             *)
THEOREM LineageCorrect == Spec => []LineageIsJudgedAsOne
<1>1. Inv => LineageIsJudgedAsOne
  BY DEF Inv, JudgedAlike, Rejected, LineageIsJudgedAsOne
<1> QED BY <1>1, Inductive, PTL

(* The strictest of an operator's declarations stands                      *)
(* (quality_evidence.py:450-456).                                          *)
THEOREM DeclarationCorrect == Spec => []DeclarationIsHonoured
<1>1. Init => DeclarationIsHonoured
  BY DEF Init, DeclarationIsHonoured, Printed, NoReport
<1>2. Inv /\ DeclarationIsHonoured /\ [Next]_vars => DeclarationIsHonoured'
  BY DeclarationSteps DEF Inv
<1> QED BY <1>1, <1>2, Inductive, PTL DEF Spec

(* Policy and price list agree on every cost, for any book, and no budget  *)
(* is below what was used (policy.py:322-345, pricing.py:170-210).         *)
THEOREM NumbersCorrect == Spec => []NumbersAgree
<1>1. Init => NumbersAgree
  BY DEF Init, NumbersAgree, NoReport
<1>2. Inv /\ NumbersAgree /\ [Next]_vars => NumbersAgree'
  BY NumbersSteps DEF Inv
<1> QED BY <1>1, <1>2, Inductive, PTL DEF Spec
=============================================================================
