-------------------------- MODULE ShadowDecisions ---------------------------
(***************************************************************************)
(* Decisions as they come about: a dispatcher records reviews and          *)
(* telemetry in its database while a producer reads it, three times over   *)
(* three connections (report_producer._artifact_evidence), decides every   *)
(* task by the policy and publishes a report the acceptance checker        *)
(* judges.  The command line prints a report of its own from one read, an  *)
(* operator's declaration and a book of prices (cli.py).                   *)
(*                                                                         *)
(* Which decisions the rolling report keeps and refreshes is the business  *)
(* of RollingReport; here every one is made.                               *)
(***************************************************************************)
EXTENDS Acceptance

CONSTANTS Shapes,       \* the tables a dispatcher may have set up: type and link
          Results,      \* what a review may record: verdict, commit, findings
          Telemetry,    \* what a task's attribution may tell
          Records,      \* what the tasks' records may be: task -> record
          Declarations, \* what an operator may declare of task types
          Books,        \* the price books a caller may have
          MaxTold,      \* how many tasks record telemetry
          MaxLate       \* how much the dispatcher records while a reader reads

Amounts == Nat \cup {None}

\* A telemetry row that a reader could make something of.
TelemetryRow == [trusted : BOOLEAN, risk : [RiskFacts -> Facts], recall : Facts,
                 exempt : Facts, pack : BOOLEAN]

IsRecord(record) ==
    /\ DOMAIN record = {"outcome", "type", "provider", "model", "validity", "tokens",
                        "total", "breakdown", "retry", "context"}
    /\ record.tokens \in [Components -> Amounts]
    /\ {record.total, record.breakdown} \subseteq Amounts

ASSUME NoneAssumption == None \notin Nat /\ None \notin Facts

ASSUME DatabaseAssumption ==
    /\ \A shape \in Shapes : DOMAIN shape \subseteq Nat /\ IsFiniteSet(DOMAIN shape)
    /\ Telemetry \subseteq TelemetryRow

ASSUME RecordAssumption ==
    \A records \in Records :
        /\ \A shape \in Shapes : DOMAIN shape \subseteq DOMAIN records
        /\ \A t \in DOMAIN records : IsRecord(records[t])

ASSUME BookAssumption ==
    \A book \in Books : \A entry \in book : entry.rates \in [Components -> Amounts]

VARIABLES rows,         \* the tasks table
          told,         \* the attribution table
          phase,        \* what the reader has done so far
          reviewed,     \* review facts as read: task -> Facts
          declared,     \* telemetry as read: task -> row
          walked,       \* progress as read: task -> progress facts
          report,       \* the report as published or printed
          late          \* what was recorded since the reader began

vars == <<rows, told, phase, reviewed, declared, walked, report, late>>
database == <<rows, told, late>>
reads == <<phase, reviewed, declared, walked, report>>

Tasks == DOMAIN rows

Pending(shape) ==
    [t \in DOMAIN shape |-> [type |-> shape[t].type, link |-> shape[t].link,
                             verdict |-> "none", sha |-> None, findings |-> None]]

NoReport == [kind |-> "none", listed |-> << >>, made |-> << >>]

Init ==
    /\ \E shape \in Shapes : rows = Pending(shape)
    /\ told = << >>
    /\ phase = "idle"
    /\ reviewed = << >> /\ declared = << >> /\ walked = << >>
    /\ report = NoReport
    /\ late = 0

(***************************************************************************)
(* The dispatcher.  A verdict is recorded once; telemetry of a task is     *)
(* written when it ends.  What comes after the report is for another run.  *)
(***************************************************************************)
Recording ==
    /\ phase # "done"
    /\ late' = IF phase = "idle" THEN late ELSE late + 1
    /\ late' <= MaxLate
    /\ UNCHANGED reads

RecordResult(t, result) ==
    /\ rows[t].type # "implement"
    /\ rows[t].verdict = "none"
    /\ rows' = [rows EXCEPT ![t].verdict = result.verdict, ![t].sha = result.sha,
                            ![t].findings = result.findings]
    /\ UNCHANGED told
    /\ Recording

RecordTelemetry(t, row) ==
    /\ t \notin DOMAIN told
    /\ Cardinality(DOMAIN told) < MaxTold
    /\ told' = [u \in DOMAIN told \cup {t} |-> IF u = t THEN row ELSE told[u]]
    /\ UNCHANGED rows
    /\ Recording

(***************************************************************************)
(* The producer.  A read that fails yields nothing for any task.           *)
(***************************************************************************)
ReadReviews(ok) ==
    /\ phase = "idle"
    /\ reviewed' = [t \in Tasks |-> IF ok THEN ReviewFact(rows, t) ELSE "unknown"]
    /\ phase' = "reviewed"
    /\ UNCHANGED <<database, declared, walked, report>>

ReadTelemetry(ok) ==
    /\ phase = "reviewed"
    /\ declared' = [t \in Tasks |-> IF ok THEN Told(told, t) ELSE NoTelemetry]
    /\ phase' = "declared"
    /\ UNCHANGED <<database, reviewed, walked, report>>

ReadProgress(ok) ==
    /\ phase = "declared"
    /\ walked' = [t \in Tasks |-> IF ok THEN Progress(rows, t) ELSE NoProgress]
    /\ phase' = "walked"
    /\ UNCHANGED <<database, reviewed, declared, report>>

\* A creation time is missing when the connection for them failed.
Made(t, record, evidence, provenance, book, created) ==
    LET artifact == Artifact([record EXCEPT !.type = rows[t].type],
                             evidence, provenance, book)
    IN  [field \in DOMAIN artifact \cup {"created"} |->
            IF field = "created" THEN created ELSE artifact[field]]

Publish(records, dated) ==
    /\ phase = "walked"
    /\ report' = [kind |-> "organic", listed |-> << >>,
                  made |-> [t \in Tasks |->
                              Made(t, records[t],
                                   Evidence(reviewed[t], declared[t], walked[t]),
                                   Provenance(declared[t]), {},
                                   IF dated THEN t ELSE None)]]
    /\ phase' = "done"
    /\ reviewed' = << >> /\ declared' = << >> /\ walked' = << >>
    /\ UNCHANGED database

(***************************************************************************)
(* The command line.                                                       *)
(***************************************************************************)
PrintReport(records, listed, book) ==
    /\ phase = "reviewed"
    /\ report' = [kind |-> "printed", listed |-> listed,
                  made |-> [t \in Tasks |->
                              Made(t, records[t],
                                   Overlaid(Evidence(reviewed[t], NoTelemetry, NoProgress),
                                            listed, rows[t].type),
                                   [risk |-> IF \E c \in Categories : rows[t].type \in listed[c]
                                             THEN "operator_declared" ELSE "not_recorded",
                                    recall |-> "not_recorded"],
                                   book, None)]]
    /\ phase' = "done"
    /\ reviewed' = << >> /\ declared' = << >> /\ walked' = << >>
    /\ UNCHANGED database

Next ==
    \/ \E t \in Tasks, result \in Results : RecordResult(t, result)
    \/ \E t \in Tasks, row \in Telemetry : RecordTelemetry(t, row)
    \/ \E ok \in BOOLEAN : ReadReviews(ok) \/ ReadTelemetry(ok) \/ ReadProgress(ok)
    \/ \E records \in Records, dated \in BOOLEAN : Publish(records, dated)
    \/ \E records \in Records, listed \in Declarations, book \in Books :
         PrintReport(records, listed, book)

Spec == Init /\ [][Next]_vars
-----------------------------------------------------------------------------
(***************************************************************************)
(* Properties.                                                             *)
(***************************************************************************)
\* Every variable holds what its place in the code can hold, and every decision
\* made keeps the contract published for its readers (policy.py:20-139).
TypeOK ==
    /\ \A t \in Tasks : rows[t].verdict \in {"none"} \cup {r.verdict : r \in Results}
    /\ DOMAIN told \subseteq Tasks
    /\ \A t \in DOMAIN told : told[t] \in Telemetry
    /\ phase \in {"idle", "reviewed", "declared", "walked", "done"}
    /\ phase \in {"reviewed", "declared", "walked"} => reviewed \in [Tasks -> Facts]
    /\ phase \in {"declared", "walked"} => declared \in [Tasks -> Telemetry \cup {NoTelemetry}]
    /\ phase = "walked" => walked \in [Tasks -> [progress : Facts, unchanged : Facts]]
    /\ report.kind \in {"none", "organic", "printed"}
    /\ phase = "done" <=> report.kind # "none"
    /\ \A t \in DOMAIN report.made : MeetsContract(report.made[t].decision)

Published == report.kind = "organic"
Printed == report.kind = "printed"
Row(t) == report.made[t]

ApprovedByAnother(t) ==
    \E r \in Tasks \ {t} : /\ IsReview(rows[r])
                           /\ rows[r].link = t
                           /\ rows[r].verdict = "approve"

\* A task is called correct only if another task of a review type, linked to
\* it, recorded an approval: neither its own verdict nor a tester's counts,
\* nor one about a neighbour in the fix loop (quality_evidence.py:136-163).
ApprovalIsIndependent ==
    \A t \in DOMAIN report.made :
        Row(t).decision.review = "true" => ApprovedByAnother(t)

FullyDeclared(t) ==
    /\ t \in DOMAIN told
    /\ told[t].trusted
    /\ \A f \in RiskFacts : told[t].risk[f] # "unknown"

\* A soft budget is anchored on a run that succeeded, that another task
\* approved and that either recalled its context or was exempted from it with
\* its risk fully declared, whatever read failed on the way (policy.py:355-412).
BudgetIsEarned ==
    \A t \in DOMAIN report.made :
        Row(t).decision.budget # None =>
            /\ Row(t).decision.outcome = "success"
            /\ ApprovedByAnother(t)
            /\ t \in DOMAIN told
            /\ told[t].recall = "true" \/ (told[t].exempt = "true" /\ FullyDeclared(t))

\* No report the producer publishes makes the checker find a safety invariant
\* of the policy broken, from whatever time on it counts, nor an escalation
\* nobody declared: the two agree on what is unassessed and what is a
\* regression, although each decides it from other fields (acceptance.py:158-219).
SafetyHolds ==
    Published =>
        \A since \in {None} \cup Tasks, rerun \in {None, "true"} :
            /\ Verdict(report.made, since, rerun) # "DO_NOT_CLOSE"
            /\ D3(report.made, PostCutoff(report.made, since)) # "FAIL"

\* A task and the one it was made for are judged alike, and a lineage is called
\* unchanged only on a rejection recorded in it, never on one that was moved
\* past (quality_evidence.py:289-348).
LineageIsJudgedAsOne ==
    phase = "walked" =>
        \A t \in Tasks :
            /\ \A u \in Tasks : /\ rows[u].link = t
                                /\ RootOf(rows, u) # None
                                => walked[u] = walked[t]
            /\ walked[t].unchanged = "true" =>
                 \E r, q \in Tasks : /\ q < r
                                     /\ rows[q].sha = rows[r].sha
                                     /\ rows[r].verdict = "request_changes"
                                     /\ Lineage(rows, q) = Lineage(rows, t)
                                     /\ Lineage(rows, r) = Lineage(rows, t)

\* Whatever else an operator lists a type under, listing it as safety or as
\* gated is not diluted, and only listed types leave the fail-safe
\* (quality_evidence.py:450-456).
DeclarationIsHonoured ==
    Printed =>
        \A t \in Tasks :
            LET listed(categories) == \E c \in categories : rows[t].type \in report.listed[c]
            IN  /\ listed({"safety", "gate"}) => Row(t).decision.tier = "safety_or_live"
                /\ listed({"gate"}) => Row(t).decision.gate
                /\ ~listed(Categories) => FailSafe(Row(t))

\* The costs of the policy and those of the price list come from two
\* computations and two looks at the book, and are the same; a budget never
\* falls below what was used (policy.py:322-345, pricing.py:170-210,
\* shadow_report.py:36-44).
NumbersAgree ==
    \A t \in DOMAIN report.made :
        /\ Row(t).decision.costs = Row(t).cost.components
        /\ \A c \in Components : Row(t).headroom[c] # None => Row(t).headroom[c] >= 0
=============================================================================
