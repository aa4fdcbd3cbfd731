-------------------------- MODULE QualityEvidence --------------------------
(***************************************************************************)
(* What the program learns about a task from recorded results:             *)
(* quality_evidence.py, and the merge of its three readers in              *)
(* report_producer._artifact_evidence.  Nothing is guessed: a fact nobody   *)
(* recorded is "unknown", which is not "false".                            *)
(*                                                                         *)
(* Tasks are numbered in the order the readers sort them in (created_at,   *)
(* then task_id).  A table is a function from the tasks that have a row to *)
(* their rows; the empty table also stands for a database that cannot be   *)
(* read or lacks a column, for which every reader returns nothing.         *)
(***************************************************************************)
EXTENDS Naturals, FiniteSets, FiniteSetsExt

CONSTANTS None,         \* no task, no commit id, findings that do not parse
          MaxHops       \* how many links a lineage is walked: 10

ASSUME HopsAssumption == MaxHops \in Nat

Facts == {"true", "false", "unknown"}

Truth(holds) == IF holds THEN "true" ELSE "false"

\* The four facts a producer or an operator declares about a task's risk.
RiskFacts == {"safety", "architecture", "routine", "gate"}

\* Tokens a caller found wasted; no reader in the program records any.
WasteKinds == {"stale", "misrouted", "duplicate"}

NoWaste == [w \in WasteKinds |-> None]

NoRisk == [f \in RiskFacts |-> "unknown"]

IsReview(row) == row.type = "review"

(***************************************************************************)
(* Review verdicts.  A row speaks as a review only if its type says so, it *)
(* is linked to another task and a verdict was recorded; the last of them  *)
(* in the order of the rows is the standing one.                           *)
(***************************************************************************)
\* Mutant: a task may review itself.
Reviews_Self(rows, t) ==
    {r \in DOMAIN rows : /\ IsReview(rows[r])
                         /\ rows[r].link = t
                         /\ rows[r].verdict # "none"}

Reviews(rows, t) ==
    {r \in DOMAIN rows : /\ IsReview(rows[r])
                         /\ rows[r].link = t
                         /\ r # t
                         /\ rows[r].verdict # "none"}

StandingReview(rows, t) == Max(Reviews(rows, t))

\* Mutant: the recorded word is handed out as it is.
VerdictFact_Raw(verdict) == verdict

\* A verdict the table of verdicts does not know says nothing.
VerdictFact(verdict) ==
    CASE verdict = "approve"                        -> "true"
      [] verdict \in {"request_changes", "reject"}  -> "false"
      [] OTHER                                      -> "unknown"

ReviewFact(rows, t) ==
    IF Reviews(rows, t) = {} THEN "unknown"
    ELSE VerdictFact(rows[StandingReview(rows, t)].verdict)

(***************************************************************************)
(* Progress of a lineage.  Links are followed to the task that has none;   *)
(* the walk is given up after MaxHops links, which also ends it in a cycle.*)
(***************************************************************************)
Parent(rows, t) == IF t \in DOMAIN rows THEN rows[t].link ELSE None

Path(rows, t) ==
    LET path[n \in 0..MaxHops] ==
            IF n = 0 THEN t ELSE Parent(rows, path[n - 1])
    IN  path

RootOf(rows, t) ==
    LET path == Path(rows, t)
        ends == {n \in 0..MaxHops : path[n] # None /\ Parent(rows, path[n]) = None}
    IN  IF ends = {} THEN None ELSE path[Min(ends)]

\* The reviews of a lineage that carry a verdict, in whatever part of it.
History(rows, root) ==
    {r \in DOMAIN rows : /\ IsReview(rows[r])
                         /\ rows[r].verdict # "none"
                         /\ RootOf(rows, r) = root}

NoProgress == [progress |-> "unknown", unchanged |-> "unknown"]

\* Mutant: whatever the standing verdict, the same commit is no progress.
Compared_AnyVerdict(prev, last) ==
    IF prev.sha = None \/ last.sha = None THEN NoProgress
    ELSE [progress  |-> Truth(prev.sha # last.sha),
          unchanged |-> IF prev.sha = last.sha THEN "true" ELSE "unknown"]

\* The last two reviews decide: both must name the commit they looked at and
\* have findings that parse, otherwise nothing is said.
Compared(prev, last) ==
    IF \/ prev.sha = None \/ last.sha = None
       \/ prev.findings = None \/ last.findings = None
    THEN NoProgress
    ELSE [progress  |-> IF /\ prev.sha # last.sha
                           /\ \/ prev.verdict # last.verdict
                              \/ prev.findings # last.findings
                        THEN "true" ELSE "unknown",
          unchanged |-> IF prev.sha = last.sha /\ last.verdict = "request_changes"
                        THEN "true" ELSE "unknown"]

Judged(rows, root) ==
    LET history == History(rows, root)
        last    == Max(history)
        prev    == Max(history \ {last})
    IN  IF Cardinality(history) < 2 THEN NoProgress
        ELSE Compared(rows[prev], rows[last])

\* The root a task is judged by: its own, or itself when it is the root others
\* lead to (a root need not have a row).  No root, or no review: no answer.
Lineage(rows, t) == IF t \in DOMAIN rows THEN RootOf(rows, t) ELSE t

Progress(rows, t) ==
    LET root == Lineage(rows, t)
    IN  IF root = None \/ History(rows, root) = {} THEN NoProgress
        ELSE Judged(rows, root)

(***************************************************************************)
(* Telemetry.  Only a declaration marked explicit and of high confidence   *)
(* is believed.  An observed recall stands; an exemption from it must have *)
(* been recorded as true.                                                  *)
(***************************************************************************)
NoTelemetry == [trusted |-> FALSE, risk |-> NoRisk, recall |-> "unknown",
                exempt |-> "unknown", pack |-> FALSE]

\* Mutant: any declaration is believed.
RiskOf_Untrusted(row) == row.risk

RiskOf(row) == IF row.trusted THEN row.risk ELSE NoRisk

RecallState(row) ==
    IF row.recall = "true" THEN "observed_true"
    ELSE IF row.recall = "false" THEN "observed_false"
    ELSE IF row.exempt = "true" THEN "producer_not_applicable"
    ELSE IF row.pack THEN "applicable_but_missing"
    ELSE "applicability_unknown"

ExemptFact(row) ==
    IF RecallState(row) = "producer_not_applicable" THEN "true" ELSE "unknown"

\* What is known of a task without a row: a failed read knows no task at all.
Told(telemetry, t) ==
    IF t \in DOMAIN telemetry THEN telemetry[t] ELSE NoTelemetry

\* Where the facts come from: the risk facts and the recall of a task.
Provenance(told) ==
    [risk   |-> IF told.trusted THEN "declared" ELSE "not_recorded",
     recall |-> IF told = NoTelemetry THEN "not_recorded" ELSE RecallState(told)]

(***************************************************************************)
(* The evidence of a task, merged from the three readers: the review first,*)
(* then risk and recall over it, then progress over those.                 *)
(***************************************************************************)
Evidence(review, told, progress) ==
    [review |-> review,
     risk |-> RiskOf(told), recall |-> told.recall, exempt |-> ExemptFact(told),
     progress |-> progress.progress, unchanged |-> progress.unchanged,
     waste |-> NoWaste]

(***************************************************************************)
(* An operator's declaration: task types by category.  A type of several   *)
(* categories is treated as the strictest of them; the gate is orthogonal. *)
(* A type nobody listed stays unknown.                                     *)
(***************************************************************************)
Categories == {"safety", "architecture", "routine", "gate", "non_production"}

\* Mutant: the broadest category wins.
Declared_RoutineFirst(listed, type) ==
    [safety       |-> Truth(type \in listed["safety"] /\ type \notin listed["routine"]),
     architecture |-> Truth(type \in listed["architecture"]),
     routine      |-> Truth(type \in listed["routine"]),
     gate         |-> Truth(type \in listed["gate"])]

Declared(listed, type) ==
    LET in(category) == type \in listed[category]
    IN  [safety       |-> Truth(in("safety")),
         architecture |-> Truth(in("architecture") /\ ~in("safety")),
         routine      |-> Truth(in("routine") /\ ~in("safety") /\ ~in("architecture")),
         gate         |-> Truth(in("gate"))]

\* The declaration replaces the risk facts of the tasks it lists, and only them.
Overlaid(evidence, listed, type) ==
    IF \E c \in Categories : type \in listed[c]
    THEN [evidence EXCEPT !.risk = Declared(listed, type)]
    ELSE evidence
=============================================================================
