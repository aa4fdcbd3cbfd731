----------------------------- MODULE Acceptance -----------------------------
(***************************************************************************)
(* The acceptance checker (acceptance.py): whether a rolling report shows  *)
(* enough, and safe enough, evidence to close the shadow phase.  A report  *)
(* is a function from tasks to artifacts of Policy, each with the creation *)
(* time of its task, or None.                                              *)
(***************************************************************************)
EXTENDS Policy

CONSTANTS MinArtifacts, MinMeasured, MinRuntimes,   \* 50, 30, 2
          MinApplicable,                            \* 30 rows of known recall
          MinCoverage, MaxTierShare                 \* 80 and 90 in a hundred

ASSUME ThresholdAssumption ==
    /\ {MinArtifacts, MinMeasured, MinRuntimes, MinApplicable} \subseteq Nat
    /\ {MinCoverage, MaxTierShare} \subseteq 0..100

\* part / whole is at least (at most) a number of hundredths.
AtLeast(part, whole, hundredths) == 100 * part >= hundredths * whole
AtMost(part, whole, hundredths)  == 100 * part <= hundredths * whole

Dated(row) == row.created # None

\* The fact of a row is recorded when a trusted producer declared it known.
RecordedRisk(row, f) == row.provenance.risk = "declared" /\ row.risk[f] # "unknown"

\* Any account of the recall but these three counts as recorded.
RecordedRecall(row) == row.provenance.recall \notin
    {"not_recorded", "applicable_but_missing", "not_applicable_no_retrieval"}

DeclaredRow(row) == \A f \in RiskFacts : RecordedRisk(row, f)

Trusted(row) ==
    \/ row.provenance.risk = "declared"
    \/ row.provenance.recall \in {"observed_true", "observed_false"}

\* Rows count from a given time on, or from the first one a trusted producer
\* signed.
PostCutoff(report, since) ==
    LET signed == {report[t].created :
                     t \in {u \in DOMAIN report : Dated(report[u]) /\ Trusted(report[u])}}
        cutoff == IF since # None \/ signed = {} THEN since ELSE Min(signed)
    IN  IF cutoff = None THEN {}
        ELSE {t \in DOMAIN report : Dated(report[t]) /\ report[t].created >= cutoff}

Untimestamped(report) == {t \in DOMAIN report : ~Dated(report[t])}

Measured(row) == \E c \in Components : row.decision.observed[c] # None

Category(row) ==
    IF row.risk["safety"] = "true" THEN "safety_or_live"
    ELSE IF row.risk["gate"] = "true" THEN "gate"
    ELSE IF row.risk["architecture"] = "true" THEN "architecture"
    ELSE IF row.risk["routine"] = "true" THEN "routine"
    ELSE IF row.decision.tier = "review_or_test" THEN "review_or_test"
    ELSE "unclassified"

Insufficient == "INSUFFICIENT_DATA"

Graded(enough, passed) ==
    IF ~enough THEN Insufficient ELSE IF passed THEN "PASS" ELSE "FAIL"

(***************************************************************************)
(* The criteria: sample (S1), coverage of recall and risk (C1, C2),        *)
(* differentiation of the decisions (D1 to D3), and the safety invariants  *)
(* (V1 to V3).  A criterion without rows to judge is not passed.           *)
(***************************************************************************)
S1(report, rows) ==
    LET runtimes == {report[t].decision.provider : t \in rows} \ {None}
        enough   == /\ Cardinality(rows) >= MinArtifacts
                    /\ Cardinality({t \in rows : Measured(report[t])}) >= MinMeasured
                    /\ Cardinality(runtimes) >= MinRuntimes
    IN  Graded(enough, TRUE)

C1(report, rows) ==
    LET in(states) == Cardinality({t \in rows : report[t].provenance.recall \in states})
        observed   == in({"observed_true", "observed_false"})
        applicable == observed + in({"applicable_but_missing"})
    IN  Graded(applicable >= MinApplicable, AtLeast(observed, applicable, MinCoverage))

C2(report, rows) ==
    Graded(rows # {},
           \A f \in RiskFacts :
             AtLeast(Cardinality({t \in rows : RecordedRisk(report[t], f)}),
                     Cardinality(rows), MinCoverage))

D1(report, rows) ==
    LET declared   == {t \in rows : DeclaredRow(report[t])}
        tiers      == {report[t].decision.tier : t \in declared}
        categories == {Category(report[t]) : t \in declared}
        share(tier) == Cardinality({t \in declared : report[t].decision.tier = tier})
    IN  Graded(declared # {},
               \/ Cardinality(categories) = 1
               \/ /\ Cardinality(tiers) >= 2
                  /\ \A tier \in tiers :
                       AtMost(share(tier), Cardinality(declared), MaxTierShare))

D2(report, rows) ==
    LET complete == {t \in rows : /\ report[t].decision.recall = "true"
                                  /\ report[t].decision.review = "true"}
    IN  Graded(complete # {},
               /\ \E t \in complete : report[t].decision.session # "insufficient_evidence"
               /\ \E t \in complete : report[t].decision.cache # "insufficient_evidence")

LowIntent(report, rows) ==
    {t \in rows : /\ DeclaredRow(report[t])
                  /\ \/ report[t].risk["routine"] = "true"
                     \/ report[t].decision.tier = "review_or_test"}

Escalated(row) ==
    /\ row.decision.tier = "safety_or_live" \/ row.decision.gate
    /\ row.risk["safety"] # "true"
    /\ row.risk["gate"] # "true"

D3(report, rows) ==
    LET intent == LowIntent(report, rows)
        low    == {t \in intent : report[t].decision.tier \in {"routine", "review_or_test"}}
    IN  IF \E t \in intent : Escalated(report[t]) THEN "FAIL"
        ELSE Graded(low # {}, \A t \in low : ~report[t].decision.gate)

\* Every row of the report whose risk is not fully declared is fail-safe.
FailSafe(row) ==
    /\ row.decision.tier = "safety_or_live"
    /\ row.decision.gate
    /\ row.decision.session = "insufficient_evidence"

V1(report) ==
    LET unassessed == {t \in DOMAIN report : ~DeclaredRow(report[t])}
    IN  Graded(unassessed # {}, \A t \in unassessed : FailSafe(report[t]))

\* A rejected review or a missed recall is never recommended for reuse.
Regression(row) == row.decision.review = "false" \/ row.decision.recall = "false"

Withheld(row) ==
    /\ ~row.decision.preserving
    /\ row.decision.session = "insufficient_evidence"
    /\ row.decision.cache = "insufficient_evidence"

V2(report, rows) ==
    LET regressions == {t \in rows \cup Untimestamped(report) : Regression(report[t])}
    IN  Graded(regressions # {}, \A t \in regressions : Withheld(report[t]))

\* rerun: whether a second run wrote the same bytes, or None if nobody looked.
V3(report, rows, rerun) ==
    LET unknownsKept == \A t \in rows :
                          ~RecordedRecall(report[t]) => report[t].decision.recall = "unknown"
    IN  IF ~unknownsKept \/ rerun = "false" THEN "FAIL"
        ELSE Graded(rerun # None, TRUE)

Verdict(report, since, rerun) ==
    LET rows   == PostCutoff(report, since)
        safety == <<V1(report), V2(report, rows), V3(report, rows, rerun)>>
        others == <<S1(report, rows), C2(report, rows), D1(report, rows), D3(report, rows)>>
        recall == <<C1(report, rows), D2(report, rows)>>
    IN  IF \E i \in DOMAIN safety : safety[i] = "FAIL" THEN "DO_NOT_CLOSE"
        ELSE IF /\ \A i \in DOMAIN safety : safety[i] = "PASS"
                /\ \A i \in DOMAIN others : others[i] = "PASS"
                /\ \A i \in DOMAIN recall : recall[i] # "FAIL"
             THEN "READY_TO_CLOSE"
        ELSE "NOT_YET"
=============================================================================
