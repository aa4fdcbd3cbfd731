------------------------------- MODULE Cohorts -------------------------------
(***************************************************************************)
(* What is concluded from task records: averages and failure rates, over   *)
(* all tasks and over the cohorts they are compared in (analytics.py), and *)
(* on either side of a compaction (compact_analysis.py).  A mean or a rate *)
(* is a pair, the sum and the count it is divided by; a count of zero is   *)
(* an unknown mean.  A list that was filtered is a function on the         *)
(* positions it has left, which are those of the records it is made from.  *)
(***************************************************************************)
EXTENDS Treatment

Count(list) == Cardinality(DOMAIN list)
Total(values) == SumFunction(values)
Mean(values) == <<Total(values), Count(values)>>
Where(list, Test(_)) == Restrict(list, {i \in DOMAIN list : Test(list[i])})

\* What the records say of a field, leaving out those that say nothing.
Values(records, field) == [i \in DOMAIN records |-> records[i][field]]
Mentioned(records, field) == Where(Values(records, field), LAMBDA v : v # None)

SumIfAny(values) == IF values = << >> THEN None ELSE Total(values)

(***************************************************************************)
(* Failures, by what is known of their cause.                              *)
(***************************************************************************)
\* Mutant: a task that has not ended counts among the observed ones.
Ended_All(r) == TRUE

Ended(r) == r.outcome # None
Succeeded(r) == r.outcome = "success"
NotSucceeded(r) == Ended(r) /\ ~Succeeded(r)

Buckets == {"operational", "work_product", "policy_relevant", "cancelled", "unknown"}

Bucket(category) ==
    CASE category \in {"provider_or_transport", "runtime_or_dispatcher"} -> "operational"
      [] category = "work_product_or_test" -> "work_product"
      [] category = "context_or_policy" -> "policy_relevant"
      [] category = "cancelled" -> "cancelled"
      [] OTHER -> "unknown"

Stratified(records) ==
    LET observed == Where(records, Ended)
        failed == Where(observed, NotSucceeded)
    IN  [observed |-> Count(observed), failed |-> Count(failed),
         rate |-> [b \in Buckets |->
                     <<Count(Where(failed, LAMBDA r : Bucket(r.category) = b)), Count(observed)>>]]

\* Whether the causes of failure are too little known to be compared.
Warning(strata) ==
    LET unknown == strata.rate["unknown"][1]
    IN  IF strata.failed = 0 THEN None
        ELSE IF unknown = strata.failed THEN "unknown"
        ELSE IF 2 * unknown >= strata.failed THEN "partly_unknown"
        ELSE None

(***************************************************************************)
(* Averages over all tasks.                                                *)
(***************************************************************************)
PerSuccess(records, field) == Mean(Mentioned(Where(records, Succeeded), field))
CacheReadPerTask(records) == Mean(Mentioned(records, "cacheRead"))

RetryWaste(records) ==
    LET failed == Where(records, NotSucceeded)
        retries == Where(records, LAMBDA r : r.retry)
    IN  [failed |-> Count(failed), lost |-> SumIfAny(Mentioned(failed, "total")),
         retries |-> Count(retries), redone |-> SumIfAny(Mentioned(retries, "total"))]

\* A group for each value of a key; empty groups are not reported.
Keys(records, Key(_)) == {Key(records[i]) : i \in DOMAIN records}
Grouped(records, Key(_)) ==
    [k \in Keys(records, Key) |-> Where(records, LAMBDA r : Key(r) = k)]

HasTotal(r) == r.total # None
HasAge(r) == r.age # None
OutcomeOf(r) == IF Ended(r) THEN r.outcome ELSE "unknown"

TokensPerOutcome(records) ==
    LET groups == Grouped(Where(records, HasTotal), OutcomeOf)
    IN  [o \in DOMAIN groups |-> Mean(Values(groups[o], "total"))]

TokensByAge(records) ==
    LET groups == Grouped(Where(records, LAMBDA r : HasAge(r) /\ HasTotal(r)), LAMBDA r : r.age)
    IN  [a \in DOMAIN groups |-> Mean(Values(groups[a], "total"))]

FailuresByAge(records) ==
    LET groups == Grouped(Where(records, LAMBDA r : HasAge(r) /\ Ended(r)), LAMBDA r : r.age)
    IN  [a \in DOMAIN groups |-> [strata |-> Stratified(groups[a]),
                                  warning |-> Warning(Stratified(groups[a]))]]

(***************************************************************************)
(* Cohorts.  A context that may only look fresh, because a clearing was    *)
(* attempted and nobody knows whether it worked, is not counted with those *)
(* that are; nor is a task that was sent astray.                           *)
(***************************************************************************)
Astray(r) == r.validity \in {"stale", "misrouted"}

\* Mutant: an attempted clearing is taken for a successful one.
PolicyCohort_Optimistic(r) ==
    [policy |-> r.policy, unconfirmed |-> FALSE,
     orchestration |-> IF Astray(r) THEN r.validity ELSE "valid"]

PolicyCohort(r) ==
    [policy |-> r.policy, unconfirmed |-> r.clear = "attempted",
     orchestration |-> IF Astray(r) THEN r.validity ELSE "valid"]

\* One count for each task, of its last record.
CascadeSummary(records) ==
    LET last(id) == records[Max({i \in DOMAIN records : records[i].id = id})]
        ids == {records[i].id : i \in DOMAIN records}
        astray == {id \in ids : Astray(last(id))}
        known == {id \in astray : last(id).total # None}
    IN  [counts |-> [v \in {"valid", "stale", "misrouted", "unknown"} |->
                       Cardinality({id \in ids : last(id).validity = v})],
         sample |-> Cardinality(ids), waste |-> Cardinality(astray),
         measured |-> Cardinality(known),
         tokens |-> IF known = {} THEN None
                    ELSE MapThenSumSet(LAMBDA id : last(id).total, known)]

Comparison(records) ==
    [tokens |-> Mean(Mentioned(records, "total")),
     success |-> <<Count(Where(records, Succeeded)), Count(Where(records, Ended))>>,
     count |-> Count(records), strata |-> Stratified(records),
     cascade |-> CascadeSummary(records), warning |-> Warning(Stratified(records))]

ComparePolicies(records) ==
    LET groups == Grouped(records, PolicyCohort)
    IN  [c \in DOMAIN groups |-> Comparison(groups[c])]

TestCohort(r) == IF r.scope \in {"targeted", "full_suite"} THEN r.scope ELSE "unknown"

TestCohorts(records) ==
    [c \in {"targeted", "full_suite", "unknown"} |->
        Where(records, LAMBDA r : TestCohort(r) = c)]

TestFailureRates(records) ==
    LET groups == TestCohorts(records) IN [c \in DOMAIN groups |-> Stratified(groups[c])]

(***************************************************************************)
(* Waiting for a worktree's lock, and the size of context windows.         *)
(***************************************************************************)
Largest(values) == IF values = << >> THEN None ELSE Max(Range(values))

LockWait(records) ==
    LET known == Where(records, LAMBDA r : r.wait # None)
        defers == Mentioned(known, "defers")
    IN  [rows |-> Count(records), known |-> Count(known), unknown |-> Count(records) - Count(known),
         deferKnown |-> Count(defers), deferred |-> Count(Where(defers, LAMBDA d : d > 0)),
         total |-> SumIfAny(Values(known, "wait")), mean |-> Mean(Values(known, "wait")),
         most |-> Largest(defers)]

WindowSummary(records) ==
    LET sizes == Mentioned(Where(records, LAMBDA r : r.capped # "yes"), "window")
        capped == Mentioned(records, "capped")
    IN  [rows |-> Count(records), known |-> Count(sizes), unknown |-> Count(records) - Count(sizes),
         mean |-> Mean(sizes), largest |-> Largest(sizes), cappedKnown |-> Count(capped),
         capped |-> Count(Where(capped, LAMBDA c : c = "yes"))]

WindowsByPolicy(records) ==
    LET groups == Grouped(records, PolicyCohort)
    IN  [c \in DOMAIN groups |-> WindowSummary(groups[c])]

\* How often a context was sent again: what the task consumed over the window
\* it began with, where both are known.
Amplification(r) ==
    IF r.window \in {None, 0} \/ r.span = None THEN None ELSE <<r.span, r.window>>

TelemetrySummary(records) ==
    [f \in {"uncached", "write", "read", "output", "reasoning", "span"} |->
        LET values == Mentioned(records, f)
        IN  [rows |-> Count(records), known |-> Count(values),
             unknown |-> Count(records) - Count(values),
             total |-> SumIfAny(values), mean |-> Mean(values)]]

PrefixOf(r) == IF r.prefix = None THEN "unknown" ELSE r.prefix

TelemetryByPrefix(records) ==
    LET groups == Grouped(records, PrefixOf)
    IN  [p \in DOMAIN groups |->
            [sample |-> Count(groups[p]),
             totals |-> [f \in DOMAIN TelemetrySummary(groups[p]) |->
                           TelemetrySummary(groups[p])[f].total]]]

(***************************************************************************)
(* Before and after a compaction or reset of a context.                    *)
(***************************************************************************)
TaskTime(r) == IF r.completed # None THEN r.completed ELSE r.started

\* By time; tasks of the same time stay in the order they came in.
Sooner(records, i, j) ==
    LET at(k) == TaskTime(records[k])
    IN  at(i) < at(j) \/ (at(i) = at(j) /\ i < j)

\* The last n of a set of them, and the first n.
LastOf(records, S, n) ==
    {i \in S : Cardinality({j \in S : Sooner(records, i, j)}) < n}
FirstOf(records, S, n) ==
    {i \in S : Cardinality({j \in S : Sooner(records, j, i)}) < n}

WindowStats(records) ==
    [count |-> Count(records), tokens |-> Mean(Mentioned(records, "total")),
     success |-> <<Count(Where(records, Succeeded)), Count(Where(records, Ended))>>,
     duration |-> Mean(Mentioned(records, "duration")),
     strata |-> Stratified(records), warning |-> Warning(Stratified(records))]

\* The tasks of the event's context that have a time.
Scoped(records, event) ==
    {i \in DOMAIN records : records[i].context = event.context /\ TaskTime(records[i]) # None}
Before(records, event) ==
    {i \in Scoped(records, event) : TaskTime(records[i]) <= event.at}

Sides(records, event, n) ==
    LET before == Before(records, event)
        after == Scoped(records, event) \ before
    IN  [before |-> Restrict(records, LastOf(records, before, n)),
         after |-> Restrict(records, FirstOf(records, after, n))]

BeforeAfter(records, events, n) ==
    [i \in {i \in DOMAIN events : /\ events[i].type \in {"compacted", "reset"}
                                  /\ events[i].context # None} |->
        LET sides == Sides(records, events[i], n)
        IN  [before |-> WindowStats(sides.before), after |-> WindowStats(sides.after)]]
=============================================================================
