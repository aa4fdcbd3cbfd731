------------------------------- MODULE Figures -------------------------------
(***************************************************************************)
(* Everything that is computed from what was recorded, on every input of a *)
(* small set: task records are joined with telemetry and then summarised,  *)
(* packs are summarised, and the metrics of an hour are computed.          *)
(***************************************************************************)
EXTENDS HourlyMetrics

CONSTANTS Tasks,   \* inputs: records with the rows to be joined to them
          Packs,   \* inputs: sequences of context packs
          Hours,   \* inputs: the sources of an hour of one bot
          Blank,   \* a record that tells nothing
          BlankPack,
          Near     \* how many tasks before and after a compaction are compared

\* What the joins read of a record, and what they add to it.
JoinedOn == Identity \cup {"id", "policy"}
JoinedIn == {"window", "precap", "capped", "clear", "validity", "origin"}

\* What a record, or a pack, tells its readers by a field that is not None.
Tells == {"outcome", "total", "freshInput", "cacheCreation", "cacheRead", "age", "wait",
          "defers", "window", "capped", "span", "uncached", "write", "read", "output",
          "reasoning", "started", "completed", "duration"}
PackTells == {"total", "candidates", "selected", "latency", "degraded", "stale", "conflict"}

ASSUME BlankAssumption ==
    /\ None \notin {"success", "yes"}
    /\ \A f \in Tells : Blank[f] = None
    /\ ~Blank.retry
    /\ \A f \in PackTells : BlankPack[f] = None
    /\ DOMAIN BlankPack.categories = {}

ASSUME NearAssumption == Near \in Nat \ {0}

\* A record has nothing yet of what the joins add; the tables of an hour have
\* their times in whole units, and a documented task has been asked about
\* outside, with or without an answer.
ASSUME TasksAssumption ==
    \A g \in Tasks :
        /\ g.kind = "tasks" /\ IsFiniteSet(DOMAIN g.signals)
        /\ Len(g.records) \in Nat /\ DOMAIN g.records = 1 .. Len(g.records)
        /\ \A i \in DOMAIN g.records :
             /\ JoinedOn \cup JoinedIn \subseteq DOMAIN g.records[i]
             /\ \A f \in {"window", "precap", "clear"} : g.records[i][f] = None
             /\ \A f \in {"started", "completed"} :
                  f \in DOMAIN g.records[i] /\ g.records[i][f] \in Nat \cup {None}
        /\ \A i \in DOMAIN g.events : g.events[i].at \in Nat

ASSUME PacksAssumption == \A g \in Packs : g.kind = "packs" /\ 0 \notin DOMAIN g.packs

ASSUME HoursAssumption ==
    \A g \in Hours :
        LET s == g.sources
        IN  /\ g.kind = "hour" /\ s.since \in Nat /\ s.until \in Nat
            /\ s.transitions \subseteq Nat /\ IsFiniteSet(DOMAIN s.tasks)
            /\ \A t \in DOMAIN s.tasks : s.tasks[t].documented => t \in DOMAIN s.followup
            /\ \A t \in DOMAIN s.followup : s.followup[t] \in {None, "yes", "no"}
            /\ \A p \in DOMAIN s.transcripts :
                 /\ s.transcripts[p].boundaries \subseteq Nat
                 /\ \A i \in DOMAIN s.transcripts[p].lines :
                      s.transcripts[p].lines[i].at \in Nat \cup {None}

VARIABLES given,   \* the input
          stage,   \* what has been done with it
          records, \* task records as far as they are joined
          answer   \* the figures

vars == <<given, stage, records, answer>>

Init ==
    /\ stage = "given" /\ answer = None
    /\ \/ given \in Tasks /\ records = given.records
       \/ given \in Packs \cup Hours /\ records = << >>

(***************************************************************************)
(* Steps.                                                                  *)
(***************************************************************************)
Join ==
    /\ stage = "given" /\ given.kind = "tasks"
    /\ records' = WithValidity(WithClearings(WithWindows(records, given.windows),
                                             given.clearings),
                               given.signals)
    /\ stage' = "joined"
    /\ UNCHANGED <<given, answer>>

Economics(rs, events) ==
    [fresh |-> PerSuccess(rs, "freshInput"), creation |-> PerSuccess(rs, "cacheCreation"),
     perSuccess |-> PerSuccess(rs, "total"), cacheRead |-> CacheReadPerTask(rs),
     waste |-> RetryWaste(rs), perOutcome |-> TokensPerOutcome(rs),
     tokensByAge |-> TokensByAge(rs), failuresByAge |-> FailuresByAge(rs),
     policies |-> ComparePolicies(rs), tests |-> TestFailureRates(rs),
     lock |-> LockWait(rs), windows |-> WindowSummary(rs),
     windowsByPolicy |-> WindowsByPolicy(rs), telemetry |-> TelemetrySummary(rs),
     prefixes |-> TelemetryByPrefix(rs), cascade |-> CascadeSummary(rs),
     amplification |-> [i \in DOMAIN rs |-> Amplification(rs[i])],
     sides |-> BeforeAfter(rs, events, Near)]

Summarise ==
    /\ stage = "joined"
    /\ answer' = Economics(records, given.events)
    /\ stage' = "answered"
    /\ UNCHANGED <<given, records>>

Retrieval(packs) ==
    [composition |-> Composition(packs), efficiency |-> Efficiency(packs),
     modes |-> ByMode(packs)]

SummarisePacks ==
    /\ stage = "given" /\ given.kind = "packs"
    /\ answer' = Retrieval(given.packs)
    /\ stage' = "answered"
    /\ UNCHANGED <<given, records>>

Measure ==
    /\ stage = "given" /\ given.kind = "hour"
    /\ answer' = ComputeMetrics(given.sources)
    /\ stage' = "answered"
    /\ UNCHANGED <<given, records>>

Next == Join \/ Summarise \/ SummarisePacks \/ Measure

Spec == Init /\ [][Next]_vars
-----------------------------------------------------------------------------
(***************************************************************************)
(* Properties.                                                             *)
(***************************************************************************)
Answered(kind) == stage = "answered" /\ given.kind = kind

\* What is remembered while the records are walked changes no answer: in any
\* order, and around any cycle of links, a record gets what it would get on
\* its own, and what it inherits comes from a review (correlate.py:417-466).
CascadeIsOrderFree ==
    stage = "joined" =>
        \A i \in DOMAIN records :
            LET r == records[i]
            IN  /\ Answer(given.signals, << >>, r.id) = [validity |-> r.validity,
                                                        origin |-> r.origin]
                /\ r.origin # None => given.signals[r.origin].type = "review"

\* A window is a record's own only if its row agrees with it on all that both
\* know; across sessions only a cap is taken over, across contexts only a
\* clearing that landed, of the same provider and of a generation before
\* (correlate.py:246-396).
JoinsKeepIdentity ==
    stage = "joined" =>
        \A i \in DOMAIN records :
            LET r == records[i]
                window == RowOf(given.windows, r.id)
                clearing == RowOf(given.clearings, r.id)
            IN  /\ r.window # None => Conflicts(r, window) = {} /\ r.window = window.window
                /\ r.precap # None => /\ r.window = None
                                      /\ Conflicts(r, window) \subseteq {"session"}
                /\ (r.clear # None /\ Conflicts(r, clearing) # {}) =>
                      /\ clearing.status # "failed"
                      /\ r.provider = clearing.provider
                      /\ r.generation > clearing.generation
                /\ \A f \in Identity \cup {"policy"} : r[f] = given.records[i][f]

\* What is known from records, as opposed to how many there are.
Content(e, cohorts, prefixes) ==
    [averages |-> <<e.fresh, e.creation, e.perSuccess, e.cacheRead, e.waste, e.perOutcome,
                    e.tokensByAge, e.failuresByAge, e.tests, e.sides>>,
     policies |-> [c \in cohorts |-> <<e.policies[c].tokens, e.policies[c].success,
                                       e.policies[c].strata, e.policies[c].warning>>],
     lock |-> <<e.lock.known, e.lock.deferKnown, e.lock.deferred, e.lock.mean, e.lock.most>>,
     windows |-> [c \in cohorts |-> <<e.windowsByPolicy[c].known, e.windowsByPolicy[c].mean,
                                      e.windowsByPolicy[c].cappedKnown>>],
     telemetry |-> [f \in DOMAIN e.telemetry |-> e.telemetry[f].mean],
     prefixes |-> [p \in prefixes |-> e.prefixes[p].totals]]

\* A list with something put before it, at position 0.
After(x, list) == [i \in {0} \cup DOMAIN list |-> IF i = 0 THEN x ELSE list[i]]

PackContent(a) ==
    <<a.composition.mean, a.composition.totals, a.composition.share,
      a.efficiency.compression, a.efficiency.p50, a.efficiency.p95, a.efficiency.degraded,
      a.efficiency.stale, a.efficiency.conflict>>

\* A record that tells nothing changes no mean, rate, maximum or percentile, in
\* no cohort: what is unknown is neither zero nor a success (analytics.py,
\* compact_analysis.py, context_pack_analytics.py).
SilenceChangesNothing ==
    /\ Answered("tasks") =>
         LET cohorts == DOMAIN answer.policies
             prefixes == DOMAIN answer.prefixes
         IN  Content(answer, cohorts, prefixes)
               = Content(Economics(After(Blank, records), given.events), cohorts, prefixes)
    /\ Answered("packs") =>
         PackContent(answer) = PackContent(Retrieval(After(BlankPack, given.packs)))

\* Every record is in one cohort of each comparison, and the cohorts add up to
\* the whole; the one called fresh holds no task that may only look fresh or
\* was sent astray; a capped window is in no average of windows; and around a
\* compaction the tasks that are compared are as many as there are, up to Near
\* on either side (analytics.py:286-470, compact_analysis.py:57-105).
CohortsAddUp ==
    LET cohorts == DOMAIN answer.policies
    IN  /\ Total([c \in cohorts |-> answer.policies[c].count]) = Count(records)
        /\ Total([c \in cohorts |-> answer.policies[c].strata.failed]) = answer.waste.failed
        /\ Total([b \in Buckets |-> Stratified(records).rate[b][1]]) = answer.waste.failed
        /\ Total([c \in cohorts |-> answer.windowsByPolicy[c].known]) = answer.windows.known

PureCohortsArePure ==
    \A c \in DOMAIN answer.policies : ~c.unconfirmed /\ c.orchestration = "valid" =>
        answer.policies[c].count
          <= Cardinality({i \in DOMAIN records : /\ records[i].policy = c.policy
                                                 /\ records[i].clear # "attempted"
                                                 /\ ~Astray(records[i])})

SidesAreNearest ==
    \A i \in DOMAIN answer.sides :
        LET event == given.events[i]
            scoped == {j \in DOMAIN records : /\ records[j].context = event.context
                                             /\ TaskTime(records[j]) # None}
            early == Cardinality({j \in scoped : TaskTime(records[j]) <= event.at})
        IN  /\ answer.sides[i].before.count = Min({Near, early})
            /\ answer.sides[i].after.count = Min({Near, Cardinality(scoped) - early})

EveryRecordIsCountedOnce ==
    Answered("tasks") =>
        /\ CohortsAddUp /\ PureCohortsArePure /\ SidesAreNearest
        /\ answer.windows.known + Cardinality({i \in DOMAIN records : records[i].capped = "yes"})
             <= Count(records)

\* A metric has a number only where its evidence was complete: a source that
\* cannot be read, a task without its pack, an item that cannot be found or a
\* review nobody could follow up leaves it unknown (metrics_b1.py:3-4).
NoEvidenceNoNumber ==
    Answered("hour") =>
        LET s == given.sources
        IN  /\ s.db # "readable" =>
                 \A m \in {"M1", "M3c", "M8"} : answer[m].value = None
            /\ s.memory # "readable" =>
                 \A m \in {"M3a", "M3b", "M7"} : answer[m].value = None
            /\ answer.M3c.value # None =>
                 \A t \in TaskIds(s) : \E i \in DOMAIN s.packs : /\ s.packs[i].task = t
                                                                 /\ s.packs[i].kinds # None
            /\ answer.M7.value # None =>
                 \A i \in DOMAIN s.packs :
                    s.packs[i].shadow \/ ~Within(s.packs[i].at, s.since, s.until)
                      \/ \A k \in DOMAIN s.packs[i].ids : s.packs[i].ids[k] \in DOMAIN s.items
            /\ s.db = "readable" =>
                 /\ answer.M8.n + answer.M8.unknown = answer.M8.eligible
                 /\ answer.M8.value # None =>
                      answer.M8.value[1]
                        <= Cardinality({r \in Matured(s) : /\ Parent(s, r) \in DOMAIN s.followup
                                                           /\ s.followup[Parent(s, r)] = "no"})

\* No request is counted for two contexts, nor for one that had already been
\* cleared when it was made (metrics_b1.py:139-199).
GenerationsAreNotMixed ==
    Answered("hour") =>
        \A g, h \in Generations(given.sources) :
            /\ g.path = h.path /\ g.at # h.at => g.rows \cap h.rows = {}
            /\ \A r \in g.rows, m \in Moments(given.sources) : ~(g.at < m /\ m <= r.at)
=============================================================================
