---------------------------- MODULE HourlyMetrics ----------------------------
(***************************************************************************)
(* The measurement table of an hour (metrics_b1.py): the rows of one bot,  *)
(* computed from sources each of which may be missing.  A row holds the    *)
(* number of samples and a value; a value of None is unknown.  since and   *)
(* until bound a half-open window.                                         *)
(***************************************************************************)
EXTENDS ContextPacks

CONSTANTS Reach,     \* how far from a transition a request is looked for (two hours)
          Twin,      \* how near two transitions are the same one (two minutes)
          Maturity,  \* how long an approval has to stand (72 hours)
          SizeLimit  \* the bytes a hook should not exceed (8900)

ASSUME MetricsAssumption == {Reach, Twin, Maturity, SizeLimit} \subseteq Nat

Measured(n, value) == [n |-> n, value |-> value]
Within(at, since, until) == at # None /\ since <= at /\ at < until

(***************************************************************************)
(* M1: the share of input that was read from a cache.                      *)
(***************************************************************************)
Parts == {"uncached", "write", "read"}
Amount(row) == MapThenSumSet(LAMBDA p : row[p], Parts)
AmountOf(rows) == MapThenSumSet(Amount, rows)
Complete(row) == \A p \in Parts : row[p] # None

CacheShare(receipts) ==
    LET known == Where(receipts, LAMBDA r : Complete(r) /\ Amount(r) > 0)
    IN  Measured(Count(known),
                 IF known = << >> THEN None
                 ELSE <<Total(Values(known, "read")),
                        Total([i \in DOMAIN known |-> Amount(known[i])])>>)

\* The requests of a transcript in reach of the window: the first complete
\* line of each. A file last written before the reach is not opened; it has
\* no line within it.
Requests(lines, since, until) ==
    LET usable(i) == /\ Within(lines[i].at, since - Reach, until + Reach)
                     /\ Complete(lines[i])
    IN  {lines[i] : i \in {j \in DOMAIN lines :
            /\ usable(j)
            /\ \A k \in 1 .. j - 1 : usable(k) => lines[k].id # lines[j].id}}

Boundaries(s) ==
    {b \in UNION {[at : s.transcripts[p].boundaries, path : {p}] : p \in DOMAIN s.transcripts} :
        Within(b.at, s.since, s.until)}

Transitions(s) == {t \in s.transitions : Within(t, s.since, s.until)}
Moments(s) == Transitions(s) \cup {b.at : b \in Boundaries(s)}

\* Mutant: a context is taken to last until the end of the hour.
NextMoment_Until(s, at) == s.until

NextMoment(s, at) == Min({m \in Moments(s) : m > at} \cup {s.until})

RequestsAfter(s, path, at, last) ==
    {r \in Requests(s.transcripts[path].lines, s.since, s.until) : at < r.at /\ r.at <= last}

\* A transition that is not in a transcript is joined to the transcript with
\* the next request, unless two of them are equally near.
Nearest(s, at) ==
    LET paths == {p \in DOMAIN s.transcripts : RequestsAfter(s, p, at, at + Reach) # {}}
        wait(p) == Min({r.at : r \in RequestsAfter(s, p, at, at + Reach)}) - at
        near == {p \in paths : \A q \in paths : wait(p) <= wait(q)}
    IN  IF Cardinality(near) = 1 THEN near ELSE {}

Generation(s, path, at, last) ==
    [path |-> path, at |-> at,
     rows |-> {r \in RequestsAfter(s, path, at, last) :
                 r.at < NextMoment(s, at) /\ r.at < s.until}]

Generations(s) ==
    LET lone == {t \in Transitions(s) : \A b \in Boundaries(s) :
                                          b.at > t + Twin \/ b.at < t - Twin}
    IN  {g \in {Generation(s, b.path, b.at, s.until) : b \in Boundaries(s)}
               \cup UNION {{Generation(s, p, t, t + Reach) : p \in Nearest(s, t)} : t \in lone} :
            AmountOf(g.rows) > 0}

SessionCache(s) ==
    LET joined == Generations(s)
        read(g) == MapThenSumSet(LAMBDA r : r.read, g.rows)
        amount(g) == AmountOf(g.rows)
    IN  [n |-> Cardinality(joined), moments |-> Cardinality(Moments(s)),
         value |-> IF joined = {} THEN None
                   ELSE <<MapThenSumSet(read, joined), MapThenSumSet(amount, joined)>>]

(***************************************************************************)
(* M2, M4, M5, M6: what the hooks of the bot reported in the window.       *)
(***************************************************************************)
Hooks(s) == Where(s.hooks, LAMBDA h : ~h.oneshot /\ Within(h.at, s.since, s.until))

Heads(hooks) ==
    LET heads == Mentioned(hooks, "head")
    IN  Measured(Count(heads), IF heads = << >> THEN None ELSE Cardinality(Range(heads)))

HookBytes(hooks) ==
    LET sizes == Mentioned(hooks, "bytes")
    IN  Measured(Count(sizes),
                 IF sizes = << >> THEN None
                 ELSE [most |-> Largest(sizes),
                       over |-> Count(Where(sizes, LAMBDA b : b > SizeLimit))])

Trims(hooks) ==
    LET both == Where(hooks, LAMBDA h : None \notin {h.trimmed, h.standing})
    IN  Measured(Count(both), IF both = << >> THEN None
                            ELSE [trimmed |-> Total(Values(both, "trimmed")),
                                  standing |-> Total(Values(both, "standing"))])

Latency(hooks) ==
    LET latencies == Mentioned(Where(hooks, LAMBDA h : h.ranked), "latency")
    IN  Measured(Count(latencies), Percentile(latencies, 95))

(***************************************************************************)
(* M3: the scores of a replay of the frozen evaluation, and whether every  *)
(* task of the window got a pack with the middle kinds.                    *)
(***************************************************************************)
ValidScore(score) == score.count > 0 /\ score.hits \in 0 .. score.count

\* Without the evaluation set, the memory to replay it on or an adapter that
\* returns proper scores for both groups there are none.
Replayed(s) ==
    IF /\ s.eval = "frozen" /\ s.memory = "readable" /\ s.replay # None
       /\ \A group \in {"owner", "task"} : ValidScore(s.replay[group])
    THEN s.replay ELSE None

Score(s, group) ==
    LET scores == Replayed(s)
    IN  IF scores = None THEN Measured(None, None)
        ELSE Measured(scores[group].count, <<scores[group].hits, scores[group].count>>)

\* The last pack of a task that says which kinds it holds.
PackKinds(s) ==
    LET told == {i \in DOMAIN s.packs : /\ Within(s.packs[i].at, s.since, s.until)
                                        /\ s.packs[i].task # None /\ s.packs[i].kinds # None}
        last(t) == Max({i \in told : s.packs[i].task = t})
    IN  [t \in {s.packs[i].task : i \in told} |-> s.packs[last(t)].kinds]

TaskIds(s) == IF s.db = "readable"
              THEN {t \in DOMAIN s.tasks : Within(s.tasks[t].created, s.since, s.until)} ELSE {}

PackCoverage(s) ==
    LET kinds == PackKinds(s)
        known == TaskIds(s) \cap DOMAIN kinds
        served == {t \in known : kinds[t] \cap {"lineage", "failure_pattern"} # {}}
    IN  Measured(Cardinality(known),
                 IF known = {} \/ known # TaskIds(s) THEN None
                 ELSE <<Cardinality(served), Cardinality(known)>>)

(***************************************************************************)
(* M7: what is wrong with the items that were served.                      *)
(***************************************************************************)
ServedPacks(s) ==
    {i \in DOMAIN s.packs : ~s.packs[i].shadow /\ Within(s.packs[i].at, s.since, s.until)}

\* An event whose list is missing or not the one it counted is one miss.
Listed(pack) == pack.ids # None /\ pack.selected = Len(pack.ids)

\* What was served: positions in the lists, 0 for a miss.
Positions(s) ==
    UNION {{i} \X (IF Listed(s.packs[i]) THEN DOMAIN s.packs[i].ids ELSE {0}) :
              i \in ServedPacks(s)}

Key(s, at) == s.packs[at[1]].ids[at[2]]

Found(s, key) == key \in DOMAIN s.items /\ Len(s.items[key]) = 1 /\ s.items[key][1].readable

Served(s) ==
    LET joined == {at \in Positions(s) : at[2] # 0 /\ Found(s, Key(s, at))}
        wrong(flag) == Cardinality({at \in joined : flag \in s.items[Key(s, at)][1].flags})
    IN  IF ServedPacks(s) = {} THEN Measured(0, None)
        ELSE IF s.memory # "readable" THEN Measured(None, None)
        ELSE Measured(Cardinality(joined),
                      IF joined # Positions(s) THEN None
                      ELSE [f \in {"superseded", "cross_project", "secret"} |-> wrong(f)])

(***************************************************************************)
(* M8: approvals that stood for 72 hours without a fix.                    *)
(***************************************************************************)
Matured(s) ==
    {r \in DOMAIN s.tasks :
        /\ s.tasks[r].type = "review" /\ s.tasks[r].verdict = "approve"
        /\ Within(s.tasks[r].posted, s.since - Maturity, s.until - Maturity)}

Parent(s, r) == s.tasks[r].parent

\* The approved task has its receipt, with recommendation and execution.
Documented(s, r) == Parent(s, r) \in DOMAIN s.tasks /\ s.tasks[Parent(s, r)].documented

Breaks(task) ==
    \/ task.type = "implement"
    \/ task.type = "test" /\ task.failed

FixedLater(s, r) ==
    LET approved == s.tasks[r].posted
    IN  \E t \in DOMAIN s.tasks :
            /\ s.tasks[t].parent \in {Parent(s, r), r}
            /\ Breaks(s.tasks[t])
            /\ s.tasks[t].created # None
            /\ approved < s.tasks[t].created /\ s.tasks[t].created <= approved + Maturity

\* What GitHub and the local repository say of the pull request: whether it was
\* reopened, fixed or reverted, None when one of them could not be asked.
ExternalFollowup(s, r) == s.followup[Parent(s, r)]

\* Mutant: silence from outside is taken for a clean window.
Judged_SilenceIsClean(s, r) ==
    Documented(s, r) /\ (FixedLater(s, r) \/ ExternalFollowup(s, r) \in {None, "yes", "no"})

Judged(s, r) == Documented(s, r) /\ (FixedLater(s, r) \/ ExternalFollowup(s, r) # None)

Followups(s) ==
    IF s.db # "readable"
    THEN [n |-> IF s.db = "absent" THEN 0 ELSE None, value |-> None,
          eligible |-> 0, unknown |-> 0]
    ELSE LET known == {r \in Matured(s) : Judged(s, r)}
             correct == {r \in known : ~FixedLater(s, r) /\ ExternalFollowup(s, r) # "yes"}
         IN  [n |-> Cardinality(known), eligible |-> Cardinality(Matured(s)),
              unknown |-> Cardinality(Matured(s) \ known),
              value |-> IF known = {} THEN None ELSE <<Cardinality(correct), Cardinality(known)>>]

(***************************************************************************)
(* The table.                                                              *)
(***************************************************************************)
ComputeMetrics(s) ==
    [M1 |-> IF s.db = "readable" THEN CacheShare(s.receipts) ELSE Measured(0, None),
     session |-> SessionCache(s), M2 |-> Heads(Hooks(s)),
     M3a |-> Score(s, "owner"), M3b |-> Score(s, "task"), M3c |-> PackCoverage(s),
     M4 |-> HookBytes(Hooks(s)), M5 |-> Trims(Hooks(s)), M6 |-> Latency(Hooks(s)),
     M7 |-> Served(s), M8 |-> Followups(s)]
=============================================================================
