------------------------------ MODULE MCFigures ------------------------------
(***************************************************************************)
(* Inputs for Figures: every small cascade and every combination of known, *)
(* unknown and contradicting identity; sequences of records and packs that *)
(* differ in what they leave unknown; hours in which one or two sources    *)
(* are not as they should be.                                              *)
(***************************************************************************)
EXTENDS Figures

CONSTANTS c1, c2, p1, p2, s1, s2, b1, b2, x1, x2

MCBlank ==
    [id |-> 9, context |-> None, generation |-> None, provider |-> None, session |-> None,
     policy |-> "unknown", window |-> None, precap |-> None, capped |-> None, clear |-> None,
     validity |-> "unknown", origin |-> None, outcome |-> None, category |-> None,
     retry |-> FALSE, total |-> None, freshInput |-> None, cacheCreation |-> None,
     cacheRead |-> None, age |-> None, scope |-> None, wait |-> None, defers |-> None,
     span |-> None, uncached |-> None, write |-> None, read |-> None, output |-> None,
     reasoning |-> None, prefix |-> None, started |-> None, completed |-> None,
     duration |-> None]

Full ==
    [MCBlank EXCEPT !.context = c1, !.generation = 2, !.provider = p1, !.session = s1,
                    !.policy = "fresh", !.outcome = "success", !.total = 4, !.freshInput = 1,
                    !.cacheCreation = 2, !.cacheRead = 1, !.age = 1, !.scope = "targeted",
                    !.wait = 3, !.defers = 1, !.span = 6, !.read = 0, !.output = 2,
                    !.prefix = "h", !.started = 1, !.completed = 2, !.duration = 1]

(***************************************************************************)
(* Joins: one record and one row of each kind.                             *)
(***************************************************************************)
Given(rs, windows, clearings, signals, events) ==
    [kind |-> "tasks", records |-> rs, windows |-> windows, clearings |-> clearings,
     signals |-> signals, events |-> events]

Identities(contexts, generations, providers, sessions) ==
    [context : contexts, generation : generations, provider : providers, session : sessions]

Window(identity, capped) ==
    [task |-> 1, context |-> identity.context, generation |-> identity.generation,
     provider |-> identity.provider, session |-> identity.session, window |-> 5,
     capped |-> capped]

Clearing(identity, status) ==
    [task |-> 1, context |-> identity.context, generation |-> identity.generation,
     provider |-> identity.provider, session |-> identity.session, status |-> status]

Joins ==
    {Given(<<[MCBlank EXCEPT !.id = 1, !.policy = policy, !.context = own.context,
                             !.generation = own.generation, !.provider = own.provider,
                             !.session = own.session]>>,
           <<Window(row, how[1])>>, <<Clearing(row, how[2])>>, << >>, << >>) :
        policy \in {"fresh", "resume"},
        own \in Identities({None, c1}, {None, 2}, {None, p1}, {None, s1}),
        row \in Identities({None, c1, c2}, {None, 0, 1, 2}, {None, p1, p2}, {None, s1, s2}),
        how \in {<<TRUE, "attempted">>, <<TRUE, "failed">>, <<FALSE, "confirmed">>}}

(***************************************************************************)
(* Cascades: three linked tasks, in two orders, one of them asked twice.   *)
(***************************************************************************)
Implementer(parent) ==
    [type |-> "implement", parent |-> parent, branch |-> b1, reviewed |-> None,
     resultBranch |-> b1, resultCommit |-> x1, publication |-> None, onHead |-> FALSE]

Review(parent, publication, reviewed) ==
    [type |-> "review", parent |-> parent, branch |-> b1, reviewed |-> reviewed,
     resultBranch |-> None, resultCommit |-> None, publication |-> publication,
     onHead |-> FALSE]

Rows ==
    {Implementer(parent) : parent \in {None, 1, 2, 3, 4}}
    \cup {Review(parent, how[1], how[2]) :
            parent \in {None, 1, 2, 3}, how \in {<<None, x1>>, <<None, x2>>, <<"stale", x1>>}}

Asked(ids) == [i \in DOMAIN ids |-> [MCBlank EXCEPT !.id = ids[i]]]

Cascades ==
    {Given(Asked(ids), << >>, << >>, signals, << >>) :
        ids \in {<<1, 2, 3>>, <<3, 1, 3>>}, signals \in [1 .. 3 -> Rows]}

(***************************************************************************)
(* Summaries: two rows that differ from a full one.                        *)
(***************************************************************************)
Kinds ==
    {Full,
     [Full EXCEPT !.outcome = "failed", !.category = "context_or_policy", !.total = None,
                  !.read = None, !.wait = 0, !.defers = 0, !.age = 2, !.completed = 3],
     [Full EXCEPT !.outcome = "failed", !.category = None, !.retry = TRUE, !.wait = None,
                  !.prefix = None, !.completed = None, !.started = 3],
     [Full EXCEPT !.outcome = None, !.scope = None, !.policy = "resume", !.completed = 4],
     [Full EXCEPT !.outcome = "cancelled", !.category = "cancelled", !.age = None,
                  !.scope = "other", !.defers = None, !.completed = 5],
     [Full EXCEPT !.outcome = "error", !.category = "provider_or_transport", !.context = c2]}

Numbered(rs) == [i \in DOMAIN rs |-> [rs[i] EXCEPT !.id = i]]

Telemetry ==
    {<<<< >>, << >>>>,
     <<<<Window(Full, FALSE)>>, <<Clearing(Full, "attempted")>>>>,
     <<<<Window(Full, TRUE)>>, <<Clearing([Full EXCEPT !.generation = 1], "confirmed")>>>>}

Event(type, context) == [type |-> type, context |-> context, at |-> 3]

Summaries ==
    {Given(Numbered(rs), rows[1], rows[2],
           (2 :> Review(None, "stale", x1)) @@ (3 :> Implementer(2)),
           <<Event("compacted", c1), Event("started", c1)>>) :
        rs \in [1 .. 3 -> Kinds], rows \in Telemetry}

MCTasks == Joins \cup Cascades \cup Summaries

(***************************************************************************)
(* Packs.                                                                  *)
(***************************************************************************)
MCBlankPack ==
    [total |-> None, categories |-> << >>, candidates |-> None, selected |-> None,
     latency |-> None, degraded |-> None, stale |-> None, conflict |-> None, mode |-> None]

Pack ==
    [MCBlankPack EXCEPT !.total = 6, !.categories = [k1 |-> 4, k2 |-> 2], !.candidates = 4,
                        !.selected = 2, !.latency = 3, !.degraded = "no", !.stale = 1,
                        !.conflict = 0, !.mode = "lexical"]

PackKindsSet ==
    {Pack, [Pack EXCEPT !.candidates = 0, !.selected = 0, !.latency = 9, !.degraded = "yes"],
     [Pack EXCEPT !.candidates = None, !.categories = << >>, !.mode = None, !.latency = 1],
     [Pack EXCEPT !.latency = None, !.degraded = None, !.categories = [k3 |-> 5],
                  !.mode = "hybrid"]}

MCPacks == {[kind |-> "packs", packs |-> ps] :
               ps \in UNION {[1 .. n -> PackKindsSet] : n \in 0 .. 3}}

(***************************************************************************)
(* Hours: the window is [10, 14).                                          *)
(***************************************************************************)
Line(id, at, read) == [id |-> id, at |-> at, uncached |-> 1, write |-> 0, read |-> read]

Transcript(lines, boundaries) == [lines |-> lines, boundaries |-> boundaries]

Hook(at, ranked) ==
    [at |-> at, oneshot |-> FALSE, head |-> "h", bytes |-> 3, trimmed |-> 1,
     standing |-> None, ranked |-> ranked, latency |-> 2]

TaskRow(type, parent, created, posted) ==
    [type |-> type, parent |-> parent, created |-> created, posted |-> posted,
     verdict |-> IF posted = None THEN None ELSE "approve",
     documented |-> type = "implement", failed |-> TRUE]

Item(flags) == <<[readable |-> TRUE, flags |-> flags]>>

PackRow(task, kinds, ids, selected, shadow) ==
    [at |-> 11, task |-> task, kinds |-> kinds, ids |-> ids, selected |-> selected,
     shadow |-> shadow]

Hour ==
    [since |-> 10, until |-> 14, db |-> "readable", memory |-> "readable", eval |-> "frozen",
     replay |-> [owner |-> [hits |-> 1, count |-> 2], task |-> [hits |-> 0, count |-> 1]],
     receipts |-> <<[uncached |-> 1, write |-> 0, read |-> 3],
                    [uncached |-> None, write |-> 0, read |-> 1]>>,
     hooks |-> <<Hook(10, TRUE), Hook(14, FALSE), [Hook(11, FALSE) EXCEPT !.standing = 0]>>,
     tasks |-> [impl |-> TaskRow("implement", None, 12, None),
                review |-> TaskRow("review", "impl", 3, 4)],
     packs |-> <<PackRow("impl", {"lineage"}, <<"i1">>, 1, FALSE)>>,
     items |-> [i1 |-> Item({}), i2 |-> Item({"superseded"})],
     followup |-> [impl |-> "no"],
     transcripts |-> << >>, transitions |-> {}]

Sources ==
    {[Hour EXCEPT !.db = db, !.memory = memory, !.eval = eval, !.replay = replay] :
        db \in {"absent", "unreadable", "readable"}, memory \in {"none", "broken", "readable"},
        eval \in {"missing", "altered", "frozen"},
        replay \in {None, Hour.replay,
                    [owner |-> [hits |-> 3, count |-> 2], task |-> [hits |-> 0, count |-> 1]]}}

Served2 ==
    {[Hour EXCEPT !.packs = ps] :
        ps \in UNION {[1 .. n ->
                 {PackRow("impl", {"lineage"}, <<"i1", "i2">>, 2, FALSE),
                  PackRow("impl", {}, <<"i2">>, 2, FALSE), PackRow(None, {}, <<"i2">>, 1, FALSE),
                  PackRow("impl", None, <<"gone">>, 1, FALSE), PackRow("review", {}, None, 0, TRUE)}] :
               n \in 0 .. 2}}

Reviews2 ==
    {[Hour EXCEPT !.followup = [impl |-> outside, fix |-> outside],
                  !.tasks = [impl |-> [TaskRow("implement", None, 1, None) EXCEPT
                                         !.documented = documented],
                             review |-> TaskRow("review", "impl", 3, posted),
                             fix |-> TaskRow(type, parent, created, None),
                             other |-> TaskRow("review", parent, 4, 5)]] :
        outside \in {None, "yes", "no"}, documented \in BOOLEAN, posted \in {None, 3, 4, 8},
        type \in {"implement", "test", "review"}, parent \in {None, "impl", "review", "gone"},
        created \in {None, 4, 5, 10, 11}}

Sessions ==
    {[Hour EXCEPT !.transitions = ts,
                  !.transcripts = [a |-> Transcript(<<Line(1, t1, 2), Line(1, 12, 9),
                                                      Line(2, 13, 0)>>, ba),
                                   b |-> Transcript(<<Line(3, t2, 4)>>, bb)]] :
        ts \in SUBSET {9, 10, 11, 12, 13}, t1 \in {None, 8, 11, 12, 14}, t2 \in 9 .. 15,
        ba \in {{}, {10}, {11}, {9, 12}}, bb \in {{}, {11}}}

MCHours == {[kind |-> "hour", sources |-> s] : s \in Sources \cup Served2 \cup Reviews2 \cup Sessions}
=============================================================================
