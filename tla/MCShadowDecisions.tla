------------------------- MODULE MCShadowDecisions --------------------------
(***************************************************************************)
(* ShadowDecisions over three tasks with every plausible and implausible   *)
(* link between them, and over a fix loop of four that is longer than the  *)
(* walk.                                                                   *)
(***************************************************************************)
EXTENDS ShadowDecisions

CONSTANTS s1, s2, f1, p, q, m

Shape(type1, type2, links) ==
    [t \in DOMAIN links |->
        [type |-> CASE t = 1 -> "implement" [] t = 2 -> type1 [] t = 3 -> type2
                    [] OTHER -> "review",
         link |-> links[t]]]

MCShapes ==
    {Shape("review", type, <<a, b, c>>) :
        type \in {"review", "test"}, a \in {None, 3}, b \in {1, 2}, c \in {1, 2}}
    \cup {Shape("review", "implement", <<None, 1, 2, 3>>)}

Result(verdict, sha, findings) == [verdict |-> verdict, sha |-> sha, findings |-> findings]

MCResults == {Result("approve", s1, f1), Result("request_changes", s1, f1),
              Result("request_changes", s2, None), Result("comment", s2, f1)}

Risk(safety, architecture, routine, gate) ==
    [safety |-> safety, architecture |-> architecture, routine |-> routine, gate |-> gate]

Row1 == [trusted |-> TRUE, risk |-> Risk("false", "false", "true", "false"),
         recall |-> "unknown", exempt |-> "true", pack |-> FALSE]

MCTelemetry == {Row1,
                [Row1 EXCEPT !.trusted = FALSE],
                [Row1 EXCEPT !.recall = "true", !.risk["gate"] = "unknown"],
                [Row1 EXCEPT !.recall = "false"],
                [Row1 EXCEPT !.recall = "true", !.risk["architecture"] = "true"]}

Used(n, reasoning) == [c \in Components |-> IF c = "reasoning" THEN reasoning ELSE n]

Record1 == [outcome |-> "success", type |-> "implement", provider |-> p, model |-> m,
            validity |-> "stale", tokens |-> Used(3, 1), total |-> None, breakdown |-> None,
            retry |-> FALSE, context |-> "resume"]

Record2 == [Record1 EXCEPT !.outcome = "unknown", !.tokens = Used(None, 0), !.total = 5,
                           !.provider = q, !.retry = TRUE, !.context = "fresh"]

Record3 == [Record1 EXCEPT !.outcome = "failed", !.tokens = Used(None, None),
                           !.breakdown = 7, !.model = None, !.context = "unknown"]

MCRecords == {[t \in 1..4 |-> Record1],
              [t \in 1..4 |-> IF t = 1 THEN Record1 ELSE Record2],
              [t \in 1..4 |-> IF t = 3 THEN Record1 ELSE Record3]}

Lists(safety, architecture, routine, gate, none) ==
    [safety |-> safety, architecture |-> architecture, routine |-> routine,
     gate |-> gate, non_production |-> none]

MCDeclarations ==
    {Lists({}, {}, {}, {}, {"review"}),
     Lists({"implement"}, {"implement"}, {"implement"}, {}, {"implement", "test"}),
     Lists({}, {"implement"}, {"review"}, {"implement", "test"}, {"review"}),
     Lists({"review"}, {}, {"test"}, {"review"}, {})}

Rates(n) == [c \in Components |-> IF c = "write" THEN None ELSE n]

Entry(provider, model, n) == [provider |-> provider, model |-> model, rates |-> Rates(n)]

MCBooks == {{Entry(p, m, 2), Entry(p, None, 1), Entry(q, None, 4)}, {Entry(q, m, 1)}}
=============================================================================
