---------------------------- MODULE ContextPacks ----------------------------
(***************************************************************************)
(* How context packs are composed and how well retrieval works             *)
(* (context_pack_analytics.py).  A pack that does not report a field is    *)
(* left out of the figures that need it.                                   *)
(***************************************************************************)
EXTENDS Cohorts

\* Nearest rank: the least value that at least pct percent of them do not exceed.
Percentile(values, pct) ==
    IF values = << >> THEN None
    ELSE LET upTo(v) == {i \in DOMAIN values : values[i] <= v}
         IN  Min({v \in Range(values) : 100 * Cardinality(upTo(v)) >= pct * Count(values)})

CategoriesOf(packs) == UNION {DOMAIN packs[i].categories : i \in DOMAIN packs}

CategoryTotal(packs, c) ==
    Total([i \in {i \in DOMAIN packs : c \in DOMAIN packs[i].categories} |->
              packs[i].categories[c]])

Composition(packs) ==
    LET totals == [c \in CategoriesOf(packs) |-> CategoryTotal(packs, c)]
        grand == Total(totals)
    IN  [packs |-> Count(packs), known |-> Count(Mentioned(packs, "total")),
         mean |-> Mean(Mentioned(packs, "total")), totals |-> totals,
         share |-> IF grand = 0 THEN << >> ELSE [c \in DOMAIN totals |-> <<totals[c], grand>>]]

\* A pack that had nothing to choose from has no compression.
Compressible(pack) ==
    pack.candidates # None /\ pack.selected # None /\ pack.candidates > 0

Efficiency(packs) ==
    LET chosen == Where(packs, Compressible)
        latencies == Mentioned(packs, "latency")
        degraded == Mentioned(packs, "degraded")
    IN  [packs |-> Count(packs),
         compression |-> [i \in DOMAIN chosen |-> <<chosen[i].selected, chosen[i].candidates>>],
         latencies |-> Count(latencies),
         p50 |-> Percentile(latencies, 50), p95 |-> Percentile(latencies, 95),
         degraded |-> <<Count(Where(degraded, LAMBDA d : d = "yes")), Count(degraded)>>,
         stale |-> Mean(Mentioned(packs, "stale")),
         conflict |-> Mean(Mentioned(packs, "conflict"))]

ModeOf(pack) == IF pack.mode = None THEN "unknown" ELSE pack.mode

ByMode(packs) ==
    LET groups == Grouped(packs, ModeOf)
    IN  [m \in DOMAIN groups |-> [sample |-> Count(groups[m]),
                                  composition |-> Composition(groups[m]),
                                  efficiency |-> Efficiency(groups[m])]]
=============================================================================
