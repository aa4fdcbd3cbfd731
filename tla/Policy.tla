------------------------------- MODULE Policy -------------------------------
(***************************************************************************)
(* The shadow policy (policy.py), the prices it is shown with (pricing.py) *)
(* and the artifact made of both (shadow_report.py): pure functions of a   *)
(* task's record and of the evidence about it.                             *)
(*                                                                         *)
(* A record holds the task's outcome, type, provider, model, validity,     *)
(* measured tokens by component (a count or None), the total its provider  *)
(* reported and the one an older breakdown adds up to (or None), whether   *)
(* it is a retry, and the context policy it ran under.                     *)
(***************************************************************************)
EXTENDS QualityEvidence, Integers

Components == {"uncached", "write", "read", "output", "reasoning"}

\* Reasoning is part of output: it has a price of its own and is in no sum.
Telemetered == Components \ {"reasoning"}

(***************************************************************************)
(* Risk.  A task whose risk nobody fully assessed is treated as the most   *)
(* dangerous kind.                                                         *)
(***************************************************************************)
Unassessed(evidence) == \E f \in RiskFacts : evidence.risk[f] = "unknown"

Tier(record, evidence) ==
    LET risk == evidence.risk
    IN  IF Unassessed(evidence) \/ "true" \in {risk["safety"], risk["gate"]}
        THEN "safety_or_live"
        ELSE IF risk["architecture"] = "true" THEN "architecture"
        ELSE IF record.type \in {"review", "test"} THEN "review_or_test"
        ELSE IF risk["routine"] = "true" THEN "routine"
        ELSE "research"

HumanGate(evidence) == evidence.risk["gate"] = "true" \/ Unassessed(evidence)

(***************************************************************************)
(* Quality.  Only a success that another task approved, and that had the   *)
(* context it needed, is quality-preserving.  An exemption from the recall *)
(* must not stand in where the risk is unknown.                            *)
(***************************************************************************)
RecallOk(evidence) == evidence.recall = "true" \/ evidence.exempt = "true"

\* Mutant: an exemption from the recall serves an unassessed task too.
Preserving_ExemptAnyway(record, evidence) ==
    record.outcome = "success" /\ evidence.review = "true" /\ RecallOk(evidence)

\* Mutant: a failed run that was approved sets a budget too.
Preserving_AnyOutcome(record, evidence) ==
    /\ evidence.review = "true"
    /\ RecallOk(evidence)
    /\ evidence.exempt # "true" \/ ~Unassessed(evidence)

Preserving(record, evidence) ==
    /\ record.outcome = "success"
    /\ evidence.review = "true"
    /\ RecallOk(evidence)
    /\ evidence.exempt # "true" \/ ~Unassessed(evidence)

QualityState(record, evidence) ==
    IF Preserving(record, evidence) THEN "preserving"
    ELSE IF \/ record.outcome = "failed"
            \/ evidence.review = "false"
            \/ evidence.recall = "false" THEN "not_preserving"
    ELSE "unknown"

SessionQuality(record, evidence) ==
    Preserving(record, evidence) /\ ~Unassessed(evidence)

(***************************************************************************)
(* Review and fix rounds, and the soft budget: a multiple of what the run  *)
(* used, in hundredths, and only of a run whose quality is proved.         *)
(***************************************************************************)
BaseRounds == [safety_or_live |-> 3, architecture |-> 2, routine |-> 1,
               review_or_test |-> 1, research |-> 1]

Multiplier == [safety_or_live |-> 150, architecture |-> 140, routine |-> 120,
               review_or_test |-> 125, research |-> 130]

Rounds(record, evidence) ==
    LET base == BaseRounds[Tier(record, evidence)]
                + (IF evidence.progress = "true" THEN 1 ELSE 0)
    IN  IF evidence.unchanged = "true" THEN Max({1, base - 1}) ELSE base

Ceiling(tokens, hundredths) == (tokens * hundredths + 99) \div 100

Envelope(record, multiplier) ==
    [c \in Components |->
        IF record.tokens[c] = None THEN None ELSE Ceiling(record.tokens[c], multiplier)]

Budget(record, evidence) ==
    IF QualityState(record, evidence) = "preserving"
    THEN Envelope(record, Multiplier[Tier(record, evidence)])
    ELSE None

(***************************************************************************)
(* Waste.  A stale or misrouted task's tokens are reported where nothing   *)
(* was measured; the recommendation was decided before.                    *)
(***************************************************************************)
TotalTokens(record) ==
    IF record.total # None THEN record.total
    ELSE IF \A c \in Telemetered : record.tokens[c] # None
         THEN SumFunctionOnSet(record.tokens, Telemetered)
    ELSE record.breakdown

Renewable(evidence) == \E w \in WasteKinds : evidence.waste[w] \notin {None, 0}

Waste(record, evidence) ==
    [w \in WasteKinds |->
        IF evidence.waste[w] = None /\ record.validity = w /\ w # "duplicate"
        THEN TotalTokens(record)
        ELSE evidence.waste[w]]

CacheSeen(record) == record.tokens["read"] \notin {None, 0}

Observed(record) == {c \in Components : record.tokens[c] # None}

Confidence(record, evidence) ==
    IF Preserving(record, evidence) /\ Cardinality(Observed(record)) >= 3 THEN "high"
    ELSE IF Observed(record) # {} THEN "medium"
    ELSE "low"

SessionTreatment(record, evidence) ==
    IF ~SessionQuality(record, evidence) THEN "insufficient_evidence"
    ELSE IF Renewable(evidence) THEN "renew" ELSE "preserve"

CacheTreatment(record, evidence) ==
    IF ~Preserving(record, evidence) THEN "insufficient_evidence"
    ELSE IF CacheSeen(record) THEN "preserve" ELSE "no_cache_signal"

(***************************************************************************)
(* Prices.  The caller's book has entries for a provider's model and       *)
(* defaults for a provider (model None); no other provider's rates are     *)
(* ever used.                                                              *)
(***************************************************************************)
Lookup(book, provider, model) ==
    LET exact   == {e \in book : e.provider = provider /\ e.model = model}
        default == {e \in book : e.provider = provider /\ e.model = None}
    IN  IF exact # {} THEN CHOOSE e \in exact : TRUE
        ELSE IF default # {} THEN CHOOSE e \in default : TRUE
        ELSE None

Cost(tokens, rate) == IF tokens = None \/ rate = None THEN None ELSE tokens * rate

\* Mutant: a provider's default rates are not accepted.
PolicyCosts_ExactOnly(record, entry) ==
    IF entry = None \/ entry.model # record.model
    THEN [c \in Components |-> None]
    ELSE [c \in Components |-> Cost(record.tokens[c], entry.rates[c])]

\* The policy prices again what it was handed, and checks whose prices they are.
PolicyCosts(record, entry) ==
    IF \/ entry = None
       \/ entry.provider # record.provider
       \/ entry.model \notin {None, record.model}
    THEN [c \in Components |-> None]
    ELSE [c \in Components |-> Cost(record.tokens[c], entry.rates[c])]

PriceTask(record, book) ==
    LET entry == Lookup(book, record.provider, record.model)
        costs == [c \in Components |->
                    IF entry = None THEN None ELSE Cost(record.tokens[c], entry.rates[c])]
    IN  [found |-> entry # None,
         priced |-> \E c \in Components : costs[c] # None,
         side |-> IF record.retry THEN "retry_or_failover" ELSE "productive",
         components |-> costs]

(***************************************************************************)
(* The decision, and the artifact of the report that holds it.             *)
(***************************************************************************)
Decision(record, evidence, entry) ==
    LET tier == Tier(record, evidence)
    IN  [provider |-> record.provider, outcome |-> record.outcome, tier |-> tier,
         preserving |-> Preserving(record, evidence),
         state |-> QualityState(record, evidence),
         gate |-> HumanGate(evidence),
         budget |-> Budget(record, evidence),
         rounds |-> Rounds(record, evidence),
         providerTier |-> IF tier \in {"safety_or_live", "architecture"}
                          THEN "escalate_allowed" ELSE "preserve_current",
         session |-> SessionTreatment(record, evidence),
         cache |-> CacheTreatment(record, evidence),
         costs |-> PolicyCosts(record, entry),
         waste |-> Waste(record, evidence),
         review |-> evidence.review, recall |-> evidence.recall,
         observed |-> record.tokens,
         confidence |-> Confidence(record, evidence)]

\* What the published contract promises readers of a decision.
Counts(f, S) == DOMAIN f = S /\ \A x \in S : f[x] = None \/ f[x] \in Nat

MeetsContract(d) ==
    /\ d.tier \in DOMAIN BaseRounds
    /\ {d.preserving, d.gate} \subseteq BOOLEAN
    /\ d.state \in {"preserving", "not_preserving", "unknown"}
    /\ d.budget = None \/ Counts(d.budget, Components)
    /\ d.rounds \in Nat \ {0}
    /\ d.providerTier \in {"preserve_current", "escalate_allowed"}
    /\ d.session \in {"preserve", "renew", "insufficient_evidence"}
    /\ d.cache \in {"preserve", "no_cache_signal", "insufficient_evidence"}
    /\ Counts(d.costs, Components) /\ Counts(d.observed, Components)
    /\ Counts(d.waste, WasteKinds)
    /\ {d.review, d.recall} \subseteq Facts
    /\ d.confidence \in {"high", "medium", "low"}

Headroom(record, budget) ==
    [c \in Components |->
        IF budget = None \/ record.tokens[c] = None THEN None
        ELSE budget[c] - record.tokens[c]]

ActualSession(record) ==
    CASE record.context = "resume" -> "resume"
      [] record.context = "fresh"  -> "renew"
      [] OTHER                     -> "unknown"

Artifact(record, evidence, provenance, book) ==
    LET decision == Decision(record, evidence, Lookup(book, record.provider, record.model))
    IN  [decision |-> decision,
         actual |-> ActualSession(record),
         headroom |-> Headroom(record, decision.budget),
         cost |-> PriceTask(record, book),
         risk |-> evidence.risk,
         provenance |-> provenance]
=============================================================================
