---------------------------- MODULE Normalizers ----------------------------
(***************************************************************************)
(* What the adapters make of the payloads that monitors outside of this    *)
(* repository collect: normalize_claude_quota, normalize_codex_quota and   *)
(* normalize_gemini_usage.                                                 *)
(*                                                                         *)
(* A payload has one window here: the error it carries, when it was        *)
(* fetched, what is said of its freshness, and the totals, the rows of its *)
(* projects and the rows of its runtime bots.  Codex's may have two totals, *)
(* what was used and what was observed with the runtime's tokens.          *)
(***************************************************************************)
EXTENDS Projects

CacheStates == {"live", "cached", "stale", "unknown"}

(* The age of what was fetched: of no use without the time it was fetched. *)
ByAge(now, fetched) ==
  LET age == Max({0, now - fetched}) IN
  IF age <= 30 THEN "live" ELSE IF age <= 300 THEN "cached" ELSE "stale"

(* _cache_state of Claude; a state given by the payload comes first.       *)
ClaudeState(payload, now) ==
  IF payload.state \in CacheStates THEN payload.state
  ELSE IF payload.stale THEN "stale"
  ELSE IF payload.fetched = 0 THEN "unknown"
  ELSE ByAge(now, payload.fetched)

(* _cache_state of Codex                                                   *)
CodexState(payload) ==
  IF payload.state \in CacheStates THEN payload.state
  ELSE IF payload.stale THEN "stale" ELSE "live"

(* _quota_cache_state of Gemini: of its quota, whose age is that at the    *)
(* time the payload was fetched.                                           *)
GeminiState(payload) ==
  IF payload.error THEN "stale"
  ELSE IF payload.quotaFetched = 0 \/ payload.fetched = 0 THEN "cached"
  ELSE ByAge(payload.fetched, payload.quotaFetched)

RequestsOf(projects) == SumFunction([p \in DOMAIN projects |-> projects[p].requests])

Window(total, requests, projects, runtime, state) ==
  [total |-> total, requests |-> requests, byProject |-> projects,
   byModel |-> Models(projects), runtime |-> runtime, state |-> state,
   stale |-> state = "stale"]

NormalizeClaude(payload, now) ==
  IF payload.error THEN [source |-> "claude", windows |-> << >>, quiet |-> FALSE]
  ELSE LET projects == AggregatesFromRaw(payload.rows) IN
       [source |-> "claude", quiet |-> TRUE,
        windows |-> <<Window(payload.total, RequestsOf(projects), projects,
                             AggregatesFromRaw(payload.runtime), ClaudeState(payload, now))>>]

(* total_tokens of the payload, or tokens_used where it has none.          *)
ObservedTotal(payload) == IF payload.observed # 0 THEN payload.observed ELSE payload.total

NormalizeCodex(payload) ==
  IF payload.error THEN [source |-> "codex", windows |-> << >>, quiet |-> FALSE]
  ELSE LET projects == WithRuntimeExtras(payload.rows, payload.runtime) IN
       [source |-> "codex", quiet |-> CodexState(payload) \notin {"stale", "cached"},
        windows |-> <<Window(ObservedTotal(payload), RequestsOf(projects), projects,
                             AggregatesFromRaw(payload.runtime), CodexState(payload))>>]

(* An error of the quota is a warning here, and its window stays.          *)
NormalizeGemini(payload) ==
  [source |-> "gemini", quiet |-> ~payload.error,
   windows |-> <<Window(payload.total, payload.requests, AggregatesFromRaw(payload.rows),
                        AggregatesFromRaw(payload.runtime), GeminiState(payload))>>]

Normalize(payload, now) ==
  CASE payload.source = "claude" -> NormalizeClaude(payload, now)
    [] payload.source = "codex" -> NormalizeCodex(payload)
    [] payload.source = "gemini" -> NormalizeGemini(payload)
=============================================================================
