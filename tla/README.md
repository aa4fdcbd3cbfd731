# A formal model of quota_core

TLA+ modules that model the stateful core of `quota_core`, TLC configurations that
check them on small instances, and theorems about them that TLAPS proves for every
value of the constants. Line numbers refer to `src/quota_core/`.

`quota_core` reads what other programs write (Claude, Codex and Gemini transcripts,
Agent Crew's `attribution.jsonl` and `tasks.db`, hook logs) and derives files that
further programs read (snapshots, the rolling shadow report and its reader contract,
hourly tables, a dashboard). It is a set of short-lived processes that take no locks:
it has no threads of its own, but every input is being written while it is read, every
output is read while it is being replaced, each connection may fail on its own, runs
overlap, and a killed run leaves what it has published. That is where the models put
their effort.

## Inventory

| component | state it keeps | operations | what is hard |
|---|---|---|---|
| rolling report producer (`context_economics/report_producer.py`, with `sqlite_attribution.py`, `shadow_report.py`) | the `--out` report (decisions, watermark, revision label, fingerprints) and the `--contract-out` contract | load the report; per source read timestamps, rows, receipts and evidence over separate connections; re-decide what changed; replace report, then contract; parity check | incremental recomputation behind a watermark, torn reads, failed sources, a deployment during a run, a kill between the two files, overlapping runs |
| Agent Crew join (`agent_crew_adapter.py`, `schema.py`) | none; reads an append-only stream and a live database | reconcile rows by task; read reasons, statuses and change times; enrich and revise outcomes | three reads of three moments; late results after a timeout; rows without timestamps; reads that fail |
| token correlation (`correlate.py`, `token_components.py`) | the set of claimed usage records during a walk | reserve the nearest task per record; walk the tasks through three tiers; merge counts | exclusivity across tiers, ties, records without a time, unknown counts |
| Claude scanners (`adapters/claude.py`, `session/claude.py`) | totals, keys seen | list files; read lines; merge or skip duplicates; sum | files that grow, half-written lines, streamed and copied requests, size limit, vanished files |
| hourly snapshots (`metrics_b1_hourly.py`, with `metrics_b1.py`) | a JSON file and a table per hour | join the hook log; compute; publish a pair; roll back; prune | pair replaced in two steps; failed steps; kills; late receipts; rotation of the hook log |
| policy, evidence, acceptance (`policy.py`, `quality_evidence.py`, `acceptance.py`) | none; reads a database over three connections | walk the linked tasks; decide; price; judge a published report | three-valued facts of three moments; unknown must never read as safe; fix loops that cross each other |
| analytics, pricing (`analytics.py`, `context_pack_analytics.py`, `compact_analysis.py`, `pricing.py`) | none | join telemetry by identity; aggregate | denominators with unknown outcomes; cohorts that overlap or leave someone out |
| Gemini and Codex scanners (`adapters/`, with `projects.py`) | totals of a scan | scan files, query a database, name projects, normalize payloads | duplicates, half-written files, one project under several names |
| snapshot, providers, runtime (`snapshot.py`, `providers.py`, `runtime.py`) | none | choose the providers, validate, mark stale | an entry without data is not a zero |
| command line, configuration, files (`cli.py`, `config.py`, `atomic_io.py`) | configuration, snapshot and dashboard files | init, scan, dashboard, verify | check-then-write, replacement of files |
| session report (`session/report.py` and others), dashboard (`dashboard/`) | none | presentation | choice of a window; otherwise layout |

How they interact: the scanners feed the snapshot, which the dashboard renders; the join
feeds the correlation, which charges usage records of the scanners to its tasks; the
SQLite reader, the evidence and the policy feed the rolling report, whose contract other
programs read; the hourly writer computes over the same databases and hook logs. All
interaction is by function call within a run and by files between runs.

## Modules

Each module's variables are the state the code keeps, its actions the functions that
change it; `PROJECT.json` maps every definition to its lines. Definitions called
`X_Something`, marked "Mutant", are deliberate bugs: each shows that a property would
notice that bug.

**`RollingReport`** (with `ShadowLedger`, `MCRollingReport`). A run is a process with a
program counter: `Start` imports the policy and loads `--out`; `ReadCreated` and
`ReadRecords` are the two connections to each source, in path order; `ReadRevision` hashes
the policy files as they are on disk by then; `ReadEvidence` opens the winning sources
again; `Save` assembles the report and replaces it; `WriteContract` replaces the contract.
Each read may fail (`Fault`) and then yields what the code's `except` yields. `EditRow` is
the dispatchers, `Deploy` an installation, `Crash` a kill. A decision is a function of the
policy logic, the record and the evidence, so that triple stands for it; a hash stands for
what is hashed; the atomic replacement of a file is one step. `ShadowLedger` is the
abstract specification: a ledger that decides every task in view from what was seen,
without watermark or fingerprint. It leaves the label free: that a deployment between the
import and the hash mislabels a report is modelled, and no property forbids it. The reads
of a record's receipts and of its cascade signals, two more connections, are part of
`ReadRecords`.

**`TaskReconcile`**. One task (the code treats task ids independently). The reader's four
reads (`ReadStream`, `ReadInfo`, `ReadStatuses`, `ReadChanges`) interleave with the
dispatcher's `Log`, `Revise` and the clock; the last one returns `Joined`, that is
`Reconciled`, then `Enriched`. `history` keeps every state of the task's database row, so
properties can say *when* something was true.

**`Correlate`**. `tasks` and `usage` are the inputs, chosen by `Init`; `Reserve` is passes
1 and 2 of `correlate_task_economics`, each `Walk` one turn of the loop over tasks. A
task's tokens are `Merged`; one total and one optional component stand for the token
fields, since both kinds of merge are applied field by field.

**`TranscriptScan`** (with `MCTranscriptScan`). Both scanners of the same transcripts, one
scan at a time, while Claude Code begins and ends lines and copies transcripts. `Start`
lists the files; `OpenFile` leaves out oversized ones (counted) and vanished ones
(silently); `ReadLine` merges (quota: maximum per request), leaves out and counts a line
with malformed usage (quota) or skips (session: all but the first line of a request in the
window); `Finish` reports. The session scanner reads as zero what is not a count, so a
line's `usage` is what it makes of it.

**`HourlySnapshot`**. One run: `StartRun` and `JoinCurrent` are the two copies of
`hook_input`; `Compute`, `ReplaceJson`, `ReplaceTable` and `Rollback` are one window, each
of which may fail into `Failed`; `Prune` removes expired files one at a time; `Kill` may
come anywhere. `Bots` are the clock, the receipts that are completed late, and the
rotation of the hook log. The history variable `mixed` remembers the hours a kill or a
failed rollback parted.

**`ShadowDecisions`** (with `QualityEvidence`, `Policy`, `Acceptance`,
`MCShadowDecisions`). A dispatcher's `RecordResult` and `RecordTelemetry` interleave with
the producer's `ReadReviews`, `ReadTelemetry` and `ReadProgress`, any of which may fail;
`Publish` decides every task from what was read, `PrintReport` is the command line with an
operator's declaration and a price book. `QualityEvidence` has the walk over linked tasks
and what it concludes, `Policy` the decision, its budget and its costs, `Acceptance` the
requirements on a published report, each function of the code as an operator.

**`Figures`** (with `Treatment`, `Cohorts`, `ContextPacks`, `HourlyMetrics`, `MCFigures`).
Pure computations, entered by `Init`: `Join` attaches windows, clearings and cascade
validity to task records (`Treatment`), `Summarise` computes the cohorts of `analytics.py`
and the comparison around compactions, `SummarisePacks` the packs, `Measure` the metrics of
an hour. A filtered list is a function on the positions that are left, so that what is left
keeps its place; a list sorted by time and cut to the nearest `n` is the set of positions
with fewer than `n` of their own side nearer (`LastOf`, `FirstOf`). Percentiles, means and
shares are kept as pairs of numerator and denominator, so nothing is rounded. The memo of
the cascade walk is modelled as the table that is handed from record to record.

**`Collector`** (with `Projects`, `Normalizers`, `MCCollector`). `quota-core scan`:
`StartScan` loads the configuration, then each enabled provider has its turn (`ScanClaude`,
`ScanCodex`, and Gemini's `ListSessions`, `CheckSize`, `ReadSession`, `FinishGemini`), and
`Publish` replaces the bundle. Meanwhile the tools write messages in two steps, copy
sessions and count tokens, the user edits the configuration, and `init` checks, truncates
and writes it. `Projects` is the naming of projects, with a path as a sequence of segments
of words, since the code tells only slashes, dashes and known words apart, and what is
charged to them: the scanners and payloads charge breakdowns to raw names, and a project
gets the sum of what is charged to its names. A sum stands for the loop that adds one
charge after the other, which nothing observes; the order only matters where
`project_aggregates_with_runtime_extras` keeps the first raw name (`IsNewName`).
`Normalizers` turns a monitor's payload into windows, with rows that only the runtime has,
and Codex's total into the observed one where the payload has it. Claude's transcripts are
read in one step here, which leaves out any requests as too large, malformed or gone.

`Aggregates` has the lemmas that the proofs share: natural numbers and finite sets are
reached step by step, sets of naturals have a least and, if bounded, a greatest element,
what the sum of a function over a finite set is when the set or the function changes, that
a set is counted by counting the members of each name, and that the first `n` of a finite
total order are `n` or all.

## What the runs check

| run | shows |
|---|---|
| `rolling_report` | Skipping unchanged tasks never shows (`IncrementalIsFull`); a changed revision leaves no older logic on a task that was read (`RelabelRefreshes`); published decisions stay (`DecisionsAreRetained`); the contract repeats the report (`ContractFollowsReport`); the incremental producer implements full recomputation (`ImplementsLedger`). |
| `rolling_overlap` | With overlapping runs, an unreadable report or a kill between the two files, the report and the contract come to agree with the database on records and evidence once it settles, also of tasks below the watermark (`ParityIsRestored`). |
| `rolling_relabel` | A documented promise of the producer that the code breaks: see Findings. |
| `task_reconcile` | An outcome or reason handed out was recorded for the task at some time, each for itself, however torn the reads (`OutcomeIsRecorded`); a terminal row is overridden only by a status change after all terminal rows (`TerminalCallStands`); late results prevail in the end (`LateResultsPrevail`). |
| `task_reconcile_torn` | A torn read revises a row with an older status: see Findings. |
| `correlate` | No record is charged twice, across all tiers; overlapping records go to the nearest task; what nobody is charged with no tier could have charged; totals add up, with unknown staying unknown. |
| `transcript_scan` | What a complete scan reports lies between what the transcripts held when it began and when it ended (`QuotaIsBracketed`; `SessionIsBracketed` for requests below, tokens above); quota totals of complete scans never shrink (`QuotaNeverShrinks`). A scan is complete when no file and no line was left out; the code warns of oversized files and malformed lines, not of vanished files. |
| `hourly_snapshot` | Both files of an hour come from one computation wherever nothing was killed between them (`PairsAgree`); a good snapshot is only replaced by one at least as complete (`SnapshotsOnlyImprove`); late receipts land in both files, repairing half-replaced pairs (`LateReceiptsLand`). |
| `shadow_decisions` | However the reads are torn or fail: correctness is only claimed on another task's approval (`ApprovalIsIndependent`), budgets are anchored on successes that another task approved (`BudgetIsEarned`), no published report breaks the checker's safety rules although both derive them from different fields (`SafetyHolds`), a lineage is judged as one (`LineageIsJudgedAsOne`), a declaration is never diluted (`DeclarationIsHonoured`), and the two computations of a cost agree (`NumbersAgree`). |
| `figures` | The cascade's memo changes no answer (`CascadeIsOrderFree`); telemetry is attached across no identity (`JoinsKeepIdentity`); what is unknown is neither zero nor a success (`SilenceChangesNothing`); cohorts partition the records (`EveryRecordIsCountedOnce`); incomplete sources give no number (`NoEvidenceNoNumber`); requests are not counted for a cleared context (`GenerationsAreNotMixed`). |
| `collector` | An entry without a warning or an error misses nothing that was there when the scan began, short of files that vanish (`QuietEntriesAreComplete`); a project is charged with no more than its worktrees used, whatever they are called (`ProjectsPayForTheirWork`); the breakdowns of a scanned window add up to its total, and those of a payload's window have each project of its rows with their sum and, of the runtime, only projects no row names, which share the observed total if each has one raw name (`BreakdownsAddUp`). |
| `collector_runtime` | With two raw names they do not: see Findings. |

### Bounds

* `RollingReport`: two tasks, two sources, two records, two evidence contents, three
  creation times (one is "unknown"), two revisions, two edits or deployments, one fault.
  Two tasks let one lie below the watermark the other sets, two sources let the winner
  change, two edits let a row change between two connections and back. Creation times are
  as `MCInitialRows` lays them out, or any after an edit. The overlap run gives up a source,
  a revision and an edit for a second producer. Its database holds two tasks from the
  start, created at different times (`MCSettledRows`), so that the older one is below the
  watermark of the first report: it is skipped unless its record or evidence is new, which
  the edit may make it. The one fault is a failed read, a report that cannot be loaded or a
  kill. The violation run has three edits.
* `TaskReconcile`: two rows, two status changes, one tick after the dispatch, one failed
  read: enough for a timeout and a late result on either side of a row. The violation run
  has one row and two ticks, so that the row lies strictly between two status changes.
* `Correlate`: every assignment of 9 tasks to three places and of 16 usage records to three
  (up to order): windows that tie, overlap only through the slop, are instants, or are
  missing. Three tasks are needed for a claim of one tier to hide a record from another.
  The program ends, so this run does not check for deadlock.
* `TranscriptScan`: two files, two requests, three written lines, usage up to two, a limit
  of two lines: a copy, a streamed request and an oversized file each fit, and the quota
  scanner may find the usage of any line malformed. The writers
  stop at their bounds while no scan is due, so this run does not check for deadlock.
* `HourlySnapshot`: four hours of which the writer rewrites one and keeps one, one receipt
  an hour, one rotation, two failures or kills (a failed table and a failed rollback, or a
  kill and a failed recomputation).

* `ShadowDecisions`: three tasks with every link between them, cycles included, and a
  chain of four that is longer than the walk (`MaxHops`, ten in the code, is two); one
  task with telemetry, one record made while the reader reads: it can fall between any two
  of the three reads. Thresholds of acceptance are set where one task more or less crosses
  them. Each behaviour ends with a report, so deadlock is not checked.
* `Figures`: all cascades of three tasks in two orders, one of them asked about twice; one
  record with one row of each kind, in every combination of known, missing and different
  identity; every sequence of three records that differ in what they leave unknown; up to
  three packs; hours with each state of each source, each follow-up of a review, and each
  placing of transcript lines about the transitions. Every property is about one record,
  one pair of records or a sum over them, for which three are enough to have a first, a
  last and one between. A computation ends, so deadlock is not checked.
* `Collector`: two Gemini sessions, one of each format, with two messages in all and room
  for one before a file is too large, so a copy, a duplicate, an oversized and a
  half-written file occur; two Codex threads; one Claude request; two units of use;
  worktrees of two projects, whose names contain a dash and a provider's name. Payloads
  have up to two rows and up to two of the runtime: one project can have both, or two
  names in either; Codex's carry the observed total or none.

Each bound is a named constant in the guard of the environment's action, so liveness is
checked on complete behaviours. Only `collector`, which checks no liveness, restricts its
states further (`MCCollector`): payloads share no variable with the scan and are taken
apart from it; a scan begins with everything reset and reads the configuration once, so
one scan, and edits before or in `init` but not after its start, reach every bundle; its
view leaves out the configuration from then on. `collector` has no constraint on how the
tools interleave with a scan.

### Fairness

Weak fairness is assumed of the program's own steps only, never of the environment:
of a producer's `Run`, the reader's `Read` and the writer's `Run`. It says that a started
process goes on and that its scheduler or caller starts it again; the code has no step
that waits. Since failures and kills are finitely many, "in the end" means after the last
of them; nothing is assumed about when they happen. The other modules check safety
only and need no fairness.

## Findings

Each is a run whose configuration TLC must find violated.

1. `rolling_relabel`. The revision labels the report, not its decisions. A source that is
   absent in the first run after a deployment keeps its old decisions; when it returns the
   label already matches, so they are never recomputed, although
   `docs/context-economics.md:899-901` says every decision whose task is still present is.
2. `task_reconcile_torn`. Statuses and the times they changed come from two connections,
   so a status can be dated by the change that replaced it and override a row that was
   logged after it, although the docstring at `agent_crew_adapter.py:388-395` says
   strictly newer only. For instance: a task is marked failed at 1, its success is logged
   at 2, the reader reads the status `failed`, the task is moved to completed at 3, the
   reader reads 3 as the time of the change, and reports a failure.
3. `collector_runtime`. A project that only Codex's runtime names, under two raw names,
   loses the second: `adapters/projects.py:119` takes a row only while the normalized name
   is free. `docs/reporting-semantics.md:34` includes such projects "so project shares sum
   against the observed total"; the window's `runtime` breakdown then has both rows and its
   `by_project` one.

Disagreements met while reading that no run is about:

* *Rolling report.* A decision published with `created_at: null`, because the timestamp
  connection failed once, is not rechecked when the timestamp can be read again and lies
  below the watermark; `docs/context-economics.md:874-875` says NULL timestamps are
  rechecked.
* *Hourly files.* Between the two `os.replace` calls (`metrics_b1_hourly.py:106`, `:108`) a
  reader sees a new JSON next to an old table, which the docstring at 92-94 excludes.
* *Acceptance* looks for `not_applicable_no_retrieval` (`acceptance.py:68`, 115, 134) where
  `quality_evidence.py:415` emits `producer_not_applicable`: it never counts one as excluded.
* *Hourly metrics.* A transition at most two minutes after a boundary of the transcript is
  skipped as its twin, but still ends the window of the session before it.
* *Freshness.* `docs/reporting-semantics.md:70` asks for a reason with every window that is
  not live; Gemini's cached and aged ones, Claude's cached or old ones and Codex's
  `unknown` have none. `dashboard/verification.py:41-62` asks for the labels of every quota
  window, `components.py` shows those of the compared and primary ones.
* *Project names.* Normalizing a name twice is not normalizing it once (`my-agent-crew-x`).
  Claude names the main checkout of a project by its encoded path, Codex by the last part,
  and a subdirectory of a worktree gets a name of its own in Claude's encoding.
* *Session report.* The session scanner keeps the first line of a request
  (`session/claude.py:211-214`), whose usage is not final: `adapters/claude.py:110-113` and
  `tests/test_claude_adapter_accounting.py:70-71` say the cost is the final usage. So
  `SessionIsBracketed` bounds its tokens from above only.
* *Configuration.* A killed `init` leaves an empty configuration, whose scans publish empty
  bundles without a warning; an edit between the check of `init` and its write is lost.
* *Lineage.* Reviews beyond the tenth link are left out of a lineage silently.
* *Correlation.* A usage record without any time counts as overlapping and gives high
  confidence; which task the lowest tier charges depends on task order; when a resumed
  transcript sorts before its original the project of a request is that of the copy.
* `docs/context-economics.md:228-231` still describes `timed_out` as unknown.

## What is proved

TLAPS checks every proof to its leaves. The theorems hold for every value of the
constants that meets the modules' `ASSUME`s. Those give types, make sentinels differ from
data, and say what the inputs of a program have: `Usages`, `Files`, `Requests` and the
tables of tasks are finite; `HourlySnapshot`'s first run has the windows it rewrites;
`ShadowDecisions` gets a record for every task of its table, and a book of numbers;
`Figures` gets records that carry nothing yet of what the joins add and whose times are
numbers or missing, hours in whole units of time, and an answer (possibly none) from
outside for every documented task; `Collector` gets finitely many sessions, threads and
requests, each made with a known model, and payloads whose rows are breakdowns under raw
names of their own, as the keys of a dictionary are. TLC
evaluates all of them on the instances.

Two theorems have a hypothesis besides, `NamesAreHomes`: the names that providers and
payloads give a place normalize to the project it belongs to. It is no `ASSUME` of the
module because it is a statement about the code (`NormalizeProjectName`) and about the
layout of directories, true of worktrees in the layouts the code decodes, false of the main
checkouts and subdirectories listed under Disagreements. It holds of the names of the
instance: `collector` finds `ProjectsPayForTheirWork` violated once `WithoutProvider`
leaves the provider in a name.

* **`RollingReportProofs`**. `TypeCorrect`; then `IncrementalCorrect` and `RelabelCorrect`
  for any number of overlapping producers. Their inductive invariant says that every
  report there is (published, loaded or just made) is *faithful*: the fingerprints of an
  artifact are those of its decision, unless missing. Without it nothing connects the
  fingerprint the code compares with the decision it keeps. `RetentionCorrect`,
  `ContractCorrect` and `RefinesLedger` assume `SoleProducer` (one producer that can load
  its report; with two, or with an unreadable report, retention is false): the invariant
  then adds that what a run loaded is still the published report. The refinement maps
  `Save` to `Publish` and every other step to a look or a stutter.
* **`ReadersProofs`**, of the two readers that hold what they read over several steps,
  each on its own. Of `TaskReconcile`: `TypeCorrect`, `OutcomeCorrect`,
  `TerminalCallCorrect`. The invariant ties each thing the reader holds to a moment of
  `history` and `stream`: rows read are a prefix of the stream, the reason and status read
  were once in the database. Of `Collector`: `BundlesAreComplete`, `ProjectsAreCharged`
  and `WindowsAgree`. `QuietInv` says that the floor of a scan is covered: a
  provider still to come has at least that much work, an entry made without a warning or a
  missing file has it, and of Gemini's, while its files are read, each message is in a file
  to be read, in the one being read or in the tally, unless something is missing; and that
  what a scan has charged is work there is. Both survive the tools, since messages
  are only added, and a message held once stays the first of its key (`HeldGrows`,
  `WorkGrows`). `FairInv` adds that every window made so far is one in which the sums by
  project, by model and of the charges are the same sum taken in three orders
  (`GroupsAddUp`, `SumOfTable`), and in which a project, by `NamesAreHomes`, has only
  charges of its own places (`LocalPays`). Of a payload, `WindowsAgree` says without further
  premise which projects the window has and with what; that its breakdowns agree it says
  where the payload's own splits add up (`Consistent`), and that the projects share the
  observed total where the runtime names each project that no row names once
  (`NamedOnce`), since `projects.py` checks neither. Both are premises inside the
  property, and the instance has payloads on either side of them.
* **`CorrelateProofs`**. `TypeCorrect`, `ChargedOnceCorrect`, `NearestCorrect`,
  `StrandedCorrect`, `TotalsCorrect`. The invariant has the reservations (each winner is a
  candidate no one is closer than), the ledger (claimed is exactly what is reserved or
  charged) and what the tasks that were walked over left unclaimed. `TotalsCorrect` rests
  on `ChargedOnce`: the records behind the tasks are disjoint, so their sums add up.
* **`HourlySnapshotProofs`**. `TypeCorrect` and `PairsCorrect`, by an invariant that says
  that while the pair of a window is being replaced its JSON is what is staged and the
  link to the old JSON still matches the table, so rolling back mends the pair.
  `ImprovementCorrect` adds that nothing published or staged is ahead of the databases and
  that what is staged improves on what it would replace; without the first part a
  recomputation could show fewer receipts.
* **`TranscriptScanProofs`**. `TypeCorrect`, `QuotaBracketCorrect`,
  `SessionBracketCorrect`, and the action property `NeverShrinksCorrect`, for any number of
  transcripts, requests and lines. The upper bound is `Owed`: no request is counted above
  what it has cost by now. The lower bound needs a fact about every place in the
  transcripts that was there when the scan began: its line is already counted, or it is
  *ahead* of the reader, in a file still to be opened or further down in the one being
  read (`Covered`, `Expected`). No place leaves the latter without the former, unless a
  file is skipped or missing or a line malformed, and when the scan ends none is ahead.
  That totals never shrink follows from `Rising`: the floor of the next scan is at least the last report.
* **`ShadowDecisionsProofs`**. `TypeCorrect` and all six safety properties. `Honest` says
  that what the reader holds stays true in the tables as they move on: approvals are never
  taken back, so one read early still stands. `Contract` says what a decision alone
  guarantees whatever evidence it was made from (`MeetsContract`); `SafetyCorrect` and
  `NumbersCorrect` are about the checker and the price list meeting that contract, of a
  book read at another moment. `JudgedAlike` is about the walk over links, of any bound
  and with any cycles: a task and the one it was made for have the same root.
* **`FiguresProofs`**. `CascadeCorrect`: the walk stops within as many steps as there are
  rows (a path without repetition cannot be longer), two walks that meet end alike, so by
  induction over the records whatever is remembered is what a record would get on its own.
  `JoinsCorrect` follows a record through the three joins, each of which leaves the fields
  alone that the others compare. `GenerationsCorrect` is about times: a generation ends
  before the next moment of any transcript. `EvidenceCorrect` takes each source in turn.
  `SilenceCorrect` puts a record that tells nothing at a position of its own: it then joins
  a group or not (`MayJoin`), and is in neither case among the positions a mean, rate or
  percentile is taken of, so that those are the same functions with and without it.
  `CountsCorrect` counts positions by name: each position has one cohort and each failure
  one cause (`CountByName`); the two sides of a compaction are the first of finite total
  orders, by time and then by place (`NearestAre`).

Induction over numbers and finite sets is done with sets (`NaturalsBySteps`,
`SubsetsBySteps` in `Aggregates`: a set with 0 and every successor has all naturals),
since the induction theorems of the library take an operator. Recursive functions such as
the walks and the sums are shown to exist the same way before anything is said of them.

Only model-checked is liveness (`ParityIsRestored`, `LateResultsPrevail`,
`LateReceiptsLand`), which is out of the prover's reach. Every invariant and every action
property of the passing runs is a theorem, as is the refinement of `ShadowLedger`. What
`NormalizeProjectName` makes of particular names is computed, not proved: it scans
sequences, so `NamesAreHomes` is a hypothesis that TLC's instance meets.

## Not modelled, and the plan

Left out for good: wording, formatting, redaction and HTML (`dashboard/`,
`session/timeline.py`, `session/redaction.py`, the Markdown of reports), stateless functions
of what is modelled; the validation of JSON records field by field (`schema.py`,
`snapshot.py`), a list of types; the extractors that rename the keys of one provider's
usage (`token_components.py`); `scripts/compare_contracts.py`, a comparison field by field.

Left out of modelled parts, and disclosed at the definitions: a record put together of
several moments because its receipts or cascade signals are read later (`ReadRecords`); the
test of a transcript's modification time, which a file with a line in reach passes (`HourlyMetrics`'
`Requests`); a file that cannot be removed, which ends the hourly run as a kill does.

Not modelled yet:

1. Claude's reset windows and Gemini's quota groups with their telemetry history: how a
   window ages into stale or cached.
2. The cascade signals and context events of the Agent Crew join
   (`agent_crew_adapter.py`), as the producers of what `Figures` takes as given.
3. A second hourly writer that shares the link's name, for which `HourlySnapshot` would
   need its run as a process.
