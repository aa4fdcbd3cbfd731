---------------------------- MODULE RollingReport ----------------------------
(***************************************************************************)
(* The rolling shadow report of context_economics/report_producer.py.      *)
(*                                                                         *)
(* A producer run loads the previous report, reads task rows and quality   *)
(* evidence out of several live SQLite files one connection at a time,     *)
(* re-decides only the tasks it believes changed, replaces the report and  *)
(* then, if asked, the reader contract.  The dispatchers that own the      *)
(* databases keep writing meanwhile, a connection may fail, the policy     *)
(* code may be redeployed, a run may be killed, and runs may overlap.      *)
(*                                                                         *)
(* A decision is a function of the policy logic, the task record and the   *)
(* derived evidence, so the triple itself stands for it: two decisions are *)
(* told apart exactly when some policy could tell their inputs apart.      *)
(***************************************************************************)
EXTENDS Integers, FiniteSets

CONSTANTS
  Tasks,        \* task ids
  Sources,      \* the database paths, numbered in their sorted order
  Records,      \* contents a task record can have
  Evidence,     \* contents its derived quality evidence can have
  NoEvidence,   \* the all-unknown evidence of a row nothing is recorded for
  Producers,    \* runs of the producer that may overlap
  Absent,       \* "no such row / decision / entry"
  NoReport,     \* no (readable) report file
  NoPrint,      \* fingerprint missing from an artifact of an older release
  InitialRows,  \* contents the databases may have at first
  MaxTime,      \* bound on created_at
  MaxRevision,  \* number of different versions of the policy logic
  MaxEdits,     \* bound on row changes and deployments
  MaxFaults,    \* bound on failed reads and killed runs
  HotDeploy,    \* may the policy files change under a running producer?
  LoadMayFail   \* may reading the previous report fail (OSError)?

ASSUME SourcesAssumption == Sources \subseteq Nat /\ IsFiniteSet(Sources)
ASSUME BoundsAssumption ==
  /\ MaxTime \in Nat /\ MaxRevision \in Nat
  /\ MaxEdits \in Nat /\ MaxFaults \in Nat
ASSUME FlagsAssumption == {HotDeploy, LoadMayFail} \subseteq BOOLEAN
ASSUME EvidenceAssumption == NoEvidence \in Evidence

(* parse_flexible_timestamp maps every epoch <= 0 to None, so 0 is NULL.   *)
Unknown == 0
Created == 0 .. MaxTime
Revisions == 0 .. MaxRevision
(* Revision 0 is the missing policy_logic_revision of an old report.       *)
NoRevision == 0

Row == [created : Created, record : Records, evidence : Evidence]
Inputs == [record : Records, evidence : Evidence]
Decision == [logic : Revisions, record : Records, evidence : Evidence]
Artifact == [decision : Decision, created : Created,
             recordPrint : Records \cup {NoPrint},
             evidencePrint : Evidence \cup {NoPrint}]
Report == [label : Revisions, watermark : Created,
           decisions : [Tasks -> Artifact \cup {Absent}]]
Sourced == [created : Created, record : Records, source : Sources]

ASSUME SentinelsAssumption ==
  /\ Absent \notin Row \cup Inputs \cup Decision \cup Artifact \cup Sourced
  /\ NoReport \notin Report
  /\ NoPrint \notin Records \cup Evidence

ASSUME InitialRowsAssumption ==
  InitialRows \subseteq [Sources -> [Tasks -> Row \cup {Absent}]]

VARIABLES
  rows,      \* rows[s][t]: the row of task t in database s
  code,      \* revision of policy.py and shadow_report.py on disk
  report,    \* the --out file
  contract,  \* the --contract-out file: task -> policy decision
  edits, faults,
  pc,        \* where each run is
  loaded,    \* revision of the policy logic the run imported
  label,     \* revision the run computed from the files on disk
  prior,     \* the previous report as the run loaded it
  pending,   \* sources the current reading pass still has to open
  created,   \* created_at by task, from the first connection to a source
  picked,    \* the winning record of each task read so far
  seen,      \* the evidence read for each winning record
  made       \* the report the run assembled

env == <<rows, code, edits>>
files == <<report, contract>>
locals == <<loaded, label, prior, pending, created, picked, seen, made>>
vars == <<env, files, faults, pc, locals>>

Steps == {"idle", "created", "records", "evidence", "contract"}

TypeOK ==
  /\ rows \in [Sources -> [Tasks -> Row \cup {Absent}]]
  /\ code \in Revisions
  /\ report \in Report \cup {NoReport}
  /\ contract \in [Tasks -> Decision \cup {Absent}]
  /\ edits \in 0 .. MaxEdits
  /\ faults \in 0 .. MaxFaults
  /\ pc \in [Producers -> Steps]
  /\ loaded \in [Producers -> Revisions]
  /\ label \in [Producers -> Revisions]
  /\ prior \in [Producers -> Report \cup {NoReport}]
  /\ pending \in [Producers -> SUBSET Sources]
  /\ created \in [Producers -> [Tasks -> Created]]
  /\ picked \in [Producers -> [Tasks -> Sourced \cup {Absent}]]
  /\ seen \in [Producers -> [Tasks -> Evidence]]
  /\ made \in [Producers -> Report \cup {NoReport}]

-----------------------------------------------------------------------------
(* A report written by a release that knew neither fingerprints nor        *)
(* revisions; its decisions came from logic this model calls revision 0.   *)
LegacyReport(decided, r) ==
  [label |-> NoRevision, watermark |-> Unknown,
   decisions |-> [t \in Tasks |->
     IF t \in decided
     THEN [decision |-> [logic |-> NoRevision, record |-> r, evidence |-> NoEvidence],
           created |-> Unknown, recordPrint |-> NoPrint, evidencePrint |-> NoPrint]
     ELSE Absent]]

Init ==
  /\ rows \in InitialRows
  /\ code \in Revisions \ {NoRevision}
  /\ \/ report = NoReport
     \/ \E D \in SUBSET Tasks, r \in Records : report = LegacyReport(D, r)
  /\ contract = [t \in Tasks |-> Absent]
  /\ edits = 0 /\ faults = 0
  /\ pc = [p \in Producers |-> "idle"]
  /\ loaded = [p \in Producers |-> NoRevision]
  /\ label = [p \in Producers |-> NoRevision]
  /\ prior = [p \in Producers |-> NoReport]
  /\ pending = [p \in Producers |-> {}]
  /\ created = [p \in Producers |-> [t \in Tasks |-> Unknown]]
  /\ picked = [p \in Producers |-> [t \in Tasks |-> Absent]]
  /\ seen = [p \in Producers |-> [t \in Tasks |-> NoEvidence]]
  /\ made = [p \in Producers |-> NoReport]

-----------------------------------------------------------------------------
(* The dispatchers: a row appears, its outcome, tokens or review evidence  *)
(* change, or its source rotates it away.  created_at is set once.         *)
EditRow(s, t, row) ==
  /\ edits < MaxEdits
  /\ row # rows[s][t]
  /\ (row # Absent /\ rows[s][t] # Absent) => row.created = rows[s][t].created
  /\ rows' = [rows EXCEPT ![s][t] = row]
  /\ edits' = edits + 1
  /\ UNCHANGED <<code, files, faults, pc, locals>>

(* Other policy.py / shadow_report.py bytes on disk: an update or a        *)
(* rollback.                                                               *)
Deploy(revision) ==
  /\ edits < MaxEdits
  /\ revision # code
  /\ ~HotDeploy => \A p \in Producers : pc[p] = "idle"
  /\ code' = revision
  /\ edits' = edits + 1
  /\ UNCHANGED <<rows, files, faults, pc, locals>>

-----------------------------------------------------------------------------
(* The process ends and its memory with it.                                *)
Exit(p) ==
  /\ pc' = [pc EXCEPT ![p] = "idle"]
  /\ loaded' = [loaded EXCEPT ![p] = NoRevision]
  /\ label' = [label EXCEPT ![p] = NoRevision]
  /\ prior' = [prior EXCEPT ![p] = NoReport]
  /\ pending' = [pending EXCEPT ![p] = {}]
  /\ created' = [created EXCEPT ![p] = [t \in Tasks |-> Unknown]]
  /\ picked' = [picked EXCEPT ![p] = [t \in Tasks |-> Absent]]
  /\ seen' = [seen EXCEPT ![p] = [t \in Tasks |-> NoEvidence]]
  /\ made' = [made EXCEPT ![p] = NoReport]

Fault == faults < MaxFaults /\ faults' = faults + 1
NoFault == UNCHANGED faults

First(S) == CHOOSE s \in S : \A u \in S : s <= u
Next1(S) == S \ {First(S)}

(* main: the process imports the policy and _load_existing reads --out;    *)
(* a missing, unreadable or malformed file counts as no report at all.     *)
Start(p) ==
  /\ pc[p] = "idle"
  /\ loaded' = [loaded EXCEPT ![p] = code]
  /\ \/ NoFault /\ prior' = [prior EXCEPT ![p] = report]
     \/ LoadMayFail /\ Fault /\ prior' = [prior EXCEPT ![p] = NoReport]
  /\ pending' = [pending EXCEPT ![p] = Sources]
  /\ pc' = [pc EXCEPT ![p] = "created"]
  /\ UNCHANGED <<env, files, label, created, picked, seen, made>>

(* _readonly_created_at_by_task: the first connection to a source.  Any    *)
(* sqlite error yields an empty map, that is, no timestamp is known.       *)
ReadCreated(p) ==
  /\ pc[p] = "created" /\ pending[p] # {}
  /\ \/ /\ NoFault
        /\ created' = [created EXCEPT ![p] = [t \in Tasks |->
             LET row == rows[First(pending[p])][t]
             IN  IF row = Absent THEN Unknown ELSE row.created]]
     \/ Fault /\ created' = [created EXCEPT ![p] = [t \in Tasks |-> Unknown]]
  /\ pc' = [pc EXCEPT ![p] = "records"]
  /\ UNCHANGED <<env, files, loaded, label, prior, pending, picked, seen, made>>

(* candidate_key > existing_key: known and later created_at, then path.    *)
Supersedes(c, e) ==
  \/ e = Absent
  \/ c.created > e.created
  \/ c.created = e.created /\ c.source > e.source

(* One source of read_organic_task_records: its rows, with the timestamps  *)
(* the earlier connection returned, compete with the records so far.       *)
MergeSource(p, s) ==
  [t \in Tasks |->
     IF rows[s][t] = Absent THEN picked[p][t]
     ELSE LET c == [created |-> created[p][t], record |-> rows[s][t].record, source |-> s]
          IN  IF Supersedes(c, picked[p][t]) THEN c ELSE picked[p][t]]

(* read_task_attribution_sqlite: the second connection to the same source. *)
(* A record is read in one step, with its receipts and cascade signals.    *)
(* The code takes these over two more connections; that a record may so be *)
(* put together of several moments is not modelled.                        *)
ReadRecords(p) ==
  /\ pc[p] = "records"
  /\ \/ NoFault /\ picked' = [picked EXCEPT ![p] = MergeSource(p, First(pending[p]))]
     \/ Fault /\ UNCHANGED picked
  /\ pending' = [pending EXCEPT ![p] = Next1(@)]
  /\ pc' = [pc EXCEPT ![p] = "created"]
  /\ UNCHANGED <<env, files, loaded, label, prior, created, seen, made>>

Winners(p) == {t \in Tasks : picked[p][t] # Absent}

(* policy_logic_revision hashes the files as they are on disk now.         *)
ReadRevision(p) ==
  /\ pc[p] = "created" /\ pending[p] = {}
  /\ label' = [label EXCEPT ![p] = code]
  /\ pending' = [pending EXCEPT ![p] = {picked[p][t].source : t \in Winners(p)}]
  /\ pc' = [pc EXCEPT ![p] = "evidence"]
  /\ UNCHANGED <<env, files, faults, loaded, prior, created, picked, seen, made>>

(* _artifact_evidence of one source, for the tasks that source won.        *)
ReadEvidence(p) ==
  /\ pc[p] = "evidence" /\ pending[p] # {}
  /\ LET s == First(pending[p])
         mine == {t \in Winners(p) : picked[p][t].source = s}
     IN  \/ /\ NoFault
            /\ seen' = [seen EXCEPT ![p] = [t \in Tasks |->
                 IF t \in mine /\ rows[s][t] # Absent
                 THEN rows[s][t].evidence ELSE seen[p][t]]]
         \/ Fault /\ UNCHANGED seen
  /\ pending' = [pending EXCEPT ![p] = Next1(@)]
  /\ UNCHANGED <<env, files, pc, loaded, label, prior, created, picked, made>>

-----------------------------------------------------------------------------
(* _existing_decisions and _prior_watermark of the report that was loaded. *)
Existing(p, t) == IF prior[p] = NoReport THEN Absent ELSE prior[p].decisions[t]
PriorWatermark(p) == IF prior[p] = NoReport THEN Unknown ELSE prior[p].watermark

(* Mutant: only a first report is recomputed, a changed revision is not.   *)
PolicyMoved_FirstReportOnly(p) == prior[p] = NoReport

(* refresh_for_policy.                                                     *)
PolicyMoved(p) == prior[p] = NoReport \/ prior[p].label # label[p]

(* Mutant: later review evidence does not refresh an older task.           *)
IsNew_IgnoresEvidence(p, t) ==
  LET a == Existing(p, t) IN
  \/ a = Absent
  \/ a.recordPrint # picked[p][t].record
  \/ picked[p][t].created = Unknown
  \/ PriorWatermark(p) = Unknown
  \/ picked[p][t].created >= PriorWatermark(p)

(* _is_new_since_watermark.                                                *)
IsNew(p, t) ==
  LET a == Existing(p, t) IN
  \/ a = Absent
  \/ a.evidencePrint # seen[p][t]
  \/ a.recordPrint # picked[p][t].record
  \/ picked[p][t].created = Unknown
  \/ PriorWatermark(p) = Unknown
  \/ picked[p][t].created >= PriorWatermark(p)

(* Mutant: a changed revision does not reach tasks below the watermark.    *)
Refreshed_Incremental(p) == {t \in Winners(p) : IsNew(p, t)}

Refreshed(p) == {t \in Winners(p) : PolicyMoved(p) \/ IsNew(p, t)}

(* shadow_comparison_report for one task, with the producer's own fields.  *)
Decide(p, t) ==
  [decision |-> [logic |-> loaded[p], record |-> picked[p][t].record, evidence |-> seen[p][t]],
   created |-> picked[p][t].created,
   recordPrint |-> picked[p][t].record,
   evidencePrint |-> seen[p][t]]

(* Mutant: the -1 of the sort key leaks out as the missing watermark.      *)
CurrentWatermark_MinusOne(p) ==
  LET known == {picked[p][t].created : t \in Winners(p)}
  IN  IF known = {} THEN -1 ELSE CHOOSE m \in known : \A k \in known : k <= m

(* max(known_times) over the rows read this time, None when there are none.*)
CurrentWatermark(p) ==
  LET known == {picked[p][t].created : t \in Winners(p)}
  IN  IF known = {} THEN Unknown ELSE CHOOSE m \in known : \A k \in known : k <= m

(* Mutant: the report is rebuilt from the tasks read this time.            *)
Produced_OnlyRead(p) ==
  [label |-> label[p],
   watermark |-> CurrentWatermark(p),
   decisions |-> [t \in Tasks |->
     IF t \in Refreshed(p) THEN Decide(p, t)
     ELSE IF t \in Winners(p) THEN Existing(p, t) ELSE Absent]]

Produced(p) ==
  [label |-> label[p],
   watermark |-> CurrentWatermark(p),
   decisions |-> [t \in Tasks |->
     IF t \in Refreshed(p) THEN Decide(p, t) ELSE Existing(p, t)]]

(* The tail of _produce_shadow_report and the atomic replacement of --out. *)
Save(p) ==
  /\ pc[p] = "evidence" /\ pending[p] = {}
  /\ report' = Produced(p)
  /\ made' = [made EXCEPT ![p] = Produced(p)]
  /\ pc' = [pc EXCEPT ![p] = "contract"]
  /\ UNCHANGED <<env, contract, faults, loaded, label, prior, pending, created, picked, seen>>

(* Mutant: the contract recomputes decisions instead of copying them.      *)
WriteContract_Recomputes(p) ==
  /\ pc[p] = "contract"
  /\ contract' = [t \in Tasks |->
       IF t \in Winners(p) THEN Decide(p, t).decision ELSE Absent]
  /\ Exit(p)
  /\ UNCHANGED <<env, report, faults>>

(* Mutant: the contract is upserted like the report, so it never shrinks.  *)
WriteContract_Upserts(p) ==
  /\ pc[p] = "contract"
  /\ contract' = [t \in Tasks |->
       IF t \in Winners(p) THEN made[p].decisions[t].decision ELSE contract[t]]
  /\ Exit(p)
  /\ UNCHANGED <<env, report, faults>>

(* build_contract: only the tasks read this time, straight from the report *)
(* the run made; it raises when one of them has no decision.               *)
WriteContract(p) ==
  /\ pc[p] = "contract"
  /\ \A t \in Winners(p) : made[p].decisions[t] # Absent
  /\ contract' = [t \in Tasks |->
       IF t \in Winners(p) THEN made[p].decisions[t].decision ELSE Absent]
  /\ Exit(p)
  /\ UNCHANGED <<env, report, faults>>

(* The run is killed; both files are only ever replaced whole.  Without    *)
(* --contract-out a run ends like one that is killed before its contract.  *)
Crash(p) ==
  /\ pc[p] # "idle"
  /\ Fault
  /\ Exit(p)
  /\ UNCHANGED <<env, files>>

Run(p) ==
  \/ Start(p) \/ ReadCreated(p) \/ ReadRecords(p) \/ ReadRevision(p)
  \/ ReadEvidence(p) \/ Save(p) \/ WriteContract(p)

Next ==
  \/ \E s \in Sources, t \in Tasks, row \in Row \cup {Absent} : EditRow(s, t, row)
  \/ \E revision \in Revisions \ {NoRevision} : Deploy(revision)
  \/ \E p \in Producers : Run(p) \/ Crash(p)

Spec == Init /\ [][Next]_vars
(* A scheduler keeps starting the producer and a started run keeps going.  *)
FairSpec == Spec /\ \A p \in Producers : WF_vars(Run(p))

-----------------------------------------------------------------------------
(* Skipping unchanged tasks never shows: after a run replaced the report,  *)
(* every task it read has a decision, made from exactly the record and the *)
(* evidence it read, whichever tasks _is_new_since_watermark left alone.   *)
IncrementalIsFull ==
  \A p \in Producers : pc[p] = "contract" =>
    \A t \in Winners(p) :
      /\ made[p].decisions[t] # Absent
      /\ made[p].decisions[t].decision.record = picked[p][t].record
      /\ made[p].decisions[t].decision.evidence = seen[p][t]

(* A run that gives the report another revision decides every task it read *)
(* with the logic it runs, below the watermark or not: no older logic      *)
(* survives under the new revision on a task that could be read.           *)
RelabelRefreshes ==
  \A p \in Producers : pc[p] = "contract" =>
    \/ prior[p] # NoReport /\ prior[p].label = label[p]
    \/ \A t \in Winners(p) : made[p].decisions[t].decision.logic = loaded[p]

(* A decision once published stays in the report when its source rotates   *)
(* away, fails to open, or the next run reads nothing at all.              *)
DecisionsAreRetained ==
  [][report # NoReport =>
       \A t \in Tasks : report.decisions[t] # Absent => report'.decisions[t] # Absent]_report

(* The two files never contradict each other at the moment the contract is *)
(* replaced: a reader of either sees the same decision for a task.         *)
ContractFollowsReport ==
  [][\A t \in Tasks : contract'[t] # Absent =>
       /\ report # NoReport
       /\ report.decisions[t] # Absent
       /\ contract'[t] = report.decisions[t].decision]_contract

-----------------------------------------------------------------------------
(* --parity-check: the contract against a fresh, fault-free recomputation. *)
Candidates(t) == {s \in Sources : rows[s][t] # Absent}
FreshSource(t) ==
  CHOOSE s \in Candidates(t) : \A u \in Candidates(t) \ {s} :
    Supersedes([created |-> rows[s][t].created, source |-> s],
               [created |-> rows[u][t].created, source |-> u])
FreshDecision(t) ==
  IF Candidates(t) = {} THEN Absent
  ELSE LET row == rows[FreshSource(t)][t]
       IN  [logic |-> code, record |-> row.record, evidence |-> row.evidence]
ParityMismatch == {t \in Tasks : contract[t] # FreshDecision(t)}

(* Once the databases settle and runs succeed, the published contract      *)
(* comes to agree with the sources and stays so, whatever torn reads,      *)
(* failed connections, unreadable reports, killed or overlapping runs came *)
(* before: it covers exactly the tasks there are, what a parity check      *)
(* still reports can only come from the logic of a decision, never from    *)
(* its inputs, and the report has the same decisions for those tasks,      *)
(* those below the watermark that later runs leave alone included.         *)
ContractHasInputs ==
  \A t \in ParityMismatch :
    /\ contract[t] # Absent /\ FreshDecision(t) # Absent
    /\ contract[t].record = FreshDecision(t).record
    /\ contract[t].evidence = FreshDecision(t).evidence
ReportHasInputs ==
  \A t \in Tasks : Candidates(t) # {} =>
    /\ report # NoReport /\ report.decisions[t] # Absent
    /\ report.decisions[t].decision.record = FreshDecision(t).record
    /\ report.decisions[t].decision.evidence = FreshDecision(t).evidence
ParityIsRestored == <>[](ContractHasInputs /\ ReportHasInputs)

-----------------------------------------------------------------------------
(* What the documentation says of revisions: a changed one has every task  *)
(* still present in a source decided anew, so a run that started from and  *)
(* labels with one revision leaves no other logic on a task it read.       *)
SourcePresentRefreshed ==
  \A p \in Producers : pc[p] = "contract" /\ loaded[p] = label[p] =>
    \A t \in Winners(p) : made[p].decisions[t].decision.logic = label[p]

-----------------------------------------------------------------------------
(* The report, forgetting watermark and fingerprints, as a plain ledger.   *)
LedgerView(r) ==
  [t \in Tasks |-> IF r = NoReport THEN Absent
                   ELSE IF r.decisions[t] = Absent THEN Absent
                   ELSE r.decisions[t].decision]
Read(p) ==
  [t \in Tasks |-> IF picked[p][t] = Absent THEN Absent
                   ELSE [record |-> picked[p][t].record, evidence |-> seen[p][t]]]

Ledger == INSTANCE ShadowLedger WITH
  Logics <- Revisions,
  ledger <- LedgerView(report),
  label <- IF report = NoReport THEN NoRevision ELSE report.label,
  view <- [p \in Producers |-> Read(p)],
  running <- loaded

(* The incremental producer implements full recomputation of what it read. *)
ImplementsLedger == Ledger!Spec
=============================================================================
