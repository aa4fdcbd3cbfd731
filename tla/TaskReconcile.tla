---------------------------- MODULE TaskReconcile ----------------------------
(***************************************************************************)
(* Joining Agent Crew's attribution.jsonl with its tasks.db                *)
(* (context_economics/agent_crew_adapter.py), for one task: the functions  *)
(* treat every task id on its own.                                         *)
(*                                                                         *)
(* The reader collapses the stream of rows to one, then opens the live     *)
(* database three times: for the reasons, for the statuses and for the     *)
(* times the statuses changed.  The dispatcher keeps writing both files    *)
(* meanwhile, and any of the three reads may fail and come back empty.     *)
(***************************************************************************)
EXTENDS Integers, Sequences

CONSTANTS
  Reasons,      \* failure reasons the dispatcher may record
  None,         \* no outcome, no reason, no status, no row, no result
  MaxClock,     \* bound on timestamps
  MaxRows,      \* bound on rows of the stream
  MaxRevisions, \* bound on status changes
  MaxFaults     \* bound on reads that fail

ASSUME TaskBoundsAssumption ==
  /\ MaxClock \in Nat \ {0} /\ MaxRows \in Nat
  /\ MaxRevisions \in Nat /\ MaxFaults \in Nat

Outcomes == {"success", "failed", "unknown"}
(* in_progress stands for every status no branch of the join tests for.    *)
Statuses == {"in_progress", "completed", "failed", "timed_out"}

(* A timestamp that is missing, null or 0.                                 *)
NoTime == 0
Time == 0 .. MaxClock

Row == [outcome : Outcomes \cup {None}, reason : Reasons \cup {None},
        updated : Time, started : Time]
Task == [status : Statuses, reason : Reasons \cup {None}, changed : Time]
Result == [outcome : Outcomes \cup {None}, reason : Reasons \cup {None},
           source : {"stream", "backfill", "late"}]

ASSUME NoneAssumption == None \notin Reasons \cup Outcomes \cup Statuses \cup Row \cup Result

VARIABLES
  clock,
  stream,     \* the task's rows in attribution.jsonl, oldest first
  history,    \* the states its row in tasks.db went through
  faults,
  pc,         \* what the reader opens next
  rows,       \* the stream as it was read
  reason,     \* the reason read from error_info
  status,     \* the status read
  result      \* what the caller got

dispatcher == <<clock, stream, history>>
reader == <<faults, pc, rows, reason, status, result>>
vars == <<dispatcher, reader>>

db == history[Len(history)]

TypeOK ==
  /\ clock \in Time
  /\ stream \in Seq(Row)
  /\ history \in Seq(Task) /\ history # << >>
  /\ faults \in 0 .. MaxFaults
  /\ pc \in {"stream", "info", "statuses", "changes"}
  /\ rows \in Seq(Row)
  /\ reason \in Reasons \cup {None}
  /\ status \in Statuses \cup {None}
  /\ result \in Result \cup {None}

(* The task has just been dispatched.                                      *)
Dispatched == 1
Init ==
  /\ clock = Dispatched
  /\ stream = << >>
  /\ history = <<[status |-> "in_progress", reason |-> None, changed |-> NoTime]>>
  /\ faults = 0 /\ pc = "stream" /\ rows = << >>
  /\ reason = None /\ status = None /\ result = None

-----------------------------------------------------------------------------
Tick == clock < MaxClock /\ clock' = clock + 1 /\ UNCHANGED <<stream, history, reader>>

(* The dispatcher appends a dispatch, progress or terminal row.  A reason  *)
(* is whatever follows the colon of the raw outcome, be it failed or not   *)
(* terminal at all; older rows lack some of their timestamps.              *)
Log(r) ==
  /\ Len(stream) < MaxRows
  /\ <<r.updated, r.started>> \in {<<clock, Dispatched>>, <<NoTime, Dispatched>>, <<NoTime, NoTime>>}
  /\ r.outcome \in {"success", "unknown"} => r.reason = None
  /\ stream' = Append(stream, r)
  /\ UNCHANGED <<clock, history, reader>>

(* The dispatcher moves the task to another status and stamps the change.  *)
(* error_info is written with a failure and may outlive it.                *)
Revise(s, why) ==
  /\ Len(history) <= MaxRevisions
  /\ s # db.status
  /\ s # "failed" => why \in {None, db.reason}
  /\ history' = Append(history, [status |-> s, reason |-> why, changed |-> clock])
  /\ UNCHANGED <<clock, stream, reader>>

-----------------------------------------------------------------------------
(* _reconciliation_key: a terminal row, then the later timestamp, then the *)
(* later line.                                                             *)
Stamp(r) == IF r.updated # NoTime THEN r.updated ELSE r.started
Terminal(r) == r.outcome # None
Outranks(s, i, j) ==
  \/ Terminal(s[i]) /\ ~Terminal(s[j])
  \/ /\ Terminal(s[i]) = Terminal(s[j])
     /\ \/ Stamp(s[i]) > Stamp(s[j])
        \/ Stamp(s[i]) = Stamp(s[j]) /\ i > j

(* reconcile_attribution_by_task.                                          *)
Reconciled(s) ==
  s[CHOOSE i \in DOMAIN s : \A j \in DOMAIN s \ {i} : Outranks(s, i, j)]

(* Mutant: the status is passed on in the dispatcher's own vocabulary.     *)
Verdict_Raw == [completed |-> "completed", failed |-> "failed", timed_out |-> None]

(* The outcome a definite status stands for; a timeout is not terminal.    *)
Verdict == [completed |-> "success", failed |-> "failed", timed_out |-> None]

(* Mutant: a timeout does not revise, the stale verdict stays.             *)
Revising_NotTimeout(outcome) ==
  CASE outcome = "failed"  -> {"completed"}
    [] outcome = "success" -> {"failed"}
    [] outcome = "unknown" -> {"completed", "failed"}
    [] outcome = None      -> {}

(* The statuses that may override an outcome the stream already has.       *)
Revising(outcome) ==
  CASE outcome = "failed"  -> {"completed", "timed_out"}
    [] outcome = "success" -> {"failed", "timed_out"}
    [] outcome = "unknown" -> {"completed", "failed", "timed_out"}
    [] outcome = None      -> {}

(* revision_is_newer: provably, with a timestamp on both sides.            *)
IsNewer(r, when) == when # NoTime /\ r.updated # NoTime /\ when > r.updated

(* Mutant: every status but a failure backfills a success.                 *)
Enriched_Guesses(r, why, s, when) ==
  IF s \in Revising(r.outcome) /\ IsNewer(r, when)
  THEN [outcome |-> Verdict[s], reason |-> IF s = "failed" THEN why ELSE None, source |-> "late"]
  ELSE IF r.outcome = None /\ s # None
  THEN [outcome |-> IF s = "failed" THEN "failed" ELSE "success",
        reason |-> IF s = "failed" THEN why ELSE r.reason, source |-> "backfill"]
  ELSE [outcome |-> r.outcome,
        reason |-> IF r.outcome = "failed" /\ why # None THEN why ELSE r.reason,
        source |-> "stream"]

(* enrich_with_task_error_reasons for the row r: a late revision, else a   *)
(* backfill of a row that is not terminal, else at most a richer reason.   *)
Enriched(r, why, s, when) ==
  IF s \in Revising(r.outcome) /\ IsNewer(r, when)
  THEN [outcome |-> Verdict[s], reason |-> IF s = "failed" THEN why ELSE None, source |-> "late"]
  ELSE IF r.outcome = None /\ s \in {"completed", "failed"}
  THEN [outcome |-> Verdict[s], reason |-> IF s = "failed" THEN why ELSE r.reason, source |-> "backfill"]
  ELSE [outcome |-> r.outcome,
        reason |-> IF r.outcome = "failed" /\ why # None THEN why ELSE r.reason,
        source |-> "stream"]

(* Mutant: every row is enriched before the stream is reconciled.          *)
Joined_EnrichFirst(why, s, when) ==
  LET early == [i \in DOMAIN rows |->
                 [rows[i] EXCEPT !.outcome = Enriched(rows[i], why, s, when).outcome]]
  IN  Enriched(Reconciled(early), why, s, when)

(* read_attribution_jsonl_with_task_errors: reconcile, then enrich.        *)
Joined(why, s, when) == Enriched(Reconciled(rows), why, s, when)

-----------------------------------------------------------------------------
(* A read of the database that works, or one that yields an empty map.     *)
Works == UNCHANGED faults
Fails == faults < MaxFaults /\ faults' = faults + 1

(* read_attribution_jsonl.                                                 *)
ReadStream ==
  /\ pc = "stream" /\ stream # << >>
  /\ rows' = stream
  /\ result' = None
  /\ pc' = "info"
  /\ UNCHANGED <<dispatcher, faults, reason, status>>

(* _read_task_error_info.                                                  *)
ReadInfo ==
  /\ pc = "info"
  /\ \/ Works /\ reason' = db.reason
     \/ Fails /\ reason' = None
  /\ pc' = "statuses"
  /\ UNCHANGED <<dispatcher, rows, status, result>>

(* _read_task_statuses.                                                    *)
ReadStatuses ==
  /\ pc = "statuses"
  /\ \/ Works /\ status' = db.status
     \/ Fails /\ status' = None
  /\ pc' = "changes"
  /\ UNCHANGED <<dispatcher, rows, reason, result>>

(* _read_task_status_changed_at, then the join; the caller reads again.    *)
ReadChanges ==
  /\ pc = "changes"
  /\ \/ Works /\ result' = Joined(reason, status, db.changed)
     \/ Fails /\ result' = Joined(reason, status, NoTime)
  /\ reason' = None /\ status' = None
  /\ pc' = "stream"
  /\ UNCHANGED <<dispatcher, rows>>

Read == ReadStream \/ ReadInfo \/ ReadStatuses \/ ReadChanges
Dispatch ==
  \/ Tick
  \/ \E r \in Row : Log(r)
  \/ \E s \in Statuses, why \in Reasons \cup {None} : Revise(s, why)

Next == Read \/ Dispatch
Spec == Init /\ [][Next]_vars
(* A caller that keeps reading the two files.                              *)
FairSpec == Spec /\ WF_vars(Read)

-----------------------------------------------------------------------------
Returned == pc = "stream" /\ result # None

(* Nothing is made up, however torn the reads: an outcome and a reason the *)
(* caller gets were recorded for this task, by a row or by the database.   *)
OutcomeIsRecorded ==
  Returned =>
    /\ result.outcome # None =>
         \/ \E i \in DOMAIN stream : stream[i].outcome = result.outcome
         \/ \E i \in DOMAIN history : /\ history[i].status \in DOMAIN Verdict
                                      /\ Verdict[history[i].status] = result.outcome
    /\ result.reason # None =>
         \/ \E i \in DOMAIN stream : stream[i].reason = result.reason
         \/ \E i \in DOMAIN history : history[i].reason = result.reason

(* The stream's own terminal call stands against the database, whatever    *)
(* the order and the timestamps of its rows, unless the task changed its   *)
(* status after every such call.                                           *)
TerminalCallStands ==
  LET calls == {i \in DOMAIN rows : Terminal(rows[i])} IN
  Returned /\ calls # {}
    => \/ \E i \in calls : rows[i].outcome = result.outcome
       \/ \E k \in DOMAIN history :
            \A i \in calls : history[k].changed > rows[i].updated

(* What the database says last counts in the end: once the dispatcher is   *)
(* quiet and reads succeed, a definite status that no terminal row or only *)
(* older ones contradict is the outcome, an unresolved timeout is neither  *)
(* a success nor a failure, and a failure carries the database's reason.   *)
Prevails ==
  /\ stream # << >> /\ db.status \in DOMAIN Verdict
  /\ \A i \in DOMAIN stream : Terminal(stream[i]) =>
       stream[i].updated # NoTime /\ db.changed > stream[i].updated
LateResultsPrevail ==
  <>[](Prevails /\ Returned =>
         /\ result.outcome = Verdict[db.status]
         /\ db.status = "failed" /\ db.reason # None => result.reason = db.reason)

(* What the documentation says of a late revision: it reconciles to a      *)
(* status that is strictly newer than the row it overrides.  So at least   *)
(* no verdict is overridden that was logged after every moment at which    *)
(* the database took on the status that overrides it.                      *)
RevisionIsNewer ==
  Returned /\ result.source = "late" =>
    \E k \in DOMAIN history :
      /\ history[k].status \in DOMAIN Verdict
      /\ Verdict[history[k].status] = result.outcome
      /\ history[k].changed >= Reconciled(rows).updated
=============================================================================
