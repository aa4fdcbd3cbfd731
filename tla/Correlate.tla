------------------------------ MODULE Correlate ------------------------------
(***************************************************************************)
(* Charging provider usage to tasks (context_economics/correlate.py).      *)
(*                                                                         *)
(* A first pass reserves every usage record whose time overlaps a task of  *)
(* its own provider session for the nearest such task.  A second pass      *)
(* walks the tasks in order: a task takes what is reserved for it, failing *)
(* that whatever its session still has, failing that the records without a *)
(* session that its project used meanwhile.                                *)
(***************************************************************************)
EXTENDS Integers, Sequences, FiniteSetsExt

CONSTANTS
  TaskCount,    \* number of attribution rows
  Usages,       \* identities of the usage records
  Sessions,     \* provider session ids
  Projects,     \* project names
  None,         \* no session, no project, an unknown token count
  Slop,         \* _WINDOW_SLOP_SECONDS
  Attributions, \* the attribution rows the input is made of
  UsageRecords  \* the usage records the input is made of

NoTime == 0

Window == [started : Nat, completed : Nat]
Attribution == [session : Sessions \cup {None}, project : Projects \cup {None},
                window : Window]
TokenComponents == [total : Nat \cup {None}, tool : Nat \cup {None}]
ProviderUsageRecord == [session : Sessions \cup {None}, project : Projects \cup {None},
                        window : Window, tokens : TokenComponents]

ASSUME CorrelateAssumption ==
  /\ TaskCount \in Nat /\ Slop \in Nat /\ IsFiniteSet(Usages)
  /\ None \notin Sessions \cup Projects \cup Nat
  /\ Attributions \subseteq Attribution
  /\ UsageRecords \subseteq ProviderUsageRecord

VARIABLES
  tasks,   \* attribution_list
  usage,   \* usage_list, by identity
  winner,  \* winner_index: the task a record is reserved for
  claimed, \* records some task has been charged with, or that are reserved
  results, \* the records of the tasks already walked
  pc

vars == <<tasks, usage, winner, claimed, results, pc>>

TaskIndex == 1 .. TaskCount
(* No task's window overlaps the record.                                   *)
Nobody == 0
Confidence == {"high", "medium", "low"}
Result == [matched : SUBSET Usages, confidence : Confidence]

TypeOK ==
  /\ tasks \in [TaskIndex -> Attribution]
  /\ usage \in [Usages -> ProviderUsageRecord]
  /\ winner \in [Usages -> TaskIndex \cup {Nobody}]
  /\ claimed \subseteq Usages
  /\ results \in Seq(Result) /\ Len(results) <= TaskCount
  /\ pc \in {"reserve", "walk"}

Init ==
  /\ tasks \in [TaskIndex -> Attributions]
  /\ usage \in [Usages -> UsageRecords]
  /\ winner = [u \in Usages |-> Nobody]
  /\ claimed = {} /\ results = << >> /\ pc = "reserve"

-----------------------------------------------------------------------------
(* Where one of the two times is missing the other stands for both.        *)
Untimed(w) == w.started = NoTime /\ w.completed = NoTime
First(w) == IF w.started = NoTime THEN w.completed ELSE w.started
Last(w) == IF w.completed = NoTime THEN w.started ELSE w.completed

(* _overlaps, for a task that has a start: a usage record without any time *)
(* is not excluded.                                                        *)
Overlaps(w, task) ==
  \/ Untimed(w)
  \/ First(w) <= Last(task) + Slop /\ Last(w) >= First(task) - Slop

(* _distance_to_window                                                     *)
Distance(w, task) ==
  IF Untimed(w) THEN 0
  ELSE IF Last(w) < First(task) THEN First(task) - Last(w)
  ELSE IF First(w) > Last(task) THEN First(w) - Last(task)
  ELSE 0

Started(i) == tasks[i].window.started # NoTime
Gap(u, i) == Distance(usage[u].window, tasks[i].window)

SessionMatch(u, i) ==
  tasks[i].session # None /\ usage[u].session = tasks[i].session
ProjectMatch(u, i) ==
  /\ tasks[i].project # None /\ usage[u].project = tasks[i].project
  /\ usage[u].session = None

(* window_candidates                                                       *)
Candidate(u, i) ==
  SessionMatch(u, i) /\ Started(i) /\ Overlaps(usage[u].window, tasks[i].window)

(* Mutant: the first task in order, however far its window is.             *)
Closer_FirstTask(u, i, j) == i <= j

(* The order min() ranks the candidates by: distance, then task order.     *)
Closer(u, i, j) ==
  Gap(u, i) < Gap(u, j) \/ (Gap(u, i) = Gap(u, j) /\ i <= j)

(* Mutant: an index counted from one is taken for one from zero.           *)
Winner_CountsFromOne(u) ==
  IF \E i \in TaskIndex : Candidate(u, i)
  THEN 1 + (CHOOSE i \in TaskIndex : Candidate(u, i))
  ELSE Nobody
Winner(u) ==
  LET candidates == {i \in TaskIndex : Candidate(u, i)} IN
  IF candidates = {} THEN Nobody
  ELSE CHOOSE i \in candidates : \A j \in candidates : Closer(u, i, j)

Reserve ==
  /\ pc = "reserve"
  /\ winner' = [u \in Usages |-> Winner(u)]
  /\ claimed' = {u \in Usages : Winner(u) # Nobody}
  /\ pc' = "walk"
  /\ UNCHANGED <<tasks, usage, results>>

-----------------------------------------------------------------------------
Won(i) == {u \in Usages : winner[u] = i}
BySession(i) == {u \in Usages \ claimed : SessionMatch(u, i)}
(* Mutant: only a task without a session falls back on its project.        *)
ByProject_SessionlessTasks(i) ==
  {u \in Usages \ claimed :
     /\ tasks[i].session = None
     /\ ProjectMatch(u, i) /\ Started(i)
     /\ Overlaps(usage[u].window, tasks[i].window)}
ByProject(i) ==
  {u \in Usages \ claimed :
     /\ ProjectMatch(u, i) /\ Started(i)
     /\ Overlaps(usage[u].window, tasks[i].window)}

Matched(i) ==
  IF Won(i) # {} THEN [matched |-> Won(i), confidence |-> "high"]
  ELSE IF BySession(i) # {} THEN [matched |-> BySession(i), confidence |-> "medium"]
  ELSE [matched |-> ByProject(i), confidence |-> "low"]

(* Mutant: what the second pass charges is not claimed.                    *)
Claimed_ReservedOnly(records) == claimed
Claimed(records) == claimed \cup records

Walk ==
  /\ pc = "walk" /\ Len(results) < TaskCount
  /\ LET match == Matched(Len(results) + 1)
     IN /\ results' = Append(results, match)
        /\ claimed' = Claimed(match.matched)
  /\ UNCHANGED <<tasks, usage, winner, pc>>

Next == Reserve \/ Walk
Spec == Init /\ [][Next]_vars

-----------------------------------------------------------------------------
(* merge_token_components.  Both kinds of sums, and what a task is billed. *)
Total == [u \in Usages |-> usage[u].tokens.total]
Tool == [u \in Usages |-> usage[u].tokens.tool]

(* Mutant: an unknown total is left out of the sum.                        *)
Merged_KnownOnly(records) ==
  LET known == {u \in records : Total[u] # None} IN
  [total |-> IF known = {} THEN None ELSE SumFunctionOnSet(Total, known), tool |-> None]
Merged(records) ==
  LET withTool == {u \in records : Tool[u] # None} IN
  [total |-> IF records = {} \/ \E u \in records : Total[u] = None
             THEN None ELSE SumFunctionOnSet(Total, records),
   tool  |-> IF withTool = {} THEN None ELSE SumFunctionOnSet(Tool, withTool)]

-----------------------------------------------------------------------------
Done == Len(results) = TaskCount
Charged == UNION {results[i].matched : i \in DOMAIN results}

(* "Each usage record is attributed to at most one task, across all        *)
(* confidence tiers" (correlate_task_economics): the window winners, the   *)
(* session leftovers and the project fallback never overlap.               *)
ChargedOnce ==
  \A i, j \in DOMAIN results :
    i # j => results[i].matched \cap results[j].matched = {}

(* No tier lets a task take a record that overlaps another task of its     *)
(* session, unless it overlaps the taker too, at least as closely.         *)
NearestTaskIsCharged ==
  \A i \in DOMAIN results : \A u \in results[i].matched : \A j \in TaskIndex :
    Candidate(u, j) => Candidate(u, i) /\ (j < i => Gap(u, i) < Gap(u, j))
                                       /\ (i < j => Gap(u, i) <= Gap(u, j))

(* A record nobody is charged with is one nobody could have been charged   *)
(* with: every task that shares its session was served by its own window,  *)
(* and every task whose project used it meanwhile by its session.          *)
NothingIsStranded ==
  Done => \A u \in Usages \ Charged : \A i \in TaskIndex :
    /\ SessionMatch(u, i) => results[i].confidence = "high"
    /\ ProjectMatch(u, i) /\ Started(i) /\ Overlaps(usage[u].window, tasks[i].window)
         => results[i].confidence # "low"

(* The totals reports add up are complete and nothing in them is counted   *)
(* twice: the known totals of all the tasks together are the usage of the  *)
(* records behind them, each of which knew its own total.                  *)
TotalsAddUp ==
  LET bill == [i \in DOMAIN results |-> Merged(results[i].matched).total]
      billed == {i \in DOMAIN results : bill[i] # None}
      behind == UNION {results[i].matched : i \in billed}
  IN /\ \A u \in behind : Total[u] # None
     /\ SumFunctionOnSet(bill, billed) = SumFunctionOnSet(Total, behind)
=============================================================================
