---------------------------- MODULE HourlySnapshot ----------------------------
(***************************************************************************)
(* The hourly writer of context_economics/metrics_b1_hourly.py.            *)
(*                                                                         *)
(* Each run joins the hook log with its rotated segment, then writes a     *)
(* JSON file and a table for the last complete hour and again for the      *)
(* hours before it, whose receipts may have been completed since.  The two *)
(* files of an hour are replaced one after the other.  Any step of a run   *)
(* may fail, a run may be killed, and the sources change meanwhile.        *)
(***************************************************************************)
EXTENDS Integers, FiniteSetsExt

CONSTANTS
  RecomputeHours, \* hours that are written again
  Retention,      \* hours that are kept (RETENTION)
  Absent,         \* no such file, nothing staged
  MaxHour,        \* bound on the clock
  MaxReceipts,    \* bound on the receipts of an hour
  MaxRotations,   \* bound on rotations of the hook log
  MaxFaults       \* bound on failed steps and killed runs

ASSUME HourlyAssumption ==
  /\ RecomputeHours \in Nat /\ Retention \in Nat
  /\ MaxHour \in Nat /\ MaxReceipts \in Nat
  /\ MaxRotations \in Nat /\ MaxFaults \in Nat
  /\ RecomputeHours < MaxHour

Hours == 0 .. MaxHour
(* What the files of an hour show: an error, or the receipts of the hour   *)
(* and whether its hook events were found; and computed_at.                *)
Snapshot == [error : BOOLEAN, receipts : 0 .. MaxReceipts, hooks : BOOLEAN, at : Hours]

ASSUME AbsentAssumption == Absent \notin Snapshot

VARIABLES
  hour,      \* the hour it is; those before it are complete
  receipts,  \* receipts[h]: completed receipts created in hour h
  current,   \* the hours with events in the hook log ...
  rotated,   \* ... and in its rotated segment
  rotations, faults,
  json, table, \* json[h], table[h]: the two files of hour h
  pc,
  left,      \* windows the run still has to write
  last,      \* the first of them, the last complete hour
  hooks,     \* the hours with events in the joined log
  staged,    \* what is being published
  previous,  \* the hard link to the JSON it replaces
  mixed      \* history: hours whose files a kill or a failed rollback parted

sources == <<hour, receipts, current, rotated, rotations>>
files == <<json, table>>
run == <<pc, left, last, hooks, staged, previous>>
vars == <<sources, faults, files, run, mixed>>

Complete == {h \in Hours : h < hour}
Files == [Hours -> Snapshot \cup {Absent}]

TypeOK ==
  /\ hour \in Hours
  /\ receipts \in [Hours -> 0 .. MaxReceipts]
  /\ current \subseteq Hours /\ rotated \subseteq Hours
  /\ rotations \in 0 .. MaxRotations /\ faults \in 0 .. MaxFaults
  /\ json \in Files /\ table \in Files
  /\ pc \in {"idle", "join", "compute", "json", "table", "rollback", "prune"}
  /\ left \subseteq Complete /\ last \in Hours /\ hooks \subseteq Hours
  /\ staged \in Snapshot \cup {Absent} /\ previous \in Snapshot \cup {Absent}
  /\ mixed \subseteq Complete

NoFiles == [h \in Hours |-> Absent]

Init ==
  /\ hour = RecomputeHours + 1 /\ receipts = [h \in Hours |-> 0]
  /\ rotated \in {{h \in Complete : h < k} : k \in Hours}
  /\ current = Complete \ rotated
  /\ rotations = 0 /\ faults = 0
  /\ json = NoFiles /\ table = NoFiles
  /\ pc = "idle" /\ left = {} /\ last = 0 /\ hooks = {}
  /\ staged = Absent /\ previous = Absent /\ mixed = {}

-----------------------------------------------------------------------------
(* The bots.  An hour is over, its hook events are in the log.             *)
Tick ==
  /\ hour < MaxHour /\ hour' = hour + 1
  /\ current' = current \cup {hour}
  /\ UNCHANGED <<receipts, rotated, rotations>>

(* A receipt is completed, when its hour ends or some time after that.     *)
CompleteReceipt(h) ==
  /\ h < hour /\ receipts[h] < MaxReceipts
  /\ receipts' = [receipts EXCEPT ![h] = @ + 1]
  /\ UNCHANGED <<hour, current, rotated, rotations>>

(* The hook log is rotated; the segment before the last is gone.           *)
Rotate ==
  /\ rotations < MaxRotations /\ rotations' = rotations + 1
  /\ rotated' = current /\ current' = {}
  /\ UNCHANGED <<hour, receipts>>

Bots ==
  /\ Tick \/ (\E h \in Hours : CompleteReceipt(h)) \/ Rotate
  /\ UNCHANGED <<faults, files, run, mixed>>

-----------------------------------------------------------------------------
Works == UNCHANGED faults
Fails == faults < MaxFaults /\ faults' = faults + 1

(* Mutant: only the last complete hour is written.                         *)
Windows_LastOnly == {hour - 1}

(* Mutant: the hour that is still running is written as well.              *)
Windows_Running == {h \in Hours : hour - RecomputeHours <= h /\ h <= hour}

(* hour_windows                                                            *)
Windows == {h \in Hours : hour - 1 - RecomputeHours <= h /\ h <= hour - 1}

(* A run starts and hook_input copies the rotated segment.                 *)
StartRun ==
  /\ pc = "idle"
  /\ left' = Windows /\ last' = hour - 1
  /\ hooks' = rotated
  /\ pc' = "join"
  /\ UNCHANGED <<sources, faults, files, staged, previous, mixed>>

(* The process is gone, and what it knew.                                  *)
Exit ==
  /\ pc' = "idle"
  /\ left' = {} /\ last' = 0 /\ hooks' = {} /\ staged' = Absent /\ previous' = Absent

(* hook_input copies the log itself; without it there is no run.           *)
JoinCurrent ==
  /\ pc = "join"
  /\ \/ Works /\ hooks' = hooks \cup current /\ pc' = "compute" /\ UNCHANGED <<left, last, staged, previous>>
     \/ Fails /\ Exit
  /\ UNCHANGED <<sources, files, mixed>>

(* The latest of the windows that are left.                                *)
Window == Max(left)

(* On to the next window.                                                  *)
Skip ==
  /\ left' = left \ {Window} /\ staged' = Absent /\ previous' = Absent
  /\ pc' = IF left' = {} THEN "prune" ELSE "compute"

Publish(snapshot) ==
  /\ staged' = snapshot /\ previous' = Absent /\ pc' = "json"
  /\ UNCHANGED left

ErrorFile == [error |-> TRUE, receipts |-> 0, hooks |-> FALSE, at |-> hour]

(* Mutant: the error is published whatever there is.                       *)
Failed_Overwrites(there) ==
  IF staged = Absent \/ ~staged.error THEN Publish(ErrorFile) ELSE Skip

(* A window has failed: an error file is published where there is no JSON  *)
(* yet; when that fails as well, the window is left as it is.              *)
Failed(there) ==
  IF there = Absent /\ (staged = Absent \/ ~staged.error) THEN Publish(ErrorFile) ELSE Skip

(* compute_metrics and render, over the databases and the joined log.      *)
Compute ==
  /\ pc = "compute"
  /\ \/ Works /\ Publish([error |-> FALSE, receipts |-> receipts[Window],
                          hooks |-> Window \in hooks, at |-> hour])
     \/ Fails /\ Failed(json[Window])
  /\ UNCHANGED <<sources, files, last, hooks, mixed>>

(* Both bodies are staged and the old JSON is linked; the JSON is replaced.*)
ReplaceJson ==
  /\ pc = "json"
  /\ \/ /\ Works
        /\ previous' = json[Window]
        /\ json' = [json EXCEPT ![Window] = staged]
        /\ pc' = "table" /\ UNCHANGED <<left, staged>>
     \/ Fails /\ Failed(json[Window]) /\ UNCHANGED json
  /\ UNCHANGED <<sources, table, last, hooks, mixed>>

(* Mutant: the JSON is not rolled back.                                    *)
ReplaceTable_KeepsJson ==
  /\ pc = "table"
  /\ \/ Works /\ table' = [table EXCEPT ![Window] = staged] /\ Skip /\ mixed' = mixed \ {Window}
     \/ Fails /\ Failed(json[Window]) /\ UNCHANGED <<table, mixed>>
  /\ UNCHANGED <<sources, json, last, hooks>>

(* The table is replaced; if it cannot be, the JSON has to go back.        *)
ReplaceTable ==
  /\ pc = "table"
  /\ \/ Works /\ table' = [table EXCEPT ![Window] = staged] /\ Skip /\ mixed' = mixed \ {Window}
     \/ Fails /\ pc' = "rollback" /\ UNCHANGED <<table, left, staged, previous, mixed>>
  /\ UNCHANGED <<sources, json, last, hooks>>

(* The link replaces the JSON, or the JSON that is the first is removed.   *)
Rollback ==
  /\ pc = "rollback"
  /\ \/ Works /\ json' = [json EXCEPT ![Window] = previous] /\ Failed(previous) /\ UNCHANGED mixed
     \/ Fails /\ Failed(json[Window]) /\ mixed' = mixed \cup {Window} /\ UNCHANGED json
  /\ UNCHANGED <<sources, table, last, hooks>>

Expired == {h \in Hours : h < last - Retention}

(* _prune removes the files of expired hours, one after the other.         *)
Prune ==
  /\ pc = "prune"
  /\ \/ /\ \E h \in Expired :
             \/ json[h] # Absent /\ json' = [json EXCEPT ![h] = Absent] /\ UNCHANGED table
             \/ table[h] # Absent /\ table' = [table EXCEPT ![h] = Absent] /\ UNCHANGED json
        /\ UNCHANGED run
     \/ /\ \A h \in Expired : json[h] = Absent /\ table[h] = Absent
        /\ Exit /\ UNCHANGED files
  /\ UNCHANGED <<sources, faults, mixed>>

(* The run is killed, or ends by an error no step catches: a file that     *)
(* cannot be removed, for one.                                             *)
Kill ==
  /\ pc # "idle" /\ Fails /\ Exit
  /\ mixed' = IF pc \in {"table", "rollback"} THEN mixed \cup {Window} ELSE mixed
  /\ UNCHANGED <<sources, files>>

Run ==
  \/ StartRun \/ JoinCurrent \/ Compute \/ ReplaceJson \/ ReplaceTable
  \/ Rollback \/ Prune

Next == Bots \/ Run \/ Kill
Spec == Init /\ [][Next]_vars
(* A scheduler keeps starting the writer and a started run keeps going.    *)
FairSpec == Spec /\ WF_vars(Run)

-----------------------------------------------------------------------------
Publishing == IF pc \in {"table", "rollback"} THEN {Window} ELSE {}
Pruned == {h \in Hours : h < hour - 1 - Retention}

(* The JSON and the table of an hour come from the same computation,       *)
(* whichever steps fail: except while the pair is replaced or removed, and *)
(* where a kill or a failed rollback has come between.                     *)
PairsAgree ==
  \A h \in Hours \ (Publishing \cup Pruned \cup mixed) : json[h] = table[h]

(* The JSON of an hour, without what is being published.                   *)
Kept == [h \in Hours |-> IF h \in Publishing THEN previous ELSE json[h]]

(* A snapshot that was published is only ever replaced by a later one that *)
(* shows no fewer receipts: a failed step, a rollback or a kill never puts *)
(* an error or nothing in its place, before the hour expires.              *)
SnapshotsOnlyImprove ==
  [][\A h \in Hours \ Pruned :
       Kept[h] # Absent /\ ~Kept[h].error =>
         /\ Kept'[h] # Absent /\ ~Kept'[h].error
         /\ Kept[h].receipts <= Kept'[h].receipts /\ Kept[h].at <= Kept'[h].at]_vars

(* Late receipts land: once time stands still, the sources are quiet and   *)
(* runs succeed, both files of each hour that is still recomputed come to  *)
(* show what the sources hold, whatever failed, was killed or was left     *)
(* half replaced before.                                                   *)
LateReceiptsLand ==
  <>[](\A h \in Complete \ Publishing : h >= hour - 1 - RecomputeHours =>
         /\ json[h] # Absent /\ table[h] # Absent
         /\ \A file \in {json[h], table[h]} :
              /\ ~file.error /\ file.receipts = receipts[h]
              /\ file.hooks = (h \in current \cup rotated))
=============================================================================
