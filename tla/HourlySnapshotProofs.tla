------------------------- MODULE HourlySnapshotProofs -------------------------
(***************************************************************************)
(* What holds of HourlySnapshot for any number of hours, of recomputed and *)
(* kept hours, of receipts, rotations and faults.                          *)
(***************************************************************************)
EXTENDS HourlySnapshot, Aggregates, TLAPS

(* A run that has started has a window to work on.                         *)
Working == pc \in {"join", "compute", "json", "table", "rollback"} => left # {}

(* What is being published is a snapshot, and in the JSON once it moved.   *)
Staging ==
  /\ pc \in {"json", "table", "rollback"} => staged \in Snapshot
  /\ pc \in {"table", "rollback"} => json[Window] = staged

(* The last complete hour of a run was complete when it started.           *)
Dated == hour >= 1 /\ last < hour

(* The link of the old JSON still matches the table, so rolling back mends *)
(* the pair.                                                               *)
Linked ==
  pc \in {"table", "rollback"} =>
    previous = table[Window] \/ Window \in mixed \/ Window \in Pruned

IInv == TypeOK /\ Working /\ Staging /\ Dated /\ Linked /\ PairsAgree

(* An hour that has expired stays expired.                                 *)
LEMMA Earlier ==
  \A now, then, kept, h \in Nat : now <= then /\ h < now - 1 - kept => h < then - 1 - kept
OBVIOUS

LEMMA PrunedStays ==
  ASSUME hour \in Nat, hour' \in Nat, hour <= hour'
  PROVE  Pruned \subseteq Pruned'
<1>1. Retention \in Nat /\ \A h \in Hours : h \in Nat
  BY HourlyAssumption DEF Hours
<1>2. \A h \in Hours : h < hour - 1 - Retention => h < hour' - 1 - Retention
  BY <1>1, Earlier, Zenon
<1> QED BY <1>2, Zenon DEF Pruned

(* max() over the windows that are left is one of them.                    *)
LEMMA WindowIsLeft ==
  ASSUME TypeOK, left # {}
  PROVE  Window \in left /\ Window \in Hours /\ Window < hour
<1>1. MaxHour \in Nat /\ left \in SUBSET (0 .. MaxHour)
  BY HourlyAssumption DEF TypeOK, Complete, Hours
<1>2. PICK m \in left : \A n \in left : n <= m
  BY <1>1, GreatestBelow
<1>3. \A n \in left : m >= n
  BY <1>1, <1>2
<1>4. Window \in left
  BY <1>3 DEF Window, Max
<1> QED BY <1>4 DEF TypeOK, Complete

LEMMA Initial == Init => IInv
<1> SUFFICES ASSUME Init PROVE IInv
  OBVIOUS
<1>1. hour \in Hours /\ 0 \in Hours /\ hour >= 1
  BY HourlyAssumption DEF Init, Hours
<1>2. Dated
  BY <1>1 DEF Init, Dated, Hours
<1>3. TypeOK
  BY <1>1, HourlyAssumption DEF Init, TypeOK, NoFiles, Files, Complete
<1>4. Working /\ Staging /\ Linked /\ PairsAgree
  BY DEF Init, Working, Staging, Linked, PairsAgree, NoFiles
<1> QED BY <1>2, <1>3, <1>4 DEF IInv

(* The three ways a step of the writer ends, as far as types go.           *)
LEMMA SkipTypes ==
  ASSUME TypeOK, Skip
  PROVE  /\ pc' \in {"prune", "compute"} /\ left' \subseteq Complete
         /\ staged' = Absent /\ previous' = Absent
         /\ pc' = "compute" => left' # {}
BY DEF TypeOK, Skip

LEMMA FailedTypes ==
  ASSUME TypeOK, left # {}, NEW there, Failed(there)
  PROVE  /\ pc' \in {"prune", "compute", "json"} /\ left' \subseteq Complete
         /\ staged' \in Snapshot \cup {Absent} /\ previous' = Absent
         /\ pc' \in {"compute", "json"} => left' # {}
         /\ pc' = "json" => staged' \in Snapshot
<1>1. ErrorFile \in Snapshot
  BY HourlyAssumption DEF TypeOK, ErrorFile, Snapshot
<1>2. CASE Publish(ErrorFile)
  BY <1>1, <1>2 DEF Publish, TypeOK
<1>3. CASE Skip
  BY <1>3, SkipTypes
<1> QED BY <1>2, <1>3 DEF Failed

LEMMA TypeStep == IInv /\ [Next]_vars => TypeOK'
<1> SUFFICES ASSUME IInv, [Next]_vars PROVE TypeOK'
  OBVIOUS
<1> USE DEF Works, Fails, sources, files, run
<1>0. TypeOK /\ Dated /\ Working /\ Staging
  BY DEF IInv
<1>h. hour \in Nat /\ hour >= 1 /\ 0 \in Hours /\ hour - 1 \in Hours
  BY <1>0, HourlyAssumption DEF TypeOK, Hours, Dated
<1>w. left # {} => Window \in left /\ Window \in Hours /\ Window \in Complete
  BY <1>0, WindowIsLeft DEF Complete
<1>1. CASE Bots
  <2>1. hour' \in Hours /\ hour <= hour'
    BY <1>0, <1>1, <1>h, HourlyAssumption DEF Bots, Tick, CompleteReceipt, Rotate, TypeOK, Hours
  <2>2. Complete \subseteq Complete'
    BY <2>1, <1>h DEF Complete, Hours
  <2>3. receipts' \in [Hours -> 0 .. MaxReceipts] /\ rotations' \in 0 .. MaxRotations
    BY <1>0, <1>1, HourlyAssumption DEF Bots, Tick, CompleteReceipt, Rotate, TypeOK
  <2>4. current' \subseteq Hours /\ rotated' \subseteq Hours
    BY <1>0, <1>1 DEF Bots, Tick, CompleteReceipt, Rotate, TypeOK
  <2> QED BY <1>0, <1>1, <2>1, <2>2, <2>3, <2>4 DEF Bots, TypeOK, Files
<1>2. CASE StartRun
  <2>1. Windows \subseteq Complete
    BY <1>h, HourlyAssumption DEF Windows, Complete, Hours
  <2> QED BY <1>0, <1>2, <1>h, <2>1 DEF StartRun, TypeOK, Complete, Files
<1>3. CASE JoinCurrent
  <2>1. CASE Works /\ hooks' = hooks \cup current /\ pc' = "compute" /\ UNCHANGED <<left, last, staged, previous>>
    BY <1>0, <1>3, <2>1 DEF JoinCurrent, TypeOK, Complete
  <2>2. CASE Fails /\ Exit
    <3>1. faults' \in 0 .. MaxFaults
      BY <1>0, <2>2, HourlyAssumption DEF TypeOK
    <3> QED BY <1>0, <1>3, <1>h, <2>2, <3>1 DEF JoinCurrent, Exit, TypeOK, Complete
  <2> QED BY <1>3, <2>1, <2>2 DEF JoinCurrent
<1>4. CASE Compute
  <2>1. left # {}
    BY <1>0, <1>4 DEF Compute, Working
  <2>2. CASE Works /\ Publish([error |-> FALSE, receipts |-> receipts[Window], hooks |-> Window \in hooks, at |-> hour])
    <3>1. [error |-> FALSE, receipts |-> receipts[Window], hooks |-> Window \in hooks, at |-> hour] \in Snapshot
      BY <1>0, <1>w, <2>1 DEF TypeOK, Snapshot
    <3> QED BY <1>0, <1>4, <2>2, <3>1 DEF Compute, Publish, TypeOK, Complete, Files
  <2>3. CASE Fails /\ Failed(json[Window])
    BY <1>0, <1>4, <2>1, <2>3, FailedTypes, HourlyAssumption DEF Compute, TypeOK, Complete, Files
  <2> QED BY <1>4, <2>2, <2>3 DEF Compute
<1>5. CASE ReplaceJson
  <2>1. left # {} /\ staged \in Snapshot
    BY <1>0, <1>5 DEF ReplaceJson, Working, Staging
  <2>2. CASE Works /\ previous' = json[Window] /\ json' = [json EXCEPT ![Window] = staged] /\ pc' = "table" /\ UNCHANGED <<left, staged>>
    <3>1. json' \in Files /\ json[Window] \in Snapshot \cup {Absent}
      BY <1>0, <1>w, <2>1, <2>2 DEF TypeOK, Files
    <3> QED BY <1>0, <1>5, <2>2, <3>1 DEF ReplaceJson, TypeOK, Complete
  <2>3. CASE Fails /\ Failed(json[Window]) /\ UNCHANGED json
    BY <1>0, <1>5, <2>1, <2>3, FailedTypes, HourlyAssumption DEF ReplaceJson, TypeOK, Complete, Files
  <2> QED BY <1>5, <2>2, <2>3 DEF ReplaceJson
<1>6. CASE ReplaceTable
  <2>1. left # {} /\ staged \in Snapshot
    BY <1>0, <1>6 DEF ReplaceTable, Working, Staging
  <2>2. CASE Works /\ table' = [table EXCEPT ![Window] = staged] /\ Skip /\ mixed' = mixed \ {Window}
    <3>1. table' \in Files
      BY <1>0, <1>w, <2>1, <2>2 DEF TypeOK, Files
    <3> QED BY <1>0, <1>6, <2>2, <3>1, SkipTypes DEF ReplaceTable, TypeOK, Complete
  <2>3. CASE Fails /\ pc' = "rollback" /\ UNCHANGED <<table, left, staged, previous, mixed>>
    BY <1>0, <1>6, <2>3, HourlyAssumption DEF ReplaceTable, TypeOK, Complete
  <2> QED BY <1>6, <2>2, <2>3 DEF ReplaceTable
<1>7. CASE Rollback
  <2>1. left # {}
    BY <1>0, <1>7 DEF Rollback, Working
  <2>2. CASE Works /\ json' = [json EXCEPT ![Window] = previous] /\ Failed(previous) /\ UNCHANGED mixed
    <3>1. json' \in Files
      BY <1>0, <1>w, <2>1, <2>2 DEF TypeOK, Files
    <3> QED BY <1>0, <1>7, <2>1, <2>2, <3>1, FailedTypes DEF Rollback, TypeOK, Complete
  <2>3. CASE Fails /\ Failed(json[Window]) /\ mixed' = mixed \cup {Window} /\ UNCHANGED json
    BY <1>0, <1>7, <1>w, <2>1, <2>3, FailedTypes, HourlyAssumption DEF Rollback, TypeOK, Complete
  <2> QED BY <1>7, <2>2, <2>3 DEF Rollback
<1>8. CASE Prune
  <2>1. json' \in Files /\ table' \in Files
    BY <1>0, <1>8 DEF Prune, TypeOK, Files
  <2> QED BY <1>0, <1>8, <1>h, <2>1 DEF Prune, Exit, TypeOK, Complete
<1>9. CASE Kill
  <2>1. mixed' \subseteq Complete
    BY <1>0, <1>9, <1>w DEF Kill, Working, TypeOK
  <2> QED BY <1>0, <1>9, <1>h, <2>1, HourlyAssumption DEF Kill, Exit, TypeOK, Complete
<1>10. CASE UNCHANGED vars
  BY <1>0, <1>10 DEF vars, TypeOK, Complete
<1> QED BY <1>1, <1>2, <1>3, <1>4, <1>5, <1>6, <1>7, <1>8, <1>9, <1>10 DEF Next, Run

(* Skipping the last window ends the loop, and time only moves forward.    *)
LEMMA WorkStep == IInv /\ [Next]_vars => Working' /\ Dated'
<1> SUFFICES ASSUME IInv, [Next]_vars PROVE Working' /\ Dated'
  OBVIOUS
<1> USE DEF Works, Fails, sources, files, run
<1>0. TypeOK /\ Dated /\ Working
  BY DEF IInv
<1>h. hour \in Nat /\ hour >= 1 /\ last \in Nat
  BY <1>0, HourlyAssumption DEF TypeOK, Hours, Dated
<1>x. Exit /\ UNCHANGED hour => Working' /\ Dated'
  BY <1>h DEF Exit, Working, Dated
<1>s. Skip /\ UNCHANGED <<hour, last>> => Working' /\ Dated'
  BY <1>0 DEF Skip, Working, Dated
<1>f. ASSUME NEW there, left # {}, Failed(there), UNCHANGED <<hour, last>>
      PROVE  Working' /\ Dated'
  BY <1>0, <1>f, <1>s DEF Failed, Publish, Working, Dated
<1>1. CASE Bots
  <2>1. hour <= hour' /\ hour' \in Nat
    BY <1>1, <1>h DEF Bots, Tick, CompleteReceipt, Rotate
  <2>2. UNCHANGED <<pc, left, last>>
    BY <1>1 DEF Bots
  <2>3. Working'
    BY <1>0, <2>2 DEF Working
  <2>4. Dated'
    BY <1>0, <1>h, <2>1, <2>2 DEF Dated
  <2> QED BY <2>3, <2>4
<1>2. CASE StartRun
  <2>1. hour - 1 \in Windows
    BY <1>0, <1>h, HourlyAssumption DEF Windows, TypeOK, Hours
  <2>2. left' # {} /\ hour' = hour /\ last' = hour - 1
    BY <1>2, <2>1 DEF StartRun
  <2>3. Working' /\ Dated'
    BY <1>h, <2>2 DEF Working, Dated
  <2> QED BY <2>3
<1>3. CASE JoinCurrent
  BY <1>0, <1>3, <1>x DEF JoinCurrent, Working, Dated
<1>4. CASE Compute
  BY <1>0, <1>4, <1>f DEF Compute, Publish, Working, Dated
<1>5. CASE ReplaceJson
  BY <1>0, <1>5, <1>f DEF ReplaceJson, Working, Dated
<1>6. CASE ReplaceTable
  BY <1>0, <1>6, <1>s DEF ReplaceTable, Working, Dated
<1>7. CASE Rollback
  BY <1>0, <1>7, <1>f DEF Rollback, Working
<1>8. CASE Prune
  BY <1>0, <1>8, <1>x DEF Prune, Working, Dated
<1>9. CASE Kill
  BY <1>9, <1>x DEF Kill
<1>10. CASE UNCHANGED vars
  BY <1>0, <1>10 DEF vars, Working, Dated
<1> QED BY <1>1, <1>2, <1>3, <1>4, <1>5, <1>6, <1>7, <1>8, <1>9, <1>10 DEF Next, Run

(* A failed step leaves no pair half replaced: what follows is a window of *)
(* its own, with nothing in the JSON yet.                                  *)
LEMMA FailedParts ==
  ASSUME TypeOK, left # {}, NEW there, Failed(there)
  PROVE  pc' \notin {"table", "rollback"} /\ Staging' /\ Linked'
<1>1. pc' \in {"prune", "compute", "json"}
  BY FailedTypes
<1>2. pc' = "json" => staged' \in Snapshot
  BY FailedTypes
<1>3. pc' \notin {"table", "rollback"}
  BY <1>1
<1> QED BY <1>2, <1>3 DEF Staging, Linked

(* Staging and Linked: the link taken when the JSON moves is the JSON the  *)
(* table was published with.                                               *)
LEMMA LinkStep == IInv /\ [Next]_vars => Staging' /\ Linked'
<1> SUFFICES ASSUME IInv, [Next]_vars PROVE Staging' /\ Linked'
  OBVIOUS
<1> USE DEF Works, Fails, sources, files, run
<1>0. TypeOK /\ Dated /\ Working /\ Staging /\ Linked /\ PairsAgree
  BY DEF IInv
<1>h. hour \in Nat /\ hour >= 1 /\ Retention \in Nat
  BY <1>0, HourlyAssumption DEF TypeOK, Hours, Dated
<1>w. left # {} => Window \in left /\ Window \in Hours
  BY <1>0, WindowIsLeft
<1>q. pc' \in {"idle", "join", "compute", "prune"} => Staging' /\ Linked'
  BY DEF Staging, Linked
<1>1. CASE Bots
  <2>1. hour <= hour' /\ hour' \in Nat
    BY <1>1, <1>h DEF Bots, Tick, CompleteReceipt, Rotate
  <2>2. UNCHANGED <<json, table, pc, left, staged, previous, mixed>>
    BY <1>1 DEF Bots
  <2>3. Window' = Window
    BY <2>2 DEF Window
  <2>4. Pruned \subseteq Pruned'
    BY <2>1, <1>h, PrunedStays
  <2> QED BY <1>0, <2>2, <2>3, <2>4 DEF Staging, Linked
<1>2. CASE StartRun
  BY <1>2, <1>q DEF StartRun
<1>3. CASE JoinCurrent
  BY <1>3, <1>q DEF JoinCurrent, Exit
<1>4. CASE Compute
  <2>1. left # {}
    BY <1>0, <1>4 DEF Compute, Working
  <2>2. [error |-> FALSE, receipts |-> receipts[Window], hooks |-> Window \in hooks, at |-> hour] \in Snapshot
    BY <1>0, <1>w, <2>1 DEF TypeOK, Snapshot
  <2> QED BY <1>0, <1>4, <2>1, <2>2, FailedParts DEF Compute, Publish, Staging, Linked
<1>5. CASE ReplaceJson
  <2>1. left # {} /\ staged \in Snapshot
    BY <1>0, <1>5 DEF ReplaceJson, Working, Staging
  <2>2. CASE Works /\ previous' = json[Window] /\ json' = [json EXCEPT ![Window] = staged] /\ pc' = "table" /\ UNCHANGED <<left, staged>>
    <3>1. Window' = Window /\ Window \in Hours
      BY <1>w, <2>1, <2>2 DEF Window
    <3>2. UNCHANGED <<table, mixed, hour>>
      BY <1>5 DEF ReplaceJson
    <3>3. Staging'
      BY <1>0, <2>1, <2>2, <3>1 DEF Staging, TypeOK, Files
    <3>4. json[Window] = table[Window] \/ Window \in mixed \/ Window \in Pruned
      BY <1>0, <1>5, <3>1 DEF ReplaceJson, PairsAgree, Publishing
    <3>5. Pruned' = Pruned
      BY <3>2 DEF Pruned
    <3> QED BY <2>2, <3>1, <3>2, <3>3, <3>4, <3>5 DEF Linked
  <2> QED BY <1>0, <1>5, <2>1, <2>2, FailedParts DEF ReplaceJson
<1>6. CASE ReplaceTable
  <2>1. CASE Skip
    BY <2>1, <1>q DEF Skip
  <2>2. CASE pc' = "rollback" /\ UNCHANGED <<table, left, staged, previous, mixed>>
    <3>1. UNCHANGED <<json, hour>>
      BY <1>6 DEF ReplaceTable
    <3>2. Window' = Window /\ Pruned' = Pruned
      BY <2>2, <3>1 DEF Window, Pruned
    <3> QED BY <1>0, <1>6, <2>2, <3>1, <3>2 DEF ReplaceTable, Staging, Linked
  <2> QED BY <1>6, <2>1, <2>2 DEF ReplaceTable
<1>7. CASE Rollback
  <2>1. left # {}
    BY <1>0, <1>7 DEF Rollback, Working
  <2> QED BY <1>0, <1>7, <2>1, FailedParts DEF Rollback
<1>8. CASE Prune
  BY <1>8, <1>q DEF Prune, Exit
<1>9. CASE Kill
  BY <1>9, <1>q DEF Kill, Exit
<1>10. CASE UNCHANGED vars
  <2>1. Window' = Window /\ Pruned' = Pruned
    BY <1>10 DEF vars, Window, Pruned
  <2> QED BY <1>0, <1>10, <2>1 DEF vars, Staging, Linked
<1> QED BY <1>1, <1>2, <1>3, <1>4, <1>5, <1>6, <1>7, <1>8, <1>9, <1>10 DEF Next, Run

(* Where neither file of an hour changes, nothing comes between them; a    *)
(* failed step publishes nothing yet.                                      *)
LEMMA PairsStay ==
  ASSUME PairsAgree, UNCHANGED <<json, table, hour>>, mixed \subseteq mixed',
         Publishing \subseteq Publishing' \cup mixed'
  PROVE  PairsAgree'
<1>1. Pruned' = Pruned
  BY DEF Pruned
<1> QED BY <1>1 DEF PairsAgree

LEMMA PairStep == IInv /\ [Next]_vars => PairsAgree'
<1> SUFFICES ASSUME IInv, [Next]_vars PROVE PairsAgree'
  OBVIOUS
<1> USE DEF Works, Fails, sources, files, run
<1>0. TypeOK /\ Dated /\ Working /\ Staging /\ Linked /\ PairsAgree
  BY DEF IInv
<1>h. hour \in Nat /\ hour >= 1 /\ Retention \in Nat
  BY <1>0, HourlyAssumption DEF TypeOK, Hours, Dated
<1>w. left # {} => Window \in left /\ Window \in Hours
  BY <1>0, WindowIsLeft
<1>q. pc \notin {"table", "rollback"} => Publishing = {}
  BY DEF Publishing
<1>1. CASE Bots
  <2>1. hour <= hour' /\ hour' \in Nat
    BY <1>1, <1>h DEF Bots, Tick, CompleteReceipt, Rotate
  <2>2. UNCHANGED <<json, table, pc, left, mixed>>
    BY <1>1 DEF Bots
  <2>3. Publishing' = Publishing
    BY <2>2 DEF Publishing, Window
  <2>4. Pruned \subseteq Pruned'
    BY <2>1, <1>h, PrunedStays
  <2> QED BY <1>0, <2>2, <2>3, <2>4 DEF PairsAgree
<1>2. CASE StartRun
  BY <1>0, <1>2, <1>q, PairsStay DEF StartRun
<1>3. CASE JoinCurrent
  BY <1>0, <1>3, <1>q, PairsStay DEF JoinCurrent
<1>4. CASE Compute
  BY <1>0, <1>4, <1>q, PairsStay DEF Compute
<1>5. CASE ReplaceJson
  <2>1. CASE json' = [json EXCEPT ![Window] = staged] /\ pc' = "table" /\ UNCHANGED left
    <3>1. UNCHANGED <<table, mixed, hour>> /\ Publishing = {}
      BY <1>5, <1>q DEF ReplaceJson
    <3>2. Publishing' = {Window}
      BY <2>1 DEF Publishing, Window
    <3>3. \A h \in Hours : h # Window => json'[h] = json[h]
      BY <1>0, <2>1 DEF TypeOK, Files
    <3>4. Pruned' = Pruned
      BY <3>1 DEF Pruned
    <3> QED BY <1>0, <3>1, <3>2, <3>3, <3>4 DEF PairsAgree
  <2>2. CASE UNCHANGED json
    BY <1>0, <1>5, <1>q, <2>2, PairsStay DEF ReplaceJson
  <2> QED BY <1>5, <2>1, <2>2 DEF ReplaceJson
<1>6. CASE ReplaceTable
  <2>1. left # {} /\ Window \in Hours /\ Publishing = {Window} /\ json[Window] = staged
    BY <1>0, <1>6, <1>w DEF ReplaceTable, Working, Staging, Publishing
  <2>2. UNCHANGED <<json, hour>>
    BY <1>6 DEF ReplaceTable
  <2>3. Pruned' = Pruned
    BY <2>2 DEF Pruned
  <2>4. CASE table' = [table EXCEPT ![Window] = staged] /\ mixed' = mixed \ {Window}
    <3>1. table'[Window] = staged /\ \A h \in Hours : h # Window => table'[h] = table[h]
      BY <1>0, <2>1, <2>4 DEF TypeOK, Files
    <3> QED BY <1>0, <2>1, <2>2, <2>3, <2>4, <3>1 DEF PairsAgree
  <2>5. CASE pc' = "rollback" /\ UNCHANGED <<table, left, mixed>>
    <3>1. Publishing' = {Window}
      BY <2>5 DEF Publishing, Window
    <3> QED BY <1>0, <2>1, <2>2, <2>5, <3>1, PairsStay
  <2> QED BY <1>6, <2>4, <2>5 DEF ReplaceTable
<1>7. CASE Rollback
  <2>1. left # {} /\ Window \in Hours /\ Publishing = {Window}
    BY <1>0, <1>7, <1>w DEF Rollback, Working, Publishing
  <2>2. previous = table[Window] \/ Window \in mixed \/ Window \in Pruned
    BY <1>0, <1>7 DEF Rollback, Linked
  <2>3. UNCHANGED <<table, hour>>
    BY <1>7 DEF Rollback
  <2>4. Pruned' = Pruned
    BY <2>3 DEF Pruned
  <2>5. CASE json' = [json EXCEPT ![Window] = previous] /\ UNCHANGED mixed
    <3>1. json'[Window] = previous /\ \A h \in Hours : h # Window => json'[h] = json[h]
      BY <1>0, <2>1, <2>5 DEF TypeOK, Files
    <3> QED BY <1>0, <2>1, <2>2, <2>3, <2>4, <2>5, <3>1 DEF PairsAgree
  <2>6. CASE mixed' = mixed \cup {Window} /\ UNCHANGED json
    BY <1>0, <2>1, <2>3, <2>6, PairsStay
  <2> QED BY <1>7, <2>5, <2>6 DEF Rollback
<1>8. CASE Prune
  <2>1. UNCHANGED <<hour, mixed>> /\ Publishing = {}
    BY <1>8, <1>q DEF Prune
  <2>2. Pruned' = Pruned
    BY <2>1 DEF Pruned
  <2>3. \A h \in Expired : h \in Pruned
    BY <1>0, <1>h, HourlyAssumption DEF Expired, Pruned, Dated, TypeOK, Hours
  <2>4. \A h \in Hours : h \notin Expired => json'[h] = json[h] /\ table'[h] = table[h]
    BY <1>0, <1>8 DEF Prune, TypeOK, Files
  <2> QED BY <1>0, <2>1, <2>2, <2>3, <2>4 DEF PairsAgree
<1>9. CASE Kill
  <2>1. Publishing \subseteq mixed' /\ mixed \subseteq mixed'
    BY <1>9 DEF Kill, Publishing
  <2> QED BY <1>0, <1>9, <2>1, PairsStay DEF Kill
<1>10. CASE UNCHANGED vars
  BY <1>0, <1>10, PairsStay DEF vars, Publishing, Window
<1> QED BY <1>1, <1>2, <1>3, <1>4, <1>5, <1>6, <1>7, <1>8, <1>9, <1>10 DEF Next, Run

THEOREM Invariance == Spec => []IInv
<1>1. IInv /\ [Next]_vars => IInv'
  BY TypeStep, WorkStep, LinkStep, PairStep DEF IInv
<1> QED BY Initial, <1>1, PTL DEF Spec

(* Every variable keeps to its type, whatever fails, is killed or changes  *)
(* in between.                                                             *)
THEOREM TypeCorrect == Spec => []TypeOK
BY Invariance, PTL DEF IInv

(* The files of an hour come from one computation, except where a kill or  *)
(* a failed rollback parted them.                                          *)
THEOREM PairsCorrect == Spec => []PairsAgree
BY Invariance, PTL DEF IInv

-----------------------------------------------------------------------------
(* A snapshot that shows the receipts of an hour, and is no error.         *)
Good(file) == file # Absent /\ ~file.error
Improves(old, new) ==
  Good(old) => Good(new) /\ old.receipts <= new.receipts /\ old.at <= new.at
(* What a snapshot shows has been in the databases by now.                 *)
Old(file, h) == Good(file) => file.receipts <= receipts[h] /\ file.at <= hour

(* Nothing published or staged is ahead of the databases, and what is      *)
(* staged improves on what it would replace.                               *)
Fresh ==
  /\ \A h \in Hours : Old(Kept[h], h)
  /\ pc \in {"json", "table", "rollback"} =>
       Old(staged, Window) /\ Improves(Kept[Window], staged)

ImprovingStep == \A h \in Hours \ Pruned : Improves(Kept[h], Kept'[h])

LEMMA ImprovesReflexive ==
  ASSUME NEW file \in Snapshot \cup {Absent} PROVE Improves(file, file)
<1>1. Good(file) => file.receipts \in Nat /\ file.at \in Nat
  BY HourlyAssumption DEF Good, Snapshot, Hours
<1> QED BY <1>1 DEF Improves

(* What is kept of an hour is always a file, or nothing.                   *)
LEMMA KeptType ==
  ASSUME TypeOK, NEW h \in Hours
  PROVE  Kept[h] \in Snapshot \cup {Absent}
BY DEF Kept, TypeOK, Files

(* A failed step stages an error, and only where there is nothing to lose. *)
LEMMA FailedFresh ==
  ASSUME TypeOK, left # {}, NEW there, Failed(there), UNCHANGED <<receipts, hour>>,
         there = Kept'[Window], \A h \in Hours : Old(Kept'[h], h)
  PROVE  Fresh'
<1>1. \A h \in Hours : Old(Kept[h], h)'
  BY DEF Old, Good
<1>2. CASE there = Absent /\ Publish(ErrorFile)
  <2>1. Window' = Window /\ Kept'[Window] = Absent /\ staged' = ErrorFile
    BY <1>2 DEF Publish, Window
  <2>2. ~Good(staged') /\ ~Good(Kept'[Window'])
    BY <2>1 DEF ErrorFile, Good
  <2> QED BY <1>1, <2>2 DEF Fresh, Old, Improves, Good
<1>3. CASE Skip
  BY <1>1, <1>3 DEF Skip, Fresh
<1> QED BY <1>2, <1>3 DEF Failed

(* Where the JSON files stay and nothing is half replaced afterwards, the  *)
(* staged snapshot is all that can have come in.                           *)
LEMMA Settles ==
  ASSUME IInv, Fresh, json' = json, pc' \notin {"table", "rollback"}
  PROVE  \A h \in Hours : Improves(Kept[h], Kept'[h]) /\ Old(Kept'[h], h)
<1> SUFFICES ASSUME NEW h \in Hours
             PROVE  Improves(Kept[h], Kept'[h]) /\ Old(Kept'[h], h)
  OBVIOUS
<1>1. Publishing' = {} /\ Kept'[h] = json[h]
  BY DEF Publishing, Kept
<1>2. CASE h \in Publishing
  <2>1. pc \in {"table", "rollback"} /\ h = Window
    BY <1>2 DEF Publishing
  <2>2. Kept'[h] = staged
    BY <1>1, <2>1 DEF IInv, Staging
  <2> QED BY <2>1, <2>2 DEF Fresh
<1>3. CASE h \notin Publishing
  <2>1. Kept'[h] = Kept[h] /\ Kept[h] \in Snapshot \cup {Absent}
    BY <1>1, <1>3, KeptType DEF IInv, Kept
  <2> QED BY <2>1, ImprovesReflexive DEF Fresh
<1> QED BY <1>2, <1>3

(* Where what is kept stays, all of it improves on itself.                 *)
LEMMA Stays ==
  ASSUME IInv, Fresh, \A h \in Hours : Kept'[h] = Kept[h]
  PROVE  \A h \in Hours : Improves(Kept[h], Kept'[h]) /\ Old(Kept'[h], h)
<1> SUFFICES ASSUME NEW h \in Hours
             PROVE  Improves(Kept[h], Kept'[h]) /\ Old(Kept'[h], h)
  OBVIOUS
<1>1. Kept'[h] = Kept[h] /\ Kept[h] \in Snapshot \cup {Absent}
  BY KeptType DEF IInv
<1> QED BY <1>1, ImprovesReflexive DEF Fresh

LEMMA FreshStep == IInv /\ Fresh /\ [Next]_vars => Fresh' /\ ImprovingStep
<1> SUFFICES ASSUME IInv, Fresh, [Next]_vars PROVE Fresh' /\ ImprovingStep
  OBVIOUS
<1> USE DEF Works, Fails, sources, files, run
<1>0. TypeOK /\ Dated /\ Working /\ Staging
  BY DEF IInv
<1>w. left # {} => Window \in left /\ Window \in Hours
  BY <1>0, WindowIsLeft
<1>i. (\A h \in Hours : Improves(Kept[h], Kept'[h])) => ImprovingStep
  BY DEF ImprovingStep
(* Between two windows nothing is staged.                                  *)
<1>q. ASSUME json' = json, UNCHANGED <<receipts, hour>>, pc' \notin {"json", "table", "rollback"}
      PROVE  Fresh' /\ ImprovingStep
  <2>1. \A h \in Hours : Improves(Kept[h], Kept'[h]) /\ Old(Kept'[h], h)
    BY <1>q, Settles
  <2> QED BY <1>q, <1>i, <2>1 DEF Fresh, Old
<1>f. ASSUME json' = json, UNCHANGED <<receipts, hour>>, left # {}, Failed(json[Window])
      PROVE  Fresh' /\ ImprovingStep
  <2>1. pc' \notin {"table", "rollback"}
    BY <1>0, <1>f, FailedTypes
  <2>2. \A h \in Hours : Improves(Kept[h], Kept'[h]) /\ Old(Kept'[h], h)
    BY <1>f, <2>1, Settles
  <2>3. json[Window] = Kept'[Window]
    BY <1>f, <1>w, <2>1 DEF Kept, Publishing
  <2> QED BY <1>0, <1>f, <1>i, <2>2, <2>3, FailedFresh
<1>1. CASE Bots
  <2>1. UNCHANGED <<json, pc, left, staged, previous>>
    BY <1>1 DEF Bots
  <2>2. Window' = Window /\ Kept' = Kept
    BY <2>1 DEF Window, Kept, Publishing
  <2>3. hour \in Nat /\ hour' \in Nat /\ hour <= hour'
    BY <1>0, <1>1, HourlyAssumption DEF Bots, Tick, CompleteReceipt, Rotate, TypeOK, Hours
  <2>4. \A h \in Hours : receipts[h] \in Nat /\ receipts'[h] \in Nat /\ receipts[h] <= receipts'[h]
    BY <1>0, <1>1, HourlyAssumption DEF Bots, Tick, CompleteReceipt, Rotate, TypeOK
  <2>5. ASSUME NEW h \in Hours, NEW file \in Snapshot \cup {Absent}, Old(file, h)
        PROVE  Good(file) => file.receipts <= receipts'[h] /\ file.at <= hour'
    <3>1. Good(file) => file.receipts \in Nat /\ file.at \in Nat
      BY <2>5, HourlyAssumption DEF Good, Snapshot, Hours
    <3>2. Good(file) => file.receipts <= receipts[h] /\ file.at <= hour
      BY <2>5 DEF Old
    <3> QED BY <2>3, <2>4, <3>1, <3>2
  <2>6. \A h \in Hours : Kept[h] \in Snapshot \cup {Absent}
    BY <1>0, KeptType
  <2>7. \A h \in Hours : Old(Kept[h], h)'
    BY <2>2, <2>5, <2>6 DEF Fresh, Old, Good
  <2>8. pc \in {"json", "table", "rollback"} => (Old(staged, Window) /\ Improves(Kept[Window], staged))'
    <3> SUFFICES ASSUME pc \in {"json", "table", "rollback"}
                 PROVE  (Old(staged, Window) /\ Improves(Kept[Window], staged))'
      OBVIOUS
    <3>1. Window \in Hours /\ staged \in Snapshot
      BY <1>0, <1>w DEF Working, Staging
    <3>2. Good(staged) => staged.receipts <= receipts'[Window] /\ staged.at <= hour'
      BY <2>5, <3>1 DEF Fresh
    <3> QED BY <2>1, <2>2, <3>2 DEF Old, Good, Fresh, Improves
  <2> QED BY <1>i, <2>1, <2>2, <2>7, <2>8, Stays DEF Fresh
<1>2. CASE StartRun
  BY <1>2, <1>q DEF StartRun
<1>3. CASE JoinCurrent
  BY <1>3, <1>q DEF JoinCurrent, Exit
<1>4. CASE Compute
  <2> DEFINE new == [error |-> FALSE, receipts |-> receipts[Window], hooks |-> Window \in hooks, at |-> hour]
  <2>1. left # {} /\ UNCHANGED <<json, receipts, hour>> /\ pc = "compute"
    BY <1>0, <1>4 DEF Compute, Working
  <2>2. CASE Publish(new)
    <3>1. \A h \in Hours : Improves(Kept[h], Kept'[h]) /\ Old(Kept'[h], h)
      BY <2>1, <2>2, Settles DEF Publish
    <3>2. Window' = Window /\ Window \in Hours /\ staged' = new
      BY <1>w, <2>1, <2>2 DEF Publish, Window
    <3>3. receipts[Window] \in Nat /\ hour \in Nat
      BY <1>0, <3>2, HourlyAssumption DEF TypeOK, Hours
    <3>4. Old(new, Window) /\ new # Absent /\ ~new.error
      <4>1. new \in Snapshot
        BY <1>0, <3>2 DEF TypeOK, Snapshot
      <4>2. new.receipts <= receipts[Window] /\ new.at <= hour
        BY <3>3
      <4> QED BY <4>1, <4>2, AbsentAssumption DEF Old
    <3>5. Improves(Kept'[Window], new)
      BY <3>1, <3>2, <3>4 DEF Improves, Old, Good
    <3> QED BY <1>i, <2>1, <3>1, <3>2, <3>4, <3>5 DEF Fresh, Old, Good, Improves
  <2> QED BY <1>4, <1>f, <2>1, <2>2 DEF Compute
<1>5. CASE ReplaceJson
  <2>1. left # {} /\ UNCHANGED <<receipts, hour>> /\ pc = "json"
    BY <1>0, <1>5 DEF ReplaceJson, Working
  <2>2. CASE previous' = json[Window] /\ json' = [json EXCEPT ![Window] = staged] /\ pc' = "table" /\ UNCHANGED <<left, staged>>
    <3>1. Window' = Window /\ Window \in Hours /\ Publishing = {} /\ Publishing' = {Window}
      BY <1>w, <2>1, <2>2 DEF Window, Publishing
    <3>2. \A h \in Hours : Kept'[h] = Kept[h]
      BY <1>0, <2>2, <3>1 DEF Kept, TypeOK, Files
    <3> QED BY <1>i, <2>1, <2>2, <3>1, <3>2, Stays DEF Fresh, Old, Good, Improves
  <2> QED BY <1>5, <1>f, <2>1, <2>2 DEF ReplaceJson
<1>6. CASE ReplaceTable
  <2>1. UNCHANGED <<json, receipts, hour>> /\ pc = "table"
    BY <1>6 DEF ReplaceTable
  <2>2. CASE Skip
    BY <1>q, <2>1, <2>2 DEF Skip
  <2>3. CASE pc' = "rollback" /\ UNCHANGED <<left, staged, previous>>
    <3>1. Window' = Window /\ Kept' = Kept
      BY <2>1, <2>3 DEF Window, Kept, Publishing
    <3> QED BY <1>i, <2>1, <2>3, <3>1, Stays DEF Fresh, Old, Good, Improves
  <2> QED BY <1>6, <2>2, <2>3 DEF ReplaceTable
<1>7. CASE Rollback
  <2>1. left # {} /\ UNCHANGED <<receipts, hour>> /\ pc = "rollback"
    BY <1>0, <1>7 DEF Rollback, Working
  <2>2. CASE json' = [json EXCEPT ![Window] = previous] /\ Failed(previous)
    <3>1. pc' \notin {"table", "rollback"} /\ Window \in Hours /\ Publishing = {Window}
      BY <1>0, <1>w, <2>1, <2>2, FailedTypes DEF Publishing
    <3>2. \A h \in Hours : Kept'[h] = Kept[h]
      BY <1>0, <2>2, <3>1 DEF Kept, Publishing, TypeOK, Files
    <3>3. previous = Kept'[Window]
      BY <3>1, <3>2 DEF Kept
    <3> QED BY <1>0, <1>i, <2>1, <2>2, <3>2, <3>3, Stays, FailedFresh
  <2> QED BY <1>7, <1>f, <2>1, <2>2 DEF Rollback
<1>8. CASE Prune
  <2>1. UNCHANGED <<receipts, hour>> /\ pc = "prune" /\ pc' \in {"prune", "idle"}
    BY <1>8 DEF Prune, Exit
  <2>2. \A h \in Hours : Kept[h] = json[h] /\ Kept'[h] = json'[h]
    BY <2>1 DEF Kept, Publishing
  <2>3. \A h \in Hours : json'[h] = json[h] \/ (json'[h] = Absent /\ h \in Expired)
    <3>1. json' = json \/ \E e \in Expired : json' = [json EXCEPT ![e] = Absent]
      BY <1>8 DEF Prune
    <3>2. ASSUME NEW e \in Expired, json' = [json EXCEPT ![e] = Absent], NEW h \in Hours
          PROVE  json'[h] = json[h] \/ (json'[h] = Absent /\ h \in Expired)
      BY <1>0, <3>2 DEF TypeOK, Files
    <3> QED BY <3>1, <3>2
  <2>4. \A h \in Expired : h \in Pruned
    BY <1>0, HourlyAssumption DEF Expired, Pruned, Dated, TypeOK, Hours
  <2>5. ImprovingStep
    <3> SUFFICES ASSUME NEW h \in Hours \ Pruned PROVE Improves(Kept[h], Kept'[h])
      BY DEF ImprovingStep
    <3>1. Kept'[h] = Kept[h] /\ Kept[h] \in Snapshot \cup {Absent}
      BY <1>0, <2>2, <2>3, <2>4, KeptType
    <3> QED BY <3>1, ImprovesReflexive
  <2> QED BY <2>1, <2>2, <2>3, <2>5 DEF Fresh, Old, Good
<1>9. CASE Kill
  BY <1>9, <1>q DEF Kill, Exit
<1>10. CASE UNCHANGED vars
  <2>1. Window' = Window /\ Kept' = Kept
    BY <1>10 DEF vars, Window, Kept, Publishing
  <2> QED BY <1>10, <1>i, <2>1, Stays DEF vars, Fresh, Old, Good, Improves
<1> QED BY <1>1, <1>2, <1>3, <1>4, <1>5, <1>6, <1>7, <1>8, <1>9, <1>10 DEF Next, Run

(* A published snapshot is only replaced by a later one that shows no      *)
(* fewer receipts, until its hour expires.                                 *)
THEOREM ImprovementCorrect == Spec => SnapshotsOnlyImprove
<1>1. Init => Fresh
  BY DEF Init, Fresh, Old, Good, Kept, Publishing, NoFiles
<1>2. IInv /\ Fresh /\ [Next]_vars => Fresh'
  BY FreshStep
<1>3. IInv /\ Fresh /\ [Next]_vars =>
        [\A h \in Hours \ Pruned :
           Kept[h] # Absent /\ ~Kept[h].error =>
             /\ Kept'[h] # Absent /\ ~Kept'[h].error
             /\ Kept[h].receipts <= Kept'[h].receipts /\ Kept[h].at <= Kept'[h].at]_vars
  BY FreshStep DEF ImprovingStep, Improves, Good
<1> QED BY Invariance, <1>1, <1>2, <1>3, PTL DEF Spec, SnapshotsOnlyImprove
=============================================================================
