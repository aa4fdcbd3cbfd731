--------------------------- MODULE MCRollingReport ---------------------------
(* Small instances of RollingReport for TLC.                               *)
EXTENDS RollingReport, TLC

FirstRow(c) ==
  [created |-> c, record |-> CHOOSE r \in Records : TRUE, evidence |-> NoEvidence]

(* Empty databases, or every task in a database and with a creation time   *)
(* of its own: tasks are told apart by their created_at, so that one of    *)
(* them lies below the watermark another one sets.                         *)
EmptyRows == [s \in Sources |-> [t \in Tasks |-> Absent]]
Placements ==
  {f \in [Tasks -> Sources] : \A t, u \in Tasks : t # u => f[t] # f[u]}
PopulatedRows ==
  {[s \in Sources |-> [t \in Tasks |-> IF f[t] = s THEN FirstRow(s) ELSE Absent]]
     : f \in Placements}
MCInitialRows == {EmptyRows} \cup PopulatedRows

(* Databases that hold every task already, each created at a time of its   *)
(* own, so that all but the youngest lie below the watermark.  The tasks   *)
(* are interchangeable: one way to spread them stands for all.             *)
Spread ==
  CHOOSE f \in [Tasks -> Created \ {Unknown}] : \A t, u \in Tasks : t # u => f[t] # f[u]
MCSettledRows == {[s \in Sources |-> [t \in Tasks |-> FirstRow(Spread[t])]]}

Symmetry == Permutations(Tasks)
=============================================================================
