----------------------------- MODULE ShadowLedger -----------------------------
(***************************************************************************)
(* What the rolling shadow report promises, with no watermark and no       *)
(* fingerprint: a ledger of decisions.  A publication decides every task   *)
(* its run has in view from what the run saw of it, and leaves every other *)
(* task's decision as it was.                                              *)
(***************************************************************************)
CONSTANTS
  Tasks,      \* task ids
  Logics,     \* versions of the policy logic
  Records,    \* contents a task record can have
  Evidence,   \* contents its quality evidence can have
  Producers,  \* runs that may publish
  Absent      \* "no decision" or "not in view"

VARIABLES
  ledger,     \* ledger[t]: the published decision of task t
  label,      \* the logic the ledger says it was made with
  view,       \* view[p][t]: what run p saw of task t
  running     \* running[p]: the logic run p executes

Seen == [record : Records, evidence : Evidence]
Decision == [logic : Logics, record : Records, evidence : Evidence]

Decide(logic, seen) ==
  [logic |-> logic, record |-> seen.record, evidence |-> seen.evidence]

(* Nothing published before, or decisions of some earlier release.         *)
Init ==
  /\ ledger \in [Tasks -> Decision \cup {Absent}]
  /\ label \in Logics
  /\ view = [p \in Producers |-> [t \in Tasks |-> Absent]]
  /\ running \in [Producers -> Logics]

(* A run starts, reads or ends: the ledger is as it was.                   *)
Look == UNCHANGED <<ledger, label>>

(* Run p publishes under the revision l.  A task in view is decided with   *)
(* the logic of the run; only when the revision stays what it was may a    *)
(* decision stand that other logic made from the very same inputs.         *)
Publish(p, l) ==
  /\ label' = l
  /\ ledger' \in [Tasks -> Decision \cup {Absent}]
  /\ \A t \in Tasks :
       IF view[p][t] = Absent THEN ledger'[t] = ledger[t]
       ELSE \/ ledger'[t] = Decide(running[p], view[p][t])
            \/ /\ l = label
               /\ ledger[t] # Absent
               /\ ledger'[t] = ledger[t]
               /\ ledger[t] = Decide(ledger[t].logic, view[p][t])
  /\ UNCHANGED <<view, running>>

Next == Look \/ \E p \in Producers, l \in Logics : Publish(p, l)

vars == <<ledger, label, view, running>>
Spec == Init /\ [][Next]_vars
=============================================================================
