---------------------------- MODULE MCCorrelate ----------------------------
(* Small inputs for Correlate: one session, one project, a slop of one.    *)
EXTENDS Correlate, TLC

CONSTANTS s1, p1

MCWindow(started, completed) == [started |-> started, completed |-> completed]

(* Not started, an instant, and a later task that is still running: a      *)
(* record at 3 is within the slop of both, as far from one as the other.   *)
MCAttributions ==
  {[session |-> owner[1], project |-> owner[2], window |-> w] :
     owner \in {<<s1, p1>>, <<s1, None>>, <<None, p1>>},
     w \in {MCWindow(NoTime, NoTime), MCWindow(2, 2), MCWindow(4, NoTime)}}

(* Without a time, at the tie, nearest to the later task, out of reach.    *)
MCWindows == {MCWindow(NoTime, NoTime), MCWindow(3, NoTime), MCWindow(3, 4), MCWindow(7, 8)}
MCTokens == {[total |-> 2, tool |-> None], [total |-> None, tool |-> 1]}

MCUsageRecords ==
  {[session |-> owner[1], project |-> owner[2], window |-> w, tokens |-> t] :
     owner \in {<<s1, None>>, <<None, p1>>}, w \in MCWindows, t \in MCTokens}

Symmetry == Permutations(Usages)
=============================================================================
