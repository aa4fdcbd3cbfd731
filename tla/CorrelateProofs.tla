--------------------------- MODULE CorrelateProofs ---------------------------
(***************************************************************************)
(* What holds of Correlate for any number of tasks and usage records, any  *)
(* windows and any slop.                                                   *)
(***************************************************************************)
EXTENDS Correlate, Aggregates, TLAPS

(* A time window is a pair of naturals, so a gap is a natural number.      *)
LEMMA GapIsNatural ==
  ASSUME TypeOK, NEW u \in Usages, NEW i \in TaskIndex
  PROVE  Gap(u, i) \in Nat
<1>1. usage[u].window \in Window /\ tasks[i].window \in Window
  <2>1. usage[u] \in ProviderUsageRecord /\ tasks[i] \in Attribution
    BY DEF TypeOK
  <2> QED BY <2>1 DEF ProviderUsageRecord, Attribution
<1>2. \A w \in Window : First(w) \in Nat /\ Last(w) \in Nat
  BY DEF Window, First, Last
<1>3. \A w, t \in Window : Distance(w, t) \in Nat
  <2> TAKE w, t \in Window
  <2>1. First(w) \in Nat /\ Last(w) \in Nat /\ First(t) \in Nat /\ Last(t) \in Nat
    BY <1>2
  <2> QED BY <2>1 DEF Distance
<1> QED BY <1>1, <1>3 DEF Gap

(* min() has an answer: of the tasks a record overlaps one is closest, and *)
(* of those equally close one is first.                                    *)
LEMMA WinnerIsClosest ==
  ASSUME TypeOK, NEW u \in Usages
  PROVE  /\ Winner(u) \in TaskIndex \cup {Nobody}
         /\ Winner(u) = Nobody => \A i \in TaskIndex : ~Candidate(u, i)
         /\ Winner(u) # Nobody =>
              /\ Candidate(u, Winner(u))
              /\ \A j \in TaskIndex : Candidate(u, j) => Closer(u, Winner(u), j)
<1> DEFINE candidates == {i \in TaskIndex : Candidate(u, i)}
           gaps == {Gap(u, i) : i \in candidates}
<1>1. TaskIndex \subseteq Nat /\ Nobody \notin TaskIndex
  BY CorrelateAssumption DEF TaskIndex, Nobody
<1>2. CASE candidates = {}
  BY <1>2 DEF Winner
<1>3. CASE candidates # {}
  <2>1. \A i \in TaskIndex : Gap(u, i) \in Nat
    BY GapIsNatural
  <2>2. gaps \in SUBSET Nat /\ gaps # {}
    BY <1>3, <2>1
  <2>3. PICK g \in gaps : \A h \in gaps : g <= h
    <3> HIDE DEF gaps
    <3> QED BY <2>2, LeastNatural
  <2> DEFINE nearest == {i \in candidates : Gap(u, i) = g}
  <2>4. nearest \in SUBSET Nat /\ nearest # {}
    BY <1>1, <2>3
  <2>5. PICK w \in nearest : \A i \in nearest : w <= i
    <3> HIDE DEF nearest
    <3> QED BY <2>4, LeastNatural
  <2>6. \A j \in candidates : Closer(u, w, j)
    <3> TAKE j \in candidates
    <3>1. Gap(u, j) \in Nat /\ Gap(u, w) = g /\ g \in Nat /\ g <= Gap(u, j)
      BY <2>1, <2>2, <2>3, <2>5
    <3>2. Gap(u, j) = g => w <= j
      BY <2>5
    <3> QED BY <3>1, <3>2 DEF Closer
  <2>7. Winner(u) = CHOOSE i \in candidates : \A j \in candidates : Closer(u, i, j)
    BY <1>3 DEF Winner
  <2>8. w \in candidates
    BY <2>5
  <2>9. Winner(u) \in candidates /\ \A j \in candidates : Closer(u, Winner(u), j)
    <3> HIDE DEF candidates
    <3> QED BY <2>6, <2>7, <2>8
  <2> QED BY <1>1, <2>9
<1> QED BY <1>2, <1>3

-----------------------------------------------------------------------------
(* The reservations are the window winners, and until they are made no     *)
(* task has been walked.                                                   *)
Reservations ==
  \/ pc = "reserve" /\ results = << >> /\ claimed = {}
  \/ /\ pc = "walk"
     /\ \A u \in Usages :
          /\ winner[u] = Nobody => \A i \in TaskIndex : ~Candidate(u, i)
          /\ winner[u] # Nobody =>
               /\ u \in claimed
               /\ Candidate(u, winner[u])
               /\ \A j \in TaskIndex : Candidate(u, j) => Closer(u, winner[u], j)

(* A task is charged only with records that are claimed, and never with a  *)
(* record reserved for another task; its own reservations it takes.        *)
Ledger ==
  /\ \A i \in DOMAIN results : \A u \in results[i].matched :
       u \in claimed /\ winner[u] \in {i, Nobody}
  /\ \A u \in claimed : winner[u] = Nobody =>
       \E i \in DOMAIN results : u \in results[i].matched
  /\ \A u \in Usages : winner[u] \in DOMAIN results => u \in results[winner[u]].matched

(* A record still free when a task was walked is none it could have used.  *)
Passed ==
  \A i \in DOMAIN results : \A u \in Usages \ claimed :
    /\ SessionMatch(u, i) => results[i].confidence = "high"
    /\ ProjectMatch(u, i) /\ Started(i) /\ Overlaps(usage[u].window, tasks[i].window)
         => results[i].confidence # "low"

IInv == TypeOK /\ Reservations /\ Ledger /\ Passed /\ ChargedOnce

LEMMA InitEstablishesIInv == Init => IInv
<1> SUFFICES ASSUME Init PROVE IInv
  OBVIOUS
<1>1. results = << >> /\ claimed = {} /\ pc = "reserve" /\ DOMAIN results = {}
  BY DEF Init
<1>2. TypeOK
  <2>1. tasks \in [TaskIndex -> Attribution] /\ usage \in [Usages -> ProviderUsageRecord]
    BY CorrelateAssumption DEF Init
  <2>2. winner \in [Usages -> TaskIndex \cup {Nobody}]
    BY DEF Init
  <2>3. results \in Seq(Result) /\ Len(results) <= TaskCount
    BY <1>1, CorrelateAssumption
  <2> QED BY <1>1, <2>1, <2>2, <2>3 DEF TypeOK
<1>3. Reservations /\ Passed /\ ChargedOnce
  BY <1>1 DEF Reservations, Passed, ChargedOnce
<1>4. Ledger
  <2>1. \A u \in Usages : winner[u] \notin DOMAIN results
    BY <1>1
  <2> QED BY <1>1, <2>1 DEF Ledger
<1> QED BY <1>2, <1>3, <1>4 DEF IInv

(* The tasks and the usage are the input: no step changes what matches.    *)
LEMMA InputsAreFixed ==
  ASSUME UNCHANGED <<tasks, usage>>
  PROVE  /\ \A u, i : Candidate(u, i)' <=> Candidate(u, i)
         /\ \A u, i : SessionMatch(u, i)' <=> SessionMatch(u, i)
         /\ \A u, i : ProjectMatch(u, i)' <=> ProjectMatch(u, i)
         /\ \A i : Started(i)' <=> Started(i)
         /\ \A u, i, j : Closer(u, i, j)' <=> Closer(u, i, j)
BY DEF Candidate, SessionMatch, ProjectMatch, Started, Closer, Gap

LEMMA ReserveKeepsIInv == IInv /\ Reserve => IInv'
<1> SUFFICES ASSUME IInv, Reserve PROVE IInv'
  OBVIOUS
<1>0. /\ TypeOK /\ pc = "reserve" /\ results = << >> /\ results' = << >> /\ pc' = "walk"
      /\ UNCHANGED <<tasks, usage>>
      /\ winner' = [u \in Usages |-> Winner(u)]
      /\ claimed' = {u \in Usages : Winner(u) # Nobody}
  BY DEF IInv, Reserve, Reservations
<1>1. DOMAIN results' = {}
  BY <1>0
<1>2. TypeOK'
  <2>1. winner' \in [Usages -> TaskIndex \cup {Nobody}]
    BY <1>0, WinnerIsClosest
  <2> QED BY <1>0, <2>1 DEF TypeOK
<1>3. Reservations'
  <2>1. ASSUME NEW u \in Usages
        PROVE  /\ winner'[u] = Nobody => \A i \in TaskIndex : ~Candidate(u, i)'
               /\ winner'[u] # Nobody =>
                    /\ u \in claimed'
                    /\ Candidate(u, winner[u])'
                    /\ \A j \in TaskIndex : Candidate(u, j)' => Closer(u, winner[u], j)'
    <3>1. winner'[u] = Winner(u)
      BY <1>0
    <3>2. Candidate(u, winner[u])' <=> Candidate(u, Winner(u))
      BY <1>0, <3>1 DEF Candidate, SessionMatch, Started
    <3>3. \A j : Closer(u, winner[u], j)' <=> Closer(u, Winner(u), j)
      BY <1>0, <3>1 DEF Closer, Gap
    <3> QED BY <1>0, <3>1, <3>2, <3>3, WinnerIsClosest, InputsAreFixed
  <2> QED BY <1>0, <2>1 DEF Reservations
<1>4. Ledger'
  <2>1. \A u \in claimed' : winner'[u] # Nobody
    BY <1>0
  <2>2. \A u \in Usages : winner'[u] \notin DOMAIN results'
    BY <1>1
  <2> QED BY <1>1, <2>1, <2>2 DEF Ledger
<1>5. Passed' /\ ChargedOnce'
  BY <1>1 DEF Passed, ChargedOnce
<1> QED BY <1>2, <1>3, <1>4, <1>5 DEF IInv

LEMMA WalkKeepsIInv == IInv /\ Walk => IInv'
<1> SUFFICES ASSUME IInv, Walk PROVE IInv'
  OBVIOUS
<1> DEFINE n == Len(results) + 1
           records == Matched(n).matched
<1>0. /\ TypeOK /\ Reservations /\ Ledger /\ Passed /\ ChargedOnce
      /\ pc = "walk" /\ pc' = "walk" /\ UNCHANGED <<tasks, usage, winner>>
      /\ results' = Append(results, Matched(n)) /\ claimed' = claimed \cup records
  BY DEF IInv, Walk, Claimed
<1>1. /\ results \in Seq(Result) /\ Len(results) \in Nat /\ n \in TaskIndex /\ n # Nobody
      /\ DOMAIN results = 1 .. Len(results) /\ n \notin DOMAIN results
  BY CorrelateAssumption DEF IInv, TypeOK, Walk, TaskIndex, Nobody
<1>2. Matched(n) \in Result
  BY DEF Matched, Won, BySession, ByProject, Result, Confidence
<1>3. /\ DOMAIN results' = DOMAIN results \cup {n}
      /\ results'[n] = Matched(n)
      /\ \A i \in DOMAIN results : results'[i] = results[i]
  BY <1>0, <1>1
(* What the task is charged with was reserved for it or was free.          *)
<1>4. /\ records \subseteq Usages
      /\ \A u \in records : winner[u] = n \/ u \notin claimed
      /\ \A u \in Usages : winner[u] = n => u \in records
  BY <1>2 DEF Matched, Won, BySession, ByProject, Result
<1>5. \A u \in Usages \ claimed : winner[u] = Nobody
  BY <1>0 DEF Reservations
(* A task already walked was charged with none of it.                      *)
<1>6. ASSUME NEW i \in DOMAIN results PROVE results[i].matched \cap records = {}
  <2> SUFFICES ASSUME NEW u \in results[i].matched, u \in records PROVE FALSE
    OBVIOUS
  <2>1. u \in claimed /\ winner[u] \in {i, Nobody}
    BY <1>0 DEF Ledger
  <2> QED BY <1>1, <1>4, <2>1
<1>7. TypeOK'
  <2>1. results' \in Seq(Result) /\ Len(results') <= TaskCount
    <3>1. Len(results') = n
      BY <1>0, <1>1
    <3> QED BY <1>0, <1>1, <1>2, <3>1, CorrelateAssumption DEF TaskIndex
  <2>2. claimed' \subseteq Usages
    BY <1>0, <1>4 DEF TypeOK
  <2> QED BY <1>0, <2>1, <2>2 DEF TypeOK
<1>8. Reservations'
  <2>1. \A u \in Usages : Candidate(u, winner[u])' <=> Candidate(u, winner[u])
    BY <1>0 DEF Candidate, SessionMatch, Started
  <2>2. \A u \in Usages : \A j : Closer(u, winner[u], j)' <=> Closer(u, winner[u], j)
    BY <1>0 DEF Closer, Gap
  <2> QED BY <1>0, <2>1, <2>2, InputsAreFixed DEF Reservations
<1>9. Ledger'
  <2>1. \A i \in DOMAIN results' : \A u \in results'[i].matched :
          u \in claimed' /\ winner'[u] \in {i, Nobody}
    <3>1. \A u \in records : winner[u] \in {n, Nobody}
      BY <1>4, <1>5
    <3> QED BY <1>0, <1>3, <3>1 DEF Ledger
  <2>2. \A u \in claimed' : winner'[u] = Nobody =>
          \E i \in DOMAIN results' : u \in results'[i].matched
    BY <1>0, <1>3 DEF Ledger
  <2>3. \A u \in Usages : winner'[u] \in DOMAIN results' => u \in results'[winner'[u]].matched
    BY <1>0, <1>3, <1>4 DEF Ledger
  <2> QED BY <2>1, <2>2, <2>3 DEF Ledger
<1>10. Passed'
  <2> DEFINE InReach(u, i) ==
        ProjectMatch(u, i) /\ Started(i) /\ Overlaps(usage[u].window, tasks[i].window)
  <2>1. ASSUME NEW i \in DOMAIN results', NEW u \in Usages \ claimed'
        PROVE  /\ SessionMatch(u, i) => results'[i].confidence = "high"
               /\ InReach(u, i) => results'[i].confidence # "low"
    <3>1. u \notin claimed /\ u \notin records
      BY <1>0
    <3>2. CASE i \in DOMAIN results
      BY <1>0, <1>3, <3>1, <3>2 DEF Passed
    <3>3. CASE i = n
      <4>1. SessionMatch(u, n) => Matched(n).confidence = "high"
        BY <3>1 DEF Matched, BySession
      <4>2. InReach(u, n) => Matched(n).confidence # "low"
        BY <3>1 DEF Matched, ByProject
      <4> QED BY <1>3, <3>3, <4>1, <4>2
    <3> QED BY <1>3, <3>2, <3>3
  <2>2. \A u, i : InReach(u, i)' <=> InReach(u, i)
    BY <1>0, InputsAreFixed
  <2> QED BY <1>0, <2>1, <2>2, InputsAreFixed DEF Passed
<1>11. ChargedOnce'
  BY <1>0, <1>3, <1>6 DEF ChargedOnce
<1> QED BY <1>7, <1>8, <1>9, <1>10, <1>11 DEF IInv

LEMMA IInvHolds == Spec => []IInv
<1>1. IInv /\ [Next]_vars => IInv'
  <2> SUFFICES ASSUME IInv, [Next]_vars PROVE IInv'
    OBVIOUS
  <2>1. CASE Reserve
    BY <2>1, ReserveKeepsIInv
  <2>2. CASE Walk
    BY <2>2, WalkKeepsIInv
  <2>3. CASE UNCHANGED vars
    <3>1. UNCHANGED <<tasks, usage, winner, claimed, results, pc>>
      BY <2>3 DEF vars
    <3>2. Reservations'
      <4>1. \A u \in Usages : Candidate(u, winner[u])' <=> Candidate(u, winner[u])
        BY <3>1 DEF Candidate, SessionMatch, Started
      <4>2. \A u \in Usages : \A j : Closer(u, winner[u], j)' <=> Closer(u, winner[u], j)
        BY <3>1 DEF Closer, Gap
      <4> QED BY <3>1, <4>1, <4>2, InputsAreFixed DEF IInv, Reservations
    <3>3. Passed'
      BY <3>1, InputsAreFixed DEF IInv, Passed
    <3> QED BY <3>1, <3>2, <3>3 DEF IInv, TypeOK, Ledger, ChargedOnce
  <2> QED BY <2>1, <2>2, <2>3 DEF Next
<1> QED BY <1>1, InitEstablishesIInv, PTL DEF Spec

-----------------------------------------------------------------------------
(* Every variable keeps its type; in particular a record is reserved for a *)
(* task there is, or for nobody, and no task gets two results.             *)
THEOREM TypeCorrect == Spec => []TypeOK
BY IInvHolds, PTL DEF IInv

(* No usage record is charged to two tasks, whatever the tiers they were   *)
(* matched at: what a task takes was reserved for it or claimed by nobody. *)
THEOREM ChargedOnceCorrect == Spec => []ChargedOnce
BY IInvHolds, PTL DEF IInv

(* A record that overlaps tasks of its own session goes to the nearest of  *)
(* them, never to whichever task is walked first.                          *)
THEOREM NearestCorrect == Spec => []NearestTaskIsCharged
<1>1. IInv => NearestTaskIsCharged
  <2> SUFFICES ASSUME IInv, NEW i \in DOMAIN results, NEW u \in results[i].matched,
                      NEW j \in TaskIndex, Candidate(u, j)
               PROVE  /\ Candidate(u, i)
                      /\ j < i => Gap(u, i) < Gap(u, j)
                      /\ i < j => Gap(u, i) <= Gap(u, j)
    BY DEF NearestTaskIsCharged
  <2>1. results \in Seq(Result) /\ Len(results) \in Nat /\ Len(results) <= TaskCount
    BY DEF IInv, TypeOK
  <2>2. i \in TaskIndex /\ u \in Usages
    <3>1. results[i] \in Result
      BY <2>1
    <3> QED BY <2>1, <3>1, CorrelateAssumption DEF TaskIndex, Result
  <2>3. pc = "walk"
    BY DEF IInv, Reservations
  <2>4. winner[u] = i
    BY <2>2, <2>3 DEF IInv, Reservations, Ledger
  <2>5. Candidate(u, i) /\ Closer(u, i, j)
    BY <2>2, <2>3, <2>4, CorrelateAssumption DEF IInv, Reservations, TaskIndex, Nobody
  <2>6. Gap(u, i) \in Nat /\ Gap(u, j) \in Nat
    BY <2>2, GapIsNatural DEF IInv
  <2> QED BY <2>2, <2>5, <2>6 DEF Closer, TaskIndex
<1> QED BY <1>1, IInvHolds, PTL

(* Usage is left uncharged only when no task could have claimed it.        *)
THEOREM StrandedCorrect == Spec => []NothingIsStranded
<1>1. IInv => NothingIsStranded
  <2> SUFFICES ASSUME IInv, Done, NEW u \in Usages \ Charged, NEW i \in TaskIndex
               PROVE  /\ SessionMatch(u, i) => results[i].confidence = "high"
                      /\ (ProjectMatch(u, i) /\ Started(i)
                            /\ Overlaps(usage[u].window, tasks[i].window))
                           => results[i].confidence # "low"
    BY DEF NothingIsStranded
  <2>1. DOMAIN results = TaskIndex
    BY DEF IInv, TypeOK, Done, TaskIndex
  <2>2. winner[u] = Nobody
    <3>1. winner[u] \in TaskIndex \cup {Nobody}
      BY DEF IInv, TypeOK
    <3> QED BY <2>1, <3>1 DEF IInv, Ledger, Charged
  <2>3. u \notin claimed
    BY <2>1, <2>2 DEF IInv, Ledger, Charged
  <2> QED BY <2>1, <2>3 DEF IInv, Passed
<1> QED BY <1>1, IInvHolds, PTL

(* Reports add up what tasks are billed: the sum is the usage behind it,   *)
(* complete and counted once, because no record is charged to two tasks    *)
(* and a bill with an unknown part is no number.                           *)
THEOREM TotalsCorrect == Spec => []TotalsAddUp
<1>1. IInv => TotalsAddUp
  <2> SUFFICES ASSUME IInv PROVE TotalsAddUp
    OBVIOUS
  <2> DEFINE bill == [i \in DOMAIN results |-> Merged(results[i].matched).total]
             billed == {i \in DOMAIN results : bill[i] # None}
             matched == [i \in billed |-> results[i].matched]
             behind == UNION {results[i].matched : i \in billed}
  <2>1. /\ billed \in SUBSET (DOMAIN results) /\ IsFiniteSet(DOMAIN results)
        /\ \A i \in DOMAIN results : results[i].matched \in SUBSET Usages
    <3>1. results \in Seq(Result) /\ Len(results) \in Nat
      BY DEF IInv, TypeOK
    <3>2. DOMAIN results = 1 .. Len(results) /\ \A i \in DOMAIN results : results[i] \in Result
      BY <3>1
    <3>3. IsFiniteSet(1 .. Len(results))
      BY <3>1, FS_Interval
    <3>4. \A i \in DOMAIN results : results[i].matched \in SUBSET Usages
      BY <3>2 DEF Result
    <3> QED BY <3>2, <3>3, <3>4
  <2>2. ASSUME NEW i \in billed
        PROVE  /\ bill[i] = SumFunctionOnSet(Total, results[i].matched)
               /\ \A u \in results[i].matched : Total[u] # None
    BY DEF Merged
  <2>3. \A u \in behind : u \in Usages /\ Total[u] # None
    BY <2>1, <2>2
  <2>4. \A u \in behind : Total[u] \in Nat
    <3>1. \A u \in Usages : Total[u] \in Nat \cup {None}
      BY DEF Total, IInv, TypeOK, ProviderUsageRecord, TokenComponents
    <3> QED BY <2>3, <3>1
  <2>5. IsFiniteSet(behind) /\ IsFiniteSet(billed)
    <3>1. behind \in SUBSET Usages
      BY <2>3
    <3> HIDE DEF behind, billed
    <3> QED BY <2>1, <3>1, FS_Subset, CorrelateAssumption
  <2>6. \A i \in billed : matched[i] \in SUBSET behind
    OBVIOUS
  <2>7. \A i, j \in billed : i # j => matched[i] \cap matched[j] = {}
    BY DEF IInv, ChargedOnce
  <2>8. \A i \in billed : bill[i] = SumFunctionOnSet(Total, matched[i])
    BY <2>2
  <2>9. behind = UNION {matched[i] : i \in billed}
    OBVIOUS
  <2>10. SumFunctionOnSet(bill, billed) = SumFunctionOnSet(Total, behind)
    <3> HIDE DEF bill, billed, matched, behind
    <3>1. SumFunctionOnSet(bill, billed) = SumFunctionOnSet(Total, UNION {matched[i] : i \in billed})
      BY <2>4, <2>5, <2>6, <2>7, <2>8, SumOfUnion
    <3> QED BY <2>9, <3>1
  <2> QED BY <2>3, <2>10 DEF TotalsAddUp
<1> QED BY <1>1, IInvHolds, PTL
=============================================================================
