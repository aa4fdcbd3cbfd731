---------------------------- MODULE ReadersProofs ----------------------------
(***************************************************************************)
(* What holds of the readers of files that other programs go on writing:   *)
(* TaskReconcile, for any reasons, any number of rows and revisions, and   *)
(* any interleaving of the dispatcher with the reader; and Collector, for  *)
(* any sessions, threads, requests and payloads, any configurations, and   *)
(* any interleaving of the tools, the user, init and the scan.             *)
(***************************************************************************)
EXTENDS TaskReconcile, Collector, Aggregates, SequenceTheorems, TLAPS

(* Among the rows of a task one outranks all others, so the stream always  *)
(* collapses to one of its own rows, and to a terminal one if it has any.  *)
LEMMA ReconciledIsBest ==
  ASSUME NEW s \in Seq(Row), s # << >>
  PROVE  \E i \in DOMAIN s :
           /\ Reconciled(s) = s[i]
           /\ \A j \in DOMAIN s \ {i} : Outranks(s, i, j)
<1> DEFINE rank(i) == IF Terminal(s[i]) THEN MaxClock + 1 + Stamp(s[i]) ELSE Stamp(s[i])
           ranks == {rank(i) : i \in DOMAIN s}
<1>1. MaxClock \in Nat /\ Len(s) \in Nat /\ DOMAIN s = 1 .. Len(s) /\ 1 \in DOMAIN s
  BY TaskBoundsAssumption
<1>2. \A i \in DOMAIN s : Stamp(s[i]) \in 0 .. MaxClock
  <2> TAKE i \in DOMAIN s
  <2>1. s[i] \in Row
    BY <1>1
  <2>2. s[i].updated \in 0 .. MaxClock /\ s[i].started \in 0 .. MaxClock
    BY <2>1 DEF Row, Time
  <2> QED BY <2>2 DEF Stamp
<1>3. \A i \in DOMAIN s : rank(i) \in 0 .. (2 * MaxClock + 1)
  BY <1>1, <1>2
<1>4. PICK m \in DOMAIN s : \A i \in DOMAIN s : rank(i) <= rank(m)
  <2>1. ranks \in SUBSET (0 .. (2 * MaxClock + 1)) /\ ranks # {}
    <3> HIDE DEF rank
    <3> QED BY <1>1, <1>3
  <2>2. 2 * MaxClock + 1 \in Nat
    BY <1>1
  <2>3. \E r \in ranks : \A n \in ranks : n <= r
    <3> HIDE DEF ranks
    <3> QED BY <2>1, <2>2, GreatestBelow
  <2> HIDE DEF rank
  <2> QED BY <2>3
<1> DEFINE top == {i \in DOMAIN s : rank(i) = rank(m)}
<1>5. PICK w \in top : \A i \in top : i <= w
  <2>1. top \in SUBSET (0 .. Len(s)) /\ top # {}
    <3> HIDE DEF rank
    <3> QED BY <1>1, <1>4
  <2> HIDE DEF top
  <2> QED BY <1>1, <2>1, GreatestBelow
<1>6. ASSUME NEW j \in DOMAIN s \ {w} PROVE Outranks(s, w, j)
  <2>1. w \in DOMAIN s /\ rank(w) = rank(m)
    BY <1>5
  <2>2. rank(j) <= rank(w)
    BY <1>4, <2>1
  <2>3. rank(j) = rank(w) => j < w
    BY <1>1, <1>5, <2>1
  <2>4. Stamp(s[j]) \in 0 .. MaxClock /\ Stamp(s[w]) \in 0 .. MaxClock
    BY <1>2, <2>1
  <2>5. CASE Terminal(s[j]) /\ ~Terminal(s[w])
    BY <1>1, <2>2, <2>4, <2>5
  <2>6. CASE Terminal(s[w]) /\ ~Terminal(s[j])
    BY <2>6 DEF Outranks
  <2>7. CASE Terminal(s[w]) = Terminal(s[j])
    <3>1. Stamp(s[j]) <= Stamp(s[w])
      BY <1>1, <2>2, <2>4, <2>7
    <3>2. Stamp(s[j]) = Stamp(s[w]) => rank(j) = rank(w)
      BY <2>7
    <3> QED BY <1>1, <2>1, <2>3, <2>4, <2>7, <3>1, <3>2 DEF Outranks
  <2> QED BY <2>5, <2>6, <2>7 DEF Terminal
<1>7. \E i \in DOMAIN s : \A j \in DOMAIN s \ {i} : Outranks(s, i, j)
  BY <1>5, <1>6
<1> HIDE DEF top
<1> HIDE DEF rank
<1> QED BY <1>7 DEF Reconciled

-----------------------------------------------------------------------------
(* Both files only grow.                                                   *)
LEMMA FilesGrow ==
  ASSUME TypeOK, [Next]_vars
  PROVE  /\ \A i \in DOMAIN stream : i \in DOMAIN stream' /\ stream'[i] = stream[i]
         /\ \A k \in DOMAIN history : k \in DOMAIN history' /\ history'[k] = history[k]
<1>1. CASE \E r \in Row : Log(r)
  BY <1>1 DEF Log, TypeOK
<1>2. CASE \E s \in Statuses, why \in Reasons \cup {None} : Revise(s, why)
  <2>1. PICK s \in Statuses, why \in Reasons \cup {None} : Revise(s, why)
    BY <1>2
  <2> QED BY <2>1 DEF Revise, TypeOK
<1>3. CASE Read \/ Tick \/ UNCHANGED vars
  BY <1>3 DEF Read, ReadStream, ReadInfo, ReadStatuses, ReadChanges, Tick, dispatcher, vars
<1> QED BY <1>1, <1>2, <1>3 DEF Next, Dispatch

(* Where the values of the reader come from.                               *)
RowsWereRead ==
  /\ pc # "stream" => rows # << >>
  /\ \A i \in DOMAIN rows : i \in DOMAIN stream /\ stream[i] = rows[i]
ValuesWereHeld ==
  /\ reason # None => \E k \in DOMAIN history : history[k].reason = reason
  /\ status # None => \E k \in DOMAIN history : history[k].status = status
ResultIsRecorded ==
  result # None =>
    /\ result.outcome # None =>
         \/ \E i \in DOMAIN stream : stream[i].outcome = result.outcome
         \/ \E k \in DOMAIN history : /\ history[k].status \in DOMAIN Verdict
                                      /\ Verdict[history[k].status] = result.outcome
    /\ result.reason # None =>
         \/ \E i \in DOMAIN stream : stream[i].reason = result.reason
         \/ \E k \in DOMAIN history : history[k].reason = result.reason
Calls == {i \in DOMAIN rows : Terminal(rows[i])}
CallStands ==
  result # None /\ Calls # {} =>
    \/ \E i \in Calls : rows[i].outcome = result.outcome
    \/ \E k \in DOMAIN history : \A i \in Calls : history[k].changed > rows[i].updated

ReadInv == TypeOK /\ RowsWereRead /\ ValuesWereHeld /\ ResultIsRecorded /\ CallStands

(* What the join makes of the values it is given.                          *)
LEMMA JoinedResult ==
  ASSUME TypeOK, rows # << >>,
         NEW why \in Reasons \cup {None}, NEW s \in Statuses \cup {None}, NEW when \in Time
  PROVE  LET r == Joined(why, s, when) IN
         /\ r \in Result
         /\ r.outcome # None =>
              \/ \E i \in DOMAIN rows : rows[i].outcome = r.outcome
              \/ s \in DOMAIN Verdict /\ Verdict[s] = r.outcome
         /\ r.reason # None =>
              \/ \E i \in DOMAIN rows : rows[i].reason = r.reason
              \/ why = r.reason
         /\ Calls # {} =>
              \/ \E i \in Calls : rows[i].outcome = r.outcome
              \/ \A i \in Calls : when > rows[i].updated
<1> DEFINE w == Reconciled(rows)
           r == Joined(why, s, when)
<1>1. PICK m \in DOMAIN rows :
        w = rows[m] /\ \A j \in DOMAIN rows \ {m} : Outranks(rows, m, j)
  BY ReconciledIsBest DEF TypeOK
<1>2. \A i \in DOMAIN rows : rows[i] \in Row
  BY DEF TypeOK
<1>3. w \in Row
  BY <1>1, <1>2
<1>4. DOMAIN Verdict = {"completed", "failed", "timed_out"}
      /\ Verdict["completed"] = "success" /\ Verdict["failed"] = "failed"
      /\ Verdict["timed_out"] = None
  BY DEF Verdict
<1>5. w.outcome \in Outcomes \cup {None} /\ w.reason \in Reasons \cup {None}
      /\ w.updated \in Time
  BY <1>3 DEF Row
<1>6. s \in Revising(w.outcome) => s \in DOMAIN Verdict /\ Terminal(w)
  BY <1>4, <1>5, NoneAssumption DEF Revising, Outcomes, Terminal
<1>7. r = Enriched(w, why, s, when)
  BY DEF Joined
<1> HIDE DEF w
<1> HIDE DEF r
<1>8. /\ r \in Result
      /\ r.outcome = w.outcome \/ (s \in DOMAIN Verdict /\ r.outcome = Verdict[s])
      /\ r.reason \in {w.reason, why, None}
      /\ Terminal(w) => r.outcome = w.outcome \/ IsNewer(w, when)
  <2>1. CASE s \in Revising(w.outcome) /\ IsNewer(w, when)
    <3>1. r = [outcome |-> Verdict[s], reason |-> IF s = "failed" THEN why ELSE None,
               source |-> "late"]
      BY <1>7, <2>1 DEF Enriched
    <3> QED BY <1>4, <1>6, <2>1, <3>1 DEF Result, Outcomes
  <2>2. CASE ~(s \in Revising(w.outcome) /\ IsNewer(w, when))
             /\ w.outcome = None /\ s \in {"completed", "failed"}
    <3>1. r = [outcome |-> Verdict[s], reason |-> IF s = "failed" THEN why ELSE w.reason,
               source |-> "backfill"]
      BY <1>7, <2>2 DEF Enriched
    <3> QED BY <1>4, <1>5, <2>2, <3>1 DEF Result, Outcomes, Terminal
  <2>3. CASE ~(s \in Revising(w.outcome) /\ IsNewer(w, when))
             /\ ~(w.outcome = None /\ s \in {"completed", "failed"})
    <3>1. r = [outcome |-> w.outcome,
               reason |-> IF w.outcome = "failed" /\ why # None THEN why ELSE w.reason,
               source |-> "stream"]
      BY <1>7, <2>3 DEF Enriched
    <3> QED BY <1>5, <3>1 DEF Result
  <2> QED BY <2>1, <2>2, <2>3
<1>9. Calls # {} => m \in Calls
  BY <1>1 DEF Calls, Outranks
<1>10. ASSUME IsNewer(w, when), Terminal(w), NEW i \in Calls
       PROVE  when > rows[i].updated
  <2>1. rows[i] \in Row /\ Terminal(rows[i])
    BY <1>2 DEF Calls
  <2>2. rows[i].updated \in Nat /\ rows[i].started \in Nat /\ w.updated \in Nat /\ when \in Nat
    BY <1>5, <2>1, TaskBoundsAssumption DEF Row, Time
  <2>3. w.updated # NoTime /\ when > w.updated
    BY <1>10 DEF IsNewer
  <2>4. CASE i = m
    BY <1>1, <2>3, <2>4
  <2>5. CASE i # m
    <3>1. Stamp(w) >= Stamp(rows[i])
      <4>1. Outranks(rows, m, i) /\ rows[m] = w
        BY <1>1, <2>5 DEF Calls
      <4>2. Stamp(w) > Stamp(rows[i]) \/ Stamp(w) = Stamp(rows[i])
        BY <1>10, <2>1, <4>1 DEF Outranks
      <4>3. Stamp(w) \in Nat /\ Stamp(rows[i]) \in Nat
        BY <2>2, <2>3, <1>3 DEF Stamp
      <4> QED BY <4>2, <4>3
    <3>2. w.updated >= rows[i].updated
      BY <2>2, <2>3, <3>1 DEF Stamp, NoTime
    <3> QED BY <2>2, <2>3, <3>2
  <2> QED BY <2>4, <2>5
<1>11. Calls # {} => \/ \E i \in Calls : rows[i].outcome = r.outcome
                    \/ \A i \in Calls : when > rows[i].updated
  BY <1>1, <1>8, <1>9, <1>10 DEF Calls
<1>12. /\ r.outcome # None =>
            \/ \E i \in DOMAIN rows : rows[i].outcome = r.outcome
            \/ s \in DOMAIN Verdict /\ Verdict[s] = r.outcome
       /\ r.reason # None =>
            \/ \E i \in DOMAIN rows : rows[i].reason = r.reason
            \/ why = r.reason
  BY <1>1, <1>8
<1> QED BY <1>8, <1>11, <1>12 DEF r

-----------------------------------------------------------------------------
LEMMA ReadInit == Init => ReadInv
<1> SUFFICES ASSUME Init PROVE ReadInv
  OBVIOUS
<1>1. TypeOK
  BY TaskBoundsAssumption
  DEF Init, TypeOK, Task, Time, Statuses, Dispatched, NoTime
<1>2. RowsWereRead /\ ValuesWereHeld /\ ResultIsRecorded /\ CallStands
  BY DEF Init, RowsWereRead, ValuesWereHeld, ResultIsRecorded, CallStands
<1> QED BY <1>1, <1>2 DEF ReadInv

LEMMA TypeNext == TypeOK /\ RowsWereRead /\ [Next]_vars => TypeOK'
<1> SUFFICES ASSUME TypeOK, RowsWereRead, [Next]_vars PROVE TypeOK'
  OBVIOUS
<1>f. Works \/ Fails => faults' \in 0 .. MaxFaults
  BY TaskBoundsAssumption DEF Works, Fails, TypeOK
<1>d. db \in Task
  BY DEF TypeOK, db
<1>1. CASE Tick
  BY <1>1, TaskBoundsAssumption DEF Tick, TypeOK, reader, Time
<1>2. ASSUME NEW r \in Row, Log(r) PROVE TypeOK'
  BY <1>2 DEF Log, TypeOK, reader
<1>3. ASSUME NEW s \in Statuses, NEW why \in Reasons \cup {None}, Revise(s, why)
      PROVE  TypeOK'
  <2>1. [status |-> s, reason |-> why, changed |-> clock] \in Task
    BY DEF Task, TypeOK
  <2>2. history' \in Seq(Task) /\ history' # << >>
    BY <1>3, <2>1 DEF Revise, TypeOK
  <2> QED BY <1>3, <2>2 DEF Revise, TypeOK, reader
<1>4. CASE ReadStream
  BY <1>4 DEF ReadStream, TypeOK, dispatcher
<1>5. CASE ReadInfo
  BY <1>5, <1>d, <1>f DEF ReadInfo, TypeOK, dispatcher, Task
<1>6. CASE ReadStatuses
  BY <1>6, <1>d, <1>f DEF ReadStatuses, TypeOK, dispatcher, Task
<1>7. CASE ReadChanges
  <2>1. rows # << >>
    BY <1>7 DEF ReadChanges, RowsWereRead
  <2>2. db.changed \in Time /\ NoTime \in Time
    BY <1>d, TaskBoundsAssumption DEF Task, Time, NoTime
  <2>3. Joined(reason, status, db.changed) \in Result /\ Joined(reason, status, NoTime) \in Result
    BY <2>1, <2>2, JoinedResult DEF TypeOK
  <2>4. result' \in Result /\ faults' \in 0 .. MaxFaults
    BY <1>7, <1>f, <2>3 DEF ReadChanges
  <2> QED BY <1>7, <2>4 DEF ReadChanges, TypeOK, dispatcher
<1>8. CASE UNCHANGED vars
  BY <1>8 DEF vars, dispatcher, reader, TypeOK
<1> QED BY <1>1, <1>2, <1>3, <1>4, <1>5, <1>6, <1>7, <1>8 DEF Next, Read, Dispatch

LEMMA ReadNext == ReadInv /\ [Next]_vars => ReadInv'
<1> SUFFICES ASSUME ReadInv, [Next]_vars PROVE ReadInv'
  OBVIOUS
<1>t. TypeOK /\ TypeOK' /\ RowsWereRead /\ ValuesWereHeld /\ ResultIsRecorded /\ CallStands
  BY TypeNext DEF ReadInv
<1>g. /\ \A i \in DOMAIN stream : i \in DOMAIN stream' /\ stream'[i] = stream[i]
      /\ \A k \in DOMAIN history : k \in DOMAIN history' /\ history'[k] = history[k]
  BY <1>t, FilesGrow
<1>d. \E k \in DOMAIN history : history[k] = db
  BY <1>t, EmptySeq DEF TypeOK, db
<1>1. CASE UNCHANGED reader
  <2>1. UNCHANGED <<pc, rows, reason, status, result>>
    BY <1>1 DEF reader
  <2>2. RowsWereRead'
    BY <1>t, <1>g, <2>1 DEF RowsWereRead
  <2>3. ValuesWereHeld'
    BY <1>t, <1>g, <2>1 DEF ValuesWereHeld
  <2>4. ResultIsRecorded'
    BY <1>t, <1>g, <2>1 DEF ResultIsRecorded
  <2>5. CallStands'
    <3>1. Calls' = Calls
      BY <2>1 DEF Calls
    <3> QED BY <1>t, <1>g, <2>1, <3>1 DEF CallStands
  <2> QED BY <1>t, <2>2, <2>3, <2>4, <2>5 DEF ReadInv
<1>2. CASE ReadStream
  <2>1. rows' = stream /\ stream # << >> /\ result' = None
        /\ UNCHANGED <<stream, history, reason, status>>
    BY <1>2 DEF ReadStream, dispatcher
  <2> QED BY <1>t, <2>1
      DEF ReadInv, RowsWereRead, ValuesWereHeld, ResultIsRecorded, CallStands
<1>3. CASE ReadInfo
  <2>1. pc = "info" /\ (reason' = None \/ reason' = db.reason)
        /\ UNCHANGED <<stream, history, rows, status, result>>
    BY <1>3 DEF ReadInfo, dispatcher
  <2>2. ValuesWereHeld'
    BY <1>t, <1>d, <2>1 DEF ValuesWereHeld
  <2>3. CallStands'
    <3>1. Calls' = Calls
      BY <2>1 DEF Calls
    <3> QED BY <1>t, <2>1, <3>1 DEF CallStands
  <2>4. RowsWereRead' /\ ResultIsRecorded'
    BY <1>t, <2>1 DEF RowsWereRead, ResultIsRecorded
  <2> QED BY <1>t, <2>2, <2>3, <2>4 DEF ReadInv
<1>4. CASE ReadStatuses
  <2>1. pc = "statuses" /\ (status' = None \/ status' = db.status)
        /\ UNCHANGED <<stream, history, rows, reason, result>>
    BY <1>4 DEF ReadStatuses, dispatcher
  <2>2. ValuesWereHeld'
    BY <1>t, <1>d, <2>1 DEF ValuesWereHeld
  <2>3. CallStands'
    <3>1. Calls' = Calls
      BY <2>1 DEF Calls
    <3> QED BY <1>t, <2>1, <3>1 DEF CallStands
  <2>4. RowsWereRead' /\ ResultIsRecorded'
    BY <1>t, <2>1 DEF RowsWereRead, ResultIsRecorded
  <2> QED BY <1>t, <2>2, <2>3, <2>4 DEF ReadInv
<1>5. CASE ReadChanges
  <2>1. /\ pc = "changes" /\ pc' = "stream" /\ reason' = None /\ status' = None
        /\ UNCHANGED <<stream, history, rows>>
    BY <1>5 DEF ReadChanges, dispatcher
  <2>2. PICK when \in Time :
          result' = Joined(reason, status, when) /\ (when = NoTime \/ when = db.changed)
    <3>1. db \in Task
      BY <1>t DEF TypeOK, db
    <3>2. db.changed \in Time /\ NoTime \in Time
      BY <3>1, TaskBoundsAssumption DEF Task, Time, NoTime
    <3>3. \/ result' = Joined(reason, status, db.changed)
          \/ result' = Joined(reason, status, NoTime)
      BY <1>5 DEF ReadChanges
    <3> QED BY <3>2, <3>3
  <2>3. rows # << >>
    BY <1>t, <2>1 DEF RowsWereRead
  <2> DEFINE r == Joined(reason, status, when)
  <2>4. /\ r.outcome # None =>
             \/ \E i \in DOMAIN rows : rows[i].outcome = r.outcome
             \/ status \in DOMAIN Verdict /\ Verdict[status] = r.outcome
        /\ r.reason # None =>
             \/ \E i \in DOMAIN rows : rows[i].reason = r.reason
             \/ reason = r.reason
        /\ Calls # {} =>
             \/ \E i \in Calls : rows[i].outcome = r.outcome
             \/ \A i \in Calls : when > rows[i].updated
    BY <1>t, <2>3, JoinedResult DEF TypeOK
  <2>5. result' = r
    BY <2>2
  <2> HIDE DEF r
  <2>6. ResultIsRecorded'
    <3>1. status \in DOMAIN Verdict => status # None
      BY NoneAssumption DEF Verdict, Statuses
    <3>2. r.outcome # None =>
            \/ \E i \in DOMAIN stream : stream[i].outcome = r.outcome
            \/ \E k \in DOMAIN history : /\ history[k].status \in DOMAIN Verdict
                                         /\ Verdict[history[k].status] = r.outcome
      BY <1>t, <2>4, <3>1 DEF RowsWereRead, ValuesWereHeld
    <3>3. r.reason # None =>
            \/ \E i \in DOMAIN stream : stream[i].reason = r.reason
            \/ \E k \in DOMAIN history : history[k].reason = r.reason
      BY <1>t, <2>4 DEF RowsWereRead, ValuesWereHeld
    <3> QED BY <2>1, <2>5, <3>2, <3>3 DEF ResultIsRecorded
  <2>7. CallStands'
    <3>1. Calls' = Calls
      BY <2>1 DEF Calls
    <3>2. ASSUME \A i \in Calls : when > rows[i].updated, Calls # {}
          PROVE  \E k \in DOMAIN history : \A i \in Calls : history[k].changed > rows[i].updated
      <4>1. \A i \in Calls : rows[i].updated \in Nat
        <5>1. \A i \in Calls : rows[i] \in Row
          BY <1>t DEF Calls, TypeOK
        <5> QED BY <5>1 DEF Row, Time
      <4>2. when # NoTime
        BY <3>2, <4>1 DEF NoTime
      <4> QED BY <1>d, <2>2, <3>2, <4>2
    <3> QED BY <2>1, <2>4, <2>5, <3>1, <3>2 DEF CallStands
  <2>8. RowsWereRead' /\ ValuesWereHeld'
    BY <1>t, <2>1 DEF RowsWereRead, ValuesWereHeld
  <2> QED BY <1>t, <2>6, <2>7, <2>8 DEF ReadInv
<1>6. Dispatch \/ UNCHANGED vars => UNCHANGED reader
  BY DEF Dispatch, Tick, Log, Revise, vars
<1> QED BY <1>1, <1>2, <1>3, <1>4, <1>5, <1>6 DEF Next, Read

(* Every state of the two files and of the reader is well typed.           *)
THEOREM TypeCorrect == Spec => []TypeOK
<1>1. ReadInv => TypeOK
  BY DEF ReadInv
<1> QED BY <1>1, ReadInit, ReadNext, PTL DEF Spec

(* Torn or not, a read reports only what one of the files recorded.        *)
THEOREM OutcomeCorrect == Spec => []OutcomeIsRecorded
<1>1. ReadInv => OutcomeIsRecorded
  BY DEF ReadInv, ResultIsRecorded, OutcomeIsRecorded, Returned
<1> QED BY <1>1, ReadInit, ReadNext, PTL DEF Spec

(* A terminal row yields only to a status that changed after all of them.  *)
THEOREM TerminalCallCorrect == Spec => []TerminalCallStands
<1>1. ReadInv => TerminalCallStands
  BY DEF ReadInv, CallStands, Calls, TerminalCallStands, Returned
<1> QED BY <1>1, ReadInit, ReadNext, PTL DEF Spec

-----------------------------------------------------------------------------
(* Collector: charges and what is merged of them.                          *)

(* Charges of finitely many things, each with a split by model that adds   *)
(* up to it.                                                               *)
AreCharges(charges) ==
  /\ IsFiniteSet(DOMAIN charges)
  /\ \A x \in DOMAIN charges : Sound(charges[x].use)

(* Breakdowns whose splits need not add up.                                *)
AreBreakdowns(charges) ==
  /\ IsFiniteSet(DOMAIN charges)
  /\ \A x \in DOMAIN charges : charges[x].use \in Breakdown

(* What is grouped by name and split by model adds up to the same, by name *)
(* and by model.                                                           *)
Grouping(S, n, split, name, groups, parts, models) ==
  /\ IsFiniteSet(S) /\ DOMAIN name = S
  /\ \A x \in S : split[x] \in [ModelNames -> Nat] /\ n[x] = SumFunctionOnSet(split[x], ModelNames)
  /\ \A p \in Range(name) : groups[p] = SumFunctionOnSet(n, {x \in S : name[x] = p})
  /\ \A p \in Range(name) : \A m \in ModelNames :
       parts[p][m] = SumFunctionOnSet(Column(split, S, m), {x \in S : name[x] = p})
  /\ \A m \in ModelNames :
       models[m] = SumFunctionOnSet(Column(parts, Range(name), m), Range(name))

LEMMA GroupsAddUp ==
  ASSUME NEW S, NEW n, NEW split, NEW name, NEW groups, NEW parts, NEW models,
         Grouping(S, n, split, name, groups, parts, models)
  PROVE  /\ SumFunctionOnSet(groups, Range(name)) = SumFunctionOnSet(n, S)
         /\ SumFunctionOnSet(models, ModelNames) = SumFunctionOnSet(n, S)
<1> USE DEF Grouping
<1>1. \A x \in S : n[x] \in Nat
  <2> TAKE x \in S
  <2>1. \A m \in ModelNames : split[x][m] \in Nat
    OBVIOUS
  <2>2. SumFunctionOnSet(split[x], ModelNames) \in Nat
    BY <2>1, SumIsNatural, ModelNamesAssumption
  <2> QED BY <2>2
<1>0. ASSUME NEW f, NEW b, \A x \in S : f[x] \in Nat,
             \A p \in Range(name) : b[p] = SumFunctionOnSet(f, {x \in S : name[x] = p})
      PROVE  SumFunctionOnSet(b, Range(name)) = SumFunctionOnSet(f, S)
  <2>1. IsFiniteSet(S) /\ DOMAIN name = S
    OBVIOUS
  <2> QED BY ONLY <1>0, <2>1, SumByName
<1>2. SumFunctionOnSet(groups, Range(name)) = SumFunctionOnSet(n, S)
  BY <1>0, <1>1
<1>3. \A m \in ModelNames : models[m] = SumFunctionOnSet(Column(split, S, m), S)
  <2> TAKE m \in ModelNames
  <2> DEFINE f == Column(split, S, m)
             b == Column(parts, Range(name), m)
  <2>1. \A x \in S : f[x] \in Nat
    BY DEF Column
  <2>2. \A p \in Range(name) : b[p] = SumFunctionOnSet(f, {x \in S : name[x] = p})
    BY DEF Column
  <2>3. models[m] = SumFunctionOnSet(b, Range(name))
    OBVIOUS
  <2> HIDE DEF f, b
  <2>4. SumFunctionOnSet(b, Range(name)) = SumFunctionOnSet(f, S)
    BY <1>0, <2>1, <2>2
  <2>5. models[m] = SumFunctionOnSet(f, S)
    BY <2>3, <2>4
  <2> QED BY <2>5 DEF f
<1>4. SumFunctionOnSet(RowSums(split, S, ModelNames), S)
        = SumFunctionOnSet(ColumnSums(split, S, ModelNames), ModelNames)
  BY SumOfTable, ModelNamesAssumption
<1>5. SumFunctionOnSet(RowSums(split, S, ModelNames), S) = SumFunctionOnSet(n, S)
  <2>1. \A x \in S : RowSums(split, S, ModelNames)[x] = n[x]
    BY DEF RowSums
  <2> QED BY <2>1, SumOfEquals
<1>6. SumFunctionOnSet(ColumnSums(split, S, ModelNames), ModelNames)
        = SumFunctionOnSet(models, ModelNames)
  <2>1. \A m \in ModelNames : ColumnSums(split, S, ModelNames)[m] = models[m]
    BY <1>3 DEF ColumnSums
  <2> QED BY <2>1, SumOfEquals, ModelNamesAssumption
<1> QED BY <1>2, <1>4, <1>5, <1>6

(* merge_project_breakdown and model_aggregates_from_projects: whatever is *)
(* charged, its breakdowns by project and by model add up to it.           *)
LEMMA MergedAddUp ==
  ASSUME NEW charges, AreCharges(charges),
         NEW projects, projects = MergeProjectBreakdowns(charges),
         NEW all, all = Together(charges, DOMAIN charges)
  PROVE  /\ TokensOf(projects) = all.tokens /\ TokensOf(Models(projects)) = all.tokens
         /\ RequestsOf(projects) = all.requests /\ RequestsOf(Models(projects)) = all.requests
<1> DEFINE S == DOMAIN charges
           name == [x \in S |-> NormalizeProjectName(charges[x].name)]
           n == [x \in S |-> charges[x].use.tokens]
           r == [x \in S |-> charges[x].use.requests]
           nSplit == [x \in S |-> charges[x].use.models]
           rSplit == [x \in S |-> charges[x].use.modelRequests]
           nParts == [p \in Range(name) |-> projects[p].models]
           rParts == [p \in Range(name) |-> projects[p].modelRequests]
           nGroups == [p \in Range(name) |-> projects[p].tokens]
           rGroups == [p \in Range(name) |-> projects[p].requests]
           nModels == [m \in ModelNames |-> Models(projects)[m].tokens]
           rModels == [m \in ModelNames |-> Models(projects)[m].requests]
<1>1. DOMAIN projects = Range(name)
  BY DEF MergeProjectBreakdowns, Range
<1>2. \A p \in Range(name) : ChargedTo(charges, p) = {x \in S : name[x] = p}
  BY DEF ChargedTo
<1>3. \A p \in Range(name) : projects[p] = Together(charges, {x \in S : name[x] = p})
  BY <1>1, <1>2 DEF MergeProjectBreakdowns
<1>4. IsFiniteSet(S) /\ DOMAIN name = S /\ \A x \in S : Sound(charges[x].use)
  BY DEF AreCharges
<1>5. \A x \in S : nSplit[x] \in [ModelNames -> Nat] /\ n[x] = SumFunctionOnSet(nSplit[x], ModelNames)
  BY <1>4 DEF Sound, Breakdown, Split, SumFunction
<1>6. \A x \in S : rSplit[x] \in [ModelNames -> Nat] /\ r[x] = SumFunctionOnSet(rSplit[x], ModelNames)
  BY <1>4 DEF Sound, Breakdown, Split, SumFunction
<1>7. /\ \A p \in Range(name) : nGroups[p] = SumFunctionOnSet(n, {x \in S : name[x] = p})
      /\ \A p \in Range(name) : rGroups[p] = SumFunctionOnSet(r, {x \in S : name[x] = p})
      /\ \A p \in Range(name) : \A m \in ModelNames :
           nParts[p][m] = SumFunctionOnSet(Column(nSplit, S, m), {x \in S : name[x] = p})
      /\ \A p \in Range(name) : \A m \in ModelNames :
           rParts[p][m] = SumFunctionOnSet(Column(rSplit, S, m), {x \in S : name[x] = p})
  <2> SUFFICES ASSUME NEW p \in Range(name)
               PROVE  LET T == {x \in S : name[x] = p} IN
                      /\ nGroups[p] = SumFunctionOnSet(n, T) /\ rGroups[p] = SumFunctionOnSet(r, T)
                      /\ \A m \in ModelNames : nParts[p][m] = SumFunctionOnSet(Column(nSplit, S, m), T)
                      /\ \A m \in ModelNames : rParts[p][m] = SumFunctionOnSet(Column(rSplit, S, m), T)
    OBVIOUS
  <2> DEFINE T == {x \in S : name[x] = p}
  <2>1. projects[p] = Together(charges, T)
    BY <1>3
  <2>2. IsFiniteSet(T) /\ T \subseteq S
    BY <1>4, FS_Subset
  <2> HIDE DEF T
  <2>3. nGroups[p] = SumFunctionOnSet(n, T)
    <3> DEFINE f == [x \in T |-> charges[x].use.tokens]
    <3>1. nGroups[p] = SumFunctionOnSet(f, T)
      <4>1. Together(charges, T).tokens = SumFunction(f)
        BY DEF Together
      <4> QED BY <2>1, <4>1 DEF SumFunction
    <3>2. \A x \in T : f[x] = n[x]
      BY <2>2
    <3> HIDE DEF f, n, nGroups
    <3> QED BY <2>2, <3>1, <3>2, SumOfEquals
  <2>4. rGroups[p] = SumFunctionOnSet(r, T)
    <3> DEFINE f == [x \in T |-> charges[x].use.requests]
    <3>1. rGroups[p] = SumFunctionOnSet(f, T)
      <4>1. Together(charges, T).requests = SumFunction(f)
        BY DEF Together
      <4> QED BY <2>1, <4>1 DEF SumFunction
    <3>2. \A x \in T : f[x] = r[x]
      BY <2>2
    <3> HIDE DEF f, r, rGroups
    <3> QED BY <2>2, <3>1, <3>2, SumOfEquals
  <2>5. \A m \in ModelNames : nParts[p][m] = SumFunctionOnSet(Column(nSplit, S, m), T)
    <3> TAKE m \in ModelNames
    <3> DEFINE f == [x \in T |-> charges[x].use.models[m]]
    <3>1. nParts[p][m] = SumFunctionOnSet(f, T)
      BY <2>1 DEF Together, SumFunction
    <3>2. \A x \in T : f[x] = Column(nSplit, S, m)[x]
      BY <2>2 DEF Column
    <3> HIDE DEF f
    <3> QED BY <2>2, <3>1, <3>2, SumOfEquals
  <2>6. \A m \in ModelNames : rParts[p][m] = SumFunctionOnSet(Column(rSplit, S, m), T)
    <3> TAKE m \in ModelNames
    <3> DEFINE f == [x \in T |-> charges[x].use.modelRequests[m]]
    <3>1. rParts[p][m] = SumFunctionOnSet(f, T)
      BY <2>1 DEF Together, SumFunction
    <3>2. \A x \in T : f[x] = Column(rSplit, S, m)[x]
      BY <2>2 DEF Column
    <3> HIDE DEF f
    <3> QED BY <2>2, <3>1, <3>2, SumOfEquals
  <2> QED BY <2>3, <2>4, <2>5, <2>6 DEF T
<1>8. /\ \A m \in ModelNames :
           nModels[m] = SumFunctionOnSet(Column(nParts, Range(name), m), Range(name))
      /\ \A m \in ModelNames :
           rModels[m] = SumFunctionOnSet(Column(rParts, Range(name), m), Range(name))
  <2> SUFFICES ASSUME NEW m \in ModelNames
               PROVE  /\ nModels[m] = SumFunctionOnSet(Column(nParts, Range(name), m), Range(name))
                      /\ rModels[m] = SumFunctionOnSet(Column(rParts, Range(name), m), Range(name))
    OBVIOUS
  <2> DEFINE f == [p \in DOMAIN projects |-> projects[p].models[m]]
             g == [p \in DOMAIN projects |-> projects[p].modelRequests[m]]
  <2>1. f = Column(nParts, Range(name), m) /\ g = Column(rParts, Range(name), m)
    BY <1>1 DEF Column
  <2>2. nModels[m] = SumFunctionOnSet(f, Range(name)) /\ rModels[m] = SumFunctionOnSet(g, Range(name))
    BY <1>1 DEF Models, SumFunction
  <2> HIDE DEF f, g
  <2> QED BY <2>1, <2>2
<1>9. /\ TokensOf(projects) = SumFunctionOnSet(nGroups, Range(name))
      /\ RequestsOf(projects) = SumFunctionOnSet(rGroups, Range(name))
      /\ TokensOf(Models(projects)) = SumFunctionOnSet(nModels, ModelNames)
      /\ RequestsOf(Models(projects)) = SumFunctionOnSet(rModels, ModelNames)
      /\ all.tokens = SumFunctionOnSet(n, S) /\ all.requests = SumFunctionOnSet(r, S)
  <2>1. DOMAIN Models(projects) = ModelNames
    BY DEF Models
  <2>2. /\ [k \in DOMAIN projects |-> projects[k].tokens] = nGroups
        /\ [p \in DOMAIN projects |-> projects[p].requests] = rGroups
        /\ [k \in DOMAIN Models(projects) |-> Models(projects)[k].tokens] = nModels
        /\ [p \in DOMAIN Models(projects) |-> Models(projects)[p].requests] = rModels
    BY <1>1, <2>1
  <2>3. all.tokens = SumFunction(n) /\ all.requests = SumFunction(r)
    BY DEF Together
  <2> QED BY <2>2, <2>3 DEF TokensOf, RequestsOf, SumFunction
<1> HIDE DEF S, name, n, r, nSplit, rSplit, nParts, rParts, nGroups, rGroups, nModels, rModels
<1>10. Grouping(S, n, nSplit, name, nGroups, nParts, nModels)
  BY <1>4, <1>5, <1>7, <1>8 DEF Grouping
<1>11. Grouping(S, r, rSplit, name, rGroups, rParts, rModels)
  BY <1>4, <1>6, <1>7, <1>8 DEF Grouping
<1>12. /\ SumFunctionOnSet(nGroups, Range(name)) = SumFunctionOnSet(n, S)
       /\ SumFunctionOnSet(nModels, ModelNames) = SumFunctionOnSet(n, S)
       /\ SumFunctionOnSet(rGroups, Range(name)) = SumFunctionOnSet(r, S)
       /\ SumFunctionOnSet(rModels, ModelNames) = SumFunctionOnSet(r, S)
  BY <1>10, <1>11, GroupsAddUp
<1> QED BY <1>9, <1>12

(* A request has all of its tokens with its model.                         *)
LEMMA UseIsSound ==
  ASSUME NEW x, Model[x] \in ModelNames, NEW n \in Nat
  PROVE  Sound(Use(x, n))
<1>1. ASSUME NEW k \in Nat
      PROVE  Only(Model[x], k) \in Split /\ SumFunction(Only(Model[x], k)) = k
  <2> DEFINE f == Only(Model[x], k)
  <2>1. /\ f \in [ModelNames -> Nat] /\ DOMAIN f = ModelNames /\ f[Model[x]] = k
        /\ \A m \in ModelNames \ {Model[x]} : f[m] = 0
    BY DEF Only
  <2> HIDE DEF f
  <2>2. SumFunctionOnSet(f, ModelNames) = f[Model[x]] + SumFunctionOnSet(f, ModelNames \ {Model[x]})
    BY <2>1, SumRemove, ModelNamesAssumption
  <2>3. SumFunctionOnSet(f, ModelNames \ {Model[x]}) = 0
    BY <2>1, SumOfZeros, FS_Subset, ModelNamesAssumption
  <2>4. SumFunctionOnSet(f, ModelNames) = k
    BY <2>1, <2>2, <2>3
  <2> QED BY <2>1, <2>4 DEF f, Split, SumFunction
<1>2. 1 \in Nat
  OBVIOUS
<1>3. /\ Only(Model[x], n) \in Split /\ SumFunction(Only(Model[x], n)) = n
      /\ Only(Model[x], 1) \in Split /\ SumFunction(Only(Model[x], 1)) = 1
  BY <1>1, <1>2
<1> QED BY <1>3 DEF Use, Sound, Breakdown

(* The window of a local scan agrees with itself, and its total is what    *)
(* was charged.                                                            *)
LEMMA LocalAddsUp ==
  ASSUME NEW charges, AreCharges(charges),
         NEW window, window = LocalAll(charges)
  PROVE  /\ AddsUp(window) /\ window.total = TokensOf(window.byProject)
         /\ window.total
              = SumFunctionOnSet([x \in DOMAIN charges |-> charges[x].use.tokens], DOMAIN charges)
<1> DEFINE all == Together(charges, DOMAIN charges)
           projects == MergeProjectBreakdowns(charges)
<1>1. /\ window.total = all.tokens /\ window.requests = all.requests
      /\ window.byProject = projects /\ window.byModel = Models(projects)
  BY DEF LocalAll, Window
<1>2. /\ TokensOf(projects) = all.tokens /\ TokensOf(Models(projects)) = all.tokens
      /\ RequestsOf(projects) = all.requests /\ RequestsOf(Models(projects)) = all.requests
  <2> HIDE DEF all, projects
  <2> QED BY MergedAddUp DEF all, projects
<1>3. all.tokens = SumFunctionOnSet([x \in DOMAIN charges |-> charges[x].use.tokens], DOMAIN charges)
  BY DEF Together, SumFunction
<1> HIDE DEF all, projects
<1> QED BY <1>1, <1>2, <1>3 DEF AddsUp

(* What a project is charged with.                                         *)
LEMMA TokensOfProject ==
  ASSUME NEW charges, AreBreakdowns(charges),
         NEW p \in DOMAIN MergeProjectBreakdowns(charges)
  PROVE  MergeProjectBreakdowns(charges)[p].tokens
           = SumFunctionOnSet([x \in DOMAIN charges |-> charges[x].use.tokens], ChargedTo(charges, p))
<1> DEFINE S == ChargedTo(charges, p)
           f == [x \in S |-> charges[x].use.tokens]
           g == [x \in DOMAIN charges |-> charges[x].use.tokens]
<1>1. S \subseteq DOMAIN charges /\ IsFiniteSet(S)
  BY FS_Subset DEF ChargedTo, AreBreakdowns
<1>2. MergeProjectBreakdowns(charges)[p] = Together(charges, S)
  BY DEF MergeProjectBreakdowns
<1> HIDE DEF S
<1>3. Together(charges, S).tokens = SumFunctionOnSet(f, S)
  BY DEF Together, SumFunction
<1>4. \A x \in S : f[x] = g[x]
  BY <1>1
<1> HIDE DEF f, g
<1>5. SumFunctionOnSet(f, S) = SumFunctionOnSet(g, S)
  BY <1>1, <1>4, SumOfEquals
<1> QED BY <1>2, <1>3, <1>5 DEF S, g

(* The projects share what is charged, also where splits do not add up.    *)
LEMMA TokensOfAll ==
  ASSUME NEW charges, AreBreakdowns(charges)
  PROVE  TokensOf(MergeProjectBreakdowns(charges))
           = SumFunctionOnSet([x \in DOMAIN charges |-> charges[x].use.tokens], DOMAIN charges)
<1> DEFINE S == DOMAIN charges
           f == [x \in S |-> charges[x].use.tokens]
           name == [x \in S |-> NormalizeProjectName(charges[x].name)]
           projects == MergeProjectBreakdowns(charges)
           b == [p \in DOMAIN projects |-> projects[p].tokens]
<1>1. IsFiniteSet(S) /\ DOMAIN name = S /\ \A x \in S : f[x] \in Nat
  BY DEF AreBreakdowns, Breakdown
<1>2. DOMAIN projects = Range(name)
  BY DEF MergeProjectBreakdowns, Range
<1>3. \A p \in Range(name) : ChargedTo(charges, p) = {x \in S : name[x] = p}
  BY DEF ChargedTo
<1>4. TokensOf(projects) = SumFunctionOnSet(b, Range(name))
  BY <1>2 DEF TokensOf, SumFunction
<1>5. \A p \in Range(name) : b[p] = SumFunctionOnSet(f, ChargedTo(charges, p))
  BY <1>2, TokensOfProject
<1> HIDE DEF S, f, name, projects, b
<1>6. \A p \in Range(name) : b[p] = SumFunctionOnSet(f, {x \in S : name[x] = p})
  BY <1>3, <1>5
<1>7. SumFunctionOnSet(b, Range(name)) = SumFunctionOnSet(f, S)
  BY <1>1, <1>6, SumByName
<1> QED BY <1>4, <1>7 DEF S, f, projects

LEMMA ChargesAreBreakdowns ==
  ASSUME NEW charges, AreCharges(charges)
  PROVE  AreBreakdowns(charges)
BY DEF AreCharges, AreBreakdowns, Sound

-----------------------------------------------------------------------------
(* A payload's rows, and those Codex's window is made of.                  *)
LEMMA RowsAreBreakdowns ==
  ASSUME NEW payload \in Payloads, NEW raw \in {payload.rows, payload.runtime}
  PROVE  /\ raw \in Seq(ToSet(raw)) /\ Len(raw) \in Nat /\ DOMAIN raw = 1 .. Len(raw)
         /\ AreBreakdowns(raw) /\ (Consistent(payload) => AreCharges(raw))
<1>1. raw \in Seq(ToSet(raw)) /\ \A k \in DOMAIN raw : raw[k].use \in Breakdown
  BY PayloadsAssumption
<1>2. Len(raw) \in Nat /\ DOMAIN raw = 1 .. Len(raw)
  BY <1>1
<1>3. IsFiniteSet(DOMAIN raw)
  BY <1>2, FS_Interval
<1>4. Consistent(payload) => \A k \in DOMAIN raw : Sound(raw[k].use)
  BY DEF Consistent
<1> QED BY <1>1, <1>2, <1>3, <1>4 DEF AreBreakdowns, AreCharges

Kept(all, n) == {k \in DOMAIN all : k <= n \/ IsNewName(all, k)}

(* all is the payload's rows, n of them, and then the runtime's.           *)
BothLists(all, n, payload) ==
  /\ DOMAIN all = 1 .. n + Len(payload.runtime)
  /\ \A k \in 1 .. n : all[k] = payload.rows[k]
  /\ \A k \in DOMAIN all :
       k > n => k - n \in DOMAIN payload.runtime /\ all[k] = payload.runtime[k - n]
  /\ \A j \in DOMAIN payload.runtime :
       n + j \in DOMAIN all /\ n + j > n /\ all[n + j] = payload.runtime[j]

LEMMA TheseAreBoth ==
  ASSUME NEW payload \in Payloads
  PROVE  BothLists(payload.rows \o payload.runtime, Len(payload.rows), payload)
<1> DEFINE raw == payload.rows
           runtime == payload.runtime
           T == ToSet(raw) \cup ToSet(runtime)
           all == raw \o runtime
           n == Len(raw)
<1>1. /\ raw \in Seq(ToSet(raw)) /\ n \in Nat /\ DOMAIN raw = 1 .. n
      /\ runtime \in Seq(ToSet(runtime)) /\ Len(runtime) \in Nat
      /\ DOMAIN runtime = 1 .. Len(runtime)
  BY RowsAreBreakdowns
<1>2. raw \in Seq(T) /\ runtime \in Seq(T)
  BY <1>1
<1> HIDE DEF raw, runtime, T
<1>3. /\ all \in Seq(T) /\ Len(all) = n + Len(runtime)
      /\ \A k \in 1 .. n + Len(runtime) : all[k] = IF k <= n THEN raw[k] ELSE runtime[k - n]
  BY <1>2, ConcatProperties
<1> HIDE DEF all, n
<1>4. DOMAIN all = 1 .. n + Len(runtime)
  BY ONLY <1>3
<1>5. \A k \in 1 .. n : all[k] = raw[k]
  BY ONLY <1>1, <1>3
<1>6. \A k \in DOMAIN all : k > n => k - n \in DOMAIN runtime /\ all[k] = runtime[k - n]
  BY ONLY <1>1, <1>3, <1>4
<1>7. \A j \in DOMAIN runtime : n + j \in DOMAIN all /\ n + j > n /\ all[n + j] = runtime[j]
  <2> TAKE j \in DOMAIN runtime
  <2>1. n + j \in DOMAIN all /\ n + j > n /\ (n + j) - n = j
    BY <1>1, <1>4
  <2> QED BY <1>6, <2>1
<1>8. BothLists(all, n, payload)
  BY <1>4, <1>5, <1>6, <1>7 DEF BothLists, raw, runtime
<1> QED BY <1>8 DEF all, n, raw, runtime

LEMMA KeptAreBreakdowns ==
  ASSUME NEW payload \in Payloads,
         NEW all, all = payload.rows \o payload.runtime,
         NEW n, n = Len(payload.rows)
  PROVE  /\ AreBreakdowns([k \in Kept(all, n) |-> all[k]])
         /\ Consistent(payload) => AreCharges([k \in Kept(all, n) |-> all[k]])
<1> DEFINE raw == payload.rows
           runtime == payload.runtime
           kept == Kept(all, n)
<1>1. /\ n \in Nat /\ DOMAIN raw = 1 .. n /\ AreBreakdowns(raw)
      /\ Len(runtime) \in Nat /\ DOMAIN runtime = 1 .. Len(runtime) /\ AreBreakdowns(runtime)
      /\ Consistent(payload) => AreCharges(raw) /\ AreCharges(runtime)
  BY RowsAreBreakdowns
<1>2. BothLists(all, n, payload)
  BY TheseAreBoth
<1>3. \A k \in DOMAIN all : \/ k \in DOMAIN raw /\ all[k] = raw[k]
                            \/ k - n \in DOMAIN runtime /\ all[k] = runtime[k - n]
  <2> TAKE k \in DOMAIN all
  <2>1. k \in Int /\ k >= 1
    BY <1>1, <1>2 DEF BothLists
  <2>2. CASE k <= n
    BY <1>1, <1>2, <2>1, <2>2 DEF BothLists
  <2>3. CASE k > n
    BY <1>2, <2>3 DEF BothLists
  <2> QED BY <1>1, <2>1, <2>2, <2>3
<1>4. IsFiniteSet(kept) /\ kept \subseteq DOMAIN all
  <2>1. DOMAIN all = 1 .. n + Len(runtime) /\ n + Len(runtime) \in Int
    BY <1>1, <1>2 DEF BothLists
  <2>2. IsFiniteSet(DOMAIN all)
    <3> DEFINE m == n + Len(runtime)
    <3>1. m \in Int /\ 1 \in Int /\ DOMAIN all = 1 .. m
      BY <2>1
    <3> HIDE DEF m
    <3> QED BY <3>1, FS_Interval
  <2> QED BY <2>2, FS_Subset DEF Kept
<1> HIDE DEF raw, runtime, kept
<1>5. \A k \in DOMAIN all : all[k].use \in Breakdown
  BY <1>1, <1>3 DEF AreBreakdowns
<1>6. Consistent(payload) => \A k \in DOMAIN all : Sound(all[k].use)
  BY <1>1, <1>3 DEF AreCharges
<1>7. AreBreakdowns([k \in kept |-> all[k]])
  BY <1>4, <1>5 DEF AreBreakdowns
<1>8. Consistent(payload) => AreCharges([k \in kept |-> all[k]])
  BY <1>4, <1>6 DEF AreCharges
<1> QED BY <1>7, <1>8 DEF kept

(* A window of rows has what the rows say of each project.                 *)
LEMMA RowsAgree ==
  ASSUME NamesAreHomes, NEW payload \in Payloads,
         NEW projects, projects = AggregatesFromRaw(payload.rows),
         NEW p \in DOMAIN projects
  PROVE  RowsOf(payload.rows, p) # {} /\ projects[p].tokens = Stated(payload.rows, p)
<1> DEFINE raw == payload.rows
           S == ChargedTo(raw, p)
           f == [x \in DOMAIN raw |-> raw[x].use.tokens]
           g == [k \in S |-> raw[k].use.tokens]
<1>1. AreBreakdowns(raw)
  BY RowsAreBreakdowns
<1>2. S = RowsOf(raw, p) /\ S # {} /\ S \subseteq DOMAIN raw
  BY DEF NamesAreHomes, RowsOf, ChargedTo, AggregatesFromRaw, MergeProjectBreakdowns
<1>3. projects[p].tokens = SumFunctionOnSet(f, S)
  BY <1>1, TokensOfProject DEF AggregatesFromRaw
<1>4. Stated(raw, p) = SumFunctionOnSet(g, S)
  BY <1>2 DEF Stated, SumFunction
<1>5. (\A x \in S : f[x] = g[x]) /\ IsFiniteSet(S)
  BY <1>1, <1>2, FS_Subset DEF AreBreakdowns
<1> HIDE DEF f, g, S
<1>6. SumFunctionOnSet(f, S) = SumFunctionOnSet(g, S)
  BY <1>5, SumOfEquals
<1> QED BY <1>2, <1>3, <1>4, <1>6

(* A project that only the runtime names has the first row that names it.  *)
LEMMA ExtrasAgree ==
  ASSUME NamesAreHomes, NEW payload \in Payloads,
         NEW projects, projects = WithRuntimeExtras(payload.rows, payload.runtime),
         NEW p \in DOMAIN projects
  PROVE  \/ RowsOf(payload.rows, p) # {} /\ projects[p].tokens = Stated(payload.rows, p)
         \/ /\ RowsOf(payload.rows, p) = {}
            /\ \E k \in RowsOf(payload.runtime, p) : projects[p].tokens = payload.runtime[k].use.tokens
<1> DEFINE raw == payload.rows
           runtime == payload.runtime
           all == raw \o runtime
           n == Len(raw)
           kept == Kept(all, n)
           charges == [k \in kept |-> all[k]]
           S == ChargedTo(charges, p)
           f == [k \in DOMAIN charges |-> charges[k].use.tokens]
<1>1. /\ n \in Nat /\ DOMAIN raw = 1 .. n /\ AreBreakdowns(raw)
      /\ Len(runtime) \in Nat /\ DOMAIN runtime = 1 .. Len(runtime)
  BY RowsAreBreakdowns
<1>2. /\ DOMAIN all = 1 .. n + Len(runtime)
      /\ \A k \in 1 .. n : all[k] = raw[k]
      /\ \A k \in DOMAIN all : k > n => k - n \in DOMAIN runtime /\ all[k] = runtime[k - n]
      /\ AreBreakdowns(charges)
  BY TheseAreBoth, KeptAreBreakdowns DEF BothLists
<1>3. projects = MergeProjectBreakdowns(charges)
  BY DEF WithRuntimeExtras, Kept
<1>7. /\ \A k \in DOMAIN raw : NormalizeProjectName(raw[k].name) = Canonical(raw[k].project)
      /\ \A k \in DOMAIN runtime : NormalizeProjectName(runtime[k].name) = Canonical(runtime[k].project)
  BY DEF NamesAreHomes
<1> HIDE DEF raw, runtime, all, n
<1>4. DOMAIN charges = kept /\ kept \subseteq DOMAIN all /\ \A k \in kept : k > n => IsNewName(all, k)
  <2>1. \A k \in DOMAIN all : k > n => ~(k <= n)
    BY <1>1, <1>2
  <2> QED BY <2>1 DEF Kept
<1>5. 1 .. n \subseteq kept
  <2>1. \A k \in 1 .. n : k \in DOMAIN all /\ k <= n
    BY <1>1, <1>2
  <2> QED BY <2>1 DEF Kept
<1>6. \A k \in kept : charges[k] = all[k]
  OBVIOUS
<1> HIDE DEF kept, charges
<1>8. S # {} /\ S = {k \in kept : NormalizeProjectName(all[k].name) = p}
  BY <1>3, <1>4, <1>6 DEF MergeProjectBreakdowns, ChargedTo
<1>9. projects[p].tokens = SumFunctionOnSet(f, S)
  BY <1>2, <1>3, TokensOfProject
<1>10. IsFiniteSet(S) /\ \A k \in S : f[k] = all[k].use.tokens /\ f[k] \in Nat
  <2>1. S \subseteq DOMAIN charges /\ IsFiniteSet(DOMAIN charges)
    BY <1>2, <1>4, <1>8 DEF AreBreakdowns
  <2>2. \A k \in S : f[k] = all[k].use.tokens /\ f[k] \in Nat
    BY <1>2, <1>4, <1>6, <2>1 DEF AreBreakdowns, Breakdown
  <2> QED BY <2>1, <2>2, FS_Subset
<1> HIDE DEF S, f
<1>11. \A k \in S : k > n => \A j \in S : j < k => FALSE
  <2> SUFFICES ASSUME NEW k \in S, k > n, NEW j \in S, j < k PROVE FALSE
    OBVIOUS
  <2>1. j \in 1 .. k - 1
    BY <1>1, <1>2, <1>4, <1>8
  <2> QED BY <1>4, <1>8, <2>1 DEF IsNewName
<1>12. CASE RowsOf(raw, p) # {}
  <2>1. PICK r \in 1 .. n : NormalizeProjectName(raw[r].name) = p
    BY <1>1, <1>7, <1>12 DEF RowsOf
  <2>2. r \in S /\ r <= n
    BY <1>1, <1>2, <1>5, <1>8, <2>1
  <2>3. \A k \in S : k <= n
    BY <1>1, <1>2, <1>4, <1>8, <1>11, <2>1, <2>2
  <2>4. S = RowsOf(raw, p)
    BY <1>1, <1>2, <1>4, <1>5, <1>7, <1>8, <2>3 DEF RowsOf
  <2> DEFINE g == [i \in RowsOf(raw, p) |-> raw[i].use.tokens]
  <2>5. Stated(raw, p) = SumFunctionOnSet(g, S)
    BY <2>4 DEF Stated, SumFunction
  <2>6. \A k \in S : f[k] = g[k]
    BY <1>1, <1>2, <1>10, <2>4 DEF RowsOf
  <2> HIDE DEF g
  <2>7. SumFunctionOnSet(f, S) = SumFunctionOnSet(g, S)
    BY <1>10, <2>6, SumOfEquals
  <2> QED BY <1>9, <1>12, <2>5, <2>7 DEF raw
<1>13. CASE RowsOf(raw, p) = {}
  <2>1. PICK k \in S : TRUE
    BY <1>8
  <2>2. \A j \in S : j > n
    BY <1>1, <1>2, <1>4, <1>7, <1>8, <1>13 DEF RowsOf
  <2>3. S = {k}
    <3> SUFFICES ASSUME NEW j \in S, j # k PROVE FALSE
      BY <2>1
    <3>1. j \in Int /\ k \in Int
      BY <1>1, <1>2, <1>4, <1>8, <2>1
    <3>2. j < k \/ k < j
      BY <3>1
    <3> QED BY <1>11, <2>1, <2>2, <3>2
  <2>4. k - n \in RowsOf(runtime, p) /\ all[k] = runtime[k - n]
    BY <1>2, <1>4, <1>7, <1>8, <2>1, <2>2 DEF RowsOf
  <2>5. SumFunctionOnSet(f, S) = f[k]
    <3>1. SumFunctionOnSet(f, S) = f[k] + SumFunctionOnSet(f, S \ {k})
      BY <1>10, <2>1, SumRemove
    <3>2. S \ {k} = {} /\ f[k] \in Nat
      BY <1>10, <2>3
    <3> QED BY <3>1, <3>2, SumOfNothing
  <2>6. projects[p].tokens = runtime[k - n].use.tokens
    BY <1>9, <1>10, <2>1, <2>4, <2>5
  <2> QED BY <1>13, <2>4, <2>6 DEF raw, runtime
<1> QED BY <1>12, <1>13

(* A window's breakdowns and what they are made of.                        *)
LEMMA WindowAgrees ==
  ASSUME NamesAreHomes, NEW payload \in Payloads,
         NEW projects, projects = AggregatesFromRaw(payload.rows),
         payload.source # "codex",
         NEW window, window.byProject = projects, window.byModel = Models(projects),
         Consistent(payload) => window.requests \in {RequestsOf(projects),
                             SumFunction([k \in DOMAIN payload.rows |-> payload.rows[k].use.requests])}
  PROVE  Agrees(window, payload)
<1> DEFINE raw == payload.rows
           all == Together(raw, DOMAIN raw)
<1>1. Consistent(payload) => AreCharges(raw)
  BY RowsAreBreakdowns
<1>2. ASSUME Consistent(payload)
      PROVE  /\ TokensOf(projects) = all.tokens /\ TokensOf(Models(projects)) = all.tokens
             /\ RequestsOf(projects) = all.requests /\ RequestsOf(Models(projects)) = all.requests
  <2> HIDE DEF all, raw
  <2>1. projects = MergeProjectBreakdowns(raw)
    BY DEF raw, AggregatesFromRaw
  <2> QED BY <1>1, <1>2, <2>1, MergedAddUp DEF all
<1>3. all.requests = SumFunction([k \in DOMAIN raw |-> raw[k].use.requests])
  BY DEF Together
<1>4. \A k \in DOMAIN raw : Canonical(raw[k].project) \in DOMAIN projects
  BY DEF NamesAreHomes, AggregatesFromRaw, MergeProjectBreakdowns
<1>5. \A p \in DOMAIN projects : RowsOf(raw, p) # {} /\ projects[p].tokens = Stated(raw, p)
  BY RowsAgree
<1> HIDE DEF all
<1>6. Consistent(payload) => AddsUp(window)
  BY <1>2, <1>3 DEF AddsUp
<1> QED BY <1>4, <1>5, <1>6 DEF Agrees, SharesObserved, CarriesObserved

(* The rows that are kept of Codex's payload: all that are for projects,   *)
(* and of the runtime's, one for each project that only it names.          *)
LEMMA KeptRows ==
  ASSUME NamesAreHomes, NEW payload \in Payloads,
         NEW all, all = payload.rows \o payload.runtime,
         NEW n, n = Len(payload.rows)
  PROVE  /\ 1 .. n \subseteq Kept(all, n)
         /\ \A k \in Kept(all, n) : k > n => k - n \in RuntimeOnly(payload)
         /\ \A j \in RuntimeOnly(payload) :
              /\ \E k \in Kept(all, n) :
                   NormalizeProjectName(all[k].name) = Canonical(payload.runtime[j].project)
              /\ NamedOnce(payload) => n + j \in Kept(all, n)
<1> DEFINE raw == payload.rows
           runtime == payload.runtime
           P(k) == NormalizeProjectName(all[k].name)
<1>1. /\ n \in Nat /\ DOMAIN raw = 1 .. n
      /\ Len(runtime) \in Nat /\ DOMAIN runtime = 1 .. Len(runtime)
  BY RowsAreBreakdowns
<1>2. /\ DOMAIN all = 1 .. n + Len(runtime)
      /\ \A k \in 1 .. n : all[k] = raw[k]
      /\ \A k \in DOMAIN all : k > n => k - n \in DOMAIN runtime /\ all[k] = runtime[k - n]
      /\ \A j \in DOMAIN runtime : n + j \in DOMAIN all /\ n + j > n /\ all[n + j] = runtime[j]
  BY TheseAreBoth DEF BothLists
<1>3. /\ \A k \in 1 .. n : P(k) = Canonical(raw[k].project)
      /\ \A j \in DOMAIN runtime : P(n + j) = Canonical(runtime[j].project)
  <2>1. \A k \in DOMAIN raw : NormalizeProjectName(raw[k].name) = Canonical(raw[k].project)
    BY DEF NamesAreHomes
  <2>2. \A j \in DOMAIN runtime :
          NormalizeProjectName(runtime[j].name) = Canonical(runtime[j].project)
    BY DEF NamesAreHomes
  <2> HIDE DEF raw, runtime
  <2> QED BY <1>1, <1>2, <2>1, <2>2
<1>4. \A j \in DOMAIN runtime :
        j \in RuntimeOnly(payload) <=> \A i \in 1 .. n : P(i) # P(n + j)
  <2> TAKE j \in DOMAIN runtime
  <2>1. j \in RuntimeOnly(payload)
          <=> \A i \in DOMAIN raw : Canonical(raw[i].project) # Canonical(runtime[j].project)
    BY DEF RuntimeOnly, RowsOf
  <2> HIDE DEF raw, runtime, P
  <2> QED BY <1>1, <1>3, <2>1
<1> HIDE DEF raw, runtime
<1>5. 1 .. n \subseteq Kept(all, n)
  BY <1>1, <1>2 DEF Kept
<1>6. ASSUME NEW k \in Kept(all, n), k > n
      PROVE  k - n \in RuntimeOnly(payload)
  <2>1. k \in DOMAIN all /\ IsNewName(all, k) /\ k - n \in DOMAIN runtime /\ k = n + (k - n)
    BY <1>1, <1>2, <1>6 DEF Kept
  <2>2. \A i \in 1 .. n : i \in 1 .. k - 1
    BY <1>1, <1>2, <1>6, <2>1
  <2>3. \A i \in 1 .. n : P(i) # P(k)
    BY <2>1, <2>2 DEF IsNewName
  <2> QED BY <1>4, <2>1, <2>3
<1>7. ASSUME NEW j \in RuntimeOnly(payload)
      PROVE  /\ \E k \in Kept(all, n) : P(k) = Canonical(runtime[j].project)
             /\ NamedOnce(payload) => n + j \in Kept(all, n)
  <2>1. j \in DOMAIN runtime /\ n + j \in DOMAIN all /\ P(n + j) = Canonical(runtime[j].project)
    BY <1>2, <1>3 DEF RuntimeOnly, runtime
  <2> DEFINE Q == {k \in DOMAIN all : P(k) = P(n + j)}
  <2>2. Q \in SUBSET Nat /\ Q # {}
    <3>1. DOMAIN all \in SUBSET Nat
      BY <1>1, <1>2
    <3>2. n + j \in Q
      BY <2>1
    <3> QED BY <3>1, <3>2
  <2>3. PICK k \in Q : \A m \in Q : k <= m
    <3> HIDE DEF Q
    <3> QED BY <2>2, LeastNatural
  <2>4. k \in DOMAIN all /\ IsNewName(all, k)
    <3> SUFFICES ASSUME NEW m \in 1 .. k - 1, P(m) = P(k) PROVE FALSE
      BY <2>3 DEF IsNewName
    <3>1. m \in DOMAIN all /\ ~(k <= m)
      BY <1>1, <1>2, <2>3
    <3>2. m \in Q
      BY <2>3, <3>1
    <3> QED BY <2>3, <3>1, <3>2
  <2>5. k \in Kept(all, n)
    BY <2>4 DEF Kept
  <2>6. ASSUME NamedOnce(payload) PROVE n + j \in Kept(all, n)
    <3>1. ~(k \in 1 .. n)
      BY <1>4, <2>1, <2>3
    <3>2. k > n /\ k \in Int
      BY <1>1, <1>2, <2>4, <3>1
    <3>3. k - n \in RuntimeOnly(payload) /\ k - n \in DOMAIN runtime /\ n + (k - n) = k
      BY <1>1, <1>2, <1>6, <2>4, <2>5, <3>2
    <3>4. Canonical(runtime[k - n].project) = Canonical(runtime[j].project)
      BY <1>3, <2>1, <2>3, <3>3
    <3>5. k - n = j
      BY <2>6, <3>3, <3>4 DEF NamedOnce, runtime
    <3> QED BY <2>5, <3>3, <3>5
  <2> QED BY <2>1, <2>3, <2>5, <2>6
<1> QED BY <1>5, <1>6, <1>7 DEF runtime

(* Where each of these projects has one raw name, what is kept is what is  *)
(* observed.                                                               *)
LEMMA KeptIsObserved ==
  ASSUME NamesAreHomes, NEW payload \in Payloads, NamedOnce(payload),
         NEW all, all = payload.rows \o payload.runtime,
         NEW n, n = Len(payload.rows)
  PROVE  SumFunctionOnSet([k \in Kept(all, n) |-> all[k].use.tokens], Kept(all, n))
           = Observed(payload)
<1> DEFINE raw == payload.rows
           runtime == payload.runtime
           kept == Kept(all, n)
           more == {k \in kept : k > n}
           only == RuntimeOnly(payload)
           f == [k \in kept |-> all[k].use.tokens]
           g == [k \in DOMAIN raw |-> raw[k].use.tokens]
           h == [j \in only |-> runtime[j].use.tokens]
           name == [k \in more |-> k - n]
<1>1. /\ n \in Nat /\ DOMAIN raw = 1 .. n
      /\ Len(runtime) \in Nat /\ DOMAIN runtime = 1 .. Len(runtime)
  BY RowsAreBreakdowns
<1>2. /\ DOMAIN all = 1 .. n + Len(runtime)
      /\ \A k \in 1 .. n : all[k] = raw[k]
      /\ \A k \in DOMAIN all : k > n => k - n \in DOMAIN runtime /\ all[k] = runtime[k - n]
      /\ \A j \in DOMAIN runtime : n + j \in DOMAIN all /\ n + j > n /\ all[n + j] = runtime[j]
  BY TheseAreBoth DEF BothLists
<1>3. /\ 1 .. n \subseteq kept /\ \A k \in kept : k > n => k - n \in only
      /\ \A j \in only : n + j \in kept
  BY KeptRows
<1>4. kept \subseteq DOMAIN all /\ only \subseteq DOMAIN runtime
  BY DEF Kept, RuntimeOnly
<1>5. IsFiniteSet(kept) /\ \A k \in kept : f[k] \in Nat
  BY KeptAreBreakdowns DEF AreBreakdowns, Breakdown
<1>6. Observed(payload) = SumFunctionOnSet(g, 1 .. n) + SumFunctionOnSet(h, only)
  BY <1>1 DEF Observed, SumFunction
<1>7. \A k \in 1 .. n : f[k] = g[k]
  BY <1>1, <1>2, <1>3
<1>8. \A j \in only : n + j \in more /\ (n + j) - n = j /\ f[n + j] = h[j]
  <2> TAKE j \in only
  <2>1. j \in DOMAIN runtime /\ j \in Int /\ n + j \in kept /\ n + j > n
    BY <1>1, <1>2, <1>3, <1>4
  <2>2. all[n + j] = runtime[j]
    BY <1>2, <2>1
  <2>3. n + j \in more
    BY <2>1
  <2>4. f[n + j] = all[n + j].use.tokens
    BY <2>1
  <2>5. h[j] = runtime[j].use.tokens
    OBVIOUS
  <2> HIDE DEF f, h, more
  <2> QED BY <1>1, <2>1, <2>2, <2>3, <2>4, <2>5
<1>9. \A k \in more : k - n \in only /\ n + (k - n) = k /\ k \in Int
  <2> TAKE k \in more
  <2>1. k \in kept /\ k > n /\ k \in DOMAIN all
    BY <1>4
  <2> HIDE DEF kept, only, more
  <2> QED BY <1>1, <1>2, <1>3, <2>1
<1>0. IsFiniteSet(1 .. n)
  BY <1>1, FS_Interval
<1> HIDE DEF raw, runtime, kept, only, f, g, h
<1>10. kept = (1 .. n) \cup more /\ (1 .. n) \cap more = {}
  <2>1. \A k \in kept : k \in 1 .. n \/ k \in more
    BY <1>1, <1>2, <1>4
  <2> QED BY <1>1, <1>3, <2>1
<1>11. SumFunctionOnSet(f, kept) = SumFunctionOnSet(f, 1 .. n) + SumFunctionOnSet(f, more)
  <2> DEFINE A == 1 .. n
  <2>1. A \in SUBSET kept /\ more \in SUBSET kept /\ A \cap more = {} /\ kept = A \cup more
    BY <1>10
  <2> HIDE DEF more, A
  <2>2. SumFunctionOnSet(f, A \cup more) = SumFunctionOnSet(f, A) + SumFunctionOnSet(f, more)
    BY <1>5, <2>1, SumOfDisjoint
  <2> QED BY <2>1, <2>2 DEF A
<1>12. SumFunctionOnSet(f, 1 .. n) = SumFunctionOnSet(g, 1 .. n)
  BY <1>0, <1>7, SumOfEquals
<1>13. SumFunctionOnSet(h, only) = SumFunctionOnSet(f, more)
  <2>1. DOMAIN name = more /\ Range(name) = only
    <3>1. \A j \in only : j = name[n + j] /\ n + j \in more
      BY <1>8
    <3>2. \A k \in more : name[k] \in only
      BY <1>9
    <3> QED BY <3>1, <3>2 DEF Range
  <2>2. IsFiniteSet(more) /\ \A k \in more : f[k] \in Nat
    BY <1>5, FS_Subset
  <2>3. ASSUME NEW j \in Range(name)
        PROVE  h[j] = SumFunctionOnSet(f, {k \in more : name[k] = j})
    <3> DEFINE T == {k \in more : name[k] = j}
    <3>1. j \in only
      BY <2>1, <2>3
    <3>2. T = {n + j}
      BY <1>8, <1>9, <3>1
    <3>3. n + j \in T /\ f[n + j] \in Nat /\ f[n + j] = h[j]
      BY <1>8, <2>2, <3>1, <3>2
    <3>4. IsFiniteSet(T) /\ (\A k \in T : f[k] \in Nat) /\ T \ {n + j} = {}
      BY <3>2, <3>3, FS_Singleton
    <3> HIDE DEF T
    <3>5. SumFunctionOnSet(f, T) = f[n + j] + SumFunctionOnSet(f, T \ {n + j})
      BY ONLY <3>3, <3>4, SumRemove
    <3>6. SumFunctionOnSet(f, T) = f[n + j]
      BY ONLY <3>3, <3>4, <3>5, SumOfNothing
    <3> QED BY <3>3, <3>6 DEF T
  <2> HIDE DEF name, more
  <2>4. SumFunctionOnSet(h, Range(name)) = SumFunctionOnSet(f, more)
    BY ONLY <2>1, <2>2, <2>3, SumByName
  <2> QED BY <2>1, <2>4
<1>14. SumFunctionOnSet(f, kept) = Observed(payload)
  BY <1>6, <1>11, <1>12, <1>13
<1> QED BY <1>14 DEF f, kept

LEMMA WindowWithExtrasAgrees ==
  ASSUME NamesAreHomes, NEW payload \in Payloads, payload.source = "codex",
         NEW projects, projects = WithRuntimeExtras(payload.rows, payload.runtime),
         NEW window, window.byProject = projects, window.byModel = Models(projects),
         window.requests = RequestsOf(projects), window.total = ObservedTotal(payload)
  PROVE  Agrees(window, payload)
<1> DEFINE raw == payload.rows
           runtime == payload.runtime
           all == raw \o runtime
           n == Len(raw)
           kept == Kept(all, n)
           charges == [k \in kept |-> all[k]]
           sum == Together(charges, DOMAIN charges)
<1>1. n \in Nat /\ DOMAIN raw = 1 .. n
  BY RowsAreBreakdowns
<1>2. /\ \A k \in 1 .. n : all[k] = raw[k]
      /\ AreBreakdowns(charges) /\ (Consistent(payload) => AreCharges(charges))
  BY TheseAreBoth, KeptAreBreakdowns DEF BothLists
<1>3. projects = MergeProjectBreakdowns(charges)
  BY DEF WithRuntimeExtras, Kept
<1>4. Consistent(payload) => AddsUp(window)
  <2> SUFFICES ASSUME Consistent(payload) PROVE AddsUp(window)
    OBVIOUS
  <2> HIDE DEF charges
  <2>1. /\ TokensOf(projects) = sum.tokens /\ TokensOf(Models(projects)) = sum.tokens
        /\ RequestsOf(projects) = sum.requests /\ RequestsOf(Models(projects)) = sum.requests
    BY <1>2, <1>3, MergedAddUp
  <2> QED BY <2>1 DEF AddsUp
<1>5. \A k \in DOMAIN raw : NormalizeProjectName(raw[k].name) = Canonical(raw[k].project)
  BY DEF NamesAreHomes
<1>6. \A p \in DOMAIN projects :
        \/ RowsOf(raw, p) # {} /\ projects[p].tokens = Stated(raw, p)
        \/ /\ RowsOf(raw, p) = {}
           /\ \E k \in RowsOf(runtime, p) : projects[p].tokens = runtime[k].use.tokens
  BY ExtrasAgree
<1>7. /\ 1 .. n \subseteq kept
      /\ \A j \in RuntimeOnly(payload) :
           \E k \in kept : NormalizeProjectName(all[k].name) = Canonical(runtime[j].project)
  BY KeptRows
<1>8. NamedOnce(payload) => SharesObserved(window, payload)
  <2> SUFFICES ASSUME NamedOnce(payload), CarriesObserved(payload)
               PROVE  TokensOf(projects) = window.total
    BY DEF SharesObserved
  <2> DEFINE f == [k \in kept |-> all[k].use.tokens]
             g == [k \in DOMAIN charges |-> charges[k].use.tokens]
  <2>1. f = g /\ DOMAIN charges = kept
    OBVIOUS
  <2>2. SumFunctionOnSet(f, kept) = Observed(payload)
    BY KeptIsObserved
  <2>3. TokensOf(projects) = SumFunctionOnSet(g, DOMAIN charges)
    <3> HIDE DEF charges
    <3> QED BY <1>2, <1>3, TokensOfAll
  <2>4. TokensOf(projects) = Observed(payload)
    <3> HIDE DEF f, g, charges, kept
    <3> QED BY <2>1, <2>2, <2>3
  <2> QED BY <2>4 DEF CarriesObserved, ObservedTotal
<1> HIDE DEF all, n, sum, raw, runtime, kept
<1>9. \A k \in kept : NormalizeProjectName(all[k].name) \in DOMAIN projects
  BY <1>3 DEF MergeProjectBreakdowns
<1> HIDE DEF charges
<1>10. \A k \in DOMAIN raw : Canonical(raw[k].project) \in DOMAIN projects
  BY <1>1, <1>2, <1>5, <1>7, <1>9
<1>11. \A k \in RuntimeOnly(payload) : Canonical(runtime[k].project) \in DOMAIN projects
  BY <1>7, <1>9
<1>12. \A k \in RuntimeOnly(payload) : RowsOf(raw, Canonical(runtime[k].project)) = {}
  BY DEF RuntimeOnly, raw, runtime
<1>13. ASSUME NEW k \in RuntimeOnly(payload), RowsOf(runtime, Canonical(runtime[k].project)) = {k}
       PROVE  projects[Canonical(runtime[k].project)].tokens = runtime[k].use.tokens
  BY <1>6, <1>11, <1>12, <1>13
<1>14. ASSUME NEW p \in DOMAIN projects, RowsOf(raw, p) = {}
       PROVE  \E k \in RuntimeOnly(payload) : Canonical(runtime[k].project) = p
  <2>1. PICK k \in RowsOf(runtime, p) : TRUE
    BY <1>6, <1>14
  <2>2. k \in RuntimeOnly(payload) /\ Canonical(runtime[k].project) = p
    BY <1>14, <2>1 DEF RowsOf, RuntimeOnly, raw, runtime
  <2> QED BY <2>2
<1> QED BY <1>4, <1>6, <1>8, <1>10, <1>11, <1>13, <1>14 DEF Agrees, raw, runtime

(* The three normalizers: every window they make of a payload agrees with  *)
(* the payload.                                                            *)
LEMMA PayloadAgrees ==
  ASSUME NamesAreHomes, NEW payload \in Payloads,
         NEW i \in DOMAIN Normalize(payload, Now).windows
  PROVE  Agrees(Normalize(payload, Now).windows[i], payload)
<1> DEFINE window == Normalize(payload, Now).windows[i]
<1>1. payload.source \in {"claude", "codex", "gemini"}
  BY PayloadsAssumption
<1>2. CASE payload.source = "claude"
  <2>1. Normalize(payload, Now) = NormalizeClaude(payload, Now)
    BY <1>2 DEF Normalize
  <2>2. /\ window.byProject = AggregatesFromRaw(payload.rows)
        /\ window.byModel = Models(window.byProject) /\ window.requests = RequestsOf(window.byProject)
    BY <2>1 DEF NormalizeClaude, Window
  <2> HIDE DEF window
  <2>3. Agrees(window, payload)
    BY <1>2, <2>2, WindowAgrees
  <2> QED BY <2>3 DEF window
<1>3. CASE payload.source = "codex"
  <2>1. Normalize(payload, Now) = NormalizeCodex(payload)
    BY <1>3 DEF Normalize
  <2>2. /\ window.byProject = WithRuntimeExtras(payload.rows, payload.runtime)
        /\ window.byModel = Models(window.byProject) /\ window.requests = RequestsOf(window.byProject)
        /\ window.total = ObservedTotal(payload)
    BY <2>1 DEF NormalizeCodex, Window
  <2> HIDE DEF window
  <2>3. Agrees(window, payload)
    BY <1>3, <2>2, WindowWithExtrasAgrees
  <2> QED BY <2>3 DEF window
<1>4. CASE payload.source = "gemini"
  <2>1. Normalize(payload, Now) = NormalizeGemini(payload)
    BY <1>4 DEF Normalize
  <2>2. /\ window.byProject = AggregatesFromRaw(payload.rows)
        /\ window.byModel = Models(window.byProject) /\ window.requests = payload.requests
    BY <2>1 DEF NormalizeGemini, Window
  <2>3. Consistent(payload) => payload.requests = SumFunction([k \in DOMAIN payload.rows |-> payload.rows[k].use.requests])
    BY <1>4 DEF Consistent
  <2> HIDE DEF window
  <2>4. Agrees(window, payload)
    BY <1>4, <2>2, <2>3, WindowAgrees
  <2> QED BY <2>4 DEF window
<1> QED BY <1>1, <1>2, <1>3, <1>4

-----------------------------------------------------------------------------
(* What the providers have: the type of it, and that it only grows.        *)
MessageType == [key : Keys, tokens : 0 .. MaxTokens]

ToolsOK ==
  /\ sessions \in [Sessions -> Seq(MessageType)]
  /\ writing \in SUBSET Sessions /\ \A f \in writing : sessions[f] # << >>
  /\ used \in [Threads -> Nat]
  /\ made \in SUBSET Requests

Grown ==
  /\ \A at \in Held : at \in Held' /\ Message(at)' = Message(at)
  /\ \A t \in Threads : used[t] <= used'[t]
  /\ made \subseteq made'

LEMMA HeldIsWhole ==
  ASSUME ToolsOK, NEW at \in Held
  PROVE  /\ at[1] \in Sessions /\ at[2] \in 1 .. MaxWritten
         /\ Len(sessions[at[1]]) \in Nat /\ at[2] <= Len(sessions[at[1]])
         /\ Message(at).key \in Keys /\ Message(at).tokens \in Nat
<1>1. at[1] \in Sessions /\ at[2] \in 1 .. MaxWritten /\ at[2] <= Whole(at[1])
  BY DEF Held
<1>2. sessions[at[1]] \in Seq(MessageType) /\ Len(sessions[at[1]]) \in Nat
  BY <1>1 DEF ToolsOK
<1>3. at[2] \in 1 .. Len(sessions[at[1]])
  BY <1>1, <1>2, BoundsAssumption DEF Whole
<1>4. Message(at) \in MessageType
  BY <1>2, <1>3 DEF Message
<1> QED BY <1>1, <1>2, <1>3, <1>4, BoundsAssumption DEF MessageType

(* Whoever appends to a file leaves what is whole of it as it is.          *)
LEMMA HeldGrows ==
  ASSUME ToolsOK, NEW at \in Held,
         \/ sessions'[at[1]] = sessions[at[1]]
         \/ \E m \in MessageType : sessions'[at[1]] = Append(sessions[at[1]], m),
         Whole(at[1]) <= Whole(at[1])', Whole(at[1])' \in Int
  PROVE  at \in Held' /\ Message(at)' = Message(at)
<1> DEFINE s == sessions[at[1]]
           t == sessions'[at[1]]
<1>1. /\ at \in Sessions \X (1 .. MaxWritten) /\ at[2] \in 1 .. Len(s)
      /\ s \in Seq(MessageType) /\ Len(s) \in Nat
      /\ at[2] <= Whole(at[1]) /\ FirstOfKey(at[1], at[2])
  BY HeldIsWhole, BoundsAssumption DEF Held, ToolsOK
<1>2. \A j \in 1 .. Len(s) : t[j] = s[j]
  BY <1>1
<1>3. Whole(at[1]) \in Int
  BY <1>1 DEF Whole
<1>4. Message(at)' = Message(at)
  BY <1>1, <1>2 DEF Message
<1>5. \A j \in 1 .. at[2] - 1 : t[j].key # t[at[2]].key
  <2> TAKE j \in 1 .. at[2] - 1
  <2>1. j \in 1 .. Len(s)
    BY <1>1
  <2>2. s[j].key # s[at[2]].key
    BY <1>1 DEF FirstOfKey
  <2> QED BY <1>1, <1>2, <2>1, <2>2
<1>6. FirstOfKey(at[1], at[2])'
  BY <1>5 DEF FirstOfKey
<1>7. at[2] <= Whole(at[1])'
  BY <1>1, <1>3
<1> QED BY <1>1, <1>4, <1>6, <1>7 DEF Held

LEMMA ToolsStep ==
  ASSUME ToolsOK, [CollectorNext]_collectorVars
  PROVE  ToolsOK' /\ Grown
<1>1. CASE UNCHANGED tools
  <2>1. Held' = Held /\ \A at \in Held : Message(at)' = Message(at)
    BY <1>1 DEF tools, Held, Whole, FirstOfKey, Message
  <2>2. \A t \in Threads : used[t] <= used'[t]
    BY <1>1 DEF tools, ToolsOK
  <2> QED BY <1>1, <2>1, <2>2 DEF tools, Grown, ToolsOK
<1>2. ASSUME NEW f \in Sessions, NEW key \in Keys, NEW n \in 0 .. MaxTokens, BeginMessage(f, key, n)
      PROVE  ToolsOK' /\ Grown
  <2> DEFINE m == [key |-> key, tokens |-> n]
  <2>1. /\ f \notin writing /\ m \in MessageType /\ sessions' = [sessions EXCEPT ![f] = Append(@, m)]
        /\ writing' = writing \cup {f} /\ UNCHANGED <<used, made>>
    BY <1>2 DEF BeginMessage, MessageType
  <2> HIDE DEF m
  <2>2. sessions[f] \in Seq(MessageType) /\ Len(sessions[f]) \in Nat
    BY DEF ToolsOK
  <2>3. /\ Append(sessions[f], m) \in Seq(MessageType) /\ Append(sessions[f], m) # << >>
        /\ Len(Append(sessions[f], m)) = Len(sessions[f]) + 1
    BY <2>1, <2>2
  <2>4. ToolsOK'
    BY <2>1, <2>3 DEF ToolsOK
  <2>5. ASSUME NEW at \in Held PROVE at \in Held' /\ Message(at)' = Message(at)
    <3>1. at[1] \in Sessions /\ Len(sessions[at[1]]) \in Nat
      BY HeldIsWhole
    <3>2. CASE at[1] = f
      <4>1. sessions'[at[1]] = Append(sessions[at[1]], m)
        BY <2>1, <3>2 DEF ToolsOK
      <4>2. Whole(at[1])' = Whole(at[1])
        BY <2>1, <2>2, <2>3, <3>2, <4>1 DEF Whole
      <4>3. Whole(at[1]) \in Int
        BY <3>1 DEF Whole
      <4> QED BY <2>1, <4>1, <4>2, <4>3, HeldGrows
    <3>3. CASE at[1] # f
      <4>1. sessions'[at[1]] = sessions[at[1]]
        BY <2>1, <3>1, <3>3 DEF ToolsOK
      <4>2. Whole(at[1])' = Whole(at[1])
        BY <2>1, <3>3, <4>1 DEF Whole
      <4>3. Whole(at[1]) \in Int
        BY <3>1 DEF Whole
      <4> QED BY <4>1, <4>2, <4>3, HeldGrows
    <3> QED BY <3>2, <3>3
  <2>6. \A t \in Threads : used[t] <= used'[t]
    BY <2>1 DEF ToolsOK
  <2> QED BY <2>1, <2>4, <2>5, <2>6 DEF Grown
<1>3. ASSUME NEW f \in Sessions, EndMessage(f)
      PROVE  ToolsOK' /\ Grown
  <2>1. writing' = writing \ {f} /\ UNCHANGED <<sessions, used, made>>
    BY <1>3 DEF EndMessage
  <2>2. ToolsOK'
    BY <2>1 DEF ToolsOK
  <2>3. ASSUME NEW at \in Held PROVE at \in Held' /\ Message(at)' = Message(at)
    <3>1. at[1] \in Sessions /\ Len(sessions[at[1]]) \in Nat
      BY HeldIsWhole
    <3>2. sessions'[at[1]] = sessions[at[1]] /\ Whole(at[1])' \in Int /\ Whole(at[1]) <= Whole(at[1])'
      BY <2>1, <3>1 DEF Whole
    <3> QED BY <3>2, HeldGrows
  <2>4. \A t \in Threads : used[t] <= used'[t]
    BY <2>1 DEF ToolsOK
  <2> QED BY <2>1, <2>2, <2>3, <2>4 DEF Grown
<1>4. ASSUME NEW f \in Sessions, NEW g \in Sessions, CopySession(f, g)
      PROVE  ToolsOK' /\ Grown
  <2>1. /\ sessions[g] = << >> /\ sessions[f] # << >>
        /\ sessions' = [sessions EXCEPT ![g] = sessions[f]] /\ UNCHANGED <<writing, used, made>>
    BY <1>4 DEF CopySession
  <2>2. ToolsOK'
    BY <2>1 DEF ToolsOK
  <2>3. ASSUME NEW at \in Held PROVE at \in Held' /\ Message(at)' = Message(at)
    <3>1. /\ at[1] \in Sessions /\ Len(sessions[at[1]]) \in Nat /\ at[2] \in 1 .. MaxWritten
          /\ at[2] <= Len(sessions[at[1]])
      BY HeldIsWhole
    <3>2. at[1] # g
      BY <2>1, <3>1
    <3>3. sessions'[at[1]] = sessions[at[1]]
      BY <2>1, <3>1, <3>2 DEF ToolsOK
    <3>4. Whole(at[1])' \in Int /\ Whole(at[1]) <= Whole(at[1])'
      BY <2>1, <3>1, <3>3 DEF Whole
    <3> QED BY <3>3, <3>4, HeldGrows
  <2>4. \A t \in Threads : used[t] <= used'[t]
    BY <2>1 DEF ToolsOK
  <2> QED BY <2>1, <2>2, <2>3, <2>4 DEF Grown
<1>5. ASSUME NEW t \in Threads, CodexRuns(t)
      PROVE  ToolsOK' /\ Grown
  <2>1. used' = [used EXCEPT ![t] = @ + 1] /\ UNCHANGED <<sessions, writing, made>>
    BY <1>5 DEF CodexRuns
  <2>2. Held' = Held /\ \A at \in Held : Message(at)' = Message(at)
    BY <2>1 DEF Held, Whole, FirstOfKey, Message
  <2>3. \A u \in Threads : used[u] <= used'[u]
    BY <2>1 DEF ToolsOK
  <2> QED BY <2>1, <2>2, <2>3 DEF ToolsOK, Grown
<1>6. ASSUME NEW r \in Requests, ClaudeRuns(r)
      PROVE  ToolsOK' /\ Grown
  <2>1. made' = made \cup {r} /\ UNCHANGED <<sessions, writing, used>>
    BY <1>6 DEF ClaudeRuns
  <2>2. Held' = Held /\ \A at \in Held : Message(at)' = Message(at)
    BY <2>1 DEF Held, Whole, FirstOfKey, Message
  <2>3. \A t \in Threads : used[t] <= used'[t]
    BY <2>1 DEF ToolsOK
  <2> QED BY <2>1, <2>2, <2>3 DEF ToolsOK, Grown
<1>7. CASE Tools
  BY <1>2, <1>3, <1>4, <1>5, <1>6, <1>7 DEF Tools
<1>8. CASE Configure
  <2>1. UNCHANGED tools
    BY <1>8 DEF Configure, EditConfig, CheckConfig, OpenConfig, WriteConfig, KillInit
  <2> QED BY <1>1, <2>1
<1>9. CASE Scan
  <2>1. UNCHANGED tools
    BY <1>9 DEF Scan, StartScan, EnterNothing, ScanClaude, ScanCodex, ListSessions, CheckSize,
                ReadSession, FinishGemini, Publish, KillScan, Enter, Idle
  <2> QED BY <1>1, <2>1
<1>10. CASE UNCHANGED collectorVars
  <2>1. UNCHANGED tools
    BY <1>10 DEF collectorVars
  <2> QED BY <1>1, <2>1
<1> QED BY <1>7, <1>8, <1>9, <1>10 DEF CollectorNext

(* Finitely many things, each with its tokens.                             *)
Amounts(f) == IsFiniteSet(DOMAIN f) /\ \A x \in DOMAIN f : f[x] \in Nat

LEMMA WorkType ==
  ASSUME ToolsOK, NEW provider \in Providers
  PROVE  Amounts(Work(provider))
<1>1. IsFiniteSet(Requests) /\ IsFiniteSet(Threads) /\ IsFiniteSet(Sessions)
  BY PlacesAssumption
<1>2. CASE provider = "claude"
  <2>1. IsFiniteSet(made)
    BY <1>1, FS_Subset DEF ToolsOK
  <2>2. Work(provider) = [r \in made |-> 1]
    BY <1>2 DEF Work
  <2> QED BY <2>1, <2>2 DEF Amounts
<1>3. CASE provider = "codex"
  <2>1. Work(provider) = used
    BY <1>3 DEF Work
  <2> QED BY <1>1, <2>1 DEF ToolsOK, Amounts
<1>4. CASE provider = "gemini"
  <2>1. Work(provider) = [at \in Held |-> Message(at).tokens]
    BY <1>4 DEF Work
  <2>2. IsFiniteSet(1 .. MaxWritten)
    BY BoundsAssumption, FS_Interval
  <2>3. IsFiniteSet(Sessions \X (1 .. MaxWritten))
    BY <1>1, <2>2, FS_Product
  <2>4. IsFiniteSet(Held)
    BY <2>3, FS_Subset DEF Held
  <2>5. \A at \in Held : Message(at).tokens \in Nat
    BY HeldIsWhole
  <2> QED BY <2>1, <2>4, <2>5 DEF Amounts
<1>5. CASE provider = "ollama"
  <2>1. Work(provider) = NoCharges
    BY <1>5 DEF Work
  <2> QED BY <2>1, FS_EmptySet DEF NoCharges, Amounts
<1> QED BY <1>2, <1>3, <1>4, <1>5 DEF Providers

Grows(f, g) == \A x \in DOMAIN f : x \in DOMAIN g /\ f[x] <= g[x]

LEMMA WorkGrows ==
  ASSUME ToolsOK, ToolsOK', Grown, NEW provider \in Providers
  PROVE  Amounts(Work(provider))' /\ Grows(Work(provider), Work(provider)')
<1>1. Amounts(Work(provider))'
  BY WorkType, PTL
<1>2. CASE provider = "claude"
  <2>1. Work(provider) = [r \in made |-> 1]
    BY <1>2 DEF Work
  <2>2. Work(provider)' = [r \in made' |-> 1]
    BY <1>2 DEF Work
  <2>3. made \subseteq made'
    BY DEF Grown
  <2> QED BY <1>1, <2>1, <2>2, <2>3 DEF Grows
<1>3. CASE provider = "codex"
  <2>1. Work(provider) = used
    BY <1>3 DEF Work
  <2>2. Work(provider)' = used'
    BY <1>3 DEF Work
  <2>3. DOMAIN used = Threads /\ DOMAIN used' = Threads /\ \A t \in Threads : used[t] <= used'[t]
    BY DEF Grown, ToolsOK
  <2> QED BY <1>1, <2>1, <2>2, <2>3 DEF Grows
<1>4. CASE provider = "gemini"
  <2>1. \A at \in Held : at \in Held' /\ Message(at)' = Message(at) /\ Message(at).tokens \in Nat
    BY HeldIsWhole DEF Grown
  <2>2. Work(provider) = [at \in Held |-> Message(at).tokens]
    BY <1>4 DEF Work
  <2>3. Work(provider)' = [at \in Held' |-> Message(at)'.tokens]
    BY <1>4 DEF Work
  <2> DEFINE f == [at \in Held |-> Message(at).tokens]
             g == [at \in Held' |-> Message(at)'.tokens]
  <2>4. DOMAIN f = Held /\ DOMAIN g = Held'
    OBVIOUS
  <2>5. \A at \in Held : f[at] = g[at] /\ f[at] \in Nat
    BY <2>1
  <2> HIDE DEF f, g
  <2>6. Grows(f, g)
    BY <2>1, <2>4, <2>5 DEF Grows
  <2> QED BY <1>1, <2>2, <2>3, <2>6 DEF f, g
<1>5. CASE provider = "ollama"
  <2>1. Work(provider) = NoCharges
    BY <1>5 DEF Work
  <2> QED BY <1>1, <2>1 DEF Grows, NoCharges
<1> QED BY <1>1, <1>2, <1>3, <1>4, <1>5 DEF Providers

LEMMA WorthGrows ==
  ASSUME ToolsOK, ToolsOK', Grown, NEW provider \in Providers,
         NEW p, NEW n \in Nat, n <= Worth(provider, p)
  PROVE  n <= Worth(provider, p)'
<1> DEFINE f == Work(provider)
           g == Work(provider)'
           S == About(provider, p)
           T == About(provider, p)'
<1>1. Amounts(f) /\ Amounts(g) /\ Grows(f, g)
  BY WorkType, WorkGrows
<1>2. Worth(provider, p) = SumFunctionOnSet(f, S) /\ Worth(provider, p)' = SumFunctionOnSet(g, T)
  BY DEF Worth
<1>3. S \subseteq DOMAIN f /\ T \subseteq DOMAIN g /\ S \subseteq T
  BY <1>1 DEF About, Grows
<1> HIDE DEF f, g, S, T
<1>4. IsFiniteSet(T) /\ \A x \in T : g[x] \in Nat
  BY <1>1, <1>3, FS_Subset DEF Amounts
<1>5. \A x \in S : f[x] \in Nat /\ f[x] <= g[x]
  BY <1>1, <1>3 DEF Amounts, Grows
<1>6. /\ SumFunctionOnSet(f, S) \in Nat /\ SumFunctionOnSet(g, T) \in Nat
      /\ SumFunctionOnSet(f, S) <= SumFunctionOnSet(g, T)
  BY <1>3, <1>4, <1>5, SumGrows
<1> QED BY <1>2, <1>6

LEMMA AllWorkGrows ==
  ASSUME ToolsOK, ToolsOK', Grown, NEW provider \in Providers,
         NEW n \in Nat, n <= SumFunction(Work(provider))
  PROVE  n <= SumFunction(Work(provider)')
<1> DEFINE f == Work(provider)
           g == Work(provider)'
<1>1. Amounts(f) /\ Amounts(g) /\ Grows(f, g)
  BY WorkType, WorkGrows
<1> SUFFICES n <= SumFunctionOnSet(g, DOMAIN g)
  BY DEF SumFunction
<1>2. n <= SumFunctionOnSet(f, DOMAIN f)
  BY DEF SumFunction
<1> HIDE DEF f, g
<1>3. /\ SumFunctionOnSet(f, DOMAIN f) \in Nat /\ SumFunctionOnSet(g, DOMAIN g) \in Nat
      /\ SumFunctionOnSet(f, DOMAIN f) <= SumFunctionOnSet(g, DOMAIN g)
  <2>1. DOMAIN f \subseteq DOMAIN g /\ IsFiniteSet(DOMAIN g)
    BY <1>1 DEF Amounts, Grows
  <2>2. (\A x \in DOMAIN f : f[x] \in Nat /\ f[x] <= g[x]) /\ \A x \in DOMAIN g : g[x] \in Nat
    BY <1>1 DEF Amounts, Grows
  <2> QED BY <2>1, <2>2, SumGrows
<1> QED BY <1>2, <1>3

(* The order of the providers is one.                                      *)
LEMMA RankOrders ==
  \A p, q \in Providers : Rank[p] \in Nat /\ (Rank[p] <= Rank[q] /\ p # q => Rank[p] < Rank[q])
<1> DEFINE rank(p) ==
             CASE p = "claude" -> 1 [] p = "codex" -> 2 [] p = "gemini" -> 3 [] p = "ollama" -> 4
<1>1. \A p \in Providers : Rank[p] = rank(p)
  BY DEF Rank
<1>2. rank("claude") = 1 /\ rank("codex") = 2 /\ rank("gemini") = 3 /\ rank("ollama") = 4
  OBVIOUS
<1> HIDE DEF rank
<1>3. Rank["claude"] = 1 /\ Rank["codex"] = 2 /\ Rank["gemini"] = 3 /\ Rank["ollama"] = 4
  BY <1>1, <1>2 DEF Providers
<1> QED BY <1>3 DEF Providers

(* Sequences whatever their elements are, and what Append makes of them.   *)
Extends(t, s, e) ==
  /\ t \in Seq(ToSet(t)) /\ Len(s) \in Nat /\ DOMAIN s = 1 .. Len(s)
  /\ DOMAIN t = 1 .. Len(s) + 1 /\ t[Len(s) + 1] = e /\ \A i \in DOMAIN s : t[i] = s[i]

LEMMA Appended ==
  ASSUME NEW s, s \in Seq(ToSet(s)), NEW e
  PROVE  Extends(Append(s, e), s, e)
<1> DEFINE T == ToSet(s) \cup {e}
           t == Append(s, e)
<1>1. s \in Seq(T) /\ e \in T
  OBVIOUS
<1>0. t = Append(s, e)
  OBVIOUS
<1> HIDE DEF T, t
<1>2. /\ t \in Seq(T) /\ Len(t) = Len(s) + 1 /\ Len(s) \in Nat
      /\ (\A i \in 1 .. Len(s) : t[i] = s[i]) /\ t[Len(s) + 1] = e
  BY <1>0, <1>1, AppendProperties
<1>3. DOMAIN s = 1 .. Len(s) /\ DOMAIN t = 1 .. Len(s) + 1
  BY <1>1, <1>2
<1>4. PICK n \in Nat : t \in [1 .. n -> T]
  <2>1. t \in UNION {[1 .. n -> T] : n \in Nat}
    BY ONLY <1>2, SeqDef, Zenon
  <2> QED BY <2>1
<1>5. t \in Seq(ToSet(t))
  <2>1. \A i \in 1 .. n : t[i] \in ToSet(t)
    BY <1>4 DEF ToSet
  <2>2. t \in [1 .. n -> ToSet(t)]
    BY <1>4, <2>1
  <2> QED BY <2>2, SeqDef
<1>6. Extends(t, s, e)
  BY <1>2, <1>3, <1>5 DEF Extends
<1> QED BY <1>6 DEF t

(* The entries es of a scan that was asked for the providers of from, when *)
(* they had base, and has yet to come to those in left.                    *)
Complete(es, from, base, left) ==
  /\ es \in Seq(ToSet(es))
  /\ {es[i].source : i \in DOMAIN es} \cup left = EnabledProviderNames(from)
  /\ \A i \in DOMAIN es : \A p \in left : Rank[es[i].source] < Rank[p]
  /\ \A i, j \in DOMAIN es : i < j => Rank[es[i].source] < Rank[es[j].source]
  /\ \A i \in DOMAIN es : es[i].quiet =>
       es[i].windows # << >> /\ (es[i].missed \/ es[i].windows[1].total >= base[es[i].source])

(* It stays so when the first of left is entered.                          *)
LEMMA CompleteStep ==
  ASSUME NEW es, NEW from, NEW base, NEW left \in SUBSET Providers, Complete(es, from, base, left),
         NEW source \in left, \A p \in left : Rank[source] <= Rank[p],
         NEW e, e.source = source,
         e.quiet => e.windows # << >> /\ (e.missed \/ e.windows[1].total >= base[source])
  PROVE  Complete(Append(es, e), from, base, left \ {source})
<1> DEFINE t == Append(es, e)
<1>0. t = Append(es, e) /\ es \in Seq(ToSet(es))
  BY DEF Complete
<1> HIDE DEF t
<1>1. /\ t \in Seq(ToSet(t)) /\ Len(es) \in Nat /\ DOMAIN es = 1 .. Len(es)
      /\ DOMAIN t = 1 .. Len(es) + 1 /\ t[Len(es) + 1] = e /\ \A i \in DOMAIN es : t[i] = es[i]
  <2>1. Extends(t, es, e)
    BY <1>0, Appended
  <2> QED BY <2>1 DEF Extends
<1>2. DOMAIN t = DOMAIN es \cup {Len(es) + 1}
  BY <1>1
<1>3. {t[i].source : i \in DOMAIN t} = {es[i].source : i \in DOMAIN es} \cup {source}
  BY <1>1, <1>2
<1>4. {t[i].source : i \in DOMAIN t} \cup (left \ {source}) = EnabledProviderNames(from)
  BY <1>3 DEF Complete
<1>5. \A i \in DOMAIN t : \A p \in left \ {source} : Rank[t[i].source] < Rank[p]
  BY <1>1, <1>2, RankOrders DEF Complete
<1>6. \A i, j \in DOMAIN t : i < j => Rank[t[i].source] < Rank[t[j].source]
  <2> SUFFICES ASSUME NEW i \in DOMAIN t, NEW j \in DOMAIN t, i < j
               PROVE  Rank[t[i].source] < Rank[t[j].source]
    OBVIOUS
  <2>1. i \in DOMAIN es
    BY <1>1
  <2>2. CASE j \in DOMAIN es
    BY <1>1, <2>1, <2>2 DEF Complete
  <2>3. CASE j = Len(es) + 1
    BY <1>1, <2>1, <2>3 DEF Complete
  <2> QED BY <1>2, <2>2, <2>3
<1>7. \A i \in DOMAIN t : t[i].quiet =>
        t[i].windows # << >> /\ (t[i].missed \/ t[i].windows[1].total >= base[t[i].source])
  BY <1>1, <1>2 DEF Complete
<1>8. Complete(t, from, base, left \ {source})
  BY <1>1, <1>4, <1>5, <1>6, <1>7 DEF Complete
<1> QED BY <1>8 DEF t

-----------------------------------------------------------------------------
RawName(provider, x) ==
  IF provider = "claude" THEN <<Directory[x]>> ELSE IF provider = "codex" THEN Cwd[x] ELSE Root[x[1]]

(* Charges for what a provider has, of no more than it is, under the name  *)
(* the provider has for its place.                                         *)
ChargesOf(provider, charges) ==
  \A x \in DOMAIN charges :
    /\ x \in DOMAIN Work(provider) /\ Sound(charges[x].use)
    /\ charges[x].use.tokens <= Work(provider)[x] /\ charges[x].name = RawName(provider, x)

LEMMA ChargesAre ==
  ASSUME ToolsOK, NEW provider \in Providers, NEW charges, ChargesOf(provider, charges)
  PROVE  AreCharges(charges)
<1>1. DOMAIN charges \subseteq DOMAIN Work(provider) /\ IsFiniteSet(DOMAIN Work(provider))
  BY WorkType DEF ChargesOf, Amounts
<1>2. IsFiniteSet(DOMAIN charges)
  BY <1>1, FS_Subset
<1> QED BY <1>2 DEF ChargesOf, AreCharges

LEMMA TotalOf ==
  ASSUME NEW charges, AreCharges(charges),
         NEW f, \A x \in DOMAIN charges : charges[x].use.tokens = f[x]
  PROVE  LocalAll(charges).total = SumFunctionOnSet(f, DOMAIN charges)
<1> DEFINE g == [x \in DOMAIN charges |-> charges[x].use.tokens]
<1>1. LocalAll(charges).total = SumFunctionOnSet(g, DOMAIN charges)
  BY LocalAddsUp
<1>2. IsFiniteSet(DOMAIN charges) /\ \A x \in DOMAIN charges : g[x] = f[x]
  BY DEF AreCharges
<1> HIDE DEF g
<1> QED BY <1>1, <1>2, SumOfEquals

(* A scan that leaves nothing out has all that the provider has.           *)
LEMMA TotalOfAll ==
  ASSUME ToolsOK, NEW provider \in Providers, NEW charges, ChargesOf(provider, charges),
         \A x \in DOMAIN charges : charges[x].use.tokens = Work(provider)[x],
         \A x \in DOMAIN Work(provider) \ DOMAIN charges : Work(provider)[x] = 0
  PROVE  LocalAll(charges).total = SumFunction(Work(provider))
<1> DEFINE f == Work(provider)
           S == DOMAIN charges
<1>1. Amounts(f) /\ S \subseteq DOMAIN f /\ AreCharges(charges)
  BY WorkType, ChargesAre DEF ChargesOf
<1>2. LocalAll(charges).total = SumFunctionOnSet(f, S)
  BY <1>1, TotalOf
<1>3. \A x \in DOMAIN f \ S : f[x] = 0
  OBVIOUS
<1> HIDE DEF f, S
<1>4. SumFunctionOnSet(f, DOMAIN f) = SumFunctionOnSet(f, S)
  BY <1>1, <1>3, SumOfSupport DEF Amounts
<1> QED BY <1>2, <1>4 DEF f, SumFunction

LEMMA PlacesAreNamed ==
  ASSUME NamesAreHomes, ToolsOK, NEW provider \in Providers, NEW x \in DOMAIN Work(provider)
  PROVE  NormalizeProjectName(RawName(provider, x)) = Canonical(Home[Place(provider, x)])
<1>1. CASE provider = "claude"
  <2>1. Work(provider) = [r \in made |-> 1]
    BY <1>1 DEF Work
  <2>2. x \in Requests
    BY <2>1 DEF ToolsOK
  <2> QED BY <1>1, <2>2 DEF NamesAreHomes, RawName, Place
<1>2. CASE provider = "codex"
  <2>1. Work(provider) = used
    BY <1>2 DEF Work
  <2>2. x \in Threads
    BY <2>1 DEF ToolsOK
  <2> QED BY <1>2, <2>2 DEF NamesAreHomes, RawName, Place
<1>3. CASE provider = "gemini"
  <2>1. Work(provider) = [at \in Held |-> Message(at).tokens]
    BY <1>3 DEF Work
  <2>2. x[1] \in Sessions
    BY <2>1, HeldIsWhole
  <2> QED BY <1>3, <2>2 DEF NamesAreHomes, RawName, Place
<1>4. CASE provider = "ollama"
  <2>1. Work(provider) = NoCharges
    BY <1>4 DEF Work
  <2> QED BY <2>1 DEF NoCharges
<1> QED BY <1>1, <1>2, <1>3, <1>4 DEF Providers

(* A project is charged with no more than its share of what the provider   *)
(* has.                                                                    *)
LEMMA LocalPays ==
  ASSUME NamesAreHomes, ToolsOK, NEW provider \in Providers,
         NEW charges, ChargesOf(provider, charges), NEW p \in DOMAIN LocalAll(charges).byProject
  PROVE  /\ LocalAll(charges).byProject[p].tokens \in Nat
         /\ LocalAll(charges).byProject[p].tokens <= Worth(provider, p)
<1> DEFINE f == [x \in DOMAIN charges |-> charges[x].use.tokens]
           g == Work(provider)
           S == ChargedTo(charges, p)
           T == About(provider, p)
           tokens == LocalAll(charges).byProject[p].tokens
<1>1. AreCharges(charges) /\ Amounts(g)
  BY WorkType, ChargesAre
<1>2. LocalAll(charges).byProject = MergeProjectBreakdowns(charges)
  BY DEF LocalAll, Window
<1>3. tokens = SumFunctionOnSet(f, S)
  BY <1>1, <1>2, TokensOfProject, ChargesAreBreakdowns
<1>4. Worth(provider, p) = SumFunctionOnSet(g, T)
  BY DEF Worth
<1>5. S \subseteq T
  <2> SUFFICES ASSUME NEW x \in S PROVE x \in T
    OBVIOUS
  <2>1. /\ x \in DOMAIN charges /\ NormalizeProjectName(charges[x].name) = p
        /\ x \in DOMAIN Work(provider) /\ charges[x].name = RawName(provider, x)
    BY DEF ChargedTo, ChargesOf
  <2> QED BY <2>1, PlacesAreNamed DEF About
<1>6. \A x \in S : f[x] \in Nat /\ f[x] <= g[x]
  BY DEF ChargedTo, ChargesOf, Sound, Breakdown
<1>7. IsFiniteSet(T) /\ \A x \in T : g[x] \in Nat
  BY <1>1, FS_Subset DEF About, Amounts
<1> HIDE DEF f, g, S, T, tokens
<1>8. /\ SumFunctionOnSet(f, S) \in Nat /\ SumFunctionOnSet(g, T) \in Nat
      /\ SumFunctionOnSet(f, S) <= SumFunctionOnSet(g, T)
  BY <1>5, <1>6, <1>7, SumGrows
<1> QED BY <1>3, <1>4, <1>8 DEF tokens

-----------------------------------------------------------------------------
(* A configuration is one that init or the user has written.               *)
ConfigOK == config \in {Nothing, Torn, NoConfig, DefaultConfig} \cup Contents

ScanOK ==
  /\ todo \in SUBSET Providers
  /\ floor \in [Providers -> Nat]
  /\ file \in Sessions \cup {Nothing}
  /\ pending \in (SUBSET Sessions) \cup {Nothing}
  /\ pending = Nothing => file = Nothing
  /\ pending # Nothing =>
       asked # Nothing /\ "gemini" \in todo /\ \A p \in todo : Rank["gemini"] <= Rank[p]

(* What has been read of the sessions.                                     *)
TallyOK ==
  /\ ChargesOf("gemini", tally)
  /\ \A at \in DOMAIN tally : at \in Held /\ tally[at].use.tokens = Message(at).tokens

(* The providers the scan has not come to have at least what they had when *)
(* it began.                                                               *)
WorkRemains == asked # Nothing => \A p \in todo : floor[p] <= SumFunction(Work(p))

ScanIsComplete == asked # Nothing => Complete(entries, asked, floor, todo)
BundleIsComplete == bundle # Nothing => Complete(bundle.entries, bundle.asked, bundle.floor, {})

(* Of Gemini it is the messages of some files: each of them is in a file   *)
(* that is still to be read or has been read, or something is missing.     *)
Reached(at) == at[1] \in pending \/ at[1] = file \/ at \in DOMAIN tally

FloorOf(S) ==
  /\ S \subseteq Held
  /\ floor["gemini"] = SumFunctionOnSet(Work("gemini"), S)
  /\ pending # Nothing => \/ warned \/ missed
                          \/ \A at \in S : Message(at).tokens > 0 => Reached(at)

FloorIsHeld == asked # Nothing => \E S : FloorOf(S)

QuietInv ==
  /\ ToolsOK /\ ConfigOK /\ ScanOK /\ TallyOK /\ WorkRemains
  /\ ScanIsComplete /\ BundleIsComplete /\ FloorIsHeld

LEMMA NothingIsCharged ==
  NoCharges = [x \in {} |-> x] /\ DOMAIN NoCharges = {} /\ \A p : ChargesOf(p, NoCharges)
BY DEF NoCharges, ChargesOf

LEMMA QuietInit == CollectorInit => QuietInv
<1> SUFFICES ASSUME CollectorInit PROVE QuietInv
  OBVIOUS
<1> USE DEF CollectorInit
<1>1. ToolsOK
  BY DEF ToolsOK
<1>2. ConfigOK /\ ScanOK
  BY PlacesAssumption DEF ConfigOK, ScanOK
<1>3. TallyOK
  BY NothingIsCharged DEF TallyOK
<1> QED BY <1>1, <1>2, <1>3 DEF QuietInv, WorkRemains, ScanIsComplete, BundleIsComplete, FloorIsHeld

LEMMA SameWork ==
  ASSUME UNCHANGED tools
  PROVE  /\ Held' = Held /\ \A at : Message(at)' = Message(at)
         /\ \A p : Work(p)' = Work(p)
         /\ \A p, charges : ChargesOf(p, charges)' = ChargesOf(p, charges)
         /\ \A p, q : Worth(p, q)' = Worth(p, q)
<1>1. sessions' = sessions /\ writing' = writing /\ used' = used /\ made' = made
  BY DEF tools
<1>2. Held' = Held /\ \A at : Message(at)' = Message(at)
  BY <1>1 DEF Held, Message, Whole, FirstOfKey
<1>3. \A p : Work(p)' = Work(p)
  BY <1>1, <1>2 DEF Work
<1>4. \A p, charges : ChargesOf(p, charges)' = ChargesOf(p, charges)
  BY <1>3 DEF ChargesOf
<1>5. \A p, q : Worth(p, q)' = Worth(p, q)
  BY <1>3 DEF Worth, About
<1> QED BY <1>2, <1>3, <1>4, <1>5

(* The tools may go on during a scan.                                      *)
LEMMA ToolsKeep ==
  ASSUME QuietInv, ToolsOK', Grown, UNCHANGED <<scan, listing, bundle>>
  PROVE  ScanOK' /\ TallyOK' /\ WorkRemains' /\ ScanIsComplete' /\ BundleIsComplete' /\ FloorIsHeld'
<1> USE DEF QuietInv
<1>1. UNCHANGED <<asked, todo, entries, floor, pending, file, tally, warned, missed, bundle>>
  BY DEF scan, listing
<1>2. ScanOK' /\ ScanIsComplete' /\ BundleIsComplete'
  BY <1>1 DEF ScanOK, ScanIsComplete, BundleIsComplete
<1>3. /\ "gemini" \in Providers /\ Work("gemini") = [at \in Held |-> Message(at).tokens]
      /\ Work("gemini")' = [at \in Held' |-> Message(at)'.tokens]
  BY DEF Providers, Work
<1>4. \A at \in Held :
        /\ at \in Held' /\ Message(at)' = Message(at)
        /\ Work("gemini")[at] = Message(at).tokens /\ Work("gemini")'[at] = Message(at).tokens
  BY <1>3 DEF Grown
<1>5. TallyOK'
  <2>1. \A at \in DOMAIN tally : at \in Held' /\ tally[at].use.tokens = Message(at)'.tokens
    BY <1>4 DEF TallyOK
  <2>2. \A at \in DOMAIN tally :
          /\ at \in DOMAIN Work("gemini")' /\ Sound(tally[at].use)
          /\ tally[at].use.tokens <= Work("gemini")'[at] /\ tally[at].name = RawName("gemini", at)
    <3> TAKE at \in DOMAIN tally
    <3>1. /\ at \in Held /\ Sound(tally[at].use) /\ tally[at].use.tokens = Message(at).tokens
          /\ tally[at].name = RawName("gemini", at)
      BY DEF TallyOK, ChargesOf
    <3>2. tally[at].use.tokens \in Nat
      BY <3>1 DEF Sound, Breakdown
    <3> QED BY <1>3, <1>4, <3>1, <3>2
  <2> QED BY <1>1, <2>1, <2>2 DEF TallyOK, ChargesOf
<1>6. WorkRemains'
  <2> SUFFICES ASSUME asked # Nothing, NEW p \in todo PROVE floor[p] <= SumFunction(Work(p)')
    BY <1>1 DEF WorkRemains
  <2>1. p \in Providers /\ floor[p] \in Nat /\ floor[p] <= SumFunction(Work(p))
    BY DEF WorkRemains, ScanOK
  <2> QED BY <2>1, AllWorkGrows
<1>7. FloorIsHeld'
  <2> SUFFICES ASSUME asked # Nothing PROVE \E S : FloorOf(S)'
    BY <1>1 DEF FloorIsHeld
  <2>1. PICK S : FloorOf(S)
    BY DEF FloorIsHeld
  <2>2. S \subseteq Held /\ S \subseteq Held' /\ IsFiniteSet(S)
    <3>1. IsFiniteSet(Held)
      BY <1>3, WorkType DEF Amounts
    <3> QED BY <1>4, <2>1, <3>1, FS_Subset DEF FloorOf
  <2> DEFINE f == Work("gemini")
             g == Work("gemini")'
  <2>3. \A at \in S : f[at] = g[at]
    BY <1>4, <2>2
  <2>4. floor["gemini"] = SumFunctionOnSet(f, S)
    BY <2>1 DEF FloorOf
  <2> HIDE DEF f, g
  <2>5. SumFunctionOnSet(f, S) = SumFunctionOnSet(g, S)
    BY <2>2, <2>3, SumOfEquals
  <2>6. pending # Nothing => \/ warned \/ missed
                             \/ \A at \in S : Message(at)'.tokens > 0 => Reached(at)
    BY <1>4, <2>1, <2>2 DEF FloorOf
  <2>7. \A at : Reached(at)' = Reached(at)
    BY <1>1 DEF Reached
  <2>8. FloorOf(S)'
    BY <1>1, <2>2, <2>4, <2>5, <2>6, <2>7 DEF FloorOf, g
  <2> QED BY <2>8
<1> QED BY <1>2, <1>5, <1>6, <1>7

-----------------------------------------------------------------------------
(* The scan's steps.                                                       *)
LEMMA EnterKeeps ==
  ASSUME QuietInv, UNCHANGED tools, UNCHANGED bundle, asked # Nothing,
         NEW source, source \in todo, \A p \in todo : Rank[source] <= Rank[p],
         NEW windows, NEW quiet, NEW gone, Enter(source, windows, quiet, gone),
         quiet => windows # << >> /\ (gone \/ windows[1].total >= floor[source])
  PROVE  /\ todo' \in SUBSET Providers /\ UNCHANGED <<asked, floor>>
         /\ WorkRemains' /\ ScanIsComplete' /\ BundleIsComplete'
<1> DEFINE e == Entry(source, windows, quiet, gone)
<1>1. /\ entries' = Append(entries, e) /\ todo' = todo \ {source} /\ asked' = asked /\ floor' = floor
      /\ e.source = source
      /\ e.quiet => e.windows # << >> /\ (e.missed \/ e.windows[1].total >= floor[source])
  BY DEF Enter, Entry
<1>2. todo \in SUBSET Providers /\ Complete(entries, asked, floor, todo)
  BY DEF QuietInv, ScanOK, ScanIsComplete
<1> HIDE DEF e
<1>3. Complete(Append(entries, e), asked, floor, todo \ {source})
  BY <1>1, <1>2, CompleteStep
<1>4. ScanIsComplete'
  BY <1>1, <1>3 DEF ScanIsComplete
<1>5. \A p : Work(p)' = Work(p)
  BY SameWork
<1>6. WorkRemains'
  <2> SUFFICES ASSUME asked # Nothing, NEW p \in todo, p # source
               PROVE  floor[p] <= SumFunction(Work(p)')
    BY <1>1 DEF WorkRemains
  <2>1. floor[p] <= SumFunction(Work(p))
    BY DEF QuietInv, WorkRemains
  <2> QED BY <1>5, <2>1
<1>7. BundleIsComplete'
  BY DEF QuietInv, BundleIsComplete
<1> QED BY <1>1, <1>2, <1>4, <1>6, <1>7

(* A provider that is entered outside of Gemini's listing.                 *)
LEMMA TurnKeeps ==
  ASSUME QuietInv, NEW source, Turn(source), UNCHANGED <<listing, config>>,
         NEW windows, NEW quiet, NEW gone, Enter(source, windows, quiet, gone),
         quiet => windows # << >> /\ (gone \/ windows[1].total >= floor[source])
  PROVE  QuietInv'
<1>1. /\ asked # Nothing /\ pending = Nothing
      /\ source \in todo /\ \A p \in todo : Rank[source] <= Rank[p]
      /\ UNCHANGED tools /\ UNCHANGED bundle
  BY DEF Turn, Enter, Idle
<1>2. UNCHANGED <<pending, file, tally, warned, missed>>
  BY DEF listing
<1>3. /\ todo' \in SUBSET Providers /\ UNCHANGED <<asked, floor>>
      /\ WorkRemains' /\ ScanIsComplete' /\ BundleIsComplete'
  BY <1>1, EnterKeeps
<1>4. ToolsOK' /\ ConfigOK'
  BY <1>1 DEF QuietInv, ToolsOK, ConfigOK, tools
<1>5. ScanOK'
  BY <1>1, <1>2, <1>3 DEF QuietInv, ScanOK
<1>6. TallyOK'
  BY <1>1, <1>2, SameWork DEF QuietInv, TallyOK
<1>7. FloorIsHeld'
  <2>1. ASSUME NEW S, FloorOf(S) PROVE FloorOf(S)'
    BY <1>1, <1>2, <1>3, <2>1, SameWork DEF FloorOf
  <2> QED BY <1>1, <2>1 DEF QuietInv, FloorIsHeld
<1> QED BY <1>3, <1>4, <1>5, <1>6, <1>7 DEF QuietInv

(* What Claude's and Codex's scanners charge.                              *)
LEMMA ClaudeCharges ==
  ASSUME ToolsOK, NEW S \in SUBSET made, NEW charges,
         charges = [r \in S |-> Charge(<<Directory[r]>>, r, 1)]
  PROVE  ChargesOf("claude", charges) /\ \A r \in DOMAIN charges : charges[r].use.tokens = 1
<1> SUFFICES ASSUME NEW r \in S
             PROVE  LET c == Charge(<<Directory[r]>>, r, 1) IN
                    /\ Sound(c.use) /\ c.use.tokens = 1 /\ c.name = RawName("claude", r)
                    /\ r \in DOMAIN Work("claude") /\ Work("claude")[r] = 1
  BY DEF ChargesOf
<1>1. Model[r] \in ModelNames
  BY PlacesAssumption DEF ToolsOK
<1>2. Sound(Use(r, 1))
  BY <1>1, UseIsSound
<1>3. Work("claude") = [x \in made |-> 1]
  BY DEF Work
<1> QED BY <1>2, <1>3 DEF Charge, Use, RawName

LEMMA CodexCharges ==
  ASSUME ToolsOK, NEW charges,
         charges = [t \in {t \in Threads : used[t] > 0} |-> Charge(Cwd[t], t, used[t])]
  PROVE  ChargesOf("codex", charges) /\ \A t \in DOMAIN charges : charges[t].use.tokens = used[t]
<1>1. Work("codex") = used
  BY DEF Work
<1> SUFFICES ASSUME NEW t \in Threads
             PROVE  LET c == Charge(Cwd[t], t, used[t]) IN
                    /\ Sound(c.use) /\ c.use.tokens = used[t] /\ c.use.tokens <= used[t]
                    /\ c.name = RawName("codex", t) /\ t \in DOMAIN used
  BY <1>1 DEF ChargesOf
<1>2. Model[t] \in ModelNames /\ used[t] \in Nat /\ DOMAIN used = Threads
  BY PlacesAssumption DEF ToolsOK
<1>3. Sound(Use(t, used[t]))
  BY <1>2, UseIsSound
<1> QED BY <1>2, <1>3 DEF Charge, Use, RawName

LEMMA ClaudeIsEntered ==
  ASSUME QuietInv, NEW large, NEW malformed, NEW gone, ScanClaude(large, malformed, gone),
         UNCHANGED config
  PROVE  QuietInv'
<1> DEFINE charges == [r \in made \ (large \cup malformed \cup gone) |-> Charge(<<Directory[r]>>, r, 1)]
           window == LocalAll(charges)
           windows == <<window>>
<1>1. Turn("claude") /\ Enter("claude", windows, large = {} /\ malformed = {}, gone # {}) /\ UNCHANGED listing
  BY DEF ScanClaude, Configured
<1>2. ChargesOf("claude", charges) /\ \A r \in DOMAIN charges : charges[r].use.tokens = 1
  <2>1. made \ (large \cup malformed \cup gone) \in SUBSET made
    OBVIOUS
  <2> HIDE DEF charges
  <2> QED BY <2>1, ClaudeCharges DEF QuietInv, charges
<1>3. windows # << >> /\ windows[1] = window
  OBVIOUS
<1>4. large = {} /\ malformed = {} /\ gone = {} => window.total >= floor["claude"]
  <2> SUFFICES ASSUME large = {}, malformed = {}, gone = {}
               PROVE  window.total >= floor["claude"]
    OBVIOUS
  <2>1. "claude" \in Providers /\ Work("claude") = [x \in made |-> 1] /\ DOMAIN charges = made
    BY DEF Providers, Work
  <2> HIDE DEF charges
  <2>2. window.total = SumFunction(Work("claude"))
    BY <1>2, <2>1, TotalOfAll DEF QuietInv
  <2>3. floor["claude"] <= SumFunction(Work("claude"))
    BY <1>1 DEF QuietInv, WorkRemains, Turn
  <2> QED BY <2>2, <2>3
<1> HIDE DEF charges, window, windows
<1>5. large = {} /\ malformed = {} =>
        windows # << >> /\ (gone # {} \/ windows[1].total >= floor["claude"])
  BY <1>3, <1>4
<1> QED BY <1>1, <1>5, TurnKeeps

LEMMA CodexIsEntered ==
  ASSUME QuietInv, ScanCodex, UNCHANGED config
  PROVE  QuietInv'
<1> DEFINE charges == [t \in {t \in Threads : used[t] > 0} |-> Charge(Cwd[t], t, used[t])]
           window == LocalAll(charges)
           windows == <<window>>
<1>1. Turn("codex") /\ Enter("codex", windows, TRUE, FALSE) /\ UNCHANGED listing
  BY DEF ScanCodex, Configured
<1>2. Work("codex") = used /\ "codex" \in Providers
  BY DEF Work, Providers
<1>3. \A t \in DOMAIN used \ DOMAIN charges : used[t] = 0
  BY DEF QuietInv, ToolsOK
<1>4. ChargesOf("codex", charges) /\ \A t \in DOMAIN charges : charges[t].use.tokens = used[t]
  <2> HIDE DEF charges
  <2> QED BY CodexCharges DEF QuietInv, charges
<1>5. windows # << >> /\ windows[1] = window
  OBVIOUS
<1> HIDE DEF charges
<1>6. window.total = SumFunction(Work("codex"))
  BY <1>2, <1>3, <1>4, TotalOfAll DEF QuietInv
<1>7. floor["codex"] <= SumFunction(Work("codex"))
  BY <1>1 DEF QuietInv, WorkRemains, Turn
<1> HIDE DEF window, windows
<1>8. windows # << >> /\ (FALSE \/ windows[1].total >= floor["codex"])
  BY <1>5, <1>6, <1>7
<1> QED BY <1>1, <1>8, TurnKeeps

LEMMA ConfigurationsName ==
  ASSUME ConfigOK, config # Torn
  PROVE  EnabledProviderNames(LoadConfig) \subseteq Providers
<1>1. LoadConfig \in {NoConfig, DefaultConfig} \cup Contents
  BY DEF ConfigOK, LoadConfig
<1>2. DOMAIN NoConfig \subseteq Providers /\ DOMAIN DefaultConfig \subseteq Providers
  BY DEF NoConfig, DefaultConfig, Providers
<1>3. DOMAIN LoadConfig \subseteq Providers
  BY <1>1, <1>2, ContentsAssumption
<1> QED BY <1>3 DEF EnabledProviderNames

LEMMA ScanIsStarted ==
  ASSUME QuietInv, StartScan, UNCHANGED config
  PROVE  QuietInv'
<1>1. /\ asked = Nothing /\ asked' = LoadConfig
      /\ todo' = EnabledProviderNames(LoadConfig) /\ entries' = << >>
      /\ floor' = [p \in Providers |-> SumFunction(Work(p))] /\ UNCHANGED tools /\ UNCHANGED bundle
      /\ UNCHANGED <<pending, file, tally, warned, missed>>
  BY DEF StartScan, Idle, listing
<1>2. pending = Nothing
  BY <1>1 DEF QuietInv, ScanOK
<1>3. todo' \in SUBSET Providers
  BY <1>1, ConfigurationsName DEF QuietInv, StartScan
<1>4. \A p \in Providers : SumFunction(Work(p)) \in Nat
  <2> TAKE p \in Providers
  <2>1. Amounts(Work(p))
    BY WorkType DEF QuietInv
  <2>2. SumFunctionOnSet(Work(p), DOMAIN Work(p)) \in Nat
    BY <2>1, SumIsNatural DEF Amounts
  <2> QED BY <2>2 DEF SumFunction
<1>5. ToolsOK' /\ ConfigOK' /\ BundleIsComplete'
  BY <1>1 DEF QuietInv, ToolsOK, ConfigOK, BundleIsComplete, tools
<1>6. ScanOK'
  BY <1>1, <1>2, <1>3, <1>4 DEF QuietInv, ScanOK
<1>7. TallyOK'
  BY <1>1, SameWork DEF QuietInv, TallyOK
<1>8. WorkRemains'
  <2> SUFFICES ASSUME NEW p \in todo' PROVE floor'[p] <= SumFunction(Work(p)')
    BY DEF WorkRemains
  <2>1. p \in Providers /\ Work(p)' = Work(p)
    BY <1>1, <1>3, SameWork
  <2> QED BY <1>1, <1>4, <2>1
<1>9. ScanIsComplete'
  <2>1. << >> \in Seq(ToSet(<< >>))
    OBVIOUS
  <2>2. Complete(<< >>, asked', floor', todo')
    BY <1>1, <2>1 DEF Complete
  <2> QED BY <1>1, <2>2 DEF ScanIsComplete
<1>10. FloorIsHeld'
  <2>1. Work("gemini")' = Work("gemini") /\ Held' = Held
    BY <1>1, SameWork
  <2>2. floor'["gemini"] = SumFunctionOnSet(Work("gemini"), Held)
    BY <1>1 DEF Providers, SumFunction, Work
  <2>3. FloorOf(Held)'
    BY <1>1, <1>2, <2>1, <2>2 DEF FloorOf
  <2> QED BY <2>3 DEF FloorIsHeld
<1> QED BY <1>5, <1>6, <1>7, <1>8, <1>9, <1>10 DEF QuietInv

(* What Gemini's listing leaves alone.                                     *)
LEMMA ListingKeeps ==
  ASSUME QuietInv, UNCHANGED <<tools, config, scan, bundle>>
  PROVE  ToolsOK' /\ ConfigOK' /\ WorkRemains' /\ ScanIsComplete' /\ BundleIsComplete'
<1>1. UNCHANGED <<asked, todo, entries, floor, sessions, writing, used, made>>
  BY DEF scan, tools
<1>2. WorkRemains'
  BY <1>1, SameWork DEF QuietInv, WorkRemains
<1> QED BY <1>1, <1>2 DEF QuietInv, ToolsOK, ConfigOK, ScanIsComplete, BundleIsComplete

LEMMA FloorKeeps ==
  ASSUME QuietInv, UNCHANGED <<tools, scan>>,
         NEW S, FloorOf(S),
         pending' # Nothing => \/ warned' \/ missed'
                               \/ \A at \in S : Message(at).tokens > 0 => Reached(at)'
  PROVE  FloorOf(S)'
<1>1. Held' = Held /\ Work("gemini")' = Work("gemini") /\ \A at : Message(at)' = Message(at)
  BY SameWork
<1>2. floor' = floor
  BY DEF scan
<1> QED BY <1>1, <1>2 DEF FloorOf

LEMMA SessionsAreListed ==
  ASSUME QuietInv, ListSessions, UNCHANGED config
  PROVE  QuietInv'
<1>1. /\ Turn("gemini") /\ pending' = {f \in Sessions : sessions[f] # << >>} /\ tally' = NoCharges
      /\ UNCHANGED <<tools, scan, bundle>> /\ UNCHANGED <<asked, todo, entries, floor>> /\ file' = file
  BY DEF ListSessions, Configured, Idle, scan
<1>2. ToolsOK' /\ ConfigOK' /\ WorkRemains' /\ ScanIsComplete' /\ BundleIsComplete'
  BY <1>1, ListingKeeps
<1>3. ScanOK'
  BY <1>1, PlacesAssumption DEF QuietInv, ScanOK, Turn
<1>4. TallyOK'
  BY <1>1, NothingIsCharged, SameWork DEF TallyOK
<1>5. FloorIsHeld'
  <2>1. PICK S : FloorOf(S)
    BY <1>1 DEF QuietInv, FloorIsHeld, Turn
  <2>2. \A at \in S : at[1] \in pending'
    <3> TAKE at \in S
    <3>1. at[1] \in Sessions /\ at[2] \in 1 .. MaxWritten /\ at[2] <= Len(sessions[at[1]])
      BY <2>1, HeldIsWhole DEF QuietInv, FloorOf
    <3>2. sessions[at[1]] # << >>
      BY <3>1, BoundsAssumption
    <3> QED BY <1>1, <3>1, <3>2
  <2>3. FloorOf(S)'
    BY <1>1, <2>1, <2>2, FloorKeeps DEF Reached
  <2> QED BY <2>3 DEF FloorIsHeld
<1> QED BY <1>2, <1>3, <1>4, <1>5 DEF QuietInv

LEMMA SizeIsChecked ==
  ASSUME QuietInv, CheckSize, UNCHANGED config
  PROVE  QuietInv'
<1> DEFINE f == Min(pending)
<1>1. /\ pending \notin {Nothing, {}} /\ file = Nothing /\ pending' = pending \ {f} /\ tally' = tally
      /\ UNCHANGED <<tools, scan, bundle>> /\ UNCHANGED <<asked, todo, entries, floor>>
      /\ \/ warned' = TRUE /\ file' = file
         \/ missed' = TRUE /\ file' = file
         \/ file' = f /\ UNCHANGED <<warned, missed>>
  BY DEF CheckSize, Idle, scan
<1>2. ToolsOK' /\ ConfigOK' /\ WorkRemains' /\ ScanIsComplete' /\ BundleIsComplete'
  BY <1>1, ListingKeeps
<1>3. pending \in SUBSET Sessions /\ f \in pending
  <2>1. pending \in SUBSET Sessions /\ pending \in SUBSET Nat /\ pending # {}
    BY <1>1, PlacesAssumption DEF QuietInv, ScanOK
  <2> QED BY <2>1, MinIsLeast
<1> HIDE DEF f
<1>4. ScanOK'
  BY <1>1, <1>3, PlacesAssumption DEF QuietInv, ScanOK
<1>5. TallyOK'
  BY <1>1, SameWork DEF QuietInv, TallyOK
<1>6. FloorIsHeld'
  <2> SUFFICES ASSUME asked # Nothing PROVE FloorIsHeld'
    BY <1>1 DEF FloorIsHeld
  <2>1. PICK S : FloorOf(S)
    BY DEF QuietInv, FloorIsHeld
  <2>2. \/ warned' \/ missed'
        \/ \A at \in S : Message(at).tokens > 0 => Reached(at)'
    <3>1. CASE file' = f /\ UNCHANGED <<warned, missed>>
      <4>1. \A at \in Sessions \X (1 .. MaxWritten) : Reached(at) => Reached(at)'
        BY <1>1, <3>1, PlacesAssumption DEF Reached
      <4>2. S \subseteq Sessions \X (1 .. MaxWritten)
        BY <2>1 DEF FloorOf, Held
      <4> QED BY <1>1, <2>1, <3>1, <4>1, <4>2 DEF FloorOf
    <3> QED BY <1>1, <3>1
  <2>3. FloorOf(S)'
    BY <1>1, <2>1, <2>2, FloorKeeps
  <2> QED BY <2>3 DEF FloorIsHeld
<1> QED BY <1>2, <1>4, <1>5, <1>6 DEF QuietInv

LEMMA SessionIsRead ==
  ASSUME QuietInv, ReadSession, UNCHANGED config
  PROVE  QuietInv'
<1> DEFINE more == {at \in Messages(file) : Message(at).tokens > 0}
           charge(at) == Charge(Root[file], Message(at).key, Message(at).tokens)
<1>1. /\ file # Nothing /\ file' = Nothing /\ pending' = pending
      /\ UNCHANGED <<tools, scan, bundle>> /\ UNCHANGED <<asked, todo, entries, floor>>
      /\ \/ /\ tally' = [at \in DOMAIN tally \cup more |-> IF at \in more THEN charge(at) ELSE tally[at]]
            /\ warned' = (warned \/ Malformed(file)) /\ missed' = missed
         \/ missed' = TRUE /\ tally' = tally /\ warned' = warned
  BY DEF ReadSession, Idle, scan
<1>2. ToolsOK' /\ ConfigOK' /\ WorkRemains' /\ ScanIsComplete' /\ BundleIsComplete'
  BY <1>1, ListingKeeps
<1>3. ScanOK'
  BY <1>1 DEF QuietInv, ScanOK
<1>4. file \in Sessions /\ pending # Nothing
  BY <1>1 DEF QuietInv, ScanOK
<1>5. \A at \in more : at \in Held /\ at[1] = file
  BY DEF Messages
<1>6. Work("gemini") = [at \in Held |-> Message(at).tokens]
  BY DEF Work
<1>7. \A at \in more : /\ at \in DOMAIN Work("gemini") /\ Sound(charge(at).use)
                       /\ charge(at).use.tokens = Message(at).tokens
                       /\ charge(at).use.tokens <= Work("gemini")[at]
                       /\ charge(at).name = RawName("gemini", at)
  <2> TAKE at \in more
  <2>1. at \in Held /\ at[1] = file
    BY <1>5
  <2>2. Message(at).key \in Keys /\ Message(at).tokens \in Nat
    BY <2>1, HeldIsWhole DEF QuietInv
  <2>3. Model[Message(at).key] \in ModelNames
    BY <2>2, PlacesAssumption
  <2>4. Sound(Use(Message(at).key, Message(at).tokens))
    BY <2>2, <2>3, UseIsSound
  <2> QED BY <1>6, <2>1, <2>2, <2>4 DEF Charge, Use, RawName
<1> HIDE DEF more, charge
<1>8. TallyOK'
  <2>1. \A at \in DOMAIN tally' : \/ at \in DOMAIN tally /\ tally'[at] = tally[at]
                                  \/ at \in more /\ tally'[at] = charge(at)
    BY <1>1
  <2>2. ChargesOf("gemini", tally')
    BY <1>7, <2>1 DEF QuietInv, TallyOK, ChargesOf
  <2>3. \A at \in DOMAIN tally' : at \in Held /\ tally'[at].use.tokens = Message(at).tokens
    BY <1>5, <1>7, <2>1 DEF QuietInv, TallyOK
  <2>4. Held' = Held /\ (\A at : Message(at)' = Message(at)) /\ Work("gemini")' = Work("gemini")
    BY <1>1, SameWork
  <2> QED BY <2>2, <2>3, <2>4 DEF TallyOK, ChargesOf
<1>9. FloorIsHeld'
  <2> SUFFICES ASSUME asked # Nothing PROVE FloorIsHeld'
    BY <1>1 DEF FloorIsHeld
  <2>1. PICK S : FloorOf(S)
    BY DEF QuietInv, FloorIsHeld
  <2>2. \/ warned' \/ missed'
        \/ \A at \in S : Message(at).tokens > 0 => Reached(at)'
    <3>1. CASE missed' = TRUE
      BY <3>1
    <3>2. CASE file \in writing
      BY <1>1, <3>2 DEF Malformed
    <3>3. CASE file \notin writing /\ missed' # TRUE
      <4>1. /\ tally' = [at \in DOMAIN tally \cup more |-> IF at \in more THEN charge(at) ELSE tally[at]]
            /\ warned' = (warned \/ Malformed(file)) /\ missed' = missed
        BY <1>1, <3>3
      <4>2. DOMAIN tally' = DOMAIN tally \cup more
        BY <4>1
      <4>3. \A at \in S : Message(at).tokens > 0 /\ at[1] = file => at \in more
        BY <2>1, <3>3 DEF FloorOf, Messages, more
      <4>4. \A at \in S : Message(at).tokens > 0 /\ Reached(at) => Reached(at)'
        BY <1>1, <4>2, <4>3 DEF Reached
      <4> QED BY <1>4, <2>1, <4>1, <4>4 DEF FloorOf
    <3> QED BY <3>1, <3>2, <3>3
  <2>3. FloorOf(S)'
    BY <1>1, <2>1, <2>2, FloorKeeps
  <2> QED BY <2>3 DEF FloorIsHeld
<1> QED BY <1>2, <1>3, <1>8, <1>9 DEF QuietInv

(* What is read of the files that are there and whole comes to what Gemini *)
(* had, if nothing is missing.                                             *)
LEMMA TallyCoversFloor ==
  ASSUME QuietInv, asked # Nothing, pending = {}, file = Nothing, ~warned, ~missed
  PROVE  LocalAll(tally).total >= floor["gemini"]
<1> DEFINE f == Work("gemini")
           T == DOMAIN tally
<1>1. "gemini" \in Providers /\ f = [at \in Held |-> Message(at).tokens]
  BY DEF Providers, Work
<1>2. Amounts(f) /\ AreCharges(tally)
  BY <1>1, WorkType, ChargesAre DEF QuietInv, TallyOK
<1>3. T \subseteq Held /\ \A at \in T : tally[at].use.tokens = f[at]
  BY <1>1 DEF QuietInv, TallyOK
<1>4. LocalAll(tally).total = SumFunctionOnSet(f, T)
  BY <1>2, <1>3, TotalOf
<1>5. PICK S : FloorOf(S)
  BY DEF QuietInv, FloorIsHeld
<1>6. S \subseteq Held /\ floor["gemini"] = SumFunctionOnSet(f, S)
  BY <1>5 DEF FloorOf
<1>7. \A at \in S : Message(at).tokens > 0 => at \in T
  <2>1. pending # Nothing
    BY PlacesAssumption
  <2>2. \A at \in S : Message(at).tokens > 0 => Reached(at)
    BY <1>5, <2>1 DEF FloorOf
  <2>3. \A at \in Held : at[1] # Nothing
    BY PlacesAssumption DEF Held
  <2> QED BY <1>6, <2>2, <2>3 DEF Reached
<1>8. \A at \in S \ T : f[at] = 0
  <2> TAKE at \in S \ T
  <2>1. at \in Held /\ ~(Message(at).tokens > 0)
    BY <1>6, <1>7
  <2>2. f[at] \in Nat /\ f[at] = Message(at).tokens
    BY <1>1, <1>2, <2>1 DEF Amounts
  <2> QED BY <2>1, <2>2
<1>9. DOMAIN f = Held
  BY <1>1
<1> HIDE DEF f, T
<1>10. /\ IsFiniteSet(S) /\ \A at \in S : f[at] \in Nat
       /\ IsFiniteSet(T) /\ \A at \in T : f[at] \in Nat
  BY <1>2, <1>3, <1>6, <1>9, FS_Subset DEF Amounts
<1>11. SumFunctionOnSet(f, S) = SumFunctionOnSet(f, S \cap T)
  <2>1. S \cap T \in SUBSET S /\ \A at \in S \ (S \cap T) : f[at] = 0
    BY <1>8
  <2> QED BY <1>10, <2>1, SumOfSupport
<1>12. SumFunctionOnSet(f, S \cap T) <= SumFunctionOnSet(f, T)
  <2>1. S \cap T \in SUBSET T
    OBVIOUS
  <2> QED BY <1>10, <2>1, SumOfSubset
<1>13. SumFunctionOnSet(f, S) \in Nat /\ SumFunctionOnSet(f, T) \in Nat
  BY <1>10, SumIsNatural
<1> QED BY <1>4, <1>6, <1>11, <1>12, <1>13

LEMMA GeminiIsEntered ==
  ASSUME QuietInv, FinishGemini, UNCHANGED config
  PROVE  QuietInv'
<1> DEFINE windows == <<LocalAll(tally)>>
<1>1. /\ pending = {} /\ file = Nothing /\ Enter("gemini", windows, ~warned, missed)
      /\ pending' = Nothing /\ tally' = NoCharges /\ file' = Nothing
      /\ UNCHANGED tools /\ UNCHANGED bundle
  BY DEF FinishGemini, Enter, Idle
<1>2. pending # Nothing
  BY <1>1, PlacesAssumption
<1>3. asked # Nothing /\ "gemini" \in todo /\ \A p \in todo : Rank["gemini"] <= Rank[p]
  BY <1>2 DEF QuietInv, ScanOK
<1>4. ~warned => windows # << >> /\ (missed \/ windows[1].total >= floor["gemini"])
  <2>1. windows # << >> /\ windows[1] = LocalAll(tally)
    OBVIOUS
  <2> HIDE DEF windows
  <2> QED BY <1>1, <1>3, <2>1, TallyCoversFloor
<1> HIDE DEF windows
<1>5. /\ todo' \in SUBSET Providers /\ UNCHANGED <<asked, floor>>
      /\ WorkRemains' /\ ScanIsComplete' /\ BundleIsComplete'
  BY <1>1, <1>3, <1>4, EnterKeeps
<1>6. ToolsOK' /\ ConfigOK'
  BY <1>1 DEF QuietInv, ToolsOK, ConfigOK, tools
<1>7. ScanOK'
  BY <1>1, <1>5 DEF QuietInv, ScanOK
<1>8. TallyOK'
  BY <1>1, NothingIsCharged, SameWork DEF TallyOK
<1>9. FloorIsHeld'
  <2>1. PICK S : FloorOf(S)
    BY <1>3 DEF QuietInv, FloorIsHeld
  <2>2. FloorOf(S)'
    BY <1>1, <1>5, <2>1, SameWork DEF FloorOf
  <2> QED BY <2>2 DEF FloorIsHeld
<1> QED BY <1>5, <1>6, <1>7, <1>8, <1>9 DEF QuietInv

LEMMA ScanIsPublished ==
  ASSUME QuietInv, Publish, UNCHANGED config
  PROVE  QuietInv'
<1>1. /\ asked # Nothing /\ todo = {}
      /\ bundle' = [entries |-> entries, asked |-> asked, floor |-> floor]
      /\ asked' = Nothing /\ floor' = [p \in Providers |-> 0] /\ todo' = todo
      /\ UNCHANGED tools /\ UNCHANGED <<pending, file, tally, warned, missed>>
  BY DEF Publish, listing
<1>2. Complete(entries, asked, floor, {})
  BY <1>1 DEF QuietInv, ScanIsComplete
<1>3. BundleIsComplete'
  BY <1>1, <1>2 DEF BundleIsComplete
<1>4. ToolsOK' /\ ConfigOK'
  BY <1>1 DEF QuietInv, ToolsOK, ConfigOK, tools
<1>5. ScanOK'
  BY <1>1 DEF QuietInv, ScanOK
<1>6. TallyOK'
  BY <1>1, SameWork DEF QuietInv, TallyOK
<1> QED BY <1>1, <1>3, <1>4, <1>5, <1>6 DEF QuietInv, WorkRemains, ScanIsComplete, FloorIsHeld

LEMMA ScanIsKilled ==
  ASSUME QuietInv, KillScan, UNCHANGED config
  PROVE  QuietInv'
<1>1. /\ asked' = Nothing /\ todo' = {} /\ floor' = [p \in Providers |-> 0]
      /\ pending' = Nothing /\ file' = Nothing /\ tally' = NoCharges
      /\ UNCHANGED tools /\ UNCHANGED bundle
  BY DEF KillScan, Idle
<1>2. BundleIsComplete'
  BY <1>1 DEF QuietInv, BundleIsComplete
<1>3. ToolsOK' /\ ConfigOK'
  BY <1>1 DEF QuietInv, ToolsOK, ConfigOK, tools
<1>4. ScanOK'
  BY <1>1 DEF ScanOK
<1>5. TallyOK'
  BY <1>1, NothingIsCharged, SameWork DEF TallyOK
<1> QED BY <1>1, <1>2, <1>3, <1>4, <1>5 DEF QuietInv, WorkRemains, ScanIsComplete, FloorIsHeld

LEMMA QuietNext == QuietInv /\ [CollectorNext]_collectorVars => QuietInv'
<1> SUFFICES ASSUME QuietInv, [CollectorNext]_collectorVars PROVE QuietInv'
  OBVIOUS
<1>1. ToolsOK' /\ Grown
  BY ToolsStep DEF QuietInv
<1>2. CASE UNCHANGED <<scan, listing, bundle>> /\ ConfigOK'
  <2>1. ScanOK' /\ TallyOK' /\ WorkRemains' /\ ScanIsComplete' /\ BundleIsComplete' /\ FloorIsHeld'
    BY <1>1, <1>2, ToolsKeep
  <2> QED BY <1>1, <1>2, <2>1 DEF QuietInv
<1>3. CASE Tools
  <2>1. UNCHANGED <<scan, listing, bundle>> /\ config' = config
    BY <1>3 DEF Tools, BeginMessage, EndMessage, CopySession, CodexRuns, ClaudeRuns, files
  <2> QED BY <1>2, <2>1 DEF QuietInv, ConfigOK
<1>4. CASE Configure
  <2>1. UNCHANGED <<scan, listing, bundle>> /\ ConfigOK'
    BY <1>4 DEF Configure, EditConfig, CheckConfig, OpenConfig, WriteConfig, KillInit, QuietInv, ConfigOK
  <2> QED BY <1>2, <2>1
<1>5. CASE Scan
  <2>1. UNCHANGED config
    BY <1>5 DEF Scan, StartScan, EnterNothing, ScanClaude, ScanCodex, ListSessions, CheckSize,
                ReadSession, FinishGemini, Publish, KillScan, Enter, Idle, files
  <2>2. ASSUME NEW source \in Providers, EnterNothing(source) PROVE QuietInv'
    <3>1. Turn(source) /\ Enter(source, << >>, FALSE, FALSE) /\ UNCHANGED listing
      BY <2>2 DEF EnterNothing
    <3> QED BY <2>1, <3>1, TurnKeeps
  <2> QED BY <1>5, <2>1, <2>2, ScanIsStarted, ClaudeIsEntered, CodexIsEntered, SessionsAreListed,
             SizeIsChecked, SessionIsRead, GeminiIsEntered, ScanIsPublished, ScanIsKilled DEF Scan
<1>6. CASE UNCHANGED collectorVars
  <2>1. UNCHANGED <<scan, listing, bundle>> /\ config' = config
    BY <1>6 DEF collectorVars, files
  <2> QED BY <1>2, <2>1 DEF QuietInv, ConfigOK
<1> QED BY <1>3, <1>4, <1>5, <1>6 DEF CollectorNext

(* cli.scan_config with write_scan: however the tools append and copy, the *)
(* user edits and the scan is killed, a published bundle has one entry for *)
(* each enabled provider it was asked for, in their order, and one that is *)
(* quiet has at least what the provider had when the scan began.           *)
THEOREM BundlesAreComplete == CollectorSpec => []QuietEntriesAreComplete
<1>1. QuietInv => QuietEntriesAreComplete
  <2> SUFFICES ASSUME QuietInv, bundle # Nothing PROVE QuietEntriesAreComplete
    BY DEF QuietEntriesAreComplete
  <2>1. Complete(bundle.entries, bundle.asked, bundle.floor, {})
    BY DEF QuietInv, BundleIsComplete
  <2>2. Published = {bundle.entries[i] : i \in DOMAIN bundle.entries}
    BY DEF Published
  <2>3. {entry.source : entry \in Published} = EnabledProviderNames(bundle.asked)
    BY <2>1, <2>2 DEF Complete
  <2> QED BY <2>1, <2>2, <2>3 DEF Complete, QuietEntriesAreComplete
<1> QED BY <1>1, QuietInit, QuietNext, PTL DEF CollectorSpec

-----------------------------------------------------------------------------
(* A window of a local scan: what it says agrees, and no project in it is  *)
(* charged with more than its share of what the provider has.              *)
WindowOK(source, window) ==
  /\ source \in Providers /\ AddsUp(window) /\ window.total = TokensOf(window.byProject)
  /\ \A p \in DOMAIN window.byProject :
       window.byProject[p].tokens \in Nat /\ window.byProject[p].tokens <= Worth(source, p)

Fair(es) == \A i \in DOMAIN es : es[i].windows # << >> => WindowOK(es[i].source, es[i].windows[1])

FairInv ==
  /\ QuietInv
  /\ asked # Nothing => Fair(entries)
  /\ bundle # Nothing => Fair(bundle.entries)
  /\ snapshot \in {Nothing} \cup {Normalized(payload) : payload \in Payloads}

(* Every scanner makes such a window of what it charges, and it stays one  *)
(* however the tools go on.                                                *)
LEMMA LocalIsOK ==
  ASSUME NamesAreHomes, ToolsOK, NEW source \in Providers, NEW charges, ChargesOf(source, charges)
  PROVE  WindowOK(source, LocalAll(charges))
<1>1. AreCharges(charges)
  BY ChargesAre
<1>2. AddsUp(LocalAll(charges)) /\ LocalAll(charges).total = TokensOf(LocalAll(charges).byProject)
  BY <1>1, LocalAddsUp
<1>3. \A p \in DOMAIN LocalAll(charges).byProject :
        /\ LocalAll(charges).byProject[p].tokens \in Nat
        /\ LocalAll(charges).byProject[p].tokens <= Worth(source, p)
  BY LocalPays
<1> QED BY <1>2, <1>3 DEF WindowOK

LEMMA FairGrows ==
  ASSUME ToolsOK, ToolsOK', Grown
  PROVE  \A es : Fair(es) => Fair(es)'
<1>1. ASSUME NEW source, NEW window, WindowOK(source, window) PROVE WindowOK(source, window)'
  <2> SUFFICES ASSUME NEW p \in DOMAIN window.byProject
               PROVE  window.byProject[p].tokens <= Worth(source, p)'
    BY <1>1 DEF WindowOK
  <2> DEFINE n == window.byProject[p].tokens
  <2>1. source \in Providers /\ n \in Nat /\ n <= Worth(source, p)
    BY <1>1 DEF WindowOK
  <2> HIDE DEF n
  <2>2. n <= Worth(source, p)'
    BY <2>1, WorthGrows
  <2> QED BY <2>2 DEF n
<1> SUFFICES ASSUME NEW es, Fair(es), NEW i \in DOMAIN es, es[i].windows # << >>
             PROVE  WindowOK(es[i].source, es[i].windows[1])'
  BY DEF Fair
<1>2. WindowOK(es[i].source, es[i].windows[1])
  BY DEF Fair
<1> QED BY <1>1, <1>2

LEMMA FairAppended ==
  ASSUME NEW es, es \in Seq(ToSet(es)), Fair(es),
         NEW e, e.windows # << >> => WindowOK(e.source, e.windows[1])
  PROVE  Fair(Append(es, e))
<1>1. Extends(Append(es, e), es, e)
  BY Appended
<1> DEFINE t == Append(es, e)
<1>2. Extends(t, es, e)
  BY <1>1
<1> HIDE DEF t
<1>3. /\ DOMAIN t = DOMAIN es \cup {Len(es) + 1} /\ t[Len(es) + 1] = e
      /\ \A i \in DOMAIN es : t[i] = es[i]
  BY <1>2 DEF Extends
<1>4. Fair(t)
  BY <1>3 DEF Fair
<1> QED BY <1>4 DEF t

LEMMA EntryIsFair ==
  ASSUME NamesAreHomes, FairInv, UNCHANGED <<tools, bundle, snapshot>>, asked # Nothing, QuietInv',
         NEW source, NEW windows, NEW quiet, NEW gone, Enter(source, windows, quiet, gone),
         windows # << >> => WindowOK(source, windows[1])
  PROVE  FairInv'
<1> DEFINE e == Entry(source, windows, quiet, gone)
<1>1. entries' = Append(entries, e) /\ e.source = source /\ e.windows = windows
  BY DEF Enter, Entry
<1> HIDE DEF e
<1>2. entries \in Seq(ToSet(entries)) /\ Fair(entries)
  BY DEF FairInv, QuietInv, ScanIsComplete, Complete
<1>3. Fair(entries')
  BY <1>1, <1>2, FairAppended
<1>4. \A es : Fair(es)' = Fair(es)
  BY SameWork DEF Fair, WindowOK
<1>5. Fair(entries)' /\ (bundle # Nothing => Fair(bundle.entries)')
  BY <1>3, <1>4 DEF FairInv
<1> QED BY <1>5 DEF FairInv

LEMMA FairNext ==
  ASSUME NamesAreHomes, FairInv, [CollectorNext]_collectorVars
  PROVE  FairInv'
<1>1. QuietInv' /\ ToolsOK /\ ToolsOK' /\ Grown
  BY QuietNext, ToolsStep DEF FairInv, QuietInv
<1>2. CASE UNCHANGED <<asked, entries, bundle, snapshot>>
  <2>1. asked # Nothing => Fair(entries)'
    BY <1>1, <1>2, FairGrows DEF FairInv
  <2>2. bundle # Nothing => Fair(bundle.entries)'
    BY <1>1, <1>2, FairGrows DEF FairInv
  <2> QED BY <1>1, <1>2, <2>1, <2>2 DEF FairInv
<1>3. CASE Tools
  BY <1>2, <1>3 DEF Tools, BeginMessage, EndMessage, CopySession, CodexRuns, ClaudeRuns, scan
<1>4. CASE Configure
  BY <1>2, <1>4 DEF Configure, EditConfig, CheckConfig, OpenConfig, WriteConfig, KillInit, scan
<1>5. CASE StartScan
  <2>1. entries' = << >> /\ UNCHANGED <<tools, bundle, snapshot>>
    BY <1>5 DEF StartScan, Idle
  <2>2. Fair(entries)'
    BY <2>1 DEF Fair
  <2>3. bundle # Nothing => Fair(bundle.entries)'
    BY <1>1, <2>1, FairGrows DEF FairInv
  <2> QED BY <1>1, <2>1, <2>2, <2>3 DEF FairInv
<1>6. ASSUME NEW source \in Providers, EnterNothing(source) PROVE FairInv'
  <2>1. /\ asked # Nothing /\ Enter(source, << >>, FALSE, FALSE) /\ UNCHANGED <<tools, bundle, snapshot>>
    BY <1>6 DEF EnterNothing, Turn, Enter, Idle
  <2> QED BY <1>1, <2>1, EntryIsFair
<1>7. ASSUME NEW large \in SUBSET made, NEW malformed \in SUBSET made,
             NEW gone \in SUBSET made, ScanClaude(large, malformed, gone)
      PROVE  FairInv'
  <2> DEFINE charges == [r \in made \ (large \cup malformed \cup gone) |-> Charge(<<Directory[r]>>, r, 1)]
             windows == <<LocalAll(charges)>>
  <2>1. /\ asked # Nothing /\ Enter("claude", windows, large = {} /\ malformed = {}, gone # {})
        /\ UNCHANGED <<tools, bundle, snapshot>>
    BY <1>7 DEF ScanClaude, Configured, Turn, Enter, Idle
  <2>2. windows[1] = LocalAll(charges)
    OBVIOUS
  <2>3. made \ (large \cup malformed \cup gone) \in SUBSET made /\ "claude" \in Providers
    BY DEF Providers
  <2> HIDE DEF charges
  <2>4. ChargesOf("claude", charges)
    BY <1>1, <2>3, ClaudeCharges DEF charges
  <2>5. WindowOK("claude", LocalAll(charges))
    BY <1>1, <2>3, <2>4, LocalIsOK
  <2> HIDE DEF windows
  <2> QED BY <1>1, <2>1, <2>2, <2>5, EntryIsFair
<1>8. CASE ScanCodex
  <2> DEFINE charges == [t \in {t \in Threads : used[t] > 0} |-> Charge(Cwd[t], t, used[t])]
             windows == <<LocalAll(charges)>>
  <2>1. asked # Nothing /\ Enter("codex", windows, TRUE, FALSE) /\ UNCHANGED <<tools, bundle, snapshot>>
    BY <1>8 DEF ScanCodex, Configured, Turn, Enter, Idle
  <2>2. windows[1] = LocalAll(charges) /\ "codex" \in Providers
    BY DEF Providers
  <2> HIDE DEF charges
  <2>3. ChargesOf("codex", charges)
    BY <1>1, CodexCharges DEF charges
  <2>4. WindowOK("codex", LocalAll(charges))
    BY <1>1, <2>2, <2>3, LocalIsOK
  <2> HIDE DEF windows
  <2> QED BY <1>1, <2>1, <2>2, <2>4, EntryIsFair
<1>9. CASE ListSessions \/ CheckSize \/ ReadSession
  <2>1. UNCHANGED <<asked, entries, bundle, snapshot>>
    BY <1>9 DEF ListSessions, CheckSize, ReadSession, scan, Idle
  <2> QED BY <1>2, <2>1
<1>10. CASE FinishGemini
  <2> DEFINE windows == <<LocalAll(tally)>>
  <2>1. pending = {} /\ Enter("gemini", windows, ~warned, missed) /\ UNCHANGED <<tools, bundle, snapshot>>
    BY <1>10 DEF FinishGemini, Enter, Idle
  <2>2. asked # Nothing
    BY <2>1, PlacesAssumption DEF FairInv, QuietInv, ScanOK
  <2>3. windows[1] = LocalAll(tally) /\ "gemini" \in Providers
    BY DEF Providers
  <2>4. WindowOK("gemini", LocalAll(tally))
    BY <1>1, <2>3, LocalIsOK DEF FairInv, QuietInv, TallyOK
  <2> HIDE DEF windows
  <2> QED BY <1>1, <2>1, <2>2, <2>3, <2>4, EntryIsFair
<1>11. CASE Publish
  <2>1. /\ asked # Nothing /\ asked' = Nothing /\ bundle'.entries = entries /\ UNCHANGED snapshot
    BY <1>11 DEF Publish
  <2>2. Fair(bundle.entries)'
    BY <1>1, <2>1, FairGrows DEF FairInv
  <2> QED BY <1>1, <2>1, <2>2 DEF FairInv
<1>12. CASE KillScan
  <2>1. asked' = Nothing /\ UNCHANGED <<bundle, snapshot>>
    BY <1>12 DEF KillScan, Idle
  <2>2. bundle # Nothing => Fair(bundle.entries)'
    BY <1>1, <2>1, FairGrows DEF FairInv
  <2> QED BY <1>1, <2>1, <2>2 DEF FairInv
<1>13. CASE UNCHANGED collectorVars
  BY <1>2, <1>13 DEF collectorVars, scan
<1> QED BY <1>3, <1>4, <1>5, <1>6, <1>7, <1>8, <1>9, <1>10, <1>11, <1>12, <1>13 DEF CollectorNext, Scan

LEMMA FairHolds == NamesAreHomes => (CollectorSpec => []FairInv)
<1> SUFFICES ASSUME NamesAreHomes PROVE CollectorSpec => []FairInv
  OBVIOUS
<1>1. CollectorInit => FairInv
  BY QuietInit DEF CollectorInit, FairInv
<1>2. FairInv /\ [CollectorNext]_collectorVars => FairInv'
  BY FairNext
<1> QED BY <1>1, <1>2, PTL DEF CollectorSpec

(* The scanners: if the names the providers have for their places lead     *)
(* back to the projects, no project of a published bundle is charged with  *)
(* more than what has been used in it.                                     *)
THEOREM ProjectsAreCharged ==
  ASSUME NamesAreHomes
  PROVE  CollectorSpec => []ProjectsPayForTheirWork
<1>1. FairInv => ProjectsPayForTheirWork
  BY DEF FairInv, Fair, WindowOK, ProjectsPayForTheirWork, Counted, Published
<1> QED BY <1>1, FairHolds, PTL

(* projects.py and the normalizers: under the same names, the breakdowns   *)
(* of every window a scan publishes agree with each other and with its     *)
(* total.  A window made of a monitor's payload has each project of the    *)
(* rows, with the sum of its rows and nothing of the runtime's, and each   *)
(* project that only the runtime of Codex names.  That the breakdowns of   *)
(* such a window agree is proved where the payload's own splits add up,    *)
(* and that its projects share the observed total where the runtime has    *)
(* one raw name for each project that only it names: projects.py checks    *)
(* neither, and without the second ProjectsSumToObserved is violated.      *)
THEOREM WindowsAgree ==
  ASSUME NamesAreHomes
  PROVE  CollectorSpec => []BreakdownsAddUp
<1>1. FairInv => BreakdownsAddUp
  <2> SUFFICES ASSUME FairInv PROVE BreakdownsAddUp
    OBVIOUS
  <2>1. \A entry \in Counted :
          /\ AddsUp(entry.windows[1])
          /\ entry.windows[1].total = TokensOf(entry.windows[1].byProject)
    BY DEF FairInv, Fair, WindowOK, Counted, Published
  <2>2. ASSUME snapshot # Nothing, NEW i \in DOMAIN snapshot.of.windows
        PROVE  Agrees(snapshot.of.windows[i], snapshot.payload)
    <3>1. PICK payload \in Payloads : snapshot = Normalized(payload)
      BY <2>2 DEF FairInv
    <3>2. snapshot.payload = payload /\ snapshot.of = Normalize(payload, Now)
      BY <3>1 DEF Normalized
    <3> QED BY <2>2, <3>2, PayloadAgrees
  <2> QED BY <2>1, <2>2 DEF BreakdownsAddUp
<1> QED BY <1>1, FairHolds, PTL
=============================================================================
