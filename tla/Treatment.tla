------------------------------ MODULE Treatment ------------------------------
(***************************************************************************)
(* What a task's record is told about the treatment it ran under           *)
(* (correlate.py): the size of its context window, a clearing that came    *)
(* before it, and whether the review it descends from was stale or         *)
(* misrouted.  The rows are joined by task; a row whose identity           *)
(* contradicts the record is refused, but for two documented inferences.   *)
(***************************************************************************)
EXTENDS SequencesExt, FiniteSetsExt, Integers

CONSTANT None

Identity == {"context", "generation", "provider", "session"}

Conflicts(record, row) ==
    {f \in Identity : None \notin {record[f], row[f]} /\ record[f] # row[f]}

\* The first row of a task stands; later ones are repetitions.
HasRow(rows, id) == \E i \in DOMAIN rows : rows[i].task = id
RowOf(rows, id) == rows[Min({i \in DOMAIN rows : rows[i].task = id})]

(***************************************************************************)
(* The provider's context window.  A capped window belongs to the session  *)
(* before the dispatch, so only the session may differ, and its size is    *)
(* kept apart from that of the window the task started with.               *)
(***************************************************************************)
\* Mutant: a capped row is taken for the task's whatever else it says.
PreCapSession_AnyFresh(record, row) == row.capped /\ record.policy = "fresh"

PreCapSession(record, row) ==
    /\ Conflicts(record, row) = {"session"}
    /\ row.capped
    /\ record.policy = "fresh"
    /\ \A f \in Identity \ {"session"} : record[f] # None /\ record[f] = row[f]

Observed(record, row) ==
    IF Conflicts(record, row) # {} /\ ~PreCapSession(record, row) THEN record
    ELSE [record EXCEPT !.window = IF row.capped THEN None ELSE row.window,
                        !.precap = IF row.capped THEN row.window ELSE None,
                        !.capped = IF row.capped THEN "yes" ELSE "no"]

(***************************************************************************)
(* A clearing.  Its row may name the context that was cleared, which the   *)
(* fresh dispatch is the successor of.                                     *)
(***************************************************************************)
Advanced(record, row) ==
    /\ None \notin {record.generation, row.generation}
    /\ record.generation > row.generation

PreClear(record, row) ==
    /\ record.policy = "fresh"
    /\ row.status \in {"attempted", "confirmed"}
    /\ record.provider # None /\ record.provider = row.provider
    /\ Advanced(record, row)
    /\ \/ record.generation = row.generation + 1
       \/ /\ None \notin {record.context, row.context}
          /\ record.context # row.context

Cleared(record, row) ==
    IF Conflicts(record, row) # {} /\ ~PreClear(record, row) THEN record
    ELSE [record EXCEPT !.clear = row.status]

(***************************************************************************)
(* The cascade.  signals maps a task to its row in the dispatcher's        *)
(* database: type, parent (prev_task_id), branch, the commit it reviewed,  *)
(* the branch and commit it reported, what became of the publication of a  *)
(* review, and whether it began on the head it was expected to begin on.   *)
(***************************************************************************)
Unknown == [validity |-> "unknown", origin |-> None]

Differ(a, b) == None \notin {a, b} /\ a # b

\* The refs a review is held against are those of an implementer.
ParentRefs(signals, row) ==
    IF row.parent \in DOMAIN signals /\ signals[row.parent].type = "implement"
    THEN [branch |-> signals[row.parent].resultBranch,
          commit |-> signals[row.parent].resultCommit]
    ELSE [branch |-> None, commit |-> None]

ReviewSignal(signals, id) ==
    LET row == signals[id]
        refs == ParentRefs(signals, row)
        broken == Differ(row.branch, refs.branch) \/ Differ(row.reviewed, refs.commit)
        matched == /\ None \notin {refs.branch, refs.commit}
                   /\ row.branch = refs.branch /\ row.reviewed = refs.commit
    IN  IF row.publication = "stale" THEN [validity |-> "stale", origin |-> id]
        ELSE IF row.publication = "unknown" THEN Unknown
        ELSE IF broken THEN [validity |-> "misrouted", origin |-> id]
        ELSE IF matched \/ row.onHead THEN [validity |-> "valid", origin |-> None]
        ELSE Unknown

\* A task that is no review takes over the answer for its parent.
Inherits(signals, id) ==
    /\ id \in DOMAIN signals
    /\ signals[id].type # "review"
    /\ signals[id].parent # None

\* From a task up to the first one that answers for itself, is not in the
\* database, or was met before.
Path(signals, id) ==
    LET up[n \in 0 .. Cardinality(DOMAIN signals)] ==
            IF n = 0 THEN <<id>>
            ELSE LET last == Last(up[n - 1])
                 IN  IF /\ Inherits(signals, last)
                        /\ signals[last].parent \notin Range(up[n - 1])
                     THEN Append(up[n - 1], signals[last].parent)
                     ELSE up[n - 1]
    IN  up[Cardinality(DOMAIN signals)]

OwnSignal(signals, id) ==
    IF id \in DOMAIN signals /\ signals[id].type = "review"
    THEN ReviewSignal(signals, id) ELSE Unknown

\* The answer for a task: that of the first one on its path that is
\* remembered, else that of the last one, which a cycle leaves unknown.
Answer(signals, cache, id) ==
    LET path == Path(signals, id)
        met == {i \in DOMAIN path : path[i] \in DOMAIN cache}
    IN  IF met # {} THEN cache[path[Min(met)]]
        ELSE IF Inherits(signals, Last(path)) THEN Unknown
        ELSE OwnSignal(signals, Last(path))

\* Mutant: a task is remembered with what it said before its parent answered.
Remembered_Early(signals, cache, id) ==
    LET met == Range(Path(signals, id)) \cap DOMAIN signals
    IN  [t \in DOMAIN cache \cup met |-> IF t \in DOMAIN cache THEN cache[t]
                                        ELSE OwnSignal(signals, t)]

\* Everyone in the database on the path is remembered with it.
Remembered(signals, cache, id) ==
    LET met == Range(Path(signals, id)) \cap DOMAIN signals
    IN  [t \in DOMAIN cache \cup met |-> IF t \in DOMAIN cache THEN cache[t]
                                        ELSE Answer(signals, cache, id)]

\* What is remembered when the n-th record is asked about.
Memory(signals, ids) ==
    LET after[n \in 0 .. Len(ids)] ==
            IF n = 0 THEN << >> ELSE Remembered(signals, after[n - 1], ids[n])
    IN  after

Classified(signals, ids) ==
    [n \in DOMAIN ids |-> Answer(signals, Memory(signals, ids)[n - 1], ids[n])]

(***************************************************************************)
(* The three joins, over all the records.                                  *)
(***************************************************************************)
WithWindows(records, rows) ==
    [i \in DOMAIN records |-> IF HasRow(rows, records[i].id)
                              THEN Observed(records[i], RowOf(rows, records[i].id))
                              ELSE records[i]]

WithClearings(records, rows) ==
    [i \in DOMAIN records |-> IF HasRow(rows, records[i].id)
                              THEN Cleared(records[i], RowOf(rows, records[i].id))
                              ELSE records[i]]

WithValidity(records, signals) ==
    LET answers == Classified(signals, [i \in DOMAIN records |-> records[i].id])
    IN  [i \in DOMAIN records |-> [records[i] EXCEPT !.validity = answers[i].validity,
                                                     !.origin = answers[i].origin]]
=============================================================================
