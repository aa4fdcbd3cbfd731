------------------------- MODULE TranscriptScanProofs -------------------------
(***************************************************************************)
(* What holds of TranscriptScan for any number of transcripts, requests    *)
(* and lines, any usage and any size limit.                                *)
(***************************************************************************)
EXTENDS TranscriptScan, Aggregates, SequenceTheorems, TLAPS

(* Transcripts are only appended to: a line that was read stays, and what  *)
(* was whole stays whole.                                                  *)
Longer(before, after) ==
  \A f \in Files :
    /\ Len(before[f]) <= Len(after[f])
    /\ \A i \in 1 .. Len(before[f]) :
         /\ after[f][i].request = before[f][i].request
         /\ after[f][i].usage = before[f][i].usage
         /\ after[f][i].recent = before[f][i].recent
         /\ before[f][i].whole => after[f][i].whole

Lined == transcripts \in [Files -> Seq(Line)]

LEMMA LinesAreTyped ==
  ASSUME Lined, NEW f \in Files
  PROVE  /\ transcripts[f] \in Seq(Line) /\ Len(transcripts[f]) \in Nat
         /\ DOMAIN transcripts[f] = 1 .. Len(transcripts[f])
         /\ \A i \in 1 .. Len(transcripts[f]) :
              /\ transcripts[f][i] \in Line
              /\ transcripts[f][i].request \in Requests
              /\ transcripts[f][i].usage \in Usage
              /\ transcripts[f][i].whole \in BOOLEAN
<1>1. transcripts[f] \in Seq(Line)
  BY DEF Lined
<1>2. \A i \in 1 .. Len(transcripts[f]) : transcripts[f][i] \in Line
  BY <1>1, ElementOfSeq
<1> QED BY <1>1, <1>2, LenProperties DEF Line

(* A whole line of a request, at a place of its own.                       *)
Holds(f, i, r) ==
  /\ f \in Files /\ i \in 1 .. Len(transcripts[f])
  /\ transcripts[f][i].whole /\ transcripts[f][i].request = r

(* A request costs the greatest of its lines.                              *)
Greatest ==
  \A r : /\ Cost(r) \in Nat
         /\ \A f, i : Holds(f, i, r) => transcripts[f][i].usage <= Cost(r)
         /\ Cost(r) = 0 \/ \E f, i : Holds(f, i, r) /\ transcripts[f][i].usage = Cost(r)

LEMMA CostIsGreatest == Lined => Greatest
<1> SUFFICES ASSUME Lined, NEW r
             PROVE  /\ Cost(r) \in Nat
                    /\ \A f, i : Holds(f, i, r) => transcripts[f][i].usage <= Cost(r)
                    /\ Cost(r) = 0 \/ \E f, i : Holds(f, i, r) /\ transcripts[f][i].usage = Cost(r)
  BY DEF Greatest
<1> DEFINE lines == {line \in Written : line.request = r}
           usages == {0} \cup {line.usage : line \in lines}
<1>1. \A line \in lines : \E f, i : Holds(f, i, r) /\ line = transcripts[f][i]
  BY LinesAreTyped DEF Written, LinesOf, Holds
<1>2. \A f, i : Holds(f, i, r) => transcripts[f][i] \in lines
  BY LinesAreTyped DEF Written, LinesOf, Holds
<1>3. \A line \in lines : line.usage \in 1 .. MaxUsage
  BY <1>1, LinesAreTyped DEF Holds, Usage
<1>4. usages \in SUBSET (0 .. MaxUsage) /\ usages # {} /\ 0 \in usages
  BY <1>3, ScanAssumption
<1>5. Cost(r) = Max(usages)
  BY DEF Cost
<1>6. Max(usages) \in usages /\ \A n \in usages : n <= Max(usages)
  <2> HIDE DEF usages
  <2>1. PICK m \in usages : \A n \in usages : n <= m
    BY <1>4, GreatestBelow, ScanAssumption
  <2>2. \A n \in usages : m >= n
    BY <1>4, <2>1
  <2>3. Max(usages) \in usages /\ \A n \in usages : Max(usages) >= n
    BY <2>2 DEF Max
  <2> QED BY <1>4, <2>3
<1>7. Max(usages) \in Nat
  BY <1>4, <1>6
<1>8. \A f, i : Holds(f, i, r) => transcripts[f][i].usage <= Cost(r)
  BY <1>2, <1>5, <1>6
<1>9. Max(usages) = 0 \/ \E line \in lines : Max(usages) = line.usage
  BY <1>6
<1> HIDE DEF usages, lines
<1> QED BY <1>1, <1>5, <1>7, <1>8, <1>9

LEMMA CostsAreNatural ==
  ASSUME Lined
  PROVE  \A r \in Requests : [q \in Requests |-> Cost(q)][r] \in Nat
BY CostIsGreatest DEF Greatest

LEMMA HeldStays ==
  ASSUME Lined, Lined',
         Longer(transcripts, transcripts'), NEW f, NEW i, NEW r, Holds(f, i, r)
  PROVE  /\ Holds(f, i, r)'
         /\ transcripts'[f][i].usage = transcripts[f][i].usage
         /\ transcripts'[f][i].recent = transcripts[f][i].recent
<1>1. f \in Files /\ i \in 1 .. Len(transcripts[f])
  BY DEF Holds
<1>2. Len(transcripts[f]) \in Nat /\ Len(transcripts'[f]) \in Nat
  BY <1>1, LenProperties DEF Lined
<1>3. i \in 1 .. Len(transcripts'[f])
  BY <1>1, <1>2 DEF Longer
<1> QED BY <1>1, <1>3 DEF Longer, Holds

LEMMA CostGrows ==
  ASSUME Lined, Lined',
         Longer(transcripts, transcripts')
  PROVE  /\ \A r : Cost(r) \in Nat /\ Cost(r)' \in Nat /\ Cost(r) <= Cost(r)'
         /\ TotalCost <= TotalCost'
<1>1. Greatest /\ Greatest'
  BY CostIsGreatest, PTL
<1>2. \A r : Cost(r) \in Nat /\ Cost(r)' \in Nat
  BY <1>1 DEF Greatest
<1>3. ASSUME NEW r PROVE Cost(r) <= Cost(r)'
  <2>1. CASE Cost(r) = 0
    BY <1>2, <2>1
  <2>2. ASSUME NEW f, NEW i, Holds(f, i, r), transcripts[f][i].usage = Cost(r)
        PROVE  Cost(r) <= Cost(r)'
    <3>1. Holds(f, i, r)' /\ transcripts'[f][i].usage = Cost(r)
      BY <2>2, HeldStays
    <3> QED BY <1>1, <3>1 DEF Greatest
  <2> QED BY <1>1, <2>1, <2>2 DEF Greatest
<1>4. TotalCost <= TotalCost'
  <2> DEFINE costs == [r \in Requests |-> Cost(r)]
             later == [r \in Requests |-> Cost(r)']
  <2>1. TotalCost = SumFunctionOnSet(costs, Requests)
    BY DEF TotalCost, SumFunction
  <2>2. TotalCost' = SumFunctionOnSet(later, Requests)
    BY DEF TotalCost, SumFunction
  <2>3. \A r \in Requests : costs[r] \in Nat /\ later[r] \in Nat /\ costs[r] <= later[r]
    BY <1>2, <1>3
  <2>4. IsFiniteSet(Requests)
    BY ScanAssumption
  <2> HIDE DEF costs, later
  <2> QED BY <2>1, <2>2, <2>3, <2>4, SumMonotone
<1> QED BY <1>2, <1>3, <1>4

-----------------------------------------------------------------------------
(* What Claude Code writes.                                                *)
Lengths == [f \in Files |-> Len(transcripts[f])]

Bounded == Length <= MaxWritten

Summed ==
  /\ \A f \in Files : Lengths[f] \in Nat /\ Lengths[f] = Len(transcripts[f])
  /\ Length = SumFunctionOnSet(Lengths, Files) /\ Length \in Nat

LEMMA LengthsAreNatural == Lined => Summed
<1> SUFFICES ASSUME Lined PROVE Summed
  OBVIOUS
<1>1. \A f \in Files : Lengths[f] \in Nat /\ Lengths[f] = Len(transcripts[f])
  BY LinesAreTyped DEF Lengths
<1>2. Length = SumFunctionOnSet(Lengths, Files)
  BY DEF Length, Lengths, SumFunction
<1>3. SumFunctionOnSet(Lengths, Files) \in Nat
  BY <1>1, SumIsNatural, ScanAssumption
<1> QED BY <1>1, <1>2, <1>3 DEF Summed

LEMMA LengthChanges ==
  ASSUME Lined, Lined', NEW f \in Files,
         \A g \in Files \ {f} : Len(transcripts'[g]) = Len(transcripts[g])
  PROVE  Length' + Len(transcripts[f]) = Length + Len(transcripts'[f])
<1>1. Summed /\ Summed'
  BY LengthsAreNatural, PTL
<1>2. SumFunctionOnSet(Lengths', Files) + Lengths[f] = SumFunctionOnSet(Lengths, Files) + Lengths'[f]
  <2>1. \A g \in Files : Lengths[g] \in Nat /\ Lengths'[g] \in Nat
    BY <1>1 DEF Summed
  <2>2. \A g \in Files \ {f} : Lengths[g] = Lengths'[g]
    BY <1>1 DEF Summed
  <2>3. IsFiniteSet(Files)
    BY ScanAssumption
  <2> QED BY <2>1, <2>2, <2>3, SumChange
<1> QED BY <1>1, <1>2 DEF Summed

(* No file is longer than all of them.                                     *)
LEMMA FilesAreBounded ==
  ASSUME Lined, Bounded, NEW f \in Files
  PROVE  Len(transcripts[f]) <= MaxWritten
<1>1. Lengths[f] <= SumFunctionOnSet(Lengths, Files)
  BY LengthsAreNatural, SumOfTerm, ScanAssumption DEF Summed
<1> QED BY <1>1, LengthsAreNatural, ScanAssumption DEF Bounded, Summed

LEMMA BeginLineAppends ==
  ASSUME Lined, Bounded, NEW f \in Files, NEW r \in Requests, NEW u \in Usage,
         NEW recent \in BOOLEAN, BeginLine(f, r, u, recent)
  PROVE  Lined' /\ Bounded' /\ Longer(transcripts, transcripts')
<1> DEFINE line == [request |-> r, usage |-> u, recent |-> recent, whole |-> FALSE]
           more == Append(transcripts[f], line)
<1>1. line \in Line
  BY DEF Line
<1>2. transcripts[f] \in Seq(Line) /\ Len(transcripts[f]) \in Nat
  BY LinesAreTyped
<1>3. transcripts' = [transcripts EXCEPT ![f] = more]
  BY DEF BeginLine
<1> HIDE DEF line
<1>4. /\ more \in Seq(Line) /\ Len(more) = Len(transcripts[f]) + 1
      /\ \A i \in 1 .. Len(transcripts[f]) : more[i] = transcripts[f][i]
  BY <1>1, <1>2
<1> HIDE DEF more
<1>5. Lined'
  BY <1>3, <1>4 DEF Lined
<1>6. \A g \in Files : transcripts'[g] = IF g = f THEN more ELSE transcripts[g]
  BY <1>3 DEF Lined
<1>7. Length' + Len(transcripts[f]) = Length + (Len(transcripts[f]) + 1)
  BY <1>4, <1>5, <1>6, LengthChanges
<1>8. Length \in Nat /\ Length' \in Nat
  <2>1. Summed /\ Summed'
    BY <1>5, LengthsAreNatural, PTL
  <2> QED BY <2>1 DEF Summed
<1>9. Bounded'
  BY <1>2, <1>7, <1>8, ScanAssumption DEF BeginLine, Bounded
<1>10. Longer(transcripts, transcripts')
  <2>1. \A g \in Files : Len(transcripts[g]) \in Nat
    BY LinesAreTyped
  <2> QED BY <1>4, <1>6, <2>1 DEF Longer
<1> QED BY <1>5, <1>9, <1>10

LEMMA EndLineCompletes ==
  ASSUME Lined, Bounded, NEW f \in Files, EndLine(f)
  PROVE  Lined' /\ Bounded' /\ Longer(transcripts, transcripts')
<1> DEFINE n == Len(transcripts[f])
           line == [transcripts[f][n] EXCEPT !.whole = TRUE]
           ended == [transcripts[f] EXCEPT ![n] = line]
<1>1. transcripts[f] \in Seq(Line) /\ n \in Nat
  BY LinesAreTyped
<1>2. n \in 1 .. n
  BY <1>1, EmptySeq DEF EndLine, Unfinished
<1>3. transcripts[f][n] \in Line
  BY <1>1, <1>2, ElementOfSeq
<1>4. /\ line \in Line /\ line.request = transcripts[f][n].request
      /\ line.usage = transcripts[f][n].usage /\ line.recent = transcripts[f][n].recent
      /\ line.whole
  BY <1>3 DEF Line
<1>5. transcripts' = [transcripts EXCEPT ![f] = ended]
  BY DEF EndLine
<1> HIDE DEF line
<1>6. /\ ended \in Seq(Line) /\ Len(ended) = n
      /\ \A i \in 1 .. n : ended[i] = IF i = n THEN line ELSE transcripts[f][i]
  BY <1>1, <1>2, <1>4, ExceptSeq
<1> HIDE DEF ended
<1>7. Lined'
  BY <1>5, <1>6 DEF Lined
<1>8. \A g \in Files : transcripts'[g] = IF g = f THEN ended ELSE transcripts[g]
  BY <1>5 DEF Lined
<1>9. Length' + n = Length + n
  BY <1>6, <1>7, <1>8, LengthChanges
<1>10. Length \in Nat /\ Length' \in Nat
  <2>1. Summed /\ Summed'
    BY <1>7, LengthsAreNatural, PTL
  <2> QED BY <2>1 DEF Summed
<1>11. Bounded'
  BY <1>1, <1>9, <1>10 DEF Bounded
<1>12. Longer(transcripts, transcripts')
  <2>1. \A g \in Files : Len(transcripts[g]) \in Nat
    BY LinesAreTyped
  <2> QED BY <1>4, <1>6, <1>8, <2>1 DEF Longer
<1> QED BY <1>7, <1>11, <1>12

LEMMA ResumeCopies ==
  ASSUME Lined, Bounded, NEW f \in Files, NEW g \in Files, Resume(f, g)
  PROVE  Lined' /\ Bounded' /\ Longer(transcripts, transcripts')
<1>1. transcripts' = [transcripts EXCEPT ![g] = transcripts[f]] /\ transcripts[g] = << >>
  BY DEF Resume
<1>2. \A h \in Files : transcripts'[h] = IF h = g THEN transcripts[f] ELSE transcripts[h]
  BY <1>1 DEF Lined
<1>3. Lined'
  BY <1>1 DEF Lined
<1>4. Len(transcripts[g]) = 0 /\ \A h \in Files : Len(transcripts[h]) \in Nat
  BY <1>1, LinesAreTyped
<1>5. Length' + Len(transcripts[g]) = Length + Len(transcripts[f])
  BY <1>2, <1>3, LengthChanges
<1>6. Length \in Nat /\ Length' \in Nat
  <2>1. Summed /\ Summed'
    BY <1>3, LengthsAreNatural, PTL
  <2> QED BY <2>1 DEF Summed
<1>7. Bounded'
  BY <1>4, <1>5, <1>6 DEF Resume, Bounded
<1>8. Longer(transcripts, transcripts')
  BY <1>2, <1>4 DEF Longer
<1> QED BY <1>3, <1>7, <1>8

LEMMA ClaudeAppends ==
  Lined /\ Bounded /\ Claude =>
    Lined' /\ Bounded' /\ Longer(transcripts, transcripts') /\ UNCHANGED <<scan, report>>
<1> SUFFICES ASSUME Lined, Bounded, Claude
             PROVE  Lined' /\ Bounded' /\ Longer(transcripts, transcripts')
                    /\ UNCHANGED <<scan, report>>
  OBVIOUS
<1> QED BY BeginLineAppends, EndLineCompletes, ResumeCopies
        DEF Claude, BeginLine, EndLine, Resume

LEMMA StillLonger ==
  ASSUME Lined, UNCHANGED transcripts
  PROVE  Lined' /\ Longer(transcripts, transcripts')
BY LinesAreTyped DEF Lined, Longer

-----------------------------------------------------------------------------
(* Where a scan is.                                                        *)
Placed == file # None => position <= Len(transcripts[file]) + 1

Idle ==
  kind = None => /\ pending = {} /\ file = None
                 /\ byKey = NoEntries /\ seen = {} /\ tokens = 0
                 /\ skipped = 0 /\ malformed = 0 /\ ~missed

Typed == TypeOK /\ Bounded /\ Placed /\ Idle

LEMMA FirstIsListed ==
  ASSUME TypeOK, pending # {}
  PROVE  First(pending) \in pending
<1>1. pending \in SUBSET Nat
  BY ScanAssumption DEF TypeOK
<1>2. PICK f \in pending : \A g \in pending : f <= g
  BY <1>1, LeastNatural
<1> QED BY <1>2 DEF First

LEMMA MergedIsGreater ==
  ASSUME NEW usage \in {0} \cup Usage, NEW line, line.usage \in Usage
  PROVE  /\ Merged(usage, line) \in Usage
         /\ usage <= Merged(usage, line) /\ line.usage <= Merged(usage, line)
         /\ Merged(usage, line) \in {usage, line.usage}
<1> DEFINE both == {usage, line.usage}
<1>1. both \in SUBSET (0 .. MaxUsage) /\ both # {} /\ line.usage \in 1 .. MaxUsage
  BY ScanAssumption DEF Usage
<1>2. PICK m \in both : \A n \in both : n <= m
  <2> HIDE DEF both
  <2> QED BY <1>1, GreatestBelow, ScanAssumption
<1>3. Max(both) \in both /\ \A n \in both : Max(both) >= n
  <2>1. \A n \in both : m >= n
    BY <1>1, <1>2
  <2> HIDE DEF both
  <2> QED BY <2>1 DEF Max
<1>4. usage <= Max(both) /\ line.usage <= Max(both)
  BY <1>1, <1>3
<1>5. Max(both) \in 1 .. MaxUsage
  BY <1>1, <1>3, <1>4, ScanAssumption
<1> QED BY <1>3, <1>4, <1>5 DEF Merged, Usage

LEMMA InitTyped == Init => Typed
<1> SUFFICES ASSUME Init PROVE Typed
  OBVIOUS
<1>1. Lined /\ \A f \in Files : Len(transcripts[f]) = 0
  BY EmptySeq DEF Init, Lined
<1>2. TypeOK
  <2>1. 1 \in 1 .. MaxWritten + 1
    BY ScanAssumption
  <2>2. NoEntries \in [Requests -> {0} \cup Usage]
    BY DEF NoEntries
  <2> QED BY <1>1, <2>1, <2>2 DEF Init, TypeOK, Lined, Windows
<1>3. Bounded
  <2>1. \A f \in Files : Lengths[f] = 0
    BY <1>1 DEF Lengths
  <2>2. Length = SumFunctionOnSet(Lengths, Files)
    BY <1>1, LengthsAreNatural DEF Summed
  <2>3. SumFunctionOnSet(Lengths, Files) = 0
    BY <2>1, SumOfZeros, ScanAssumption
  <2> QED BY <2>2, <2>3, ScanAssumption DEF Bounded
<1> QED BY <1>2, <1>3 DEF Typed, Placed, Idle, Init

LEMMA NextTyped == Typed /\ [Next]_vars => Typed'
<1> SUFFICES ASSUME Typed, [Next]_vars PROVE Typed'
  OBVIOUS
<1>1. CASE Claude
  <2>1. Lined' /\ Bounded' /\ Longer(transcripts, transcripts') /\ UNCHANGED <<scan, report>>
    BY <1>1, ClaudeAppends DEF Typed, TypeOK, Lined
  <2>2. \A f \in Files : Len(transcripts[f]) \in Nat /\ Len(transcripts'[f]) \in Nat
    BY <2>1, LenProperties DEF Lined, Typed, TypeOK
  <2>3. Placed'
    BY <2>1, <2>2 DEF Typed, Placed, TypeOK, Longer, scan, place
  <2> QED BY <2>1, <2>3 DEF Typed, TypeOK, Idle, Lined, scan, query, place, sums, left
<1>2. ASSUME NEW k \in Kinds, NEW w \in Windows, Start(k, w)
      PROVE  Typed'
  <2>1. TotalCost \in Nat
    <3>1. IsFiniteSet(Requests) /\ \A r \in Requests : [q \in Requests |-> Cost(q)][r] \in Nat
      BY CostsAreNatural, ScanAssumption DEF Typed, TypeOK, Lined
    <3> QED BY <3>1, SumIsNatural DEF TotalCost, SumFunction
  <2>2. Cardinality({line.request : line \in {l \in Written : InWindow(w, l)}}) \in Nat
    <3>1. \A line \in Written : line.request \in Requests
      BY LinesAreTyped DEF Written, LinesOf, Typed, TypeOK, Lined
    <3>2. {line.request : line \in {l \in Written : InWindow(w, l)}} \in SUBSET Requests
      BY <3>1
    <3> QED BY <3>2, ScanAssumption, FS_Subset, FS_CardinalityType
  <2>3. kind = None /\ kind' = k /\ k # None /\ file = None /\ file' = None
    BY <1>2, NoneAssumption DEF Start, Typed, Idle
  <2>4. pending' \subseteq Files /\ file' \in (Files \ pending') \cup {None}
    BY <1>2, <2>3 DEF Start
  <2>5. TypeOK'
    BY <1>2, <2>1, <2>2, <2>4 DEF Start, Typed, TypeOK, sums, left
  <2>6. Bounded' /\ Placed' /\ Idle'
    BY <1>2, <2>3 DEF Start, Typed, Bounded, Length, Placed, Idle
  <2> QED BY <2>5, <2>6 DEF Typed
<1>3. CASE OpenFile
  <2> DEFINE f == First(pending)
  <2>1. f \in pending /\ f \in Files
    BY <1>3, FirstIsListed DEF OpenFile, Typed, TypeOK
  <2>2. 1 \in 1 .. MaxWritten + 1 /\ Len(transcripts[f]) \in Nat
    BY <2>1, ScanAssumption, LinesAreTyped DEF Typed, TypeOK, Lined
  <2> HIDE DEF f
  <2>3. pending' = pending \ {f} /\ UNCHANGED <<transcripts, report, query, sums, malformed>>
    BY <1>3 DEF OpenFile, f
  <2>4. \/ skipped' = skipped + 1 /\ UNCHANGED <<file, position, missed>>
        \/ file' = f /\ position' = 1 /\ UNCHANGED <<skipped, missed>>
        \/ missed' = TRUE /\ UNCHANGED <<file, position, skipped>>
    BY <1>3 DEF OpenFile, f
  <2>5. kind # None /\ file = None
    BY <1>3 DEF OpenFile
  <2>6. pending' \subseteq Files /\ file' \in (Files \ pending') \cup {None}
    BY <2>1, <2>3, <2>4, <2>5 DEF Typed, TypeOK
  <2>7. position' \in 1 .. MaxWritten + 1 /\ skipped' \in Nat /\ missed' \in BOOLEAN
    <3>1. position \in 1 .. MaxWritten + 1 /\ skipped \in Nat /\ missed \in BOOLEAN
      BY DEF Typed, TypeOK
    <3>2. skipped + 1 \in Nat /\ TRUE \in BOOLEAN
      BY <3>1
    <3> QED BY <2>2, <2>4, <3>1, <3>2, Zenon
  <2>8. TypeOK'
    BY <2>3, <2>6, <2>7 DEF Typed, TypeOK, query, sums
  <2>9. Placed'
    BY <2>2, <2>3, <2>4, <2>5 DEF Placed
  <2> QED BY <2>3, <2>5, <2>8, <2>9 DEF Typed, Bounded, Length, Idle, query
<1>4. CASE ReadLine
  <2> DEFINE line == transcripts[file][position]
  <2>1. file \in Files /\ position \in 1 .. Len(transcripts[file])
    BY <1>4 DEF ReadLine, Typed, TypeOK
  <2>2. line.request \in Requests /\ line.usage \in Usage
    BY <2>1, LinesAreTyped DEF Typed, TypeOK, Lined
  <2>3. Len(transcripts[file]) \in Nat /\ Len(transcripts[file]) <= MaxWritten
    BY <2>1, LinesAreTyped, FilesAreBounded DEF Typed, TypeOK, Lined
  <2> HIDE DEF line
  <2>4. byKey' \in [Requests -> {0} \cup Usage]
    <3>1. byKey' = byKey \/ byKey' = [byKey EXCEPT ![line.request] = Merged(@, line)]
      BY <1>4 DEF ReadLine, line
    <3>2. Merged(byKey[line.request], line) \in Usage
      BY <2>2, MergedIsGreater DEF Typed, TypeOK
    <3> QED BY <3>1, <3>2 DEF Typed, TypeOK
  <2>5. seen' \subseteq Requests /\ tokens' \in Nat
    <3>1. \/ seen' = seen /\ tokens' = tokens
          \/ seen' = seen \cup {line.request} /\ tokens' = tokens + line.usage
      BY <1>4 DEF ReadLine, line
    <3> QED BY <2>2, <3>1 DEF Typed, TypeOK, Usage
  <2>6. /\ position' = position + 1
        /\ UNCHANGED <<transcripts, report, query, pending, file, skipped, missed>>
    BY <1>4 DEF ReadLine
  <2>10. malformed' \in Nat
    <3>1. malformed' = malformed \/ malformed' = malformed + 1
      BY <1>4 DEF ReadLine, CountedMalformed
    <3> QED BY <3>1 DEF Typed, TypeOK
  <2>7. position' \in 1 .. MaxWritten + 1 /\ position' <= Len(transcripts[file]) + 1
    BY <2>1, <2>3, <2>6, ScanAssumption
  <2>8. TypeOK'
    BY <2>4, <2>5, <2>6, <2>7, <2>10 DEF Typed, TypeOK, query
  <2>9. kind # None
    BY <2>1, NoneAssumption DEF Typed, Idle
  <2> QED BY <2>6, <2>7, <2>8, <2>9 DEF Typed, Bounded, Length, Placed, Idle, query
<1>5. CASE CloseFile
  <2>1. 1 \in 1 .. MaxWritten + 1
    BY ScanAssumption
  <2>2. kind # None
    BY <1>5 DEF CloseFile, Typed, Idle
  <2> QED BY <1>5, <2>1, <2>2
          DEF CloseFile, Typed, TypeOK, Bounded, Length, Placed, Idle, query, sums, left
<1>6. CASE Finish
  <2>1. QuotaTotal \in Nat
    <3>1. byKey \in [Requests -> {0} \cup Usage] /\ \A r \in Requests : byKey[r] \in Nat
      BY DEF Typed, TypeOK, Usage
    <3> QED BY <3>1, SumIsNatural, ScanAssumption DEF QuotaTotal, SumFunction
  <2>2. Cardinality({r \in Requests : byKey[r] > 0}) \in Nat /\ Cardinality(seen) \in Nat
    <3>1. seen \in SUBSET Requests /\ {r \in Requests : byKey[r] > 0} \in SUBSET Requests
      BY DEF Typed, TypeOK
    <3> QED BY <3>1, ScanAssumption, FS_Subset, FS_CardinalityType
  <2>3. kind \in Kinds
    BY <1>6 DEF Finish, Typed, TypeOK
  <2>4. report' \in Report
    BY <1>6, <2>1, <2>2, <2>3 DEF Finish, Typed, TypeOK, Report
  <2>5. NoEntries \in [Requests -> {0} \cup Usage]
    BY DEF NoEntries
  <2>6. UNCHANGED place /\ file = None /\ pending = {}
    BY <1>6 DEF Finish
  <2>7. TypeOK'
    BY <1>6, <2>4, <2>5, <2>6 DEF Finish, Typed, TypeOK, place, Windows
  <2> QED BY <1>6, <2>6, <2>7 DEF Finish, Typed, Bounded, Length, Placed, Idle, place
<1>7. CASE UNCHANGED vars
  BY <1>7 DEF vars, scan, query, place, sums, left, Typed, TypeOK, Bounded, Length, Placed, Idle
<1> QED BY <1>1, <1>2, <1>3, <1>4, <1>5, <1>6, <1>7 DEF Next, Scan

(* The state of both scanners stays what TypeOK says: the file being read  *)
(* is off the list, and the place in it within what can be written.        *)
THEOREM TypeCorrect == Spec => []TypeOK
<1>1. Spec => []Typed
  BY InitTyped, NextTyped, PTL DEF Spec
<1>2. Typed => TypeOK
  BY DEF Typed
<1> QED BY <1>1, <1>2, PTL

-----------------------------------------------------------------------------
(* Never too much: what was counted of a request is no more than it has    *)
(* cost by now, and a session charges no request twice.                    *)
Costs == [r \in Requests |-> Cost(r)]

Owed ==
  /\ \A r \in Requests : byKey[r] <= Cost(r)
  /\ tokens <= SumFunctionOnSet(Costs, seen)

LEMMA CostsAreTyped ==
  ASSUME Typed
  PROVE  /\ Lined
         /\ \A r \in Requests : Costs[r] = Cost(r) /\ Cost(r) \in Nat /\ byKey[r] \in Nat
         /\ \A S \in SUBSET Requests : SumFunctionOnSet(Costs, S) \in Nat
         /\ \A S \in SUBSET Requests : IsFiniteSet(S)
<1>1. Lined
  BY DEF Typed, TypeOK, Lined
<1>2. \A r \in Requests : Costs[r] = Cost(r) /\ Cost(r) \in Nat
  BY <1>1, CostIsGreatest DEF Greatest, Costs
<1>3. \A r \in Requests : byKey[r] \in Nat
  BY DEF Typed, TypeOK, Usage
<1>4. \A S \in SUBSET Requests : IsFiniteSet(S)
  BY ScanAssumption, FS_Subset
<1>5. \A S \in SUBSET Requests : SumFunctionOnSet(Costs, S) \in Nat
  BY <1>2, <1>4, SumIsNatural
<1> QED BY <1>1, <1>2, <1>3, <1>4, <1>5

LEMMA SumsOfCostsGrow ==
  ASSUME Typed, Typed', Longer(transcripts, transcripts')
  PROVE  /\ \A r \in Requests : Cost(r) <= Cost(r)'
         /\ \A S \in SUBSET Requests : SumFunctionOnSet(Costs, S) <= SumFunctionOnSet(Costs', S)
         /\ TotalCost <= TotalCost'
<1>1. Lined /\ Lined'
  BY DEF Typed, TypeOK, Lined
<1>2. /\ \A r : Cost(r) \in Nat /\ Cost(r)' \in Nat /\ Cost(r) <= Cost(r)'
      /\ TotalCost <= TotalCost'
  BY <1>1, CostGrows
<1>3. \A r \in Requests : Costs[r] \in Nat /\ Costs'[r] \in Nat /\ Costs[r] <= Costs'[r]
  BY <1>2 DEF Costs
<1>4. \A S \in SUBSET Requests : IsFiniteSet(S)
  BY ScanAssumption, FS_Subset
<1>5. \A S \in SUBSET Requests : SumFunctionOnSet(Costs, S) <= SumFunctionOnSet(Costs', S)
  BY <1>3, <1>4, SumMonotone
<1> QED BY <1>2, <1>5

LEMMA OwedSteps == Typed /\ Typed' /\ Owed /\ [Next]_vars => Owed'
<1> SUFFICES ASSUME Typed, Typed', Owed, [Next]_vars PROVE Owed'
  OBVIOUS
<1>0. Lined /\ Lined'
  BY DEF Typed, TypeOK, Lined
<1>1. CASE Claude
  <2>1. Longer(transcripts, transcripts') /\ UNCHANGED sums
    BY <1>0, <1>1, ClaudeAppends DEF Typed, scan
  <2>2. seen \in SUBSET Requests /\ tokens \in Nat
    BY DEF Typed, TypeOK
  <2>3. \A r \in Requests : byKey[r] \in Nat /\ Cost(r) \in Nat /\ Cost(r)' \in Nat /\ Cost(r) <= Cost(r)'
    BY <1>0, <2>1, CostGrows, CostsAreTyped
  <2>4. SumFunctionOnSet(Costs, seen) <= SumFunctionOnSet(Costs', seen)
    BY <2>1, <2>2, SumsOfCostsGrow
  <2>5. SumFunctionOnSet(Costs, seen) \in Nat /\ SumFunctionOnSet(Costs', seen) \in Nat
    <3>1. \A r \in Requests : Costs'[r] \in Nat
      BY <2>3 DEF Costs
    <3>2. IsFiniteSet(seen)
      BY <2>2, ScanAssumption, FS_Subset
    <3> QED BY <2>2, <3>1, <3>2, CostsAreTyped, SumIsNatural
  <2>6. tokens <= SumFunctionOnSet(Costs', seen)
    BY <2>2, <2>4, <2>5 DEF Owed
  <2>7. \A r \in Requests : byKey[r] <= Cost(r)'
    BY <2>3 DEF Owed
  <2> QED BY <2>1, <2>6, <2>7 DEF Owed, sums
<1>2. CASE UNCHANGED <<transcripts, sums>>
  BY <1>2 DEF Owed, sums, Costs, Cost, Written, LinesOf
<1>3. CASE ReadLine
  <2> DEFINE line == transcripts[file][position]
             r == line.request
  <2>1. file \in Files /\ position \in 1 .. Len(transcripts[file])
    BY <1>3 DEF ReadLine, Typed, TypeOK
  <2>2. r \in Requests /\ line.usage \in Usage
    BY <1>0, <2>1, LinesAreTyped
  <2>3. line.whole => line.usage <= Cost(r)
    <3>1. line.whole => Holds(file, position, r)
      BY <2>1 DEF Holds
    <3> QED BY <1>0, <3>1, CostIsGreatest DEF Greatest
  <2>4. UNCHANGED transcripts
    BY <1>3 DEF ReadLine
  <2>5. Costs' = Costs /\ \A q : Cost(q)' = Cost(q)
    BY <2>4 DEF Costs, Cost, Written, LinesOf
  <2>6. /\ \A q \in Requests : Costs[q] = Cost(q) /\ Cost(q) \in Nat /\ byKey[q] \in Nat
        /\ \A S \in SUBSET Requests : SumFunctionOnSet(Costs, S) \in Nat
        /\ \A S \in SUBSET Requests : IsFiniteSet(S)
    BY CostsAreTyped
  <2>7. seen \in SUBSET Requests /\ tokens \in Nat /\ byKey \in [Requests -> {0} \cup Usage]
    BY DEF Typed, TypeOK
  <2>8. ASSUME line.whole, byKey' = [byKey EXCEPT ![line.request] = Merged(@, line)],
               UNCHANGED <<seen, tokens>>
        PROVE  Owed'
    <3>1. Merged(byKey[r], line) <= Cost(r)
      BY <2>2, <2>3, <2>7, <2>8, MergedIsGreater DEF Owed
    <3> HIDE DEF line
    <3>2. \A q \in Requests : byKey'[q] = IF q = r THEN Merged(byKey[r], line) ELSE byKey[q]
      BY <2>7, <2>8
    <3>3. \A q \in Requests : byKey'[q] <= Cost(q)
      BY <3>1, <3>2 DEF Owed
    <3> QED BY <2>5, <2>8, <3>3 DEF Owed
  <2>9. ASSUME line.whole, ~Skipped(line), seen' = seen \cup {line.request},
               tokens' = tokens + line.usage, UNCHANGED byKey
        PROVE  Owed'
    <3> DEFINE more == seen \cup {r}
    <3>1. r \notin seen /\ line.usage <= Cost(r)
      BY <2>3, <2>9 DEF Skipped
    <3> HIDE DEF line
    <3>2. more \in SUBSET Requests /\ r \in more /\ more \ {r} = seen
      BY <2>2, <2>7, <3>1
    <3> HIDE DEF more
    <3>3. IsFiniteSet(more) /\ \A q \in more : Costs[q] \in Nat
      BY <2>6, <3>2
    <3>4. SumFunctionOnSet(Costs, more) = Costs[r] + SumFunctionOnSet(Costs, seen)
      BY <3>2, <3>3, SumRemove
    <3>5. line.usage \in Nat
      BY <2>2 DEF Usage
    <3>6. Costs[r] = Cost(r) /\ Cost(r) \in Nat /\ SumFunctionOnSet(Costs, seen) \in Nat
      BY <2>2, <2>6, <2>7
    <3>7. tokens + line.usage <= SumFunctionOnSet(Costs, more)
      BY <2>7, <3>1, <3>4, <3>5, <3>6 DEF Owed
    <3> QED BY <2>5, <2>9, <3>7 DEF Owed, more
  <2>10. CASE UNCHANGED <<byKey, seen, tokens>>
    BY <2>5, <2>10 DEF Owed
  <2> QED BY <1>3, <2>8, <2>9, <2>10 DEF ReadLine
<1>4. CASE Finish
  <2>1. \A r \in Requests : byKey'[r] = 0 /\ Cost(r)' = Cost(r)
    BY <1>4 DEF Finish, NoEntries, Cost, Written, LinesOf
  <2>2. \A r \in Requests : Cost(r) \in Nat
    BY CostsAreTyped
  <2>3. SumFunctionOnSet(Costs', {}) = 0
    BY SumOfNothing
  <2>4. tokens' = 0 /\ seen' = {}
    BY <1>4 DEF Finish
  <2> QED BY <2>1, <2>2, <2>3, <2>4 DEF Owed
<1> QED BY <1>1, <1>2, <1>3, <1>4 DEF Next, Scan, Start, OpenFile, CloseFile, vars, scan, sums

-----------------------------------------------------------------------------
(* Never too little: what a request had cost when the scan began has been  *)
(* counted, or a line that says so is still ahead of the scan.             *)
Ahead(f, i) == f \in pending \/ (f = file /\ i >= position)

Counted(r, n) ==
  n <= byKey[r] \/ \E f, i : Ahead(f, i) /\ Holds(f, i, r) /\ n <= transcripts[f][i].usage

Seen(r) ==
  r \in seen \/ \E f, i : Ahead(f, i) /\ Holds(f, i, r) /\ InWindow(window, transcripts[f][i])

Whole == skipped = 0 /\ malformed = 0 /\ ~missed

Covered ==
  kind = "quota" /\ Whole =>
    \E c \in [Requests -> Nat] : floor = SumFunction(c) /\ \A r \in Requests : Counted(r, c[r])

Expected ==
  kind = "session" /\ Whole =>
    \E R \in SUBSET Requests : due = Cardinality(R) /\ \A r \in R : Seen(r)

(* A line that is read is counted, or left out with a count.               *)
LEMMA ReadStaysWhole ==
  ASSUME Typed, ReadLine, Whole'
  PROVE  /\ Whole /\ UNCHANGED query
         /\ LET line == transcripts[file][position] IN
            kind = "quota" /\ line.whole =>
              byKey' = [byKey EXCEPT ![line.request] = Merged(@, line)]
<1>1. malformed \in Nat
  BY DEF Typed, TypeOK
<1>2. malformed' # malformed + 1
  BY <1>1 DEF Whole
<1>3. malformed' = malformed
  BY <1>2 DEF ReadLine, CountedMalformed
<1> QED BY <1>2, <1>3 DEF ReadLine, CountedMalformed, Whole

(* A place that is ahead stays ahead, or its line is the one being read.   *)
LEMMA AheadSteps ==
  ASSUME Typed, Typed', Next, kind # None, kind' # None, Whole',
         NEW r, NEW f, NEW i, Ahead(f, i), Holds(f, i, r)
  PROVE  /\ Holds(f, i, r)'
         /\ transcripts'[f][i].usage = transcripts[f][i].usage
         /\ transcripts'[f][i].recent = transcripts[f][i].recent
         /\ UNCHANGED <<kind, window, floor, due>> /\ Whole
         /\ Ahead(f, i)' \/ (ReadLine /\ f = file /\ i = position)
<1>1. Lined /\ Lined'
  BY DEF Typed, TypeOK, Lined
<1>2. f \in Files /\ i \in 1 .. Len(transcripts[f]) /\ Len(transcripts[f]) \in Nat
  BY <1>1, LinesAreTyped DEF Holds
<1>3. CASE Claude
  <2>1. Longer(transcripts, transcripts') /\ UNCHANGED scan
    BY <1>1, <1>3, ClaudeAppends DEF Typed
  <2> QED BY <1>1, <2>1, HeldStays DEF scan, query, place, left, Ahead, Whole
<1>4. CASE UNCHANGED <<transcripts, query>>
  <2>1. Holds(f, i, r)'
    BY <1>4 DEF Holds
  <2>2. CASE OpenFile
    <3> DEFINE g == First(pending)
    <3>1. /\ pending' = pending \ {g} /\ file = None
          /\ UNCHANGED malformed
          /\ \/ skipped' = skipped + 1 /\ UNCHANGED <<file, position, missed>>
             \/ file' = g /\ position' = 1 /\ UNCHANGED <<skipped, missed>>
             \/ missed' = TRUE /\ UNCHANGED <<file, position, skipped>>
      BY <2>2 DEF OpenFile
    <3>2. skipped \in Nat
      BY DEF Typed, TypeOK
    <3> HIDE DEF g
    <3>3. file' = g /\ position' = 1 /\ Whole
      BY <3>1, <3>2 DEF Whole
    <3>4. f \in pending /\ i >= 1
      BY <1>2, <3>1, NoneAssumption DEF Ahead
    <3> QED BY <1>4, <2>1, <3>1, <3>3, <3>4 DEF Ahead, query
  <2>3. CASE ReadLine
    <3>1. position' = position + 1 /\ UNCHANGED <<pending, file>> /\ Whole
      BY <2>3, ReadStaysWhole DEF ReadLine
    <3>2. position \in Nat /\ i \in Nat
      BY <1>2 DEF Typed, TypeOK
    <3>3. i >= position => i >= position + 1 \/ i = position
      BY <3>2
    <3>4. Ahead(f, i)' \/ (f = file /\ i = position)
      BY <3>1, <3>3 DEF Ahead
    <3> QED BY <1>4, <2>1, <2>3, <3>1, <3>4 DEF query
  <2>4. CASE CloseFile
    <3>1. position > Len(transcripts[file]) /\ UNCHANGED <<pending, left>>
      BY <2>4 DEF CloseFile
    <3>2. position \in Nat
      BY DEF Typed, TypeOK
    <3>3. f \in pending
      BY <1>2, <3>1, <3>2 DEF Ahead
    <3> QED BY <1>4, <2>1, <3>1, <3>3 DEF Ahead, query, left, Whole
  <2>5. CASE Claude
    BY <1>3, <2>5
  <2> QED BY <2>2, <2>3, <2>4, <2>5 DEF Next, Scan, Start, Finish
<1> QED BY <1>3, <1>4 DEF Next, Scan, Start, Finish, OpenFile, ReadLine, CloseFile

LEMMA CountedSteps ==
  ASSUME Typed, Typed', Next, kind = "quota", kind' # None, Whole',
         NEW r \in Requests, NEW n \in Nat, Counted(r, n)
  PROVE  Counted(r, n)'
<1>0. kind # None /\ Lined
  BY NoneAssumption DEF Kinds, Typed, TypeOK, Lined
<1>1. byKey \in [Requests -> {0} \cup Usage] /\ byKey' \in [Requests -> {0} \cup Usage]
  BY DEF Typed, TypeOK
<1>2. byKey[r] \in Nat /\ byKey'[r] \in Nat
  BY <1>1 DEF Usage
<1>3. byKey[r] <= byKey'[r]
  <2>1. CASE ReadLine
    <3> DEFINE line == transcripts[file][position]
    <3>1. file \in Files /\ position \in 1 .. Len(transcripts[file])
      BY <2>1 DEF ReadLine, Typed, TypeOK
    <3>2. line.request \in Requests /\ line.usage \in Usage
      BY <1>0, <3>1, LinesAreTyped
    <3>3. byKey' = byKey \/ byKey' = [byKey EXCEPT ![line.request] = Merged(@, line)]
      BY <2>1 DEF ReadLine
    <3> HIDE DEF line
    <3>4. byKey[line.request] <= Merged(byKey[line.request], line)
      BY <1>1, <3>2, MergedIsGreater
    <3> QED BY <1>1, <1>2, <3>2, <3>3, <3>4
  <2>2. CASE UNCHANGED byKey
    BY <1>2, <2>2
  <2> QED BY <1>0, <2>1, <2>2
          DEF Next, Claude, BeginLine, EndLine, Resume, Scan, Start, OpenFile, CloseFile, Finish,
              scan, sums
<1>4. CASE n <= byKey[r]
  BY <1>2, <1>3, <1>4 DEF Counted
<1>5. ASSUME NEW f, NEW i, Ahead(f, i), Holds(f, i, r), n <= transcripts[f][i].usage
      PROVE  Counted(r, n)'
  <2>1. /\ Holds(f, i, r)' /\ transcripts'[f][i].usage = transcripts[f][i].usage
        /\ Ahead(f, i)' \/ (ReadLine /\ f = file /\ i = position)
    BY <1>0, <1>5, AheadSteps
  <2>2. CASE Ahead(f, i)'
    BY <1>5, <2>1, <2>2 DEF Counted
  <2>3. CASE ReadLine /\ f = file /\ i = position
    <3> DEFINE line == transcripts[file][position]
    <3>1. line.whole /\ line.request = r /\ n <= line.usage
      BY <1>5, <2>3 DEF Holds
    <3>2. line.usage \in Usage
      BY <1>0, <1>5, <2>3, LinesAreTyped DEF Holds
    <3>3. byKey' = [byKey EXCEPT ![r] = Merged(@, line)]
      BY <2>3, <3>1, ReadStaysWhole DEF ReadLine
    <3> HIDE DEF line
    <3>4. line.usage <= Merged(byKey[r], line) /\ byKey'[r] = Merged(byKey[r], line)
      BY <1>1, <3>2, <3>3, MergedIsGreater
    <3>5. line.usage \in Nat
      BY <3>2 DEF Usage
    <3>6. n <= byKey'[r]
      BY <1>2, <3>1, <3>4, <3>5
    <3> QED BY <3>6 DEF Counted
  <2> QED BY <2>1, <2>2, <2>3
<1> QED BY <1>4, <1>5 DEF Counted

LEMMA SeenSteps ==
  ASSUME Typed, Typed', Next, kind = "session", kind' # None, Whole',
         NEW r \in Requests, Seen(r)
  PROVE  Seen(r)'
<1>0. kind # None
  BY NoneAssumption DEF Kinds
<1>1. seen \subseteq seen'
  BY <1>0 DEF Next, Claude, BeginLine, EndLine, Resume, Scan, Start, OpenFile, ReadLine,
              CloseFile, Finish, scan, sums
<1>2. CASE r \in seen
  BY <1>1, <1>2 DEF Seen
<1>3. ASSUME NEW f, NEW i, Ahead(f, i), Holds(f, i, r), InWindow(window, transcripts[f][i])
      PROVE  Seen(r)'
  <2>1. /\ Holds(f, i, r)' /\ transcripts'[f][i].recent = transcripts[f][i].recent
        /\ window' = window
        /\ Ahead(f, i)' \/ (ReadLine /\ f = file /\ i = position)
    BY <1>0, <1>3, AheadSteps
  <2>2. CASE Ahead(f, i)'
    BY <1>3, <2>1, <2>2 DEF Seen, InWindow
  <2>3. CASE ReadLine /\ f = file /\ i = position
    <3>1. r \in seen'
      BY <1>3, <2>3 DEF ReadLine, Holds, Skipped
    <3> QED BY <3>1 DEF Seen
  <2> QED BY <2>1, <2>2, <2>3
<1> QED BY <1>2, <1>3 DEF Seen

(* What is still to be read when a scan starts is all there is.            *)
LEMMA StartAhead ==
  ASSUME Typed, NEW k, NEW w, Start(k, w), NEW f, NEW i, NEW r, Holds(f, i, r)
  PROVE  Ahead(f, i)' /\ Holds(f, i, r)'
<1>1. Lined
  BY DEF Typed, TypeOK, Lined
<1>2. f \in Files /\ Len(transcripts[f]) # 0
  BY <1>1, LinesAreTyped DEF Holds
<1>3. transcripts[f] # << >>
  BY <1>2, EmptySeq
<1> QED BY <1>2, <1>3 DEF Start, Ahead, Holds

LEMMA StaysWhole ==
  ASSUME Typed, Next, kind # None, kind' # None, Whole'
  PROVE  Whole /\ UNCHANGED query
<1>1. skipped \in Nat
  BY DEF Typed, TypeOK
<1>2. CASE OpenFile
  <2>1. UNCHANGED left \/ skipped' = skipped + 1 \/ missed'
    BY <1>2 DEF OpenFile, left
  <2> QED BY <1>1, <1>2, <2>1 DEF OpenFile, left, Whole
<1>3. CASE UNCHANGED <<query, left>>
  BY <1>3 DEF left, Whole
<1>4. CASE ReadLine
  BY <1>4, ReadStaysWhole
<1> QED BY <1>2, <1>3, <1>4 DEF Next, Claude, BeginLine, EndLine, Resume, Scan, Start,
                    CloseFile, Finish, scan

LEMMA CoveredSteps == Typed /\ Typed' /\ Covered /\ [Next]_vars => Covered'
<1> SUFFICES ASSUME Typed, Typed', Covered, [Next]_vars, kind' = "quota", Whole'
             PROVE  \E c \in [Requests -> Nat] :
                      /\ floor' = SumFunction(c)
                      /\ \A r \in Requests : Counted(r, c[r])'
  BY DEF Covered
<1>0. kind' # None
  BY NoneAssumption DEF Kinds
<1>1. CASE UNCHANGED vars
  <2>1. PICK c \in [Requests -> Nat] :
          floor = SumFunction(c) /\ \A r \in Requests : Counted(r, c[r])
    BY <1>1 DEF Covered, Whole, vars, scan, query, left
  <2>2. \A r \in Requests : Counted(r, c[r])'
    BY <1>1, <2>1 DEF Counted, Ahead, Holds, vars, scan, place, sums
  <2> QED BY <1>1, <2>1, <2>2 DEF vars, scan, query
<1>2. CASE Next /\ kind # None
  <2>1. Whole /\ UNCHANGED query
    BY <1>0, <1>2, StaysWhole
  <2>2. kind = "quota" /\ floor' = floor
    BY <2>1 DEF query
  <2>3. PICK c \in [Requests -> Nat] :
          floor = SumFunction(c) /\ \A r \in Requests : Counted(r, c[r])
    BY <2>1, <2>2 DEF Covered
  <2>4. \A r \in Requests : Counted(r, c[r])'
    BY <1>0, <1>2, <2>2, <2>3, CountedSteps
  <2> QED BY <2>2, <2>3, <2>4
<1>3. CASE Next /\ kind = None
  <2>1. PICK w \in Windows, k \in Kinds : Start(k, w)
    BY <1>0, <1>3, NoneAssumption
       DEF Next, Claude, BeginLine, EndLine, Resume, Scan, OpenFile, ReadLine, CloseFile, Finish,
           Typed, Idle, scan, query
  <2>2. Lined
    BY DEF Typed, TypeOK, Lined
  <2>3. floor' = SumFunction(Costs)
    BY <2>1 DEF Start, TotalCost, Costs
  <2>4. PICK c \in [Requests -> Nat] : c = Costs /\ \A r \in Requests : c[r] = Cost(r)
    BY CostsAreTyped DEF Costs
  <2>5. ASSUME NEW r \in Requests
        PROVE  Counted(r, c[r])'
    <3>1. byKey'[r] = 0 /\ transcripts' = transcripts
      BY <2>1 DEF Start, sums, Typed, Idle, NoEntries
    <3>2. CASE Cost(r) = 0
      BY <2>4, <3>1, <3>2 DEF Counted
    <3>3. ASSUME NEW f, NEW i, Holds(f, i, r), transcripts[f][i].usage = Cost(r)
          PROVE  Counted(r, c[r])'
      <4>1. Ahead(f, i)' /\ Holds(f, i, r)'
        BY <2>1, <3>3, StartAhead
      <4>2. Cost(r) <= transcripts'[f][i].usage
        BY <2>4, <2>5, <3>1, <3>3, CostsAreTyped
      <4> QED BY <2>4, <4>1, <4>2 DEF Counted
    <3> QED BY <2>2, <3>2, <3>3, CostIsGreatest DEF Greatest
  <2> QED BY <2>3, <2>4, <2>5
<1> QED BY <1>1, <1>2, <1>3

LEMMA ExpectedSteps == Typed /\ Typed' /\ Expected /\ [Next]_vars => Expected'
<1> SUFFICES ASSUME Typed, Typed', Expected, [Next]_vars, kind' = "session", Whole'
             PROVE  \E R \in SUBSET Requests :
                      due' = Cardinality(R) /\ \A r \in R : Seen(r)'
  BY DEF Expected
<1>0. kind' # None
  BY NoneAssumption DEF Kinds
<1>1. CASE UNCHANGED vars
  <2>1. PICK R \in SUBSET Requests : due = Cardinality(R) /\ \A r \in R : Seen(r)
    BY <1>1 DEF Expected, Whole, vars, scan, query, left
  <2>2. \A r \in R : Seen(r)'
    BY <1>1, <2>1 DEF Seen, Ahead, Holds, InWindow, vars, scan, query, place, sums
  <2> QED BY <1>1, <2>1, <2>2 DEF vars, scan, query
<1>2. CASE Next /\ kind # None
  <2>1. Whole /\ UNCHANGED query
    BY <1>0, <1>2, StaysWhole
  <2>2. kind = "session" /\ due' = due
    BY <2>1 DEF query
  <2>3. PICK R \in SUBSET Requests : due = Cardinality(R) /\ \A r \in R : Seen(r)
    BY <2>1, <2>2 DEF Expected
  <2>4. \A r \in R : Seen(r)'
    BY <1>0, <1>2, <2>2, <2>3, SeenSteps
  <2> QED BY <2>2, <2>3, <2>4
<1>3. CASE Next /\ kind = None
  <2>1. PICK w \in Windows, k \in Kinds : Start(k, w)
    BY <1>0, <1>3, NoneAssumption
       DEF Next, Claude, BeginLine, EndLine, Resume, Scan, OpenFile, ReadLine, CloseFile, Finish,
           Typed, Idle, scan, query
  <2> DEFINE R == {line.request : line \in {l \in Written : InWindow(w, l)}}
  <2>2. Lined
    BY DEF Typed, TypeOK, Lined
  <2>3. due' = Cardinality(R) /\ window' = w /\ transcripts' = transcripts
    BY <2>1 DEF Start
  <2>4. ASSUME NEW r \in R
        PROVE  r \in Requests /\ Seen(r)'
    <3>1. PICK f, i : Holds(f, i, r) /\ InWindow(w, transcripts[f][i])
      BY <2>2, LinesAreTyped DEF Written, LinesOf, Holds
    <3>2. Ahead(f, i)' /\ Holds(f, i, r)'
      BY <2>1, <3>1, StartAhead
    <3>3. r \in Requests
      BY <2>2, <3>1, LinesAreTyped DEF Holds
    <3> QED BY <2>3, <3>1, <3>2, <3>3 DEF Seen, InWindow
  <2>5. R \in SUBSET Requests
    BY <2>4
  <2> QED BY <2>3, <2>4, <2>5
<1> QED BY <1>1, <1>2, <1>3

-----------------------------------------------------------------------------
(* What is reported.                                                       *)
Rising == kind = "quota" /\ Reported("quota") => report.total <= floor

Bracketed == QuotaIsBracketed /\ SessionIsBracketed /\ Rising

Inv == Typed /\ Owed /\ Covered /\ Expected /\ Bracketed

LEMMA NothingIsAhead ==
  ASSUME file = None, pending = {}
  PROVE  \A f, i, r : Holds(f, i, r) => ~Ahead(f, i)
BY NoneAssumption DEF Ahead, Holds

LEMMA QuotaFinishes ==
  ASSUME Typed, Owed, Covered, kind = "quota", file = None, pending = {}
  PROVE  /\ QuotaTotal \in Nat /\ QuotaTotal <= TotalCost
         /\ Whole => floor <= QuotaTotal
<1>1. QuotaTotal = SumFunctionOnSet(byKey, Requests)
  BY DEF QuotaTotal, SumFunction, Typed, TypeOK
<1>2. TotalCost = SumFunctionOnSet(Costs, Requests)
  BY DEF TotalCost, Costs, SumFunction
<1>3. \A r \in Requests : byKey[r] \in Nat /\ Costs[r] \in Nat /\ byKey[r] <= Costs[r]
  BY CostsAreTyped DEF Owed
<1>4. QuotaTotal \in Nat /\ QuotaTotal <= TotalCost
  BY <1>1, <1>2, <1>3, SumIsNatural, SumMonotone, ScanAssumption
<1>5. ASSUME Whole PROVE floor <= QuotaTotal
  <2>1. PICK c \in [Requests -> Nat] :
          floor = SumFunction(c) /\ \A r \in Requests : Counted(r, c[r])
    BY <1>5 DEF Covered
  <2>2. \A r \in Requests : c[r] \in Nat /\ c[r] <= byKey[r]
    BY <2>1, NothingIsAhead DEF Counted
  <2>3. floor = SumFunctionOnSet(c, Requests)
    BY <2>1 DEF SumFunction
  <2> QED BY <1>1, <1>3, <2>2, <2>3, SumMonotone, ScanAssumption
<1> QED BY <1>4, <1>5

LEMMA SessionFinishes ==
  ASSUME Typed, Owed, Expected, kind = "session", file = None, pending = {}
  PROVE  /\ tokens <= TotalCost
         /\ Whole => due <= Cardinality(seen)
<1>1. seen \in SUBSET Requests /\ tokens \in Nat
  BY DEF Typed, TypeOK
<1>2. tokens <= TotalCost
  <2>1. TotalCost = SumFunctionOnSet(Costs, Requests)
    BY DEF TotalCost, Costs, SumFunction
  <2>2. \A r \in Requests : Costs[r] \in Nat
    BY CostsAreTyped
  <2>3. SumFunctionOnSet(Costs, seen) <= SumFunctionOnSet(Costs, Requests)
    BY <1>1, <2>2, SumOfSubset, ScanAssumption
  <2>4. SumFunctionOnSet(Costs, seen) \in Nat /\ SumFunctionOnSet(Costs, Requests) \in Nat
    BY <1>1, CostsAreTyped
  <2> QED BY <1>1, <2>1, <2>3, <2>4 DEF Owed
<1>3. ASSUME Whole PROVE due <= Cardinality(seen)
  <2>1. PICK R \in SUBSET Requests : due = Cardinality(R) /\ \A r \in R : Seen(r)
    BY <1>3 DEF Expected
  <2>2. R \in SUBSET seen
    BY <2>1, NothingIsAhead DEF Seen
  <2>3. IsFiniteSet(seen)
    BY <1>1, CostsAreTyped
  <2> QED BY <2>1, <2>2, <2>3, FS_Subset
<1> QED BY <1>2, <1>3

(* A report stands while the transcripts grow.                             *)
LEMMA ReportStands ==
  ASSUME Typed, Typed', Bracketed, Longer(transcripts, transcripts'), UNCHANGED report
  PROVE  QuotaIsBracketed' /\ SessionIsBracketed'
<1>1. TotalCost <= TotalCost'
  BY SumsOfCostsGrow
<1>2. TotalCost \in Nat /\ TotalCost' \in Nat
  <2>1. Lined /\ Lined'
    BY DEF Typed, TypeOK, Lined
  <2>2. \A r \in Requests : Costs[r] \in Nat /\ Costs'[r] \in Nat
    <3>1. \A r : Cost(r) \in Nat /\ Cost(r)' \in Nat
      BY <2>1, CostGrows
    <3> QED BY <3>1 DEF Costs
  <2>3. TotalCost = SumFunctionOnSet(Costs, Requests) /\ TotalCost' = SumFunctionOnSet(Costs', Requests)
    BY DEF TotalCost, Costs, SumFunction
  <2> QED BY <2>2, <2>3, SumIsNatural, ScanAssumption
<1>3. report # None => report.total \in Nat
  BY DEF Typed, TypeOK, Report
<1> QED BY <1>1, <1>2, <1>3
        DEF Bracketed, QuotaIsBracketed, SessionIsBracketed, Reported, Complete

LEMMA BracketedSteps ==
  Typed /\ Typed' /\ Owed /\ Covered /\ Expected /\ Bracketed /\ [Next]_vars => Bracketed'
<1> SUFFICES ASSUME Typed, Typed', Owed, Covered, Expected, Bracketed, [Next]_vars
             PROVE  Bracketed'
  OBVIOUS
<1>0. Lined
  BY DEF Typed, TypeOK, Lined
<1>1. CASE Claude
  <2>1. Longer(transcripts, transcripts') /\ UNCHANGED <<scan, report>>
    BY <1>0, <1>1, ClaudeAppends DEF Typed
  <2>2. Rising'
    BY <2>1 DEF Bracketed, Rising, Reported, scan, query
  <2> QED BY <2>1, <2>2, ReportStands DEF Bracketed
<1>2. CASE UNCHANGED <<transcripts, report>>
  <2>1. QuotaIsBracketed' /\ SessionIsBracketed'
    BY <1>0, <1>2, StillLonger, ReportStands
  <2> SUFFICES Rising'
    BY <2>1 DEF Bracketed
  <2>2. CASE Claude
    BY <1>1, <2>2 DEF Bracketed
  <2>3. ASSUME NEW k \in Kinds, NEW w \in Windows, Start(k, w)
        PROVE  Rising'
    BY <1>2, <2>3 DEF Start, Bracketed, QuotaIsBracketed, Rising, Reported
  <2>4. CASE Finish
    BY <2>4, NoneAssumption DEF Finish, Rising, Kinds
  <2>5. CASE OpenFile \/ ReadLine \/ CloseFile \/ UNCHANGED vars
    <3>1. UNCHANGED query
      BY <2>5 DEF OpenFile, ReadLine, CloseFile, vars, scan
    <3> QED BY <1>2, <3>1 DEF Bracketed, Rising, Reported, query
  <2> QED BY <2>2, <2>3, <2>4, <2>5 DEF Next, Scan
<1>3. CASE Finish
  <2>1. /\ file = None /\ pending = {} /\ kind \in Kinds /\ kind' = None
        /\ transcripts' = transcripts
        /\ report'.kind = kind /\ report'.floor = floor /\ report'.due = due
        /\ report'.total = (IF kind = "quota" THEN QuotaTotal ELSE tokens)
        /\ kind = "session" => report'.requests = Cardinality(seen)
        /\ Complete(report') <=> Whole
    BY <1>3 DEF Finish, Typed, TypeOK, Complete, Whole, Kinds
  <2>2. TotalCost' = TotalCost
    BY <2>1 DEF TotalCost, Cost, Written, LinesOf
  <2>3. Rising'
    BY <2>1, NoneAssumption DEF Rising, Kinds
  <2>4. CASE kind = "quota"
    <3>1. QuotaTotal <= TotalCost /\ (Whole => floor <= QuotaTotal)
      BY <2>1, <2>4, QuotaFinishes
    <3> QED BY <2>1, <2>2, <2>3, <2>4, <3>1
            DEF Bracketed, QuotaIsBracketed, SessionIsBracketed, Reported
  <2>5. CASE kind = "session"
    <3>1. tokens <= TotalCost /\ (Whole => due <= Cardinality(seen))
      BY <2>1, <2>5, SessionFinishes
    <3> QED BY <2>1, <2>2, <2>3, <2>5, <3>1
            DEF Bracketed, QuotaIsBracketed, SessionIsBracketed, Reported
  <2> QED BY <2>1, <2>4, <2>5 DEF Kinds
<1> QED BY <1>1, <1>2, <1>3 DEF Next, Scan, Start, OpenFile, ReadLine, CloseFile, vars

LEMMA InitInv == Init => Inv
<1> SUFFICES ASSUME Init PROVE Inv
  OBVIOUS
<1>1. Typed
  BY InitTyped
<1>2. \A r \in Requests : byKey[r] = 0 /\ Cost(r) \in Nat
  BY <1>1, CostsAreTyped DEF Init, NoEntries
<1>3. Owed
  <2>1. tokens = 0 /\ SumFunctionOnSet(Costs, seen) \in Nat
    BY <1>1, CostsAreTyped DEF Init
  <2> QED BY <1>2, <2>1 DEF Owed
<1> QED BY <1>1, <1>3, NoneAssumption
        DEF Inv, Covered, Expected, Bracketed, Rising, QuotaIsBracketed, SessionIsBracketed,
            Reported, Kinds, Init

LEMMA NextInv == Inv /\ [Next]_vars => Inv'
BY NextTyped, OwedSteps, CoveredSteps, ExpectedSteps, BracketedSteps DEF Inv

LEMMA InvHolds == Spec => []Inv
BY InitInv, NextInv, PTL DEF Spec

(* adapters/claude.py: for any number of files, requests and lines, and    *)
(* whatever is appended or copied while a scan reads, the quota total lies *)
(* between what all requests had cost when it began and what they cost now.*)
THEOREM QuotaBracketCorrect == Spec => []QuotaIsBracketed
<1>1. Inv => QuotaIsBracketed
  BY DEF Inv, Bracketed
<1> QED BY <1>1, InvHolds, PTL

(* session/claude.py: the session report charges no request twice, over    *)
(* however many copies of its transcript, and misses none of its window.   *)
THEOREM SessionBracketCorrect == Spec => []SessionIsBracketed
<1>1. Inv => SessionIsBracketed
  BY DEF Inv, Bracketed
<1> QED BY <1>1, InvHolds, PTL

(* adapters/claude.py: two quota reports in a row do not go down, unless   *)
(* the second says that it left a file or a line out.                      *)
THEOREM NeverShrinksCorrect == Spec => QuotaNeverShrinks
<1> DEFINE Grows == Reported("quota") /\ Reported("quota")' /\ Complete(report')
                      => report.total <= report'.total
<1>1. Inv /\ Inv' /\ [Next]_vars => [Grows]_report
  <2> SUFFICES ASSUME Inv, Inv', [Next]_vars, report' # report,
                      Reported("quota"), Reported("quota")', Complete(report')
               PROVE  report.total <= report'.total
    OBVIOUS
  <2>1. Finish
    BY DEF Next, Scan, Start, OpenFile, ReadLine, CloseFile, Claude, BeginLine, EndLine, Resume, vars
  <2>2. /\ file = None /\ pending = {} /\ kind = "quota" /\ Whole
        /\ report'.total = QuotaTotal
    BY <2>1 DEF Finish, Reported, Complete, Whole
  <2>3. report.total <= floor
    BY <2>2 DEF Inv, Bracketed, Rising
  <2>4. floor <= QuotaTotal /\ QuotaTotal \in Nat
    BY <2>2, QuotaFinishes DEF Inv
  <2>5. report.total \in Nat /\ floor \in Nat
    BY DEF Inv, Typed, TypeOK, Reported, Report
  <2> QED BY <2>2, <2>3, <2>4, <2>5
<1>2. Spec => [][Grows]_report
  BY <1>1, InvHolds, PTL DEF Spec
<1> QED BY <1>2 DEF QuotaNeverShrinks
=============================================================================
