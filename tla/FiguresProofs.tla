----------------------------- MODULE FiguresProofs -----------------------------
(***************************************************************************)
(* What holds of Figures for any number of records, rows and links.        *)
(***************************************************************************)
EXTENDS Figures, Aggregates, SequenceTheorems, FiniteSetTheorems, TLAPS

-----------------------------------------------------------------------------
(* The cascade: the path from a task is a walk over its parents.           *)
ParentOf(signals, t) == signals[t].parent

Extended(signals, path) ==
  IF /\ Inherits(signals, Last(path))
     /\ signals[Last(path)].parent \notin Range(path)
  THEN Append(path, signals[Last(path)].parent)
  ELSE path

Walks(signals, id, last, up) ==
  up = [n \in 0 .. last |-> IF n = 0 THEN <<id>> ELSE Extended(signals, up[n - 1])]

LEMMA WalkExists ==
  ASSUME NEW signals, NEW id, NEW last \in Nat
  PROVE  \E up : Walks(signals, id, last, up)
<1> DEFINE N == {n \in Nat : \E up : Walks(signals, id, n, up)}
<1>1. 0 \in N
  <2>1. Walks(signals, id, 0, [n \in 0 .. 0 |-> <<id>>])
    BY DEF Walks
  <2> QED BY <2>1
<1>2. \A n \in Nat : n \in N => n + 1 \in N
  <2> TAKE n \in Nat
  <2> HAVE n \in N
  <2>1. PICK g : Walks(signals, id, n, g)
    OBVIOUS
  <2> DEFINE h == [k \in 0 .. n + 1 |-> IF k <= n THEN g[k] ELSE Extended(signals, g[n])]
  <2>2. \A k \in 0 .. n : h[k] = g[k] /\ g[k] = IF k = 0 THEN <<id>> ELSE Extended(signals, g[k - 1])
    BY <2>1 DEF Walks
  <2>3. h[n + 1] = Extended(signals, g[n])
    OBVIOUS
  <2>4. \A k \in 0 .. n + 1 : h[k] = IF k = 0 THEN <<id>> ELSE Extended(signals, h[k - 1])
    <3> TAKE k \in 0 .. n + 1
    <3>1. CASE k = n + 1
      <4>1. n \in 0 .. n /\ k # 0 /\ k - 1 = n
        BY <3>1
      <4>2. h[k] = Extended(signals, g[n]) /\ h[k - 1] = g[n]
        BY <2>2, <2>3, <3>1, <4>1
      <4> HIDE DEF h
      <4> QED BY <4>1, <4>2
    <3>2. CASE k # n + 1
      <4>1. k \in 0 .. n /\ (k = 0 \/ k - 1 \in 0 .. n)
        BY <3>2
      <4> HIDE DEF h
      <4> QED BY <2>2, <4>1
    <3> QED BY <3>1, <3>2
  <2>5. Walks(signals, id, n + 1, h)
    BY <2>4 DEF Walks
  <2> HIDE DEF h
  <2> QED BY <2>5
<1>3. \A n \in Nat : n \in N
  <2> HIDE DEF N
  <2> QED BY <1>1, <1>2, NaturalsBySteps
<1> QED BY <1>3

Steps(signals, id) == CHOOSE up : Walks(signals, id, Cardinality(DOMAIN signals), up)

LEMMA PathIsWalked ==
  ASSUME NEW signals, NEW id, IsFiniteSet(DOMAIN signals)
  PROVE  /\ Path(signals, id) = Steps(signals, id)[Cardinality(DOMAIN signals)]
         /\ \A n \in 0 .. Cardinality(DOMAIN signals) :
              Steps(signals, id)[n] =
                IF n = 0 THEN <<id>> ELSE Extended(signals, Steps(signals, id)[n - 1])
<1>1. Cardinality(DOMAIN signals) \in Nat
  BY FS_CardinalityType
<1>2. Path(signals, id) = Steps(signals, id)[Cardinality(DOMAIN signals)]
  BY DEF Path, Steps, Walks, Extended
<1>3. Walks(signals, id, Cardinality(DOMAIN signals), Steps(signals, id))
  BY <1>1, WalkExists DEF Steps
<1> QED BY <1>2, <1>3 DEF Walks

(* A walk goes from a task to its parent, and never to one it came by.     *)
Ids(signals, id) == DOMAIN signals \cup {id} \cup {signals[t].parent : t \in DOMAIN signals}

Chain(signals, id, s) ==
  /\ s \in Seq(Ids(signals, id)) /\ Len(s) \in Nat \ {0} /\ s[1] = id
  /\ \A i \in 1 .. Len(s) - 1 : Inherits(signals, s[i]) /\ s[i + 1] = signals[s[i]].parent
  /\ \A i, j \in 1 .. Len(s) : s[i] = s[j] => i = j

Stops(signals, s) ==
  Inherits(signals, s[Len(s)]) =>
    \E i \in 1 .. Len(s) : signals[s[Len(s)]].parent = s[i]

LEMMA ExtendedIsChain ==
  ASSUME NEW signals, NEW id, NEW s, Chain(signals, id, s)
  PROVE  /\ Chain(signals, id, Extended(signals, s))
         /\ Stops(signals, s) => Extended(signals, s) = s
         /\ ~Stops(signals, s) => Len(Extended(signals, s)) = Len(s) + 1
<1> DEFINE last == s[Len(s)]
           p == signals[last].parent
           more == Append(s, p)
<1>1. s \in Seq(Ids(signals, id)) /\ Len(s) \in Nat /\ Len(s) # 0
  BY DEF Chain
<1>2. Last(s) = last /\ Range(s) = {s[i] : i \in 1 .. Len(s)}
  BY <1>1 DEF Last, Range
<1>3. Extended(signals, s) = IF Stops(signals, s) THEN s ELSE more
  BY <1>2 DEF Extended, Stops
<1>4. ASSUME ~Stops(signals, s)
      PROVE  Chain(signals, id, more) /\ Len(more) = Len(s) + 1
  <2>1. Inherits(signals, last) /\ \A i \in 1 .. Len(s) : s[i] # p
    BY <1>4 DEF Stops
  <2>2. p \in Ids(signals, id)
    BY <2>1 DEF Inherits, Ids
  <2> HIDE DEF p
  <2>3. /\ more \in Seq(Ids(signals, id)) /\ Len(more) = Len(s) + 1
        /\ \A i \in 1 .. Len(s) : more[i] = s[i]
        /\ more[Len(s) + 1] = p
    BY <1>1, <2>2, AppendProperties
  <2> HIDE DEF more
  <2>4. more[1] = id
    BY <1>1, <2>3 DEF Chain
  <2>5. \A i \in 1 .. Len(more) - 1 : Inherits(signals, more[i]) /\ more[i + 1] = signals[more[i]].parent
    <3> TAKE i \in 1 .. Len(more) - 1
    <3>1. i \in 1 .. Len(s) /\ more[i] = s[i]
      BY <1>1, <2>3
    <3>2. CASE i = Len(s)
      BY <2>1, <2>3, <3>1, <3>2 DEF p
    <3>3. CASE i # Len(s)
      <4>1. i \in 1 .. Len(s) - 1 /\ i + 1 \in 1 .. Len(s)
        BY <1>1, <3>1, <3>3
      <4> QED BY <2>3, <3>1, <4>1 DEF Chain
    <3> QED BY <3>2, <3>3
  <2>6. \A i, j \in 1 .. Len(more) : more[i] = more[j] => i = j
    <3> TAKE i, j \in 1 .. Len(more)
    <3>1. (i \in 1 .. Len(s) \/ i = Len(s) + 1) /\ (j \in 1 .. Len(s) \/ j = Len(s) + 1)
      BY <1>1, <2>3
    <3> QED BY <2>1, <2>3, <3>1 DEF Chain
  <2> QED BY <1>1, <2>3, <2>4, <2>5, <2>6 DEF Chain
<1> QED BY <1>3, <1>4

(* There are not more links than rows: the walk stops by itself.           *)
LEMMA PathIsChain ==
  ASSUME NEW signals, NEW id, IsFiniteSet(DOMAIN signals)
  PROVE  Chain(signals, id, Path(signals, id)) /\ Stops(signals, Path(signals, id))
<1> DEFINE N == Cardinality(DOMAIN signals)
           up == Steps(signals, id)
           P == {n \in Nat : n \in 0 .. N =>
                  /\ Chain(signals, id, up[n])
                  /\ Stops(signals, up[n]) \/ Len(up[n]) = n + 1}
<1>1. N \in Nat
  BY FS_CardinalityType
<1>2. \A n \in 0 .. N : up[n] = IF n = 0 THEN <<id>> ELSE Extended(signals, up[n - 1])
  BY PathIsWalked
<1> HIDE DEF up
<1>3. 0 \in P
  <2>1. up[0] = <<id>>
    BY <1>1, <1>2
  <2>2. Chain(signals, id, <<id>>) /\ Len(<<id>>) = 1
    BY DEF Chain, Ids
  <2> QED BY <2>1, <2>2
<1>4. \A n \in Nat : n \in P => n + 1 \in P
  <2> TAKE n \in Nat
  <2> HAVE n \in P
  <2> SUFFICES ASSUME n + 1 \in 0 .. N
               PROVE  /\ Chain(signals, id, up[n + 1])
                      /\ Stops(signals, up[n + 1]) \/ Len(up[n + 1]) = (n + 1) + 1
    OBVIOUS
  <2>1. n \in 0 .. N /\ up[n + 1] = Extended(signals, up[n])
    BY <1>1, <1>2
  <2>2. Chain(signals, id, up[n]) /\ (Stops(signals, up[n]) \/ Len(up[n]) = n + 1)
    BY <2>1
  <2> QED BY <2>1, <2>2, ExtendedIsChain
<1>5. \A n \in Nat : n \in P
  <2> HIDE DEF P
  <2> QED BY <1>3, <1>4, NaturalsBySteps
<1>6. Chain(signals, id, up[N]) /\ (Stops(signals, up[N]) \/ Len(up[N]) = N + 1)
  BY <1>1, <1>5
<1>7. Path(signals, id) = up[N]
  BY PathIsWalked DEF up
<1>8. Stops(signals, up[N])
  <2> SUFFICES ASSUME ~Stops(signals, up[N]) PROVE FALSE
    OBVIOUS
  <2> DEFINE s == up[N]
  <2>1. Len(s) = N + 1 /\ Chain(signals, id, s) /\ Inherits(signals, s[Len(s)])
    BY <1>6 DEF Stops
  <2> HIDE DEF s
  <2>2. \A i \in 1 .. N + 1 : s[i] \in DOMAIN signals
    <3> TAKE i \in 1 .. N + 1
    <3>1. i = Len(s) \/ i \in 1 .. Len(s) - 1
      BY <1>1, <2>1
    <3>2. Inherits(signals, s[i])
      BY <2>1, <3>1 DEF Chain
    <3> QED BY <3>2 DEF Inherits
  <2>3. IsFiniteSet(1 .. N + 1) /\ Cardinality(1 .. N + 1) = N + 1
    BY <1>1, FS_Interval
  <2> DEFINE f == [i \in 1 .. N + 1 |-> s[i]]
  <2>4. f \in [1 .. N + 1 -> DOMAIN signals] /\ N < Cardinality(1 .. N + 1)
    BY <1>1, <2>2, <2>3
  <2>5. PICK i, j \in 1 .. N + 1 : i # j /\ f[i] = f[j]
    <3> HIDE DEF f
    <3> QED BY <2>3, <2>4, FS_PigeonHole
  <2>6. s[i] = s[j] /\ i \in 1 .. Len(s) /\ j \in 1 .. Len(s)
    BY <2>1, <2>5
  <2> QED BY <2>1, <2>5, <2>6 DEF Chain
<1> QED BY <1>6, <1>7, <1>8

-----------------------------------------------------------------------------
(* The answer for a task on its own, and for the end of a walk.            *)
Alone(signals, id) == Answer(signals, << >>, id)

AtEnd(signals, s) ==
  IF Inherits(signals, s[Len(s)]) THEN Unknown ELSE OwnSignal(signals, s[Len(s)])

LEMMA AloneIsAtEnd ==
  ASSUME NEW signals, NEW id, IsFiniteSet(DOMAIN signals)
  PROVE  Alone(signals, id) = AtEnd(signals, Path(signals, id))
<1>1. Len(Path(signals, id)) \in Nat \ {0}
  BY PathIsChain DEF Chain
<1>2. DOMAIN << >> = {}
  BY EmptySeq, LenProperties
<1> QED BY <1>1, <1>2 DEF Alone, Answer, AtEnd, Last

(* Two walks that meet end in the same answer.                             *)
LEMMA WalksMeet ==
  ASSUME NEW signals, NEW id, NEW s, Chain(signals, id, s), Stops(signals, s),
         NEW k \in 1 .. Len(s), NEW u, Chain(signals, s[k], u), Stops(signals, u)
  PROVE  AtEnd(signals, u) = AtEnd(signals, s)
<1>1. Len(s) \in Nat \ {0} /\ Len(u) \in Nat \ {0}
  BY DEF Chain
<1>2. CASE Inherits(signals, s[Len(s)])
  <2>1. \A i \in 1 .. Len(s) : Inherits(signals, s[i]) /\ \E j \in 1 .. Len(s) : s[j] = signals[s[i]].parent
    <3> TAKE i \in 1 .. Len(s)
    <3>1. CASE i = Len(s)
      BY <1>2, <3>1 DEF Stops
    <3>2. CASE i # Len(s)
      <4>1. i \in 1 .. Len(s) - 1 /\ i + 1 \in 1 .. Len(s)
        BY <1>1, <3>2
      <4> QED BY <4>1 DEF Chain
    <3> QED BY <3>1, <3>2
  <2> DEFINE P == {n \in Nat : n + 1 \in 1 .. Len(u) => \E j \in 1 .. Len(s) : u[n + 1] = s[j]}
  <2>2. 0 \in P
    BY DEF Chain
  <2>3. \A n \in Nat : n \in P => n + 1 \in P
    <3> TAKE n \in Nat
    <3> HAVE n \in P
    <3> SUFFICES ASSUME (n + 1) + 1 \in 1 .. Len(u)
                 PROVE  \E j \in 1 .. Len(s) : u[(n + 1) + 1] = s[j]
      OBVIOUS
    <3>1. n + 1 \in 1 .. Len(u) - 1 /\ n + 1 \in 1 .. Len(u)
      BY <1>1
    <3>2. u[(n + 1) + 1] = signals[u[n + 1]].parent
      BY <3>1 DEF Chain
    <3>3. PICK j \in 1 .. Len(s) : u[n + 1] = s[j]
      BY <3>1
    <3> QED BY <2>1, <3>2, <3>3
  <2>4. \A n \in Nat : n \in P
    <3> HIDE DEF P
    <3> QED BY <2>2, <2>3, NaturalsBySteps
  <2>5. Len(u) - 1 \in Nat /\ (Len(u) - 1) + 1 = Len(u) /\ Len(u) \in 1 .. Len(u)
    BY <1>1
  <2>6. PICK j \in 1 .. Len(s) : u[Len(u)] = s[j]
    BY <2>4, <2>5
  <2> QED BY <1>2, <2>1, <2>6 DEF AtEnd
<1>3. CASE ~Inherits(signals, s[Len(s)])
  <2> DEFINE P == {n \in Nat : n + 1 \in 1 .. Len(u) =>
                     k + n \in 1 .. Len(s) /\ u[n + 1] = s[k + n]}
  <2>1. 0 \in P
    BY <1>1 DEF Chain
  <2>2. \A n \in Nat : n \in P => n + 1 \in P
    <3> TAKE n \in Nat
    <3> HAVE n \in P
    <3> SUFFICES ASSUME (n + 1) + 1 \in 1 .. Len(u)
                 PROVE  k + (n + 1) \in 1 .. Len(s) /\ u[(n + 1) + 1] = s[k + (n + 1)]
      OBVIOUS
    <3>1. n + 1 \in 1 .. Len(u) - 1 /\ n + 1 \in 1 .. Len(u)
      BY <1>1
    <3>2. u[(n + 1) + 1] = signals[u[n + 1]].parent /\ Inherits(signals, u[n + 1])
      BY <3>1 DEF Chain
    <3>3. k + n \in 1 .. Len(s) /\ u[n + 1] = s[k + n]
      BY <3>1
    <3>4. k + n # Len(s)
      BY <1>3, <3>2, <3>3
    <3>5. k + n \in 1 .. Len(s) - 1 /\ k + (n + 1) = (k + n) + 1 /\ (k + n) + 1 \in 1 .. Len(s)
      BY <1>1, <3>3, <3>4
    <3>6. s[(k + n) + 1] = signals[s[k + n]].parent
      BY <3>5 DEF Chain
    <3> QED BY <3>2, <3>3, <3>5, <3>6
  <2>3. \A n \in Nat : n \in P
    <3> HIDE DEF P
    <3> QED BY <2>1, <2>2, NaturalsBySteps
  <2> DEFINE m == Len(u) - 1
  <2>4. m \in Nat /\ m + 1 = Len(u) /\ Len(u) \in 1 .. Len(u)
    BY <1>1
  <2>5. k + m \in 1 .. Len(s) /\ u[Len(u)] = s[k + m]
    BY <2>3, <2>4
  <2>6. k + m = Len(s)
    <3> SUFFICES ASSUME k + m # Len(s) PROVE FALSE
      OBVIOUS
    <3>1. k + m \in 1 .. Len(s) - 1 /\ (k + m) + 1 \in 1 .. Len(s)
      BY <1>1, <2>5
    <3>2. Inherits(signals, u[Len(u)]) /\ s[(k + m) + 1] = signals[u[Len(u)]].parent
      BY <2>5, <3>1 DEF Chain
    <3>3. PICK i \in 1 .. Len(u) : signals[u[Len(u)]].parent = u[i]
      BY <3>2 DEF Stops
    <3>4. i - 1 \in Nat /\ (i - 1) + 1 = i
      BY <1>1
    <3>5. k + (i - 1) \in 1 .. Len(s) /\ u[i] = s[k + (i - 1)]
      BY <2>3, <3>4
    <3>6. s[(k + m) + 1] = s[k + (i - 1)]
      BY <3>2, <3>3, <3>5
    <3>7. (k + m) + 1 = k + (i - 1)
      BY <3>1, <3>5, <3>6 DEF Chain
    <3> QED BY <1>1, <3>7
  <2> QED BY <2>5, <2>6 DEF AtEnd
<1> QED BY <1>2, <1>3

LEMMA PathSharesAnswer ==
  ASSUME NEW signals, IsFiniteSet(DOMAIN signals), NEW id,
         NEW k \in 1 .. Len(Path(signals, id))
  PROVE  Alone(signals, Path(signals, id)[k]) = Alone(signals, id)
<1> DEFINE s == Path(signals, id)
           u == Path(signals, s[k])
<1>1. Chain(signals, id, s) /\ Stops(signals, s) /\ Chain(signals, s[k], u) /\ Stops(signals, u)
  BY PathIsChain
<1>2. Alone(signals, id) = AtEnd(signals, s) /\ Alone(signals, s[k]) = AtEnd(signals, u)
  BY AloneIsAtEnd
<1> HIDE DEF s, u
<1>3. AtEnd(signals, u) = AtEnd(signals, s)
  BY <1>1, WalksMeet DEF s
<1> QED BY <1>2, <1>3 DEF s

-----------------------------------------------------------------------------
(* What is remembered is what each task would be told on its own.          *)
Faithful(signals, cache) == \A t \in DOMAIN cache : cache[t] = Alone(signals, t)

LEMMA AnswerIsAlone ==
  ASSUME NEW signals, IsFiniteSet(DOMAIN signals), NEW cache, Faithful(signals, cache), NEW id
  PROVE  Answer(signals, cache, id) = Alone(signals, id)
<1> DEFINE path == Path(signals, id)
           met == {i \in DOMAIN path : path[i] \in DOMAIN cache}
<1>1. path \in Seq(Ids(signals, id)) /\ Len(path) \in Nat /\ DOMAIN path = 1 .. Len(path)
  BY PathIsChain DEF Chain
<1>2. CASE met # {}
  <2>1. Min(met) \in met
    <3>1. met \in SUBSET Nat
      BY <1>1
    <3> HIDE DEF met
    <3> QED BY <1>2, <3>1, MinIsLeast
  <2>2. Answer(signals, cache, id) = cache[path[Min(met)]]
    BY <1>2 DEF Answer
  <2> DEFINE k == Min(met)
  <2>3. k \in 1 .. Len(path) /\ path[k] \in DOMAIN cache
    BY <1>1, <2>1
  <2>4. Alone(signals, path[k]) = Alone(signals, id)
    <3> HIDE DEF k
    <3> QED BY <2>3, PathSharesAnswer
  <2> QED BY <2>2, <2>3, <2>4 DEF Faithful
<1>3. CASE met = {}
  <2>1. DOMAIN << >> = {}
    BY EmptySeq, LenProperties
  <2> QED BY <1>3, <2>1 DEF Answer, Alone
<1> QED BY <1>2, <1>3

LEMMA RememberedIsFaithful ==
  ASSUME NEW signals, IsFiniteSet(DOMAIN signals), NEW cache, Faithful(signals, cache), NEW id
  PROVE  Faithful(signals, Remembered(signals, cache, id))
<1> DEFINE path == Path(signals, id)
           met == Range(path) \cap DOMAIN signals
           more == Remembered(signals, cache, id)
<1>1. path \in Seq(Ids(signals, id)) /\ DOMAIN path = 1 .. Len(path)
  BY PathIsChain DEF Chain
<1>2. \A t \in met : Alone(signals, t) = Alone(signals, id)
  <2> TAKE t \in met
  <2>1. PICK k \in 1 .. Len(path) : t = path[k]
    BY <1>1 DEF Range
  <2> QED BY <2>1, PathSharesAnswer
<1>3. more = [t \in DOMAIN cache \cup met |-> IF t \in DOMAIN cache THEN cache[t]
                                             ELSE Answer(signals, cache, id)]
  BY DEF Remembered
<1>4. Answer(signals, cache, id) = Alone(signals, id)
  BY AnswerIsAlone
<1> HIDE DEF met, more
<1>5. \A t \in DOMAIN more : more[t] = Alone(signals, t)
  BY <1>2, <1>3, <1>4 DEF Faithful
<1> QED BY <1>5 DEF Faithful, more

Remembers(signals, ids, last, after) ==
  after = [n \in 0 .. last |-> IF n = 0 THEN << >> ELSE Remembered(signals, after[n - 1], ids[n])]

LEMMA MemoryExists ==
  ASSUME NEW signals, NEW ids, NEW last \in Nat
  PROVE  \E after : Remembers(signals, ids, last, after)
<1> DEFINE N == {n \in Nat : \E after : Remembers(signals, ids, n, after)}
<1>1. 0 \in N
  <2>1. Remembers(signals, ids, 0, [n \in 0 .. 0 |-> << >>])
    BY DEF Remembers
  <2> QED BY <2>1
<1>2. \A n \in Nat : n \in N => n + 1 \in N
  <2> TAKE n \in Nat
  <2> HAVE n \in N
  <2>1. PICK g : Remembers(signals, ids, n, g)
    OBVIOUS
  <2> DEFINE h == [k \in 0 .. n + 1 |-> IF k <= n THEN g[k] ELSE Remembered(signals, g[n], ids[n + 1])]
  <2>2. \A k \in 0 .. n :
          h[k] = g[k] /\ g[k] = IF k = 0 THEN << >> ELSE Remembered(signals, g[k - 1], ids[k])
    BY <2>1 DEF Remembers
  <2>3. h[n + 1] = Remembered(signals, g[n], ids[n + 1])
    OBVIOUS
  <2>4. \A k \in 0 .. n + 1 : h[k] = IF k = 0 THEN << >> ELSE Remembered(signals, h[k - 1], ids[k])
    <3> TAKE k \in 0 .. n + 1
    <3>1. CASE k = n + 1
      <4>1. n \in 0 .. n /\ k # 0 /\ k - 1 = n
        BY <3>1
      <4>2. h[k] = Remembered(signals, g[n], ids[k]) /\ h[k - 1] = g[n]
        BY <2>2, <2>3, <3>1, <4>1
      <4> HIDE DEF h
      <4> QED BY <4>1, <4>2
    <3>2. CASE k # n + 1
      <4>1. k \in 0 .. n /\ (k = 0 \/ k - 1 \in 0 .. n)
        BY <3>2
      <4> HIDE DEF h
      <4> QED BY <2>2, <4>1
    <3> QED BY <3>1, <3>2
  <2>5. Remembers(signals, ids, n + 1, h)
    BY <2>4 DEF Remembers
  <2> HIDE DEF h
  <2> QED BY <2>5
<1>3. \A n \in Nat : n \in N
  <2> HIDE DEF N
  <2> QED BY <1>1, <1>2, NaturalsBySteps
<1> QED BY <1>3

LEMMA MemoryIsFaithful ==
  ASSUME NEW signals, IsFiniteSet(DOMAIN signals), NEW ids, Len(ids) \in Nat
  PROVE  \A n \in 0 .. Len(ids) : Faithful(signals, Memory(signals, ids)[n])
<1> DEFINE after == CHOOSE after : Remembers(signals, ids, Len(ids), after)
           P == {n \in Nat : n \in 0 .. Len(ids) => Faithful(signals, after[n])}
<1>1. Memory(signals, ids) = after
  BY DEF Memory, Remembers
<1>2. Remembers(signals, ids, Len(ids), after)
  BY MemoryExists
<1> HIDE DEF after
<1>3. \A n \in 0 .. Len(ids) :
        after[n] = IF n = 0 THEN << >> ELSE Remembered(signals, after[n - 1], ids[n])
  BY <1>2 DEF Remembers
<1>4. 0 \in P
  <2>1. DOMAIN << >> = {}
    BY EmptySeq, LenProperties
  <2> QED BY <1>3, <2>1 DEF Faithful
<1>5. \A n \in Nat : n \in P => n + 1 \in P
  <2> TAKE n \in Nat
  <2> HAVE n \in P
  <2> SUFFICES ASSUME n + 1 \in 0 .. Len(ids) PROVE Faithful(signals, after[n + 1])
    OBVIOUS
  <2>1. n \in 0 .. Len(ids) /\ after[n + 1] = Remembered(signals, after[n], ids[n + 1])
    BY <1>3
  <2>2. Faithful(signals, after[n])
    BY <2>1
  <2> QED BY <2>1, <2>2, RememberedIsFaithful
<1>6. \A n \in Nat : n \in P
  <2> HIDE DEF P
  <2> QED BY <1>4, <1>5, NaturalsBySteps
<1> QED BY <1>1, <1>6

LEMMA ClassifiedIsAlone ==
  ASSUME NEW signals, IsFiniteSet(DOMAIN signals), NEW ids, Len(ids) \in Nat,
         DOMAIN ids = 1 .. Len(ids)
  PROVE  /\ DOMAIN Classified(signals, ids) = DOMAIN ids
         /\ \A n \in DOMAIN ids : Classified(signals, ids)[n] = Alone(signals, ids[n])
<1>1. \A n \in DOMAIN ids : Answer(signals, Memory(signals, ids)[n - 1], ids[n]) = Alone(signals, ids[n])
  <2> TAKE n \in DOMAIN ids
  <2>1. Faithful(signals, Memory(signals, ids)[n - 1])
    BY MemoryIsFaithful
  <2> QED BY <2>1, AnswerIsAlone
<1> QED BY <1>1 DEF Classified

(* An answer that names where it comes from names a review.                *)
LEMMA OriginIsReview ==
  ASSUME NEW signals, IsFiniteSet(DOMAIN signals), NEW id
  PROVE  /\ Alone(signals, id) = [validity |-> Alone(signals, id).validity,
                                  origin |-> Alone(signals, id).origin]
         /\ Alone(signals, id).origin # None =>
              signals[Alone(signals, id).origin].type = "review"
<1> DEFINE s == Path(signals, id)
           t == s[Len(s)]
<1>1. Alone(signals, id) = AtEnd(signals, s)
  BY AloneIsAtEnd
<1>2. \/ AtEnd(signals, s) = Unknown
      \/ AtEnd(signals, s) = ReviewSignal(signals, t) /\ signals[t].type = "review"
  BY DEF AtEnd, OwnSignal
<1> HIDE DEF s, t
<1>3. \/ ReviewSignal(signals, t) = Unknown
      \/ \E v : ReviewSignal(signals, t) = [validity |-> v, origin |-> t]
      \/ \E v : ReviewSignal(signals, t) = [validity |-> v, origin |-> None]
  <2>1. PICK matched, broken :
          ReviewSignal(signals, t) =
            IF signals[t].publication = "stale" THEN [validity |-> "stale", origin |-> t]
            ELSE IF signals[t].publication = "unknown" THEN Unknown
            ELSE IF broken THEN [validity |-> "misrouted", origin |-> t]
            ELSE IF matched THEN [validity |-> "valid", origin |-> None]
            ELSE Unknown
    BY DEF ReviewSignal
  <2> QED BY <2>1
<1> QED BY <1>1, <1>2, <1>3 DEF Unknown

-----------------------------------------------------------------------------
(* The joins.  What a join may not touch is the same in all of them.       *)
Keeps(new, old, but) ==
  /\ DOMAIN new = DOMAIN old
  /\ \A f \in DOMAIN old \ but : new[f] = old[f]

LEMMA WindowsAreOwn ==
  ASSUME NEW rows, NEW r, JoinedOn \cup JoinedIn \subseteq DOMAIN r,
         r.window = None, r.precap = None, NEW new,
         new = IF HasRow(rows, r.id) THEN Observed(r, RowOf(rows, r.id)) ELSE r
  PROVE  /\ Keeps(new, r, {"window", "precap", "capped"})
         /\ new.window # None => /\ Conflicts(r, RowOf(rows, r.id)) = {}
                                 /\ new.window = RowOf(rows, r.id).window
         /\ new.precap # None => /\ new.window = None
                                 /\ Conflicts(r, RowOf(rows, r.id)) \subseteq {"session"}
<1> DEFINE row == RowOf(rows, r.id)
           told == [r EXCEPT !.window = IF row.capped THEN None ELSE row.window,
                             !.precap = IF row.capped THEN row.window ELSE None,
                             !.capped = IF row.capped THEN "yes" ELSE "no"]
<1>1. {"window", "precap", "capped"} \subseteq DOMAIN r
  BY DEF JoinedIn
<1>2. /\ Keeps(told, r, {"window", "precap", "capped"})
      /\ told.window = IF row.capped THEN None ELSE row.window
      /\ told.precap = IF row.capped THEN row.window ELSE None
  <2> HIDE DEF row
  <2> QED BY <1>1 DEF Keeps
<1>3. Keeps(r, r, {"window", "precap", "capped"})
  BY DEF Keeps
<1> HIDE DEF told
<1>4. \/ new = r
      \/ new = told /\ (Conflicts(r, row) = {} \/ PreCapSession(r, row))
  BY DEF Observed, told
<1> HIDE DEF row
<1>5. PreCapSession(r, row) => row.capped /\ Conflicts(r, row) = {"session"}
  BY DEF PreCapSession
<1> QED BY <1>2, <1>3, <1>4, <1>5 DEF row

LEMMA ClearingsLanded ==
  ASSUME NEW rows, NEW r, JoinedOn \cup JoinedIn \subseteq DOMAIN r, r.clear = None, NEW new,
         new = IF HasRow(rows, r.id) THEN Cleared(r, RowOf(rows, r.id)) ELSE r
  PROVE  /\ Keeps(new, r, {"clear"})
         /\ (new.clear # None /\ Conflicts(r, RowOf(rows, r.id)) # {}) =>
              /\ RowOf(rows, r.id).status # "failed"
              /\ r.provider = RowOf(rows, r.id).provider
              /\ r.generation > RowOf(rows, r.id).generation
<1> DEFINE row == RowOf(rows, r.id)
           told == [r EXCEPT !.clear = row.status]
<1>1. Keeps(told, r, {"clear"}) /\ Keeps(r, r, {"clear"})
  BY DEF Keeps
<1> HIDE DEF told
<1>2. \/ new = r
      \/ new = told /\ (Conflicts(r, row) = {} \/ PreClear(r, row))
  BY DEF Cleared, told
<1> HIDE DEF row
<1>3. PreClear(r, row) => row.status # "failed" /\ r.provider = row.provider
                          /\ r.generation > row.generation
  BY DEF PreClear, Advanced
<1> QED BY <1>1, <1>2, <1>3 DEF row

LEMMA SameConflicts ==
  ASSUME NEW r, NEW new, NEW but, Keeps(new, r, but), JoinedOn \subseteq DOMAIN r,
         but \cap JoinedOn = {}
  PROVE  /\ \A row : Conflicts(new, row) = Conflicts(r, row)
         /\ \A f \in JoinedOn : new[f] = r[f]
<1>1. \A f \in JoinedOn : new[f] = r[f]
  BY DEF Keeps
<1>2. \A row : Conflicts(new, row) = Conflicts(r, row)
  <2> TAKE row
  <2>1. \A f \in Identity : new[f] = r[f]
    BY <1>1 DEF JoinedOn
  <2> QED BY <2>1 DEF Conflicts
<1> QED BY <1>1, <1>2

Windowed(g) == WithWindows(g.records, g.windows)
Dispatched(g) == WithClearings(Windowed(g), g.clearings)
Joined(g) == WithValidity(Dispatched(g), g.signals)

(* What the joins made of a record, one of them after the other.           *)
LEMMA JoinedFields ==
  ASSUME NEW g \in Tasks, NEW i \in DOMAIN g.records
  PROVE  /\ i \in DOMAIN Windowed(g) /\ i \in DOMAIN Dispatched(g) /\ i \in DOMAIN Joined(g)
         /\ Windowed(g)[i] = IF HasRow(g.windows, g.records[i].id)
                             THEN Observed(g.records[i], RowOf(g.windows, g.records[i].id))
                             ELSE g.records[i]
         /\ Dispatched(g)[i] = IF HasRow(g.clearings, Windowed(g)[i].id)
                               THEN Cleared(Windowed(g)[i], RowOf(g.clearings, Windowed(g)[i].id))
                               ELSE Windowed(g)[i]
         /\ Keeps(Windowed(g)[i], g.records[i], {"window", "precap", "capped"})
         /\ Keeps(Dispatched(g)[i], Windowed(g)[i], {"clear"})
         /\ Keeps(Joined(g)[i], Dispatched(g)[i], {"validity", "origin"})
         /\ [validity |-> Joined(g)[i].validity, origin |-> Joined(g)[i].origin]
              = Alone(g.signals, g.records[i].id)
<1> DEFINE r == g.records[i]
           w == Windowed(g)[i]
           c == Dispatched(g)[i]
           ids == [n \in DOMAIN Dispatched(g) |-> Dispatched(g)[n].id]
           answers == Classified(g.signals, ids)
<1>1. /\ JoinedOn \cup JoinedIn \subseteq DOMAIN r
      /\ r.window = None /\ r.precap = None /\ r.clear = None
  BY TasksAssumption
<1>2. /\ DOMAIN Windowed(g) = DOMAIN g.records
      /\ w = IF HasRow(g.windows, r.id) THEN Observed(r, RowOf(g.windows, r.id)) ELSE r
  BY DEF Windowed, WithWindows
<1>3. Keeps(w, r, {"window", "precap", "capped"})
  <2> HIDE DEF r, w
  <2> QED BY <1>1, <1>2, WindowsAreOwn
<1>4. /\ DOMAIN Dispatched(g) = DOMAIN g.records
      /\ c = IF HasRow(g.clearings, w.id) THEN Cleared(w, RowOf(g.clearings, w.id)) ELSE w
  BY <1>2 DEF Dispatched, WithClearings
<1>5. /\ DOMAIN w = DOMAIN r /\ w.clear = r.clear /\ w.id = r.id
  <2> HIDE DEF r, w
  <2> QED BY <1>1, <1>3 DEF Keeps, JoinedOn, JoinedIn
<1>6. Keeps(c, w, {"clear"})
  <2> HIDE DEF r, w, c
  <2> QED BY <1>1, <1>4, <1>5, ClearingsLanded
<1>7. DOMAIN c = DOMAIN r /\ c.id = r.id
  <2> HIDE DEF r, w, c
  <2> QED BY <1>1, <1>5, <1>6 DEF Keeps, JoinedOn
<1>8. /\ IsFiniteSet(DOMAIN g.signals) /\ Len(g.records) \in Nat
      /\ DOMAIN g.records = 1 .. Len(g.records)
  BY TasksAssumption
<1>9. Len(ids) \in Nat /\ DOMAIN ids = 1 .. Len(ids) /\ DOMAIN ids = DOMAIN g.records
  <2> DEFINE S == {Dispatched(g)[n].id : n \in 1 .. Len(g.records)}
  <2>1. ids \in [1 .. Len(g.records) -> S]
    BY <1>4, <1>8
  <2>2. DOMAIN ids = DOMAIN g.records
    BY <1>4
  <2> HIDE DEF ids, S
  <2>3. ids \in Seq(S)
    BY <2>1, <1>8
  <2> QED BY <2>2, <2>3, LenProperties
<1>10. answers[i] = Alone(g.signals, ids[i])
  <2> HIDE DEF ids
  <2> QED BY <1>8, <1>9, ClassifiedIsAlone
<1>11. ids[i] = r.id
  BY <1>4, <1>7
<1>12. /\ DOMAIN Joined(g) = DOMAIN g.records
       /\ Joined(g)[i] = [c EXCEPT !.validity = answers[i].validity, !.origin = answers[i].origin]
  BY <1>4 DEF Joined, WithValidity
<1> DEFINE a == answers[i]
<1>13. answers[i] = a
  OBVIOUS
<1> HIDE DEF r, w, c, ids, answers, a
<1>14. {"validity", "origin"} \subseteq DOMAIN c
  BY <1>1, <1>7 DEF JoinedIn
<1>15. /\ Keeps(Joined(g)[i], c, {"validity", "origin"})
       /\ Joined(g)[i].validity = a.validity /\ Joined(g)[i].origin = a.origin
  BY <1>12, <1>13, <1>14 DEF Keeps
<1>16. a = [validity |-> a.validity, origin |-> a.origin]
  <2>1. a = Alone(g.signals, r.id)
    BY <1>10, <1>11, <1>13
  <2> QED BY <1>8, <2>1, OriginIsReview
<1>17. [validity |-> Joined(g)[i].validity, origin |-> Joined(g)[i].origin] = Alone(g.signals, r.id)
  BY <1>10, <1>11, <1>13, <1>15, <1>16
<1> QED BY <1>2, <1>3, <1>4, <1>6, <1>12, <1>15, <1>17 DEF r, w, c

(***************************************************************************)
(* The invariant: what is joined comes from the input, by the three joins, *)
(* the figures of tasks and packs from what was joined or given, and the   *)
(* metrics of an hour from its sources.                                    *)
(***************************************************************************)
Inv ==
  /\ given \in Tasks \cup Packs \cup Hours
  /\ stage = "given" /\ given.kind = "tasks" => records = given.records
  /\ stage = "joined" => given \in Tasks /\ records = Joined(given)
  /\ Answered("tasks") => /\ given \in Tasks /\ records = Joined(given)
                          /\ answer = Economics(records, given.events)
  /\ Answered("packs") => given \in Packs /\ answer = Retrieval(given.packs)
  /\ Answered("hour") => answer = ComputeMetrics(given.sources)

LEMMA InitInv == Init => Inv
BY TasksAssumption, PacksAssumption, HoursAssumption DEF Init, Inv, Answered

LEMMA NextInv == Inv /\ [Next]_vars => Inv'
<1> SUFFICES ASSUME Inv, [Next]_vars PROVE Inv'
  OBVIOUS
<1>1. CASE Join
  <2>1. given \in Tasks
    BY <1>1, PacksAssumption, HoursAssumption DEF Join, Inv
  <2> QED BY <1>1, <2>1 DEF Join, Inv, Answered, Joined, Dispatched, Windowed
<1>2. CASE Summarise
  BY <1>2, TasksAssumption DEF Summarise, Inv, Answered
<1>3. CASE SummarisePacks
  BY <1>3, TasksAssumption, HoursAssumption DEF SummarisePacks, Inv, Answered
<1>4. CASE Measure
  BY <1>4, TasksAssumption DEF Measure, Inv, Answered
<1>5. CASE UNCHANGED vars
  BY <1>5 DEF vars, Inv, Answered
<1> QED BY <1>1, <1>2, <1>3, <1>4, <1>5 DEF Next

(***************************************************************************)
(* The theorems.                                                           *)
(***************************************************************************)
(* However many tasks there are, in whatever order they are asked about    *)
(* and however their links run, what is remembered on the way changes no   *)
(* answer, and an origin is a review.                                      *)
THEOREM CascadeCorrect == Spec => []CascadeIsOrderFree
<1>1. Inv => CascadeIsOrderFree
  <2> SUFFICES ASSUME Inv, stage = "joined", NEW i \in DOMAIN records
               PROVE  LET r == records[i]
                      IN  /\ Answer(given.signals, << >>, r.id)
                               = [validity |-> r.validity, origin |-> r.origin]
                          /\ r.origin # None => given.signals[r.origin].type = "review"
    BY DEF CascadeIsOrderFree
  <2>1. given \in Tasks /\ records = Joined(given)
    BY DEF Inv
  <2>2. i \in DOMAIN given.records
    BY <2>1 DEF Joined, WithValidity, Dispatched, WithClearings, Windowed, WithWindows
  <2> DEFINE r == Joined(given)[i]
             old == given.records[i]
  <2>3. /\ Keeps(Windowed(given)[i], old, {"window", "precap", "capped"})
        /\ Keeps(Dispatched(given)[i], Windowed(given)[i], {"clear"})
        /\ Keeps(r, Dispatched(given)[i], {"validity", "origin"})
        /\ [validity |-> r.validity, origin |-> r.origin] = Alone(given.signals, old.id)
    BY <2>1, <2>2, JoinedFields
  <2>4. "id" \in DOMAIN old /\ IsFiniteSet(DOMAIN given.signals)
    BY <2>1, <2>2, TasksAssumption DEF JoinedOn
  <2>5. records[i] = r
    BY <2>1
  <2> HIDE DEF r, old
  <2>6. r.id = old.id
    BY <2>3, <2>4 DEF Keeps
  <2>7. r.origin # None => given.signals[r.origin].type = "review"
    <3>1. r.origin = Alone(given.signals, old.id).origin
      BY <2>3
    <3> QED BY <2>4, <3>1, OriginIsReview
  <2> QED BY <2>3, <2>5, <2>6, <2>7 DEF Alone
<1> QED BY <1>1, InitInv, NextInv, PTL DEF Spec

(* A window or a clearing is attributed across contradicting identities    *)
(* only by the two documented inferences, and no join rewrites what a      *)
(* record says of itself.                                                  *)
THEOREM JoinsCorrect == Spec => []JoinsKeepIdentity
<1>1. Inv => JoinsKeepIdentity
  <2> SUFFICES ASSUME Inv, stage = "joined", NEW i \in DOMAIN records
               PROVE  LET r == records[i]
                          window == RowOf(given.windows, r.id)
                          clearing == RowOf(given.clearings, r.id)
                      IN  /\ r.window # None => /\ Conflicts(r, window) = {}
                                                /\ r.window = window.window
                          /\ r.precap # None => /\ r.window = None
                                                /\ Conflicts(r, window) \subseteq {"session"}
                          /\ (r.clear # None /\ Conflicts(r, clearing) # {}) =>
                                /\ clearing.status # "failed"
                                /\ r.provider = clearing.provider
                                /\ r.generation > clearing.generation
                          /\ \A f \in Identity \cup {"policy"} : r[f] = given.records[i][f]
    BY DEF JoinsKeepIdentity
  <2>1. given \in Tasks /\ records = Joined(given)
    BY DEF Inv
  <2>2. i \in DOMAIN given.records
    BY <2>1 DEF Joined, WithValidity, Dispatched, WithClearings, Windowed, WithWindows
  <2> DEFINE old == given.records[i]
             w == Windowed(given)[i]
             c == Dispatched(given)[i]
             r == Joined(given)[i]
  <2>3. /\ w = IF HasRow(given.windows, old.id) THEN Observed(old, RowOf(given.windows, old.id))
               ELSE old
        /\ c = IF HasRow(given.clearings, w.id) THEN Cleared(w, RowOf(given.clearings, w.id))
               ELSE w
        /\ Keeps(w, old, {"window", "precap", "capped"})
        /\ Keeps(c, w, {"clear"})
        /\ Keeps(r, c, {"validity", "origin"})
    BY <2>1, <2>2, JoinedFields
  <2>4. /\ JoinedOn \cup JoinedIn \subseteq DOMAIN old
        /\ old.window = None /\ old.precap = None /\ old.clear = None
    BY <2>1, <2>2, TasksAssumption
  <2>5. records[i] = r
    BY <2>1
  <2> HIDE DEF old, w, c, r
  <2>6. /\ DOMAIN w = DOMAIN old /\ DOMAIN c = DOMAIN old /\ w.clear = None
        /\ r.window = w.window /\ r.precap = w.precap /\ r.clear = c.clear
    BY <2>3, <2>4 DEF Keeps, JoinedIn
  <2>7. /\ \A row : Conflicts(w, row) = Conflicts(old, row)
        /\ \A f \in JoinedOn : w[f] = old[f]
    BY <2>3, <2>4, SameConflicts DEF JoinedOn, Identity
  <2>8. /\ \A row : Conflicts(c, row) = Conflicts(w, row)
        /\ \A f \in JoinedOn : c[f] = w[f]
    BY <2>3, <2>4, <2>6, SameConflicts DEF JoinedOn, Identity
  <2>9. /\ \A row : Conflicts(r, row) = Conflicts(c, row)
        /\ \A f \in JoinedOn : r[f] = c[f]
    BY <2>3, <2>4, <2>6, SameConflicts DEF JoinedOn, Identity
  <2>10. r.id = old.id /\ w.id = old.id /\ r.provider = w.provider /\ r.generation = w.generation
    BY <2>7, <2>8, <2>9 DEF JoinedOn, Identity
  <2>11. /\ w.window # None => /\ Conflicts(old, RowOf(given.windows, old.id)) = {}
                               /\ w.window = RowOf(given.windows, old.id).window
         /\ w.precap # None => /\ w.window = None
                               /\ Conflicts(old, RowOf(given.windows, old.id)) \subseteq {"session"}
    BY <2>3, <2>4, WindowsAreOwn
  <2>12. (c.clear # None /\ Conflicts(w, RowOf(given.clearings, w.id)) # {}) =>
            /\ RowOf(given.clearings, w.id).status # "failed"
            /\ w.provider = RowOf(given.clearings, w.id).provider
            /\ w.generation > RowOf(given.clearings, w.id).generation
    BY <2>3, <2>4, <2>6, ClearingsLanded
  <2>13. \A f \in Identity \cup {"policy"} : r[f] = old[f]
    BY <2>7, <2>8, <2>9 DEF JoinedOn
  <2>14. /\ r.window # None => /\ Conflicts(r, RowOf(given.windows, r.id)) = {}
                               /\ r.window = RowOf(given.windows, r.id).window
         /\ r.precap # None => /\ r.window = None
                               /\ Conflicts(r, RowOf(given.windows, r.id)) \subseteq {"session"}
    BY <2>6, <2>7, <2>8, <2>9, <2>10, <2>11
  <2>15. (r.clear # None /\ Conflicts(r, RowOf(given.clearings, r.id)) # {}) =>
            /\ RowOf(given.clearings, r.id).status # "failed"
            /\ r.provider = RowOf(given.clearings, r.id).provider
            /\ r.generation > RowOf(given.clearings, r.id).generation
    BY <2>6, <2>8, <2>9, <2>10, <2>12
  <2> QED BY <2>5, <2>13, <2>14, <2>15 DEF old
<1> QED BY <1>1, InitInv, NextInv, PTL DEF Spec

-----------------------------------------------------------------------------
(* The generations of an hour.  Times are whole numbers, and a generation  *)
(* ends before the next moment at which any context changed.               *)
TimedSources(s) ==
  /\ s.since \in Nat /\ s.until \in Nat /\ s.transitions \subseteq Nat
  /\ \A p \in DOMAIN s.transcripts :
       /\ s.transcripts[p].boundaries \subseteq Nat
       /\ \A i \in DOMAIN s.transcripts[p].lines :
            s.transcripts[p].lines[i].at \in Nat \cup {None}

LEMMA BoundariesAreTimed ==
  ASSUME NEW s, TimedSources(s)
  PROVE  \A b \in Boundaries(s) : b.at \in Nat /\ b.path \in DOMAIN s.transcripts
<1> TAKE b \in Boundaries(s)
<1>1. PICK p \in DOMAIN s.transcripts : b \in [at : s.transcripts[p].boundaries, path : {p}]
  BY DEF Boundaries
<1> QED BY <1>1 DEF TimedSources

LEMMA MomentsAreTimed ==
  ASSUME NEW s, TimedSources(s)
  PROVE  Moments(s) \subseteq Nat
BY BoundariesAreTimed DEF Moments, Transitions, TimedSources

LEMMA RequestsAreTimed ==
  ASSUME NEW s, TimedSources(s), NEW path \in DOMAIN s.transcripts, NEW at, NEW last,
         NEW r \in RequestsAfter(s, path, at, last)
  PROVE  r.at \in Nat /\ at < r.at
<1> DEFINE lines == s.transcripts[path].lines
<1>1. r \in Requests(lines, s.since, s.until) /\ at < r.at
  BY DEF RequestsAfter
<1>2. \A i \in DOMAIN lines : lines[i].at \in Nat \cup {None}
  BY DEF TimedSources
<1> HIDE DEF lines
<1>3. PICK i \in DOMAIN lines : r = lines[i] /\ Within(lines[i].at, s.since - Reach, s.until + Reach)
  BY <1>1 DEF Requests
<1> QED BY <1>1, <1>2, <1>3 DEF Within

LEMMA NearestIsTranscript == \A s, at : Nearest(s, at) \subseteq DOMAIN s.transcripts
BY DEF Nearest

LEMMA GenerationsAreOf ==
  ASSUME NEW s, TimedSources(s), NEW g \in Generations(s)
  PROVE  \E path \in DOMAIN s.transcripts, at \in Moments(s) :
            \E last : g = Generation(s, path, at, last)
<1>1. \/ \E b \in Boundaries(s) : g = Generation(s, b.path, b.at, s.until)
      \/ \E t \in Transitions(s) : \E p \in Nearest(s, t) : g = Generation(s, p, t, t + Reach)
  BY DEF Generations
<1>2. CASE \E b \in Boundaries(s) : g = Generation(s, b.path, b.at, s.until)
  BY <1>2, BoundariesAreTimed DEF Moments
<1>3. CASE \E t \in Transitions(s) : \E p \in Nearest(s, t) : g = Generation(s, p, t, t + Reach)
  BY <1>3, NearestIsTranscript DEF Moments
<1> QED BY <1>1, <1>2, <1>3

LEMMA NoMomentBetween ==
  ASSUME NEW s, TimedSources(s), NEW g \in Generations(s), NEW r \in g.rows
  PROVE  /\ g.at \in Moments(s) /\ g.at \in Nat /\ r.at \in Nat /\ g.at < r.at
         /\ \A m \in Moments(s) : ~(g.at < m /\ m <= r.at)
<1>1. PICK path \in DOMAIN s.transcripts, at \in Moments(s) :
         \E last : g = Generation(s, path, at, last)
  BY GenerationsAreOf
<1> PICK last : g = Generation(s, path, at, last)
  BY <1>1
<1>2. /\ g.at = at /\ r \in RequestsAfter(s, path, at, last)
      /\ r.at < NextMoment(s, at)
  BY DEF Generation
<1>3. r.at \in Nat /\ at < r.at
  BY <1>2, RequestsAreTimed
<1>4. at \in Nat
  BY MomentsAreTimed
<1>5. ASSUME NEW m \in Moments(s), at < m PROVE r.at < m /\ m \in Nat
  <2> DEFINE later == {n \in Moments(s) : n > at} \cup {s.until}
  <2>1. later \in SUBSET Nat /\ m \in later /\ m \in Nat
    BY <1>4, <1>5, MomentsAreTimed DEF TimedSources
  <2>2. NextMoment(s, at) = Min(later)
    BY DEF NextMoment
  <2> HIDE DEF later
  <2>3. Min(later) \in Nat /\ Min(later) <= m
    BY <2>1, MinIsLeast
  <2>4. r.at \in Nat /\ r.at < Min(later)
    BY <1>2, <1>3, <2>2
  <2> DEFINE next == Min(later)
  <2>5. next \in Nat /\ next <= m /\ r.at < next
    BY <2>3, <2>4
  <2> HIDE DEF next
  <2> QED BY <2>1, <2>4, <2>5
<1>6. \A m \in Moments(s) : ~(at < m /\ m <= r.at)
  <2> SUFFICES ASSUME NEW m \in Moments(s), at < m, m <= r.at PROVE FALSE
    OBVIOUS
  <2>1. r.at < m /\ m \in Nat
    BY <1>5
  <2> QED BY <1>3, <2>1
<1> QED BY <1>2, <1>3, <1>4, <1>6

(* However many transcripts, transitions and requests there are, no        *)
(* request is counted for two generations of a transcript, nor for one     *)
(* that had already ended when it was made.                                *)
THEOREM GenerationsCorrect == Spec => []GenerationsAreNotMixed
<1>1. Inv => GenerationsAreNotMixed
  <2> SUFFICES ASSUME Inv, Answered("hour"),
                      NEW g \in Generations(given.sources), NEW h \in Generations(given.sources)
               PROVE  /\ g.path = h.path /\ g.at # h.at => g.rows \cap h.rows = {}
                      /\ \A r \in g.rows, m \in Moments(given.sources) :
                            ~(g.at < m /\ m <= r.at)
    BY DEF GenerationsAreNotMixed
  <2> DEFINE s == given.sources
  <2>1. given \in Hours
    BY TasksAssumption, PacksAssumption DEF Inv, Answered
  <2>2. TimedSources(s)
    BY <2>1, HoursAssumption DEF TimedSources
  <2> HIDE DEF s
  <2>3. g \in Generations(s) /\ h \in Generations(s)
    BY DEF s
  <2>4. \A r \in g.rows, m \in Moments(s) : ~(g.at < m /\ m <= r.at)
    BY <2>2, <2>3, NoMomentBetween
  <2>5. ASSUME g.at # h.at, NEW r \in g.rows \cap h.rows PROVE FALSE
    <3>1. /\ g.at \in Moments(s) /\ g.at \in Nat /\ r.at \in Nat /\ g.at < r.at
          /\ h.at \in Moments(s) /\ h.at \in Nat /\ h.at < r.at
      BY <2>2, <2>3, <2>5, NoMomentBetween
    <3>2. ~(g.at < h.at /\ h.at <= r.at) /\ ~(h.at < g.at /\ g.at <= r.at)
      BY <2>2, <2>3, <2>5, <3>1, NoMomentBetween
    <3> QED BY <2>5, <3>1, <3>2
  <2> QED BY <2>4, <2>5 DEF s
<1> QED BY <1>1, InitInv, NextInv, PTL DEF Spec

-----------------------------------------------------------------------------
(* The metrics that need evidence, one lemma for each source of it.        *)
LEMMA UnreadableDatabase ==
  ASSUME NEW s, s.db # "readable"
  PROVE  \A m \in {"M1", "M3c", "M8"} : ComputeMetrics(s)[m].value = None
<1>1. ComputeMetrics(s).M1.value = None
  BY DEF ComputeMetrics, Measured
<1>2. ComputeMetrics(s).M3c.value = None
  <2>1. TaskIds(s) = {}
    BY DEF TaskIds
  <2> QED BY <2>1 DEF ComputeMetrics, PackCoverage, Measured
<1>3. ComputeMetrics(s).M8.value = None
  BY DEF ComputeMetrics, Followups
<1> QED BY <1>1, <1>2, <1>3

LEMMA UnreadableMemory ==
  ASSUME NEW s, s.memory # "readable"
  PROVE  \A m \in {"M3a", "M3b", "M7"} : ComputeMetrics(s)[m].value = None
<1>1. \A group : Score(s, group).value = None
  BY DEF Score, Replayed, Measured
<1>2. Served(s).value = None
  BY DEF Served, Measured
<1> QED BY <1>1, <1>2 DEF ComputeMetrics

LEMMA UncoveredTask ==
  ASSUME NEW s, PackCoverage(s).value # None, NEW t \in TaskIds(s)
  PROVE  \E i \in DOMAIN s.packs : s.packs[i].task = t /\ s.packs[i].kinds # None
<1>1. t \in DOMAIN PackKinds(s)
  BY DEF PackCoverage, Measured
<1> QED BY <1>1 DEF PackKinds

LEMMA UnresolvedItem ==
  ASSUME NEW s, Served(s).value # None, NEW i \in ServedPacks(s)
  PROVE  \A k \in DOMAIN s.packs[i].ids : s.packs[i].ids[k] \in DOMAIN s.items
<1>1. \A at \in Positions(s) : at[2] # 0 /\ Found(s, Key(s, at))
  BY DEF Served, Measured
<1>2. Listed(s.packs[i])
  <2> SUFFICES ASSUME ~Listed(s.packs[i]) PROVE FALSE
    OBVIOUS
  <2>1. <<i, 0>> \in Positions(s)
    BY DEF Positions
  <2> QED BY <1>1, <2>1
<1>3. ASSUME NEW k \in DOMAIN s.packs[i].ids PROVE s.packs[i].ids[k] \in DOMAIN s.items
  <2>1. <<i, k>> \in Positions(s)
    BY <1>2 DEF Positions
  <2>2. Found(s, Key(s, <<i, k>>))
    BY <1>1, <2>1
  <2> QED BY <2>2 DEF Found, Key
<1> QED BY <1>3

LEMMA UnansweredReview ==
  ASSUME NEW s, s.db = "readable", IsFiniteSet(DOMAIN s.tasks),
         \A t \in DOMAIN s.tasks : s.tasks[t].documented => t \in DOMAIN s.followup,
         \A t \in DOMAIN s.followup : s.followup[t] \in {None, "yes", "no"}
  PROVE  /\ Followups(s).n + Followups(s).unknown = Followups(s).eligible
         /\ Followups(s).value # None =>
              Followups(s).value[1]
                <= Cardinality({r \in Matured(s) : /\ Parent(s, r) \in DOMAIN s.followup
                                                   /\ s.followup[Parent(s, r)] = "no"})
<1> DEFINE known == {r \in Matured(s) : Judged(s, r)}
           correct == {r \in known : ~FixedLater(s, r) /\ ExternalFollowup(s, r) # "yes"}
           clean == {r \in Matured(s) : /\ Parent(s, r) \in DOMAIN s.followup
                                        /\ s.followup[Parent(s, r)] = "no"}
<1>1. IsFiniteSet(Matured(s))
  <2>1. Matured(s) \subseteq DOMAIN s.tasks
    BY DEF Matured
  <2> QED BY <2>1, FS_Subset
<1>2. /\ Followups(s).n = Cardinality(known) /\ Followups(s).eligible = Cardinality(Matured(s))
      /\ Followups(s).unknown = Cardinality(Matured(s) \ known)
      /\ Followups(s).value = IF known = {} THEN None ELSE <<Cardinality(correct), Cardinality(known)>>
  BY DEF Followups
<1>3. correct \subseteq clean
  <2> SUFFICES ASSUME NEW r \in Matured(s), Judged(s, r), ~FixedLater(s, r),
                      ExternalFollowup(s, r) # "yes"
               PROVE  Parent(s, r) \in DOMAIN s.followup /\ s.followup[Parent(s, r)] = "no"
    OBVIOUS
  <2>1. Documented(s, r) /\ ExternalFollowup(s, r) # None
    BY DEF Judged
  <2>2. Parent(s, r) \in DOMAIN s.followup
    BY <2>1 DEF Documented
  <2> QED BY <2>1, <2>2 DEF ExternalFollowup
<1>4. known \subseteq Matured(s) /\ clean \subseteq Matured(s)
  OBVIOUS
<1> HIDE DEF known, correct, clean
<1>5. Cardinality(correct) <= Cardinality(clean)
  BY <1>1, <1>3, <1>4, FS_Subset
<1>6. Cardinality(known) + Cardinality(Matured(s) \ known) = Cardinality(Matured(s))
  <2> DEFINE M == Matured(s)
  <2>1. IsFiniteSet(M) /\ M \cap known = known
    BY <1>1, <1>4
  <2> HIDE DEF M
  <2>2. Cardinality(M \ known) = Cardinality(M) - Cardinality(M \cap known)
    BY <2>1, FS_Difference
  <2>3. Cardinality(M \ known) = Cardinality(M) - Cardinality(known)
    BY <2>1, <2>2
  <2>4. Cardinality(M) \in Nat /\ Cardinality(known) \in Nat
    <3>1. IsFiniteSet(known)
      BY <2>1, <1>1, <1>4, FS_Subset
    <3> QED BY <2>1, <3>1, FS_CardinalityType
  <2>5. Cardinality(known) + Cardinality(M \ known) = Cardinality(M)
    BY <2>3, <2>4
  <2> QED BY <2>5 DEF M
<1> QED BY <1>2, <1>5, <1>6 DEF clean

(* Whatever an hour's sources are, a metric has a number only where its    *)
(* evidence was complete; a review is called correct only if the outside   *)
(* was asked and knew of nothing against it.                               *)
THEOREM EvidenceCorrect == Spec => []NoEvidenceNoNumber
<1>1. Inv => NoEvidenceNoNumber
  <2> SUFFICES ASSUME Inv, Answered("hour") PROVE NoEvidenceNoNumber
    BY DEF NoEvidenceNoNumber
  <2> DEFINE s == given.sources
  <2>1. given \in Hours
    BY TasksAssumption, PacksAssumption DEF Inv, Answered
  <2>2. /\ IsFiniteSet(DOMAIN s.tasks)
        /\ \A t \in DOMAIN s.tasks : s.tasks[t].documented => t \in DOMAIN s.followup
        /\ \A t \in DOMAIN s.followup : s.followup[t] \in {None, "yes", "no"}
    BY <2>1, HoursAssumption
  <2> HIDE DEF s
  <2>3. answer = ComputeMetrics(s)
    BY DEF Inv, s
  <2>4. answer.M3c = PackCoverage(s) /\ answer.M7 = Served(s) /\ answer.M8 = Followups(s)
    BY <2>3 DEF ComputeMetrics
  <2>5. s.db # "readable" => \A m \in {"M1", "M3c", "M8"} : answer[m].value = None
    BY <2>3, UnreadableDatabase
  <2>6. s.memory # "readable" => \A m \in {"M3a", "M3b", "M7"} : answer[m].value = None
    BY <2>3, UnreadableMemory
  <2>7. answer.M3c.value # None =>
          \A t \in TaskIds(s) : \E i \in DOMAIN s.packs : s.packs[i].task = t /\ s.packs[i].kinds # None
    BY <2>4, UncoveredTask
  <2>8. answer.M7.value # None =>
          \A i \in DOMAIN s.packs :
             s.packs[i].shadow \/ ~Within(s.packs[i].at, s.since, s.until)
               \/ \A k \in DOMAIN s.packs[i].ids : s.packs[i].ids[k] \in DOMAIN s.items
    BY <2>4, UnresolvedItem DEF ServedPacks
  <2>9. s.db = "readable" =>
          /\ answer.M8.n + answer.M8.unknown = answer.M8.eligible
          /\ answer.M8.value # None =>
               answer.M8.value[1]
                 <= Cardinality({r \in Matured(s) : /\ Parent(s, r) \in DOMAIN s.followup
                                                    /\ s.followup[Parent(s, r)] = "no"})
    BY <2>2, <2>4, UnansweredReview
  <2> QED BY <2>5, <2>6, <2>7, <2>8, <2>9 DEF NoEvidenceNoNumber, s
<1> QED BY <1>1, InitInv, NextInv, PTL DEF Spec

-----------------------------------------------------------------------------
(***************************************************************************)
(* Figures of records with one more that tells nothing.                    *)
(***************************************************************************)
Joins(x, g, f) ==
  /\ 0 \notin DOMAIN f /\ DOMAIN g = {0} \cup DOMAIN f /\ g[0] = x
  /\ \A i \in DOMAIN f : g[i] = f[i]

MayJoin(x, g, f) == g = f \/ Joins(x, g, f)

(* Put at position 0, which nothing had, it is one more.                   *)
LEMMA AfterJoins ==
  ASSUME NEW x, NEW f, 0 \notin DOMAIN f
  PROVE  Joins(x, After(x, f), f)
BY DEF Joins, After

(* The positions that were there keep what they had.                       *)
LEMMA SameRestriction ==
  ASSUME NEW x, NEW g, NEW f, MayJoin(x, g, f), NEW S \in SUBSET (DOMAIN f)
  PROVE  Restrict(g, S) = Restrict(f, S)
BY DEF MayJoin, Joins, Restrict

(* What it does not mention it adds nothing to.                            *)
LEMMA SameMentioned ==
  ASSUME NEW x, NEW g, NEW f, MayJoin(x, g, f), NEW field, x[field] = None
  PROVE  Mentioned(g, field) = Mentioned(f, field)
<1> DEFINE S(h) == {i \in DOMAIN h : h[i][field] # None}
<1>1. S(g) = S(f)
  BY DEF MayJoin, Joins
<1>2. \A h : Mentioned(h, field) = [i \in S(h) |-> h[i][field]]
  BY DEF Mentioned, Where, Values, Restrict
<1>3. \A i \in S(f) : g[i] = f[i]
  BY DEF MayJoin, Joins
<1> QED BY <1>1, <1>2, <1>3

(* It is in one group of each grouping, or in none.                        *)
LEMMA MayJoinGroup ==
  ASSUME NEW x, NEW g, NEW f, MayJoin(x, g, f), NEW S \in SUBSET (DOMAIN g)
  PROVE  MayJoin(x, Restrict(g, S), Restrict(f, S \cap DOMAIN f))
<1>1. \A i \in DOMAIN f : i \in DOMAIN g /\ g[i] = f[i]
  BY DEF MayJoin, Joins
<1>2. CASE S \subseteq DOMAIN f
  <2>1. S \cap DOMAIN f = S
    BY <1>2
  <2> QED BY <1>2, <2>1, SameRestriction DEF MayJoin
<1>3. CASE ~(S \subseteq DOMAIN f)
  <2>1. Joins(x, g, f)
    BY <1>3 DEF MayJoin
  <2>2. 0 \in S
    BY <1>3, <2>1 DEF Joins
  <2>3. Joins(x, Restrict(g, S), Restrict(f, S \cap DOMAIN f))
    BY <1>1, <2>1, <2>2 DEF Joins, Restrict
  <2> QED BY <2>3 DEF MayJoin
<1> QED BY <1>2, <1>3

(* It has not ended, and is in no stratum.                                 *)
LEMMA SameEnded ==
  ASSUME NEW g, NEW f, MayJoin(Blank, g, f)
  PROVE  /\ Where(g, Ended) = Where(f, Ended)
         /\ Where(g, Succeeded) = Where(f, Succeeded)
         /\ Where(g, NotSucceeded) = Where(f, NotSucceeded)
         /\ Stratified(g) = Stratified(f)
<1>1. ~Ended(Blank) /\ ~Succeeded(Blank) /\ ~NotSucceeded(Blank)
  BY BlankAssumption DEF Ended, Succeeded, NotSucceeded, Tells
<1>2. /\ {i \in DOMAIN g : Ended(g[i])} = {i \in DOMAIN f : Ended(f[i])}
      /\ {i \in DOMAIN g : Succeeded(g[i])} = {i \in DOMAIN f : Succeeded(f[i])}
      /\ {i \in DOMAIN g : NotSucceeded(g[i])} = {i \in DOMAIN f : NotSucceeded(f[i])}
  BY <1>1 DEF MayJoin, Joins
<1>3. Where(g, Ended) = Where(f, Ended)
  BY <1>2, SameRestriction DEF Where
<1>4. Where(g, Succeeded) = Where(f, Succeeded)
  BY <1>2, SameRestriction DEF Where
<1>5. Where(g, NotSucceeded) = Where(f, NotSucceeded)
  BY <1>2, SameRestriction DEF Where
<1>6. Stratified(g) = Stratified(f)
  BY <1>3 DEF Stratified
<1> QED BY <1>3, <1>4, <1>5, <1>6

(* The averages over all tasks.                                            *)
Averages(rs) ==
  <<PerSuccess(rs, "freshInput"), PerSuccess(rs, "cacheCreation"), PerSuccess(rs, "total"),
    CacheReadPerTask(rs), RetryWaste(rs), TokensPerOutcome(rs), TokensByAge(rs),
    FailuresByAge(rs)>>

LEMMA SameAverages ==
  ASSUME NEW g, NEW f, MayJoin(Blank, g, f)
  PROVE  Averages(g) = Averages(f)
<1>1. /\ Where(g, Ended) = Where(f, Ended)
      /\ Where(g, Succeeded) = Where(f, Succeeded)
      /\ Where(g, NotSucceeded) = Where(f, NotSucceeded)
  BY SameEnded
<1>2. /\ Blank.total = None /\ Blank.age = None /\ Blank.cacheRead = None
      /\ Blank.outcome = None /\ ~Blank.retry
  BY BlankAssumption DEF Tells
<1>3. CacheReadPerTask(g) = CacheReadPerTask(f)
  BY <1>2, SameMentioned DEF CacheReadPerTask
<1>4. RetryWaste(g) = RetryWaste(f)
  <2>1. {i \in DOMAIN g : g[i].retry} = {i \in DOMAIN f : f[i].retry}
    BY <1>2 DEF MayJoin, Joins
  <2>2. Where(g, LAMBDA r : r.retry) = Where(f, LAMBDA r : r.retry)
    BY <2>1, SameRestriction DEF Where
  <2> QED BY <1>1, <2>2 DEF RetryWaste
<1>5. TokensPerOutcome(g) = TokensPerOutcome(f)
  <2>1. {i \in DOMAIN g : HasTotal(g[i])} = {i \in DOMAIN f : HasTotal(f[i])}
    BY <1>2 DEF MayJoin, Joins, HasTotal
  <2>2. Where(g, HasTotal) = Where(f, HasTotal)
    BY <2>1, SameRestriction DEF Where
  <2> QED BY <2>2 DEF TokensPerOutcome
<1>6. TokensByAge(g) = TokensByAge(f)
  <2>1. {i \in DOMAIN g : HasAge(g[i]) /\ HasTotal(g[i])}
          = {i \in DOMAIN f : HasAge(f[i]) /\ HasTotal(f[i])}
    BY <1>2 DEF MayJoin, Joins, HasTotal
  <2>2. Where(g, LAMBDA r : HasAge(r) /\ HasTotal(r)) = Where(f, LAMBDA r : HasAge(r) /\ HasTotal(r))
    BY <2>1, SameRestriction DEF Where
  <2> QED BY <2>2 DEF TokensByAge
<1>7. FailuresByAge(g) = FailuresByAge(f)
  <2>1. {i \in DOMAIN g : HasAge(g[i]) /\ Ended(g[i])}
          = {i \in DOMAIN f : HasAge(f[i]) /\ Ended(f[i])}
    BY <1>2 DEF MayJoin, Joins, HasAge
  <2>2. Where(g, LAMBDA r : HasAge(r) /\ Ended(r)) = Where(f, LAMBDA r : HasAge(r) /\ Ended(r))
    BY <2>1, SameRestriction DEF Where
  <2> QED BY <2>2 DEF FailuresByAge
<1>8. \A field : PerSuccess(g, field) = PerSuccess(f, field)
  BY <1>1 DEF PerSuccess
<1> QED BY <1>3, <1>4, <1>5, <1>6, <1>7, <1>8 DEF Averages

(* What is compared around a compaction: it has no time.                   *)
LEMMA SameSides ==
  ASSUME NEW g, NEW f, MayJoin(Blank, g, f), NEW events, NEW n
  PROVE  BeforeAfter(g, events, n) = BeforeAfter(f, events, n)
<1>1. TaskTime(Blank) = None
  BY BlankAssumption DEF TaskTime, Tells
<1>2. \A i \in DOMAIN f : g[i] = f[i]
  BY DEF MayJoin, Joins
<1>3. \A e : Scoped(g, e) = Scoped(f, e)
  BY <1>1 DEF MayJoin, Joins, Scoped
<1>4. \A e : Scoped(f, e) \subseteq DOMAIN f
  BY DEF Scoped
<1>5. \A e : Before(g, e) = Before(f, e)
  BY <1>2, <1>3, <1>4 DEF Before
<1>6. \A i, j \in DOMAIN f : Sooner(g, i, j) <=> Sooner(f, i, j)
  BY <1>2 DEF Sooner
<1>7. \A S \in SUBSET (DOMAIN f) : LastOf(g, S, n) = LastOf(f, S, n) /\ FirstOf(g, S, n) = FirstOf(f, S, n)
  <2> TAKE S \in SUBSET (DOMAIN f)
  <2>1. \A i \in S : /\ {j \in S : Sooner(g, i, j)} = {j \in S : Sooner(f, i, j)}
                     /\ {j \in S : Sooner(g, j, i)} = {j \in S : Sooner(f, j, i)}
    BY <1>6
  <2> QED BY <2>1 DEF LastOf, FirstOf
<1>8. \A e : Sides(g, e, n) = Sides(f, e, n)
  <2> TAKE e
  <2> DEFINE B == Before(f, e)
             A == Scoped(f, e) \ B
  <2>1. B \in SUBSET (DOMAIN f) /\ A \in SUBSET (DOMAIN f)
    BY <1>4 DEF Before
  <2>2. Before(g, e) = B /\ Scoped(g, e) \ Before(g, e) = A
    BY <1>3, <1>5
  <2>3. Sides(g, e, n) = [before |-> Restrict(g, LastOf(g, B, n)), after |-> Restrict(g, FirstOf(g, A, n))]
    BY <2>2 DEF Sides
  <2>4. Sides(f, e, n) = [before |-> Restrict(f, LastOf(f, B, n)), after |-> Restrict(f, FirstOf(f, A, n))]
    BY DEF Sides
  <2> HIDE DEF A, B
  <2>5. LastOf(f, B, n) \in SUBSET (DOMAIN f) /\ FirstOf(f, A, n) \in SUBSET (DOMAIN f)
    BY <2>1 DEF LastOf, FirstOf
  <2>6. /\ Restrict(g, LastOf(f, B, n)) = Restrict(f, LastOf(f, B, n))
        /\ Restrict(g, FirstOf(f, A, n)) = Restrict(f, FirstOf(f, A, n))
    BY <2>5, SameRestriction
  <2> QED BY <1>7, <2>1, <2>3, <2>4, <2>6
<1> QED BY <1>8 DEF BeforeAfter

(* The cohorts of one test scope, or of one policy, and those of a prefix. *)
OfTest(rs, c) == Where(rs, LAMBDA r : TestCohort(r) = c)
OfPolicy(rs, c) == Where(rs, LAMBDA r : PolicyCohort(r) = c)
OfPrefix(rs, c) == Where(rs, LAMBDA r : PrefixOf(r) = c)

(* One group by test scope has it, at most.                                *)
LEMMA TestGroups ==
  ASSUME NEW g, NEW f, MayJoin(Blank, g, f), NEW c
  PROVE  MayJoin(Blank, OfTest(g, c), OfTest(f, c))
<1> DEFINE S == {i \in DOMAIN g : TestCohort(g[i]) = c}
<1>1. S \cap DOMAIN f = {i \in DOMAIN f : TestCohort(f[i]) = c}
  BY DEF MayJoin, Joins
<1>2. MayJoin(Blank, Restrict(g, S), Restrict(f, S \cap DOMAIN f))
  BY MayJoinGroup
<1> QED BY <1>1, <1>2 DEF OfTest, Where

(* By policy, likewise.                                                    *)
LEMMA PolicyGroups ==
  ASSUME NEW g, NEW f, MayJoin(Blank, g, f), NEW c
  PROVE  MayJoin(Blank, OfPolicy(g, c), OfPolicy(f, c))
<1> DEFINE S == {i \in DOMAIN g : PolicyCohort(g[i]) = c}
<1>1. S \cap DOMAIN f = {i \in DOMAIN f : PolicyCohort(f[i]) = c}
  BY DEF MayJoin, Joins
<1>2. MayJoin(Blank, Restrict(g, S), Restrict(f, S \cap DOMAIN f))
  BY MayJoinGroup
<1> QED BY <1>1, <1>2 DEF OfPolicy, Where

(* By prefix, likewise.                                                    *)
LEMMA PrefixGroups ==
  ASSUME NEW g, NEW f, MayJoin(Blank, g, f), NEW c
  PROVE  MayJoin(Blank, OfPrefix(g, c), OfPrefix(f, c))
<1> DEFINE S == {i \in DOMAIN g : PrefixOf(g[i]) = c}
<1>1. S \cap DOMAIN f = {i \in DOMAIN f : PrefixOf(f[i]) = c}
  BY DEF MayJoin, Joins
<1>2. MayJoin(Blank, Restrict(g, S), Restrict(f, S \cap DOMAIN f))
  BY MayJoinGroup
<1> QED BY <1>1, <1>2 DEF OfPrefix, Where

(* The failure rates by test scope do not move.                            *)
LEMMA SameTests ==
  ASSUME NEW g, NEW f, MayJoin(Blank, g, f)
  PROVE  TestFailureRates(g) = TestFailureRates(f)
<1>1. \A c : Stratified(OfTest(g, c)) = Stratified(OfTest(f, c))
  BY TestGroups, SameEnded
<1>2. \A h : TestFailureRates(h)
               = [c \in {"targeted", "full_suite", "unknown"} |-> Stratified(OfTest(h, c))]
  <2> TAKE h
  <2>1. TestCohorts(h) = [c \in {"targeted", "full_suite", "unknown"} |-> OfTest(h, c)]
    BY DEF TestCohorts, OfTest
  <2> QED BY <2>1 DEF TestFailureRates
<1> QED BY <1>1, <1>2

(* What a group is compared by, and its windows.                           *)
Compared(c) == <<c.tokens, c.success, c.strata, c.warning>>

(* Nor does what a group is compared by.                                   *)
LEMMA SameComparison ==
  ASSUME NEW g, NEW f, MayJoin(Blank, g, f)
  PROVE  Compared(Comparison(g)) = Compared(Comparison(f))
<1>1. Mentioned(g, "total") = Mentioned(f, "total")
  BY SameMentioned, BlankAssumption DEF Tells
<1>2. /\ Where(g, Ended) = Where(f, Ended) /\ Where(g, Succeeded) = Where(f, Succeeded)
      /\ Stratified(g) = Stratified(f)
  BY SameEnded
<1> QED BY <1>1, <1>2 DEF Comparison, Compared

Sizes(w) == <<w.known, w.mean, w.cappedKnown>>

(* Nor the sizes of its windows.                                           *)
LEMMA SameWindows ==
  ASSUME NEW g, NEW f, MayJoin(Blank, g, f)
  PROVE  Sizes(WindowSummary(g)) = Sizes(WindowSummary(f))
<1> DEFINE open(h) == Where(h, LAMBDA r : r.capped # "yes")
<1>1. Mentioned(g, "capped") = Mentioned(f, "capped")
  BY SameMentioned, BlankAssumption DEF Tells
<1>2. MayJoin(Blank, open(g), open(f))
  <2> DEFINE S == {i \in DOMAIN g : g[i].capped # "yes"}
  <2>1. S \cap DOMAIN f = {i \in DOMAIN f : f[i].capped # "yes"}
    BY DEF MayJoin, Joins
  <2>2. MayJoin(Blank, Restrict(g, S), Restrict(f, S \cap DOMAIN f))
    BY MayJoinGroup
  <2> QED BY <2>1, <2>2 DEF Where
<1>3. \A h : WindowSummary(h).known = Count(Mentioned(open(h), "window"))
  BY DEF WindowSummary
<1>4. \A h : WindowSummary(h).mean = Mean(Mentioned(open(h), "window"))
  BY DEF WindowSummary
<1>5. \A h : WindowSummary(h).cappedKnown = Count(Mentioned(h, "capped"))
  BY DEF WindowSummary
<1> HIDE DEF open
<1>6. Mentioned(open(g), "window") = Mentioned(open(f), "window")
  BY <1>2, SameMentioned, BlankAssumption DEF Tells
<1> QED BY <1>1, <1>3, <1>4, <1>5, <1>6 DEF Sizes

Waits(l) == <<l.known, l.deferKnown, l.deferred, l.mean, l.most>>

(* Nor the waits for a lock.                                               *)
LEMMA SameWaits ==
  ASSUME NEW g, NEW f, MayJoin(Blank, g, f)
  PROVE  Waits(LockWait(g)) = Waits(LockWait(f))
<1>1. {i \in DOMAIN g : g[i].wait # None} = {i \in DOMAIN f : f[i].wait # None}
  BY BlankAssumption DEF MayJoin, Joins, Tells
<1>2. Where(g, LAMBDA r : r.wait # None) = Where(f, LAMBDA r : r.wait # None)
  BY <1>1, SameRestriction DEF Where
<1> QED BY <1>2 DEF LockWait, Waits

(* Nor any mean or total of the telemetry.                                 *)
LEMMA SameTelemetry ==
  ASSUME NEW g, NEW f, MayJoin(Blank, g, f), NEW x \in DOMAIN TelemetrySummary(f)
  PROVE  /\ x \in DOMAIN TelemetrySummary(g)
         /\ TelemetrySummary(g)[x].mean = TelemetrySummary(f)[x].mean
         /\ TelemetrySummary(g)[x].total = TelemetrySummary(f)[x].total
<1>1. x \in {"uncached", "write", "read", "output", "reasoning", "span"}
  BY DEF TelemetrySummary
<1>2. Mentioned(g, x) = Mentioned(f, x)
  <2>1. Blank[x] = None
    BY <1>1, BlankAssumption DEF Tells
  <2> QED BY <2>1, SameMentioned
<1> QED BY <1>1, <1>2 DEF TelemetrySummary

CohortsIn(rs) == {PolicyCohort(rs[i]) : i \in DOMAIN rs}
PrefixesIn(rs) == {PrefixOf(rs[i]) : i \in DOMAIN rs}
TotalsOf(rs) == [x \in DOMAIN TelemetrySummary(rs) |-> TelemetrySummary(rs)[x].total]

(* Each comparison has one group for each name there is among its records. *)
LEMMA InGroups ==
  ASSUME NEW h
  PROVE  /\ DOMAIN ComparePolicies(h) = CohortsIn(h) /\ DOMAIN WindowsByPolicy(h) = CohortsIn(h)
         /\ \A c \in CohortsIn(h) : /\ ComparePolicies(h)[c] = Comparison(OfPolicy(h, c))
                                   /\ WindowsByPolicy(h)[c] = WindowSummary(OfPolicy(h, c))
         /\ DOMAIN TelemetryByPrefix(h) = PrefixesIn(h)
         /\ \A p \in PrefixesIn(h) : TelemetryByPrefix(h)[p].totals = TotalsOf(OfPrefix(h, p))
<1>1. Grouped(h, PolicyCohort) = [c \in CohortsIn(h) |-> OfPolicy(h, c)]
  BY DEF Grouped, Keys, OfPolicy, CohortsIn
<1>2. Grouped(h, PrefixOf) = [c \in PrefixesIn(h) |-> OfPrefix(h, c)]
  BY DEF Grouped, Keys, OfPrefix, PrefixesIn
<1>3. ComparePolicies(h) = [c \in CohortsIn(h) |-> Comparison(OfPolicy(h, c))]
  BY <1>1 DEF ComparePolicies
<1>4. WindowsByPolicy(h) = [c \in CohortsIn(h) |-> WindowSummary(OfPolicy(h, c))]
  BY <1>1 DEF WindowsByPolicy
<1>5. TelemetryByPrefix(h) =
        [p \in PrefixesIn(h) |-> [sample |-> Count(OfPrefix(h, p)), totals |-> TotalsOf(OfPrefix(h, p))]]
  BY <1>2 DEF TelemetryByPrefix, TotalsOf
<1> QED BY <1>3, <1>4, <1>5

(* Records with one more that is blank.                                    *)
LEMMA SilenceOfRecords ==
  ASSUME NEW f, 0 \notin DOMAIN f, NEW events, NEW e, e = Economics(f, events)
  PROVE  Content(e, DOMAIN e.policies, DOMAIN e.prefixes)
           = Content(Economics(After(Blank, f), events), DOMAIN e.policies, DOMAIN e.prefixes)
<1> DEFINE g == After(Blank, f)
           d == Economics(g, events)
<1>1. MayJoin(Blank, g, f)
  BY AfterJoins DEF MayJoin
<1>2. \A i \in DOMAIN f : i \in DOMAIN g /\ g[i] = f[i]
  BY DEF After
<1> HIDE DEF g
<1>3. \A h, x : x = Economics(h, events) =>
        /\ <<x.fresh, x.creation, x.perSuccess, x.cacheRead, x.waste, x.perOutcome, x.tokensByAge,
             x.failuresByAge>> = Averages(h)
        /\ x.tests = TestFailureRates(h) /\ x.sides = BeforeAfter(h, events, Near)
        /\ x.policies = ComparePolicies(h) /\ x.lock = LockWait(h)
        /\ x.windowsByPolicy = WindowsByPolicy(h) /\ x.telemetry = TelemetrySummary(h)
        /\ x.prefixes = TelemetryByPrefix(h)
  BY DEF Economics, Averages
<1> HIDE DEF d
<1>4. d = Economics(g, events)
  BY DEF d
<1> DEFINE cohorts == DOMAIN e.policies
           prefixes == DOMAIN e.prefixes
<1>5. <<e.fresh, e.creation, e.perSuccess, e.cacheRead, e.waste, e.perOutcome, e.tokensByAge,
        e.failuresByAge, e.tests, e.sides>>
      = <<d.fresh, d.creation, d.perSuccess, d.cacheRead, d.waste, d.perOutcome, d.tokensByAge,
          d.failuresByAge, d.tests, d.sides>>
  <2>1. Averages(g) = Averages(f) /\ TestFailureRates(g) = TestFailureRates(f)
        /\ BeforeAfter(g, events, Near) = BeforeAfter(f, events, Near)
    BY <1>1, SameAverages, SameTests, SameSides
  <2> QED BY <1>3, <1>4, <2>1
<1>6. \A c \in cohorts : /\ Compared(d.policies[c]) = Compared(e.policies[c])
                         /\ Sizes(d.windowsByPolicy[c]) = Sizes(e.windowsByPolicy[c])
  <2> TAKE c \in cohorts
  <2>1. c \in CohortsIn(f)
    BY <1>3, InGroups
  <2>2. c \in CohortsIn(g)
    BY <1>2, <2>1 DEF CohortsIn
  <2>3. /\ e.policies[c] = Comparison(OfPolicy(f, c))
        /\ e.windowsByPolicy[c] = WindowSummary(OfPolicy(f, c))
    BY <1>3, <2>1, InGroups
  <2>4. /\ d.policies[c] = Comparison(OfPolicy(g, c))
        /\ d.windowsByPolicy[c] = WindowSummary(OfPolicy(g, c))
    BY <1>3, <1>4, <2>2, InGroups
  <2>5. MayJoin(Blank, OfPolicy(g, c), OfPolicy(f, c))
    BY <1>1, PolicyGroups
  <2> QED BY <2>3, <2>4, <2>5, SameComparison, SameWindows
<1>7. Waits(d.lock) = Waits(e.lock)
  BY <1>1, <1>3, <1>4, SameWaits
<1>8. /\ DOMAIN e.telemetry = DOMAIN d.telemetry
      /\ \A x \in DOMAIN e.telemetry : d.telemetry[x].mean = e.telemetry[x].mean
  <2>1. DOMAIN TelemetrySummary(f) = DOMAIN TelemetrySummary(g)
    BY DEF TelemetrySummary
  <2>2. e.telemetry = TelemetrySummary(f) /\ d.telemetry = TelemetrySummary(g)
    BY <1>3, <1>4
  <2> QED BY <1>1, <2>1, <2>2, SameTelemetry
<1>9. \A p \in prefixes : d.prefixes[p].totals = e.prefixes[p].totals
  <2> TAKE p \in prefixes
  <2>1. p \in PrefixesIn(f)
    BY <1>3, InGroups
  <2>2. p \in PrefixesIn(g)
    BY <1>2, <2>1 DEF PrefixesIn
  <2>3. e.prefixes[p].totals = TotalsOf(OfPrefix(f, p))
    BY <1>3, <2>1, InGroups
  <2>4. d.prefixes[p].totals = TotalsOf(OfPrefix(g, p))
    BY <1>3, <1>4, <2>2, InGroups
  <2>5. MayJoin(Blank, OfPrefix(g, p), OfPrefix(f, p))
    BY <1>1, PrefixGroups
  <2>6. DOMAIN TelemetrySummary(OfPrefix(g, p)) = DOMAIN TelemetrySummary(OfPrefix(f, p))
    BY DEF TelemetrySummary
  <2> QED BY <2>3, <2>4, <2>5, <2>6, SameTelemetry DEF TotalsOf
<1> HIDE DEF cohorts, prefixes
<1> DEFINE averages(x) == <<x.fresh, x.creation, x.perSuccess, x.cacheRead, x.waste, x.perOutcome,
                            x.tokensByAge, x.failuresByAge, x.tests, x.sides>>
           policies(x) == [c \in cohorts |-> Compared(x.policies[c])]
           windows(x) == [c \in cohorts |-> Sizes(x.windowsByPolicy[c])]
           means(x) == [y \in DOMAIN x.telemetry |-> x.telemetry[y].mean]
           totals(x) == [p \in prefixes |-> x.prefixes[p].totals]
<1>10. \A x : Content(x, cohorts, prefixes) =
          [averages |-> averages(x), policies |-> policies(x), lock |-> Waits(x.lock),
           windows |-> windows(x), telemetry |-> means(x), prefixes |-> totals(x)]
  BY DEF Content, Compared, Waits, Sizes
<1>11. averages(e) = averages(d)
  BY <1>5
<1>12. policies(e) = policies(d) /\ windows(e) = windows(d)
  BY <1>6
<1>13. means(e) = means(d)
  BY <1>8
<1>14. totals(e) = totals(d)
  BY <1>9
<1> HIDE DEF averages, policies, windows, means, totals
<1>15. Content(e, cohorts, prefixes) = Content(d, cohorts, prefixes)
  BY <1>7, <1>10, <1>11, <1>12, <1>13, <1>14
<1> QED BY <1>15 DEF d, g, cohorts, prefixes

(* Packs with one more that reports nothing.                               *)
LEMMA SilenceOfPacks ==
  ASSUME NEW f, 0 \notin DOMAIN f
  PROVE  PackContent(Retrieval(f)) = PackContent(Retrieval(After(BlankPack, f)))
<1> DEFINE g == After(BlankPack, f)
<1>1. MayJoin(BlankPack, g, f) /\ Joins(BlankPack, g, f)
  BY AfterJoins DEF MayJoin
<1> HIDE DEF g
<1>2. \A x \in PackTells : Mentioned(g, x) = Mentioned(f, x)
  BY <1>1, SameMentioned, BlankAssumption
<1>3. /\ Mentioned(g, "total") = Mentioned(f, "total")
      /\ Mentioned(g, "latency") = Mentioned(f, "latency")
      /\ Mentioned(g, "degraded") = Mentioned(f, "degraded")
      /\ Mentioned(g, "stale") = Mentioned(f, "stale")
      /\ Mentioned(g, "conflict") = Mentioned(f, "conflict")
  BY <1>2 DEF PackTells
<1>4. CategoriesOf(g) = CategoriesOf(f)
  BY <1>1, BlankAssumption DEF Joins, CategoriesOf
<1>5. \A c : CategoryTotal(g, c) = CategoryTotal(f, c)
  <2> TAKE c
  <2> DEFINE S(h) == {i \in DOMAIN h : c \in DOMAIN h[i].categories}
             listed(h) == [i \in S(h) |-> h[i].categories[c]]
  <2>1. S(g) = S(f)
    BY <1>1, BlankAssumption DEF Joins
  <2>2. \A i \in S(f) : g[i] = f[i]
    BY <1>1 DEF Joins
  <2>3. listed(g) = listed(f)
    BY <2>1, <2>2
  <2> QED BY <2>3 DEF CategoryTotal
<1>6. /\ Composition(g).mean = Composition(f).mean /\ Composition(g).totals = Composition(f).totals
      /\ Composition(g).share = Composition(f).share
  <2> DEFINE totals(h) == [c \in CategoriesOf(h) |-> CategoryTotal(h, c)]
             share(t) == IF Total(t) = 0 THEN << >> ELSE [c \in DOMAIN t |-> <<t[c], Total(t)>>]
  <2>1. totals(g) = totals(f)
    BY <1>4, <1>5
  <2>2. \A h : /\ Composition(h).mean = Mean(Mentioned(h, "total"))
               /\ Composition(h).totals = totals(h)
               /\ Composition(h).share = share(totals(h))
    BY DEF Composition
  <2> HIDE DEF totals, share
  <2> QED BY <1>3, <2>1, <2>2
<1>7. Where(g, Compressible) = Where(f, Compressible)
  <2>1. ~Compressible(BlankPack)
    BY BlankAssumption DEF Compressible, PackTells
  <2>2. {i \in DOMAIN g : Compressible(g[i])} = {i \in DOMAIN f : Compressible(f[i])}
    BY <1>1, <2>1 DEF Joins
  <2> QED BY <1>1, <2>2, SameRestriction DEF Where
<1>8. /\ Efficiency(g).compression = Efficiency(f).compression
      /\ Efficiency(g).p50 = Efficiency(f).p50 /\ Efficiency(g).p95 = Efficiency(f).p95
      /\ Efficiency(g).degraded = Efficiency(f).degraded
      /\ Efficiency(g).stale = Efficiency(f).stale /\ Efficiency(g).conflict = Efficiency(f).conflict
  BY <1>3, <1>7 DEF Efficiency
<1>9. \A h : Retrieval(h).composition = Composition(h) /\ Retrieval(h).efficiency = Efficiency(h)
  BY DEF Retrieval
<1> QED BY <1>6, <1>8, <1>9 DEF PackContent, g

(* The positions of records begin with 1.                                  *)
LEMMA JoinedAt ==
  ASSUME NEW g \in Tasks
  PROVE  /\ DOMAIN Joined(g) = DOMAIN g.records /\ DOMAIN g.records = 1 .. Len(g.records)
         /\ Len(g.records) \in Nat
BY TasksAssumption DEF Joined, WithValidity, Dispatched, WithClearings, Windowed, WithWindows

(* Whatever is asked of the records and packs there are, one more that     *)
(* says nothing moves no mean, rate, maximum or percentile.                *)
THEOREM SilenceCorrect == Spec => []SilenceChangesNothing
<1>1. Inv => SilenceChangesNothing
  <2> SUFFICES ASSUME Inv PROVE SilenceChangesNothing
    OBVIOUS
  <2>1. CASE Answered("tasks")
    <3>1. 0 \notin DOMAIN records
      BY <2>1, JoinedAt DEF Inv
    <3>2. answer = Economics(records, given.events) /\ ~Answered("packs")
      BY <2>1 DEF Inv, Answered
    <3> QED BY <2>1, <3>1, <3>2, SilenceOfRecords DEF SilenceChangesNothing
  <2>2. CASE Answered("packs")
    <3>1. 0 \notin DOMAIN given.packs /\ answer = Retrieval(given.packs) /\ ~Answered("tasks")
      BY <2>2, PacksAssumption DEF Inv, Answered
    <3> QED BY <2>2, <3>1, SilenceOfPacks DEF SilenceChangesNothing
  <2> QED BY <2>1, <2>2 DEF SilenceChangesNothing
<1> QED BY <1>1, InitInv, NextInv, PTL DEF Spec

-----------------------------------------------------------------------------
(***************************************************************************)
(* How many records there are of a kind.                                   *)
(***************************************************************************)
LEMMA FailuresAre ==
  ASSUME NEW h
  PROVE  /\ Stratified(h).failed = Cardinality({i \in DOMAIN h : NotSucceeded(h[i])})
         /\ RetryWaste(h).failed = Cardinality({i \in DOMAIN h : NotSucceeded(h[i])})
         /\ \A b \in Buckets : Stratified(h).rate[b][1] =
              Cardinality({i \in DOMAIN h : NotSucceeded(h[i]) /\ Bucket(h[i].category) = b})
<1> DEFINE observed == Where(h, Ended)
           failed == Where(observed, NotSucceeded)
           F == {i \in DOMAIN h : NotSucceeded(h[i])}
<1>1. DOMAIN observed = {i \in DOMAIN h : Ended(h[i])} /\ \A i \in DOMAIN observed : observed[i] = h[i]
  BY DEF Where, Restrict
<1>2. DOMAIN failed = {i \in DOMAIN observed : NotSucceeded(observed[i])}
      /\ \A i \in DOMAIN failed : failed[i] = observed[i]
  BY DEF Where, Restrict
<1>3. DOMAIN failed = F /\ \A i \in F : failed[i] = h[i]
  <2> HIDE DEF observed, failed
  <2> QED BY <1>1, <1>2 DEF NotSucceeded
<1>4. Stratified(h).failed = Cardinality(F)
  BY <1>3 DEF Stratified, Count
<1>5. RetryWaste(h).failed = Cardinality(F)
  BY DEF RetryWaste, Count, Where, Restrict
<1>6. ASSUME NEW b \in Buckets
      PROVE  Stratified(h).rate[b][1]
               = Cardinality({i \in DOMAIN h : NotSucceeded(h[i]) /\ Bucket(h[i].category) = b})
  <2>1. Stratified(h).rate[b][1] = Count(Where(failed, LAMBDA r : Bucket(r.category) = b))
    BY DEF Stratified
  <2>2. Count(Where(failed, LAMBDA r : Bucket(r.category) = b))
          = Cardinality({i \in DOMAIN failed : Bucket(failed[i].category) = b})
    BY DEF Count, Where, Restrict
  <2> HIDE DEF failed
  <2>3. {i \in DOMAIN failed : Bucket(failed[i].category) = b}
          = {i \in DOMAIN h : NotSucceeded(h[i]) /\ Bucket(h[i].category) = b}
    BY <1>3
  <2> QED BY <2>1, <2>2, <2>3
<1> QED BY <1>4, <1>5, <1>6

(* Sizes of windows are those of the open ones that have one.              *)
LEMMA SizesAre ==
  ASSUME NEW h
  PROVE  WindowSummary(h).known
           = Cardinality({i \in DOMAIN h : h[i].capped # "yes" /\ h[i].window # None})
<1> DEFINE open == Where(h, LAMBDA r : r.capped # "yes")
           sizes == Mentioned(open, "window")
<1>1. WindowSummary(h).known = Cardinality(DOMAIN sizes)
  BY DEF WindowSummary, Count
<1>2. DOMAIN open = {i \in DOMAIN h : h[i].capped # "yes"} /\ \A i \in DOMAIN open : open[i] = h[i]
  BY DEF Where, Restrict
<1>3. DOMAIN sizes = {i \in DOMAIN open : open[i].window # None}
  <2> HIDE DEF open
  <2> QED BY DEF Mentioned, Where, Values, Restrict
<1> HIDE DEF open, sizes
<1>4. DOMAIN sizes = {i \in DOMAIN h : h[i].capped # "yes" /\ h[i].window # None}
  BY <1>2, <1>3
<1> QED BY <1>1, <1>4

(* The records of a cohort.                                                *)
LEMMA OfPolicyIs ==
  ASSUME NEW h, NEW c
  PROVE  /\ DOMAIN OfPolicy(h, c) = {i \in DOMAIN h : PolicyCohort(h[i]) = c}
         /\ \A i \in DOMAIN OfPolicy(h, c) : OfPolicy(h, c)[i] = h[i]
BY DEF OfPolicy, Where, Restrict

(* No more cohorts than records.                                           *)
LEMMA CohortsAreFinite ==
  ASSUME NEW h, IsFiniteSet(DOMAIN h)
  PROVE  IsFiniteSet(CohortsIn(h))
<1> DEFINE f == [i \in DOMAIN h |-> PolicyCohort(h[i])]
<1>1. f \in Surjection(DOMAIN h, CohortsIn(h))
  BY DEF Surjection, CohortsIn
<1> QED BY <1>1, FS_Surjection

(* The cohorts of one comparison have every record of a kind once.         *)
LEMMA CohortsCount ==
  ASSUME NEW h, IsFiniteSet(DOMAIN h), NEW S \in SUBSET (DOMAIN h),
         NEW b, DOMAIN b = CohortsIn(h),
         \A c \in CohortsIn(h) : b[c] = Cardinality({i \in S : PolicyCohort(h[i]) = c})
  PROVE  Total(b) = Cardinality(S)
<1> DEFINE name == [i \in DOMAIN h |-> PolicyCohort(h[i])]
<1>1. IsFiniteSet(S) /\ IsFiniteSet(CohortsIn(h))
  BY FS_Subset, CohortsAreFinite
<1>2. \A i \in S : name[i] \in CohortsIn(h)
  BY DEF CohortsIn
<1>3. ASSUME NEW c \in CohortsIn(h) PROVE b[c] = Cardinality({i \in S : name[i] = c})
  <2>1. {i \in S : name[i] = c} = {i \in S : PolicyCohort(h[i]) = c}
    OBVIOUS
  <2> QED BY <2>1
<1> HIDE DEF name
<1>4. SumFunctionOnSet(b, CohortsIn(h)) = Cardinality(S)
  BY <1>1, <1>2, <1>3, CountByName
<1> QED BY <1>4 DEF Total, SumFunction

(* The joins leave a record its times.                                     *)
LEMMA JoinedTimes ==
  ASSUME NEW g \in Tasks, NEW i \in DOMAIN Joined(g)
  PROVE  TaskTime(Joined(g)[i]) \in Nat \cup {None}
<1>1. i \in DOMAIN g.records
  BY JoinedAt
<1> DEFINE r == g.records[i]
           w == Windowed(g)[i]
           c == Dispatched(g)[i]
           j == Joined(g)[i]
           times == {"started", "completed"}
<1>2. /\ Keeps(w, r, {"window", "precap", "capped"}) /\ Keeps(c, w, {"clear"})
      /\ Keeps(j, c, {"validity", "origin"})
  BY <1>1, JoinedFields
<1>3. \A f \in times : f \in DOMAIN r /\ r[f] \in Nat \cup {None}
  BY <1>1, TasksAssumption
<1> HIDE DEF r, w, c, j
<1>4. \A f \in times : f \in DOMAIN j /\ j[f] = r[f]
  BY <1>2, <1>3 DEF Keeps
<1>5. j.started \in Nat \cup {None} /\ j.completed \in Nat \cup {None}
  BY <1>3, <1>4
<1>6. TaskTime(j) \in Nat \cup {None}
  BY <1>5 DEF TaskTime
<1> QED BY <1>6 DEF j

(* And so have the causes of failure each failure once.                    *)
LEMMA BucketsCount ==
  ASSUME NEW h, IsFiniteSet(DOMAIN h)
  PROVE  Total([b \in Buckets |-> Stratified(h).rate[b][1]])
           = Cardinality({i \in DOMAIN h : NotSucceeded(h[i])})
<1> DEFINE F == {i \in DOMAIN h : NotSucceeded(h[i])}
           name == [i \in DOMAIN h |-> Bucket(h[i].category)]
           t == [b \in Buckets |-> Stratified(h).rate[b][1]]
<1>1. IsFiniteSet(F) /\ IsFiniteSet(Buckets)
  <2>1. IsFiniteSet(F)
    BY FS_Subset
  <2>2. Buckets = (((({} \cup {"operational"}) \cup {"work_product"}) \cup {"policy_relevant"})
                     \cup {"cancelled"}) \cup {"unknown"}
    BY DEF Buckets
  <2> QED BY <2>1, <2>2, FS_EmptySet, FS_AddElement
<1>2. \A i \in F : name[i] \in Buckets
  BY DEF Bucket, Buckets
<1>3. ASSUME NEW k \in Buckets PROVE t[k] = Cardinality({i \in F : name[i] = k})
  <2>1. {i \in F : name[i] = k} = {i \in DOMAIN h : NotSucceeded(h[i]) /\ Bucket(h[i].category) = k}
    OBVIOUS
  <2>2. t[k] = Cardinality({i \in DOMAIN h : NotSucceeded(h[i]) /\ Bucket(h[i].category) = k})
    BY FailuresAre
  <2> QED BY <2>1, <2>2
<1>4. DOMAIN t = Buckets
  OBVIOUS
<1> HIDE DEF name, t, F
<1>5. SumFunctionOnSet(t, Buckets) = Cardinality(F)
  BY <1>1, <1>2, <1>3, CountByName
<1>6. Total(t) = Cardinality(F)
  BY <1>4, <1>5 DEF Total, SumFunction
<1> QED BY <1>6 DEF t, F

(* Cohorts: tasks, failures and open windows, each counted once.           *)
LEMMA CohortsAreCounted ==
  ASSUME NEW events, IsFiniteSet(DOMAIN records), answer = Economics(records, events)
  PROVE  CohortsAddUp
<1> DEFINE rs == records
           cohorts == CohortsIn(rs)
           F == {i \in DOMAIN rs : NotSucceeded(rs[i])}
           W == {i \in DOMAIN rs : rs[i].capped # "yes" /\ rs[i].window # None}
<1>1. /\ answer.policies = ComparePolicies(rs) /\ answer.windowsByPolicy = WindowsByPolicy(rs)
      /\ answer.waste = RetryWaste(rs) /\ answer.windows = WindowSummary(rs)
  BY DEF Economics
<1>2. DOMAIN answer.policies = cohorts
  BY <1>1, InGroups
<1>3. ASSUME NEW c \in cohorts
      PROVE  /\ answer.policies[c] = Comparison(OfPolicy(rs, c))
             /\ answer.windowsByPolicy[c] = WindowSummary(OfPolicy(rs, c))
  BY <1>1, <1>3, InGroups
<1>4. Total([c \in cohorts |-> answer.policies[c].count]) = Count(rs)
  <2>1. ASSUME NEW c \in cohorts
        PROVE  answer.policies[c].count = Cardinality({i \in DOMAIN rs : PolicyCohort(rs[i]) = c})
    <3>1. Comparison(OfPolicy(rs, c)).count = Count(OfPolicy(rs, c))
      BY DEF Comparison
    <3>2. DOMAIN OfPolicy(rs, c) = {i \in DOMAIN rs : PolicyCohort(rs[i]) = c}
      BY OfPolicyIs
    <3> HIDE DEF cohorts
    <3> QED BY <1>3, <2>1, <3>1, <3>2 DEF Count
  <2> DEFINE b == [c \in cohorts |-> answer.policies[c].count]
  <2>2. DOMAIN b = cohorts
        /\ \A c \in cohorts : b[c] = Cardinality({i \in DOMAIN rs : PolicyCohort(rs[i]) = c})
    BY <2>1
  <2> HIDE DEF b, cohorts
  <2>3. Total(b) = Cardinality(DOMAIN rs)
    BY <2>2, CohortsCount DEF cohorts
  <2> QED BY <2>3 DEF b, Count
<1>5. Total([c \in cohorts |-> answer.policies[c].strata.failed]) = Cardinality(F)
  <2>1. ASSUME NEW c \in cohorts
        PROVE  answer.policies[c].strata.failed = Cardinality({i \in F : PolicyCohort(rs[i]) = c})
    <3> DEFINE group == OfPolicy(rs, c)
    <3>1. answer.policies[c].strata.failed = Cardinality({i \in DOMAIN group : NotSucceeded(group[i])})
      <4>1. Comparison(group).strata = Stratified(group)
        BY DEF Comparison
      <4> HIDE DEF cohorts
      <4> QED BY <1>3, <2>1, <4>1, FailuresAre
    <3>2. {i \in DOMAIN group : NotSucceeded(group[i])} = {i \in F : PolicyCohort(rs[i]) = c}
      <4> HIDE DEF group
      <4>1. /\ DOMAIN group = {i \in DOMAIN rs : PolicyCohort(rs[i]) = c}
            /\ \A i \in DOMAIN group : group[i] = rs[i]
        BY OfPolicyIs DEF group
      <4> QED BY <4>1
    <3> QED BY <3>1, <3>2
  <2> DEFINE b == [c \in cohorts |-> answer.policies[c].strata.failed]
  <2>2. DOMAIN b = cohorts /\ \A c \in cohorts : b[c] = Cardinality({i \in F : PolicyCohort(rs[i]) = c})
    BY <2>1
  <2>3. F \in SUBSET (DOMAIN rs)
    OBVIOUS
  <2> HIDE DEF b, cohorts, F
  <2>4. Total(b) = Cardinality(F)
    BY <2>2, <2>3, CohortsCount DEF cohorts
  <2> QED BY <2>4 DEF b
<1>6. answer.waste.failed = Cardinality(F)
  BY <1>1, FailuresAre
<1>7. Total([b \in Buckets |-> Stratified(records).rate[b][1]]) = Cardinality(F)
  BY BucketsCount
<1>8. Total([c \in cohorts |-> answer.windowsByPolicy[c].known]) = Cardinality(W)
  <2>1. ASSUME NEW c \in cohorts
        PROVE  answer.windowsByPolicy[c].known = Cardinality({i \in W : PolicyCohort(rs[i]) = c})
    <3> DEFINE group == OfPolicy(rs, c)
    <3>1. answer.windowsByPolicy[c].known
            = Cardinality({i \in DOMAIN group : group[i].capped # "yes" /\ group[i].window # None})
      BY <1>3, <2>1, SizesAre
    <3>2. {i \in DOMAIN group : group[i].capped # "yes" /\ group[i].window # None}
            = {i \in W : PolicyCohort(rs[i]) = c}
      <4> HIDE DEF group
      <4>1. /\ DOMAIN group = {i \in DOMAIN rs : PolicyCohort(rs[i]) = c}
            /\ \A i \in DOMAIN group : group[i] = rs[i]
        BY OfPolicyIs DEF group
      <4> QED BY <4>1
    <3> QED BY <3>1, <3>2
  <2> DEFINE b == [c \in cohorts |-> answer.windowsByPolicy[c].known]
  <2>2. DOMAIN b = cohorts /\ \A c \in cohorts : b[c] = Cardinality({i \in W : PolicyCohort(rs[i]) = c})
    BY <2>1
  <2>3. W \in SUBSET (DOMAIN rs)
    OBVIOUS
  <2> HIDE DEF b, cohorts, W
  <2>4. Total(b) = Cardinality(W)
    BY <2>2, <2>3, CohortsCount DEF cohorts
  <2> QED BY <2>4 DEF b
<1>9. answer.windows.known = Cardinality(W)
  BY <1>1, SizesAre
<1> HIDE DEF cohorts, F, W
<1> QED BY <1>2, <1>4, <1>5, <1>6, <1>7, <1>8, <1>9 DEF CohortsAddUp

(* Around a compaction.                                                    *)
LEMMA NearestCount ==
  ASSUME NEW rs, NEW S \in SUBSET Nat, IsFiniteSet(S), \A i \in S : TaskTime(rs[i]) \in Nat,
         NEW n \in Nat
  PROVE  /\ Cardinality(LastOf(rs, S, n)) = Min({n, Cardinality(S)})
         /\ Cardinality(FirstOf(rs, S, n)) = Min({n, Cardinality(S)})
<1> DEFINE later == {p \in S \X S : Sooner(rs, p[2], p[1])}
           sooner == {p \in S \X S : Sooner(rs, p[1], p[2])}
<1>1. /\ \A x \in S : ~Sooner(rs, x, x)
      /\ \A x, y \in S : x # y => Sooner(rs, x, y) \/ Sooner(rs, y, x)
      /\ \A x, y, z \in S : Sooner(rs, x, y) /\ Sooner(rs, y, z) => Sooner(rs, x, z)
  <2> DEFINE t == [x \in S |-> TaskTime(rs[x])]
  <2>1. \A x, y : Sooner(rs, x, y)
                    <=> \/ TaskTime(rs[x]) < TaskTime(rs[y])
                        \/ TaskTime(rs[x]) = TaskTime(rs[y]) /\ x < y
    BY Zenon DEF Sooner
  <2>2. \A x \in S : t[x] = TaskTime(rs[x])
    OBVIOUS
  <2>3. \A x \in S : t[x] \in Nat /\ x \in Nat
    BY <2>2
  <2> HIDE DEF t
  <2>4. \A x, y \in S : Sooner(rs, x, y) <=> t[x] < t[y] \/ (t[x] = t[y] /\ x < y)
    <3> SUFFICES ASSUME NEW x \in S, NEW y \in S
                 PROVE Sooner(rs, x, y) <=> t[x] < t[y] \/ (t[x] = t[y] /\ x < y)
      OBVIOUS
    <3>1. t[x] = TaskTime(rs[x]) /\ t[y] = TaskTime(rs[y])
      BY <2>2
    <3>2. Sooner(rs, x, y)
            <=> \/ TaskTime(rs[x]) < TaskTime(rs[y])
                \/ TaskTime(rs[x]) = TaskTime(rs[y]) /\ x < y
      BY <2>1, Zenon
    <3> QED BY <3>1, <3>2
  <2>5. \A x \in S : ~Sooner(rs, x, x)
    BY <2>3, <2>4
  <2>6. ASSUME NEW x \in S, NEW y \in S, x # y PROVE Sooner(rs, x, y) \/ Sooner(rs, y, x)
    BY <2>3, <2>4, <2>6
  <2>7. ASSUME NEW x \in S, NEW y \in S, NEW z \in S, Sooner(rs, x, y), Sooner(rs, y, z)
        PROVE  Sooner(rs, x, z)
    <3>1. /\ t[x] < t[y] \/ (t[x] = t[y] /\ x < y)
          /\ t[y] < t[z] \/ (t[y] = t[z] /\ y < z)
      BY <2>4, <2>7
    <3>2. t[x] < t[z] \/ (t[x] = t[z] /\ x < z)
      BY <2>3, <3>1
    <3> QED BY <2>4, <3>2
  <2> QED BY <2>5, <2>6, <2>7
<1>2. \A x, y \in S : /\ <<x, y>> \in later <=> Sooner(rs, y, x)
                      /\ <<x, y>> \in sooner <=> Sooner(rs, x, y)
  OBVIOUS
<1>3. /\ \A i \in S : {j \in S : Sooner(rs, i, j)} = Predecessors(later, S, i)
      /\ \A i \in S : {j \in S : Sooner(rs, j, i)} = Predecessors(sooner, S, i)
  BY <1>2 DEF Predecessors
<1> HIDE DEF later, sooner
<1>4. Orders(later, S) /\ Orders(sooner, S)
  BY <1>1, <1>2 DEF Orders
<1>5. LastOf(rs, S, n) = Foremost(later, S, n) /\ FirstOf(rs, S, n) = Foremost(sooner, S, n)
  BY <1>3 DEF LastOf, FirstOf, Foremost
<1>6. Cardinality(S) \in Nat
  BY FS_CardinalityType
<1> QED BY <1>4, <1>5, <1>6, NearestAre, MinOfTwo

(* One event has the nearest of each side, as many as there are up to n.   *)
LEMMA SidesCount ==
  ASSUME NEW rs, IsFiniteSet(DOMAIN rs), DOMAIN rs \subseteq Nat,
         \A i \in DOMAIN rs : TaskTime(rs[i]) \in Nat \cup {None},
         NEW e, NEW n \in Nat
  PROVE  /\ Count(Sides(rs, e, n).before) = Min({n, Cardinality(Before(rs, e))})
         /\ Count(Sides(rs, e, n).after)
              = Min({n, Cardinality(Scoped(rs, e)) - Cardinality(Before(rs, e))})
<1> DEFINE S == Scoped(rs, e)
           B == Before(rs, e)
           A == S \ B
<1>1. S \in SUBSET (DOMAIN rs) /\ B \in SUBSET S /\ \A i \in S : TaskTime(rs[i]) \in Nat
  BY DEF Scoped, Before
<1>2. Sides(rs, e, n) = [before |-> Restrict(rs, LastOf(rs, B, n)),
                         after |-> Restrict(rs, FirstOf(rs, A, n))]
  BY DEF Sides
<1> HIDE DEF S, B
<1>3. IsFiniteSet(S) /\ IsFiniteSet(B) /\ IsFiniteSet(A)
      /\ Cardinality(A) = Cardinality(S) - Cardinality(B)
  <2>1. IsFiniteSet(S) /\ IsFiniteSet(B)
    BY <1>1, FS_Subset
  <2>2. S \cap B = B
    BY <1>1
  <2> QED BY <2>1, <2>2, FS_Difference
<1>4. Cardinality(LastOf(rs, B, n)) = Min({n, Cardinality(B)})
  BY <1>1, <1>3, NearestCount
<1>5. Cardinality(FirstOf(rs, A, n)) = Min({n, Cardinality(A)})
  BY <1>1, <1>3, NearestCount
<1>6. /\ Count(Sides(rs, e, n).before) = Cardinality(LastOf(rs, B, n))
      /\ Count(Sides(rs, e, n).after) = Cardinality(FirstOf(rs, A, n))
  BY <1>2 DEF Count, Restrict
<1> QED BY <1>3, <1>4, <1>5, <1>6 DEF S, B

(* And so has each event of the answer.                                    *)
LEMMA SidesAreCounted ==
  ASSUME IsFiniteSet(DOMAIN records), DOMAIN records \subseteq Nat,
         \A i \in DOMAIN records : TaskTime(records[i]) \in Nat \cup {None},
         answer = Economics(records, given.events)
  PROVE  SidesAreNearest
<1> SUFFICES ASSUME NEW i \in DOMAIN answer.sides
             PROVE  LET event == given.events[i]
                        scoped == {j \in DOMAIN records : /\ records[j].context = event.context
                                                         /\ TaskTime(records[j]) # None}
                        early == Cardinality({j \in scoped : TaskTime(records[j]) <= event.at})
                    IN  /\ answer.sides[i].before.count = Min({Near, early})
                        /\ answer.sides[i].after.count = Min({Near, Cardinality(scoped) - early})
  BY DEF SidesAreNearest
<1> DEFINE e == given.events[i]
           sides == Sides(records, e, Near)
<1>1. answer.sides = BeforeAfter(records, given.events, Near)
  BY DEF Economics
<1>2. answer.sides[i] = [before |-> WindowStats(sides.before), after |-> WindowStats(sides.after)]
  BY <1>1 DEF BeforeAfter
<1> HIDE DEF e, sides
<1>3. \A h : WindowStats(h).count = Count(h)
  BY DEF WindowStats
<1>4. /\ answer.sides[i].before.count = Count(sides.before)
      /\ answer.sides[i].after.count = Count(sides.after)
  BY <1>2, <1>3
<1>5. /\ Count(sides.before) = Min({Near, Cardinality(Before(records, e))})
      /\ Count(sides.after)
           = Min({Near, Cardinality(Scoped(records, e)) - Cardinality(Before(records, e))})
  BY NearAssumption, SidesCount DEF sides
<1> QED BY <1>4, <1>5 DEF e, Scoped, Before

(* A cohort that is not called otherwise has no task that may only look    *)
(* fresh or was sent astray.                                               *)
LEMMA PureCohorts ==
  ASSUME NEW rs, IsFiniteSet(DOMAIN rs), NEW c \in CohortsIn(rs),
         ~c.unconfirmed, c.orchestration = "valid"
  PROVE  Comparison(OfPolicy(rs, c)).count
           <= Cardinality({i \in DOMAIN rs : /\ rs[i].policy = c.policy
                                            /\ rs[i].clear # "attempted" /\ ~Astray(rs[i])})
<1> DEFINE C == {i \in DOMAIN rs : PolicyCohort(rs[i]) = c}
           P == {i \in DOMAIN rs : /\ rs[i].policy = c.policy
                                   /\ rs[i].clear # "attempted" /\ ~Astray(rs[i])}
<1>1. ASSUME NEW i \in C PROVE i \in P
  <2>1. /\ PolicyCohort(rs[i]).policy = rs[i].policy
        /\ PolicyCohort(rs[i]).unconfirmed = (rs[i].clear = "attempted")
        /\ PolicyCohort(rs[i]).orchestration = IF Astray(rs[i]) THEN rs[i].validity ELSE "valid"
    BY DEF PolicyCohort
  <2>2. Astray(rs[i]) => rs[i].validity # "valid"
    BY DEF Astray
  <2> QED BY <1>1, <2>1, <2>2
<1>2. Comparison(OfPolicy(rs, c)).count = Cardinality(C)
  <2>1. Comparison(OfPolicy(rs, c)).count = Count(OfPolicy(rs, c))
    BY DEF Comparison
  <2>2. DOMAIN OfPolicy(rs, c) = C
    BY OfPolicyIs
  <2> QED BY <2>1, <2>2 DEF Count
<1>3. IsFiniteSet(P)
  BY FS_Subset
<1> HIDE DEF C, P
<1>4. Cardinality(C) <= Cardinality(P)
  BY <1>1, <1>3, FS_Subset
<1> QED BY <1>2, <1>4 DEF P

(* A window that was capped is not among the open ones.                    *)
LEMMA OpenAndCapped ==
  ASSUME NEW rs, IsFiniteSet(DOMAIN rs)
  PROVE  WindowSummary(rs).known + Cardinality({i \in DOMAIN rs : rs[i].capped = "yes"}) <= Count(rs)
<1> DEFINE W == {i \in DOMAIN rs : rs[i].capped # "yes" /\ rs[i].window # None}
           C == {i \in DOMAIN rs : rs[i].capped = "yes"}
<1>1. W \in SUBSET (DOMAIN rs \ C) /\ C \in SUBSET (DOMAIN rs)
  OBVIOUS
<1>2. WindowSummary(rs).known = Cardinality(W)
  BY SizesAre
<1> HIDE DEF W, C
<1>3. IsFiniteSet(C) /\ IsFiniteSet(DOMAIN rs \ C)
  BY <1>1, FS_Subset, FS_Difference
<1>4. DOMAIN rs \cap C = C
  BY <1>1
<1>5. Cardinality(DOMAIN rs \ C) = Cardinality(DOMAIN rs) - Cardinality(C)
  BY <1>4, FS_Difference
<1>6. Cardinality(W) <= Cardinality(DOMAIN rs \ C) /\ IsFiniteSet(W)
  BY <1>1, <1>3, FS_Subset
<1>7. Cardinality(W) \in Nat /\ Cardinality(C) \in Nat /\ Cardinality(DOMAIN rs) \in Nat
  BY <1>3, <1>6, FS_CardinalityType
<1> QED BY <1>2, <1>5, <1>6, <1>7 DEF Count, C

(* However many records there are, the cohorts of each comparison add up   *)
(* to all of them, and so do the causes of failure, the open windows and   *)
(* the two sides of a compaction.                                          *)
THEOREM CountsCorrect == Spec => []EveryRecordIsCountedOnce
<1>1. Inv => EveryRecordIsCountedOnce
  <2> SUFFICES ASSUME Inv, Answered("tasks")
               PROVE  /\ CohortsAddUp /\ PureCohortsArePure /\ SidesAreNearest
                      /\ answer.windows.known
                           + Cardinality({i \in DOMAIN records : records[i].capped = "yes"})
                           <= Count(records)
    BY DEF EveryRecordIsCountedOnce
  <2>1. given \in Tasks /\ records = Joined(given) /\ answer = Economics(records, given.events)
    BY DEF Inv
  <2>2. DOMAIN records \subseteq Nat /\ IsFiniteSet(DOMAIN records)
    <3>1. DOMAIN records = 1 .. Len(given.records) /\ Len(given.records) \in Nat
      BY <2>1, JoinedAt
    <3> QED BY <3>1, FS_Interval
  <2>3. \A i \in DOMAIN records : TaskTime(records[i]) \in Nat \cup {None}
    BY <2>1, JoinedTimes
  <2>4. CohortsAddUp
    BY <2>1, <2>2, CohortsAreCounted
  <2>5. SidesAreNearest
    BY <2>1, <2>2, <2>3, SidesAreCounted
  <2>6. PureCohortsArePure
    <3>1. answer.policies = ComparePolicies(records)
      BY <2>1 DEF Economics
    <3>2. DOMAIN answer.policies = CohortsIn(records)
          /\ \A c \in CohortsIn(records) : answer.policies[c] = Comparison(OfPolicy(records, c))
      BY <3>1, InGroups
    <3> QED BY <2>2, <3>2, PureCohorts DEF PureCohortsArePure
  <2>7. answer.windows = WindowSummary(records)
    BY <2>1 DEF Economics
  <2> QED BY <2>2, <2>4, <2>5, <2>6, <2>7, OpenAndCapped
<1> QED BY <1>1, InitInv, NextInv, PTL DEF Spec
=============================================================================
