---------------------------- MODULE TranscriptScan ----------------------------
(***************************************************************************)
(* Reading Claude's transcripts: the quota scanner of adapters/claude.py   *)
(* and the session scanner of session/claude.py.                           *)
(*                                                                         *)
(* Claude Code appends a line for each content block of a response, all of *)
(* them repeating the request's usage as it grows, and copies transcripts  *)
(* into new files when a session is resumed.  A scan lists the files and   *)
(* then reads them line by line, in order, while all of this goes on.  It  *)
(* has to charge each request once, with what it cost.                     *)
(***************************************************************************)
EXTENDS Integers, Sequences, FiniteSetsExt

CONSTANTS
  Files,        \* the transcript paths, numbered in their sorted order
  Requests,     \* what dedupe_key tells apart
  None,         \* no scanner, no file, no report
  MaxUsage,     \* bound on the tokens of a request
  MaxWritten,   \* bound on the lines of all files together
  SizeLimit     \* lines that fit in MAX_LOCAL_SCAN_FILE_BYTES

ASSUME ScanAssumption ==
  /\ Files \subseteq Nat /\ IsFiniteSet(Files) /\ IsFiniteSet(Requests)
  /\ MaxUsage \in Nat /\ MaxWritten \in Nat /\ SizeLimit \in Nat

Usage == 1 .. MaxUsage
Windows == {"all", "recent"}
Kinds == {"quota", "session"}

(* recent: its time is in a recent window; it is not when it is earlier or *)
(* parse_timestamp makes nothing of it.                                    *)
Line == [request : Requests, usage : Usage, recent : BOOLEAN, whole : BOOLEAN]
Report == [kind : Kinds, window : Windows, total : Nat, requests : Nat,
           skipped : Nat, malformed : Nat, missed : BOOLEAN, floor : Nat, due : Nat]

ASSUME NoneAssumption == None \notin Files \cup Report \cup Kinds

VARIABLES
  transcripts, \* transcripts[f]: the lines of file f
  kind,        \* which scanner is running, None when neither is
  window,      \* the window of its query
  pending,     \* listed files it has not opened yet
  file,        \* the file it is reading
  position,    \* the line it reads next
  byKey,       \* by_key of the quota scanner; 0 for no entry
  seen,        \* seen_api_keys of the session scanner
  tokens,      \* totals.total_tokens of the session scanner
  skipped,     \* oversized files left out
  malformed,   \* malformed_usage_records of the quota scanner
  missed,      \* history: a listed file could not be opened
  floor,       \* history: what all requests had cost when the scan began
  due,         \* history: how many requests had a line in its window then
  report       \* the last report

query == <<kind, window, floor, due>>
place == <<pending, file, position>>
sums == <<byKey, seen, tokens>>
left == <<skipped, malformed, missed>>
scan == <<query, place, sums, left>>
vars == <<transcripts, scan, report>>

TypeOK ==
  /\ transcripts \in [Files -> Seq(Line)]
  /\ kind \in Kinds \cup {None} /\ window \in Windows
  /\ pending \subseteq Files /\ file \in (Files \ pending) \cup {None}
  /\ position \in 1 .. MaxWritten + 1
  /\ byKey \in [Requests -> {0} \cup Usage]
  /\ seen \subseteq Requests /\ tokens \in Nat
  /\ skipped \in Nat /\ malformed \in Nat /\ missed \in BOOLEAN
  /\ floor \in Nat /\ due \in Nat
  /\ report \in Report \cup {None}

NoEntries == [r \in Requests |-> 0]

Init ==
  /\ transcripts = [f \in Files |-> << >>]
  /\ kind = None /\ window = "all"
  /\ pending = {} /\ file = None /\ position = 1
  /\ byKey = NoEntries /\ seen = {} /\ tokens = 0
  /\ skipped = 0 /\ malformed = 0 /\ missed = FALSE /\ floor = 0 /\ due = 0
  /\ report = None

-----------------------------------------------------------------------------
(* Claude Code.                                                            *)
LinesOf(f) == {transcripts[f][i] : i \in DOMAIN transcripts[f]}
Written == {line \in UNION {LinesOf(f) : f \in Files} : line.whole}
Length == SumFunction([f \in Files |-> Len(transcripts[f])])

(* What a request has cost by now, and what all of them have.              *)
Cost(r) == Max({0} \cup {line.usage : line \in {l \in Written : l.request = r}})
TotalCost == SumFunction([r \in Requests |-> Cost(r)])

Unfinished(f) ==
  transcripts[f] # << >> /\ ~transcripts[f][Len(transcripts[f])].whole
Mentions(f, r) == \E line \in LinesOf(f) : line.request = r

(* The next content block of a response; its usage never shrinks.          *)
BeginLine(f, r, u, recent) ==
  /\ ~Unfinished(f) /\ Length < MaxWritten
  /\ (\E g \in Files : Mentions(g, r)) => Mentions(f, r)
  /\ u >= Cost(r)
  /\ transcripts' = [transcripts EXCEPT ![f] =
       Append(@, [request |-> r, usage |-> u, recent |-> recent, whole |-> FALSE])]
  /\ UNCHANGED <<scan, report>>

EndLine(f) ==
  /\ Unfinished(f)
  /\ transcripts' = [transcripts EXCEPT ![f][Len(transcripts[f])].whole = TRUE]
  /\ UNCHANGED <<scan, report>>

(* A resumed or forked session: the records so far, in a new file.         *)
Resume(f, g) ==
  /\ transcripts[g] = << >> /\ transcripts[f] # << >> /\ ~Unfinished(f)
  /\ Length + Len(transcripts[f]) <= MaxWritten
  /\ transcripts' = [transcripts EXCEPT ![g] = transcripts[f]]
  /\ UNCHANGED <<scan, report>>

-----------------------------------------------------------------------------
(* _in_window                                                              *)
InWindow(w, line) == w = "all" \/ line.recent

(* The scan lists the files there are now.                                 *)
Start(k, w) ==
  /\ kind = None
  /\ k = "quota" => w = "all"
  /\ kind' = k /\ window' = w
  /\ pending' = {f \in Files : transcripts[f] # << >>}
  /\ floor' = TotalCost
  /\ due' = Cardinality({line.request : line \in {l \in Written : InWindow(w, l)}})
  /\ UNCHANGED <<transcripts, report, file, position, sums, left>>

First(S) == CHOOSE f \in S : \A g \in S : f <= g

Oversized(f) == Len(transcripts[f]) > SizeLimit

(* Mutant: the file that is opened stays on the list.                      *)
OpenFile_Again ==
  /\ kind # None /\ file = None /\ pending # {}
  /\ file' = First(pending) /\ position' = 1
  /\ UNCHANGED <<transcripts, report, query, pending, sums, left>>

(* The next file in order: left out with a warning when it is too large,   *)
(* and without one when it is gone or may not be read (OSError).           *)
OpenFile ==
  /\ kind # None /\ file = None /\ pending # {}
  /\ LET f == First(pending) IN
     /\ pending' = pending \ {f}
     /\ \/ Oversized(f) /\ skipped' = skipped + 1 /\ UNCHANGED <<file, position, missed>>
        \/ ~Oversized(f) /\ file' = f /\ position' = 1 /\ UNCHANGED <<skipped, missed>>
        \/ missed' = TRUE /\ UNCHANGED <<file, position, skipped>>
  /\ UNCHANGED <<transcripts, report, query, sums, malformed>>

(* Mutant: the copies of a request are added to it.                        *)
Merged_Adds(usage, line) == usage + line.usage

(* Mutant: the last line of a request is taken for its final usage.        *)
Merged_Last(usage, line) == line.usage

(* One entry per request, holding the maximum.                             *)
Merged(usage, line) == Max({usage, line.usage})

(* Mutant: a transcript's requests are remembered whatever their time.     *)
Skipped_MarkedFirst(line) ==
  \/ line.request \in seen \/ ~InWindow(window, line)
  \/ \E i \in 1 .. position - 1 : transcripts[file][i].request = line.request

(* The session scanner passes over a line outside the window, and over all *)
(* the lines of a request but the first.                                   *)
Skipped(line) == ~InWindow(window, line) \/ line.request \in seen

(* Mutant: a record with malformed usage is left out, and that is that.    *)
CountedMalformed_Silently == malformed

CountedMalformed == malformed + 1

(* One line.  A line still being written is not JSON and is passed over.   *)
(* One with a component of its usage that is not a count is left out by    *)
(* the quota scanner as a whole, and counted; it may be any line here.     *)
ReadLine ==
  /\ file # None /\ position <= Len(transcripts[file])
  /\ LET line == transcripts[file][position] IN
     \/ /\ kind = "quota" /\ line.whole
        /\ byKey' = [byKey EXCEPT ![line.request] = Merged(@, line)]
        /\ UNCHANGED <<seen, tokens, malformed>>
     \/ /\ kind = "quota" /\ line.whole
        /\ malformed' = CountedMalformed
        /\ UNCHANGED <<byKey, seen, tokens>>
     \/ /\ kind = "session" /\ line.whole /\ ~Skipped(line)
        /\ seen' = seen \cup {line.request}
        /\ tokens' = tokens + line.usage
        /\ UNCHANGED <<byKey, malformed>>
     \/ /\ ~line.whole \/ (kind = "session" /\ Skipped(line))
        /\ UNCHANGED <<byKey, seen, tokens, malformed>>
  /\ position' = position + 1
  /\ UNCHANGED <<transcripts, report, query, pending, file, skipped, missed>>

(* End of file, as far as it has been written.                             *)
CloseFile ==
  /\ file # None /\ position > Len(transcripts[file])
  /\ file' = None /\ position' = 1
  /\ UNCHANGED <<transcripts, report, query, pending, sums, left>>

QuotaTotal == SumFunction(byKey)

(* The totals, with a warning for the files left out and one for the lines *)
(* with malformed usage.                                                   *)
Finish ==
  /\ kind # None /\ file = None /\ pending = {}
  /\ report' =
       [kind |-> kind, window |-> window,
        skipped |-> skipped, malformed |-> malformed, missed |-> missed,
        floor |-> floor, due |-> due,
        total |-> IF kind = "quota" THEN QuotaTotal ELSE tokens,
        requests |-> IF kind = "quota" THEN Cardinality({r \in Requests : byKey[r] > 0})
                     ELSE Cardinality(seen)]
  /\ kind' = None /\ window' = "all"
  /\ byKey' = NoEntries /\ seen' = {} /\ tokens' = 0
  /\ skipped' = 0 /\ malformed' = 0 /\ missed' = FALSE /\ floor' = 0 /\ due' = 0
  /\ UNCHANGED <<transcripts, place>>

Claude ==
  \/ \E f \in Files, r \in Requests, u \in Usage, recent \in BOOLEAN : BeginLine(f, r, u, recent)
  \/ \E f \in Files : EndLine(f)
  \/ \E f, g \in Files : Resume(f, g)
Scan ==
  \/ \E k \in Kinds, w \in Windows : Start(k, w)
  \/ OpenFile \/ ReadLine \/ CloseFile \/ Finish

Next == Claude \/ Scan
Spec == Init /\ [][Next]_vars

-----------------------------------------------------------------------------
(* Every line of every listed file was read.                               *)
Complete(r) == r.skipped = 0 /\ r.malformed = 0 /\ ~r.missed
Reported(k) == report # None /\ report.kind = k

(* The quota total is a total the transcripts really had: at least what    *)
(* all requests had cost when the scan began, at most what they have cost  *)
(* by now, however lines, copies and reads interleave.  A scan that left a *)
(* file or a line out promises only the upper bound.                       *)
QuotaIsBracketed ==
  Reported("quota") =>
    /\ Complete(report) => report.floor <= report.total
    /\ report.total <= TotalCost

(* The session report charges no request twice, over all the transcripts   *)
(* it was copied to, and misses none that had a line in its window.        *)
SessionIsBracketed ==
  Reported("session") =>
    /\ report.total <= TotalCost
    /\ Complete(report) => report.due <= report.requests

(* A quota scan never takes back what the one before has counted, unless   *)
(* it left a file or a line out: transcripts only grow.                    *)
QuotaNeverShrinks ==
  [][Reported("quota") /\ Reported("quota")' /\ Complete(report')
       => report.total <= report'.total]_report

=============================================================================
