----------------------------- MODULE Collector -----------------------------
(***************************************************************************)
(* quota-core scan and init: cli.write_scan reads the configuration, has   *)
(* each enabled provider scanned and replaces the published bundle.        *)
(*                                                                         *)
(* Meanwhile the command-line tools of the providers go on: Gemini writes  *)
(* and copies session files, Codex counts the tokens of its threads, Claude *)
(* Code makes requests; the user edits the configuration and init writes   *)
(* one.  Gemini's sessions are read file by file here; how Claude's        *)
(* transcripts are read is the subject of TranscriptScan, and they are     *)
(* read in one step.                                                       *)
(***************************************************************************)
EXTENDS Normalizers

CONSTANTS
  Sessions,    \* the Gemini session files, numbered in their sorted order
  Format,      \* Format[f]: "json" or "jsonl"
  Root,        \* Root[f]: what .project_root of its directory says
  Keys,        \* what _message_key tells apart
  Threads,     \* the threads of Codex's state database
  Cwd,         \* Cwd[t]: the working directory of a thread
  Requests,    \* what dedupe_key tells apart in Claude's transcripts
  Directory,   \* Directory[r]: the transcript directory of a request
  Home,        \* Home[x]: the project a session, thread or request is about
  Model,       \* Model[x]: the model of a message, thread or request
  Contents,    \* configurations the user may write
  Payloads,    \* payloads a monitor may hand over
  Now,         \* the time they are normalized
  Nothing,     \* no file, no scan, no bundle
  Torn,        \* a configuration file that is not TOML
  MaxTokens,   \* bound on the tokens of a message or thread
  MaxWritten,  \* bound on the messages of all sessions together
  MaxUsed,     \* bound on what Codex and Claude use together
  SizeLimit    \* messages that fit in MAX_LOCAL_SCAN_FILE_BYTES

ASSUME PlacesAssumption ==
  /\ Sessions \subseteq Nat /\ IsFiniteSet(Sessions) /\ IsFiniteSet(Threads) /\ IsFiniteSet(Requests)
  /\ \A x \in Keys \cup Threads \cup Requests : Model[x] \in ModelNames
  /\ Nothing \notin Sessions /\ \A S \in SUBSET Sessions : S # Nothing

(* A payload has rows for the projects and rows for the runtime, each a    *)
(* breakdown under a raw name of its own, as they come from a dictionary.  *)
ASSUME PayloadsAssumption ==
  \A payload \in Payloads :
    /\ payload.source \in {"claude", "codex", "gemini"}
    /\ \A rows \in {payload.rows, payload.runtime} :
         /\ rows \in Seq(ToSet(rows)) /\ \A k \in DOMAIN rows : rows[k].use \in Breakdown
         /\ \A j, k \in DOMAIN rows : rows[j].name = rows[k].name => j = k

ASSUME BoundsAssumption ==
  /\ MaxTokens \in Nat /\ MaxWritten \in Nat /\ MaxUsed \in Nat /\ SizeLimit \in Nat

(* A configuration may name a provider nobody has written a scanner for.   *)
Providers == {"claude", "codex", "gemini", "ollama"}

(* The order enabled_provider_names sorts them in.                         *)
Rank == [p \in Providers |->
          CASE p = "claude" -> 1 [] p = "codex" -> 2 [] p = "gemini" -> 3 [] p = "ollama" -> 4]

(* A configuration: its providers, enabled or not, with a path or without. *)
NoConfig == [p \in {} |-> "off"]
DefaultConfig == [p \in {"claude", "codex", "gemini"} |-> "on"]

ASSUME ContentsAssumption ==
  \A c \in Contents : DOMAIN c \subseteq Providers /\ \A p \in DOMAIN c : c[p] \in {"on", "off", "pathless"}

VARIABLES
  sessions,   \* sessions[f]: the messages of file f
  writing,    \* files in the middle of a write
  used,       \* used[t]: tokens of thread t
  made,       \* requests in Claude's transcripts
  config,     \* the configuration file: Nothing, Torn or its content
  init,       \* quota-core init: "idle", "checked" or "opened"
  asked,      \* the configuration of the scan, Nothing when there is none
  todo,       \* providers it has not come to yet
  entries,    \* snapshots it has
  floor,      \* history: what each provider had when the scan began
  pending,    \* Gemini files it has not looked at, Nothing outside of their scan
  file,       \* the one whose size it has checked
  tally,      \* total_tokens, requests and projects of the Gemini scan
  warned,     \* it left something out and counted it
  missed,     \* history: a file was gone or could not be read
  bundle,     \* the published bundle
  snapshot    \* what a monitor's payload was normalized to, with the payload

tools == <<sessions, writing, used, made>>
files == <<config, init>>
listing == <<pending, file, tally, warned, missed>>
scan == <<asked, todo, entries, floor>>
collectorVars == <<tools, files, scan, listing, bundle, snapshot>>

(* A monitor's payload.                                                    *)
Normalized(payload) == [payload |-> payload, of |-> Normalize(payload, Now)]

CollectorInit ==
  /\ sessions = [f \in Sessions |-> << >>] /\ writing = {}
  /\ used = [t \in Threads |-> 0] /\ made = {}
  /\ config = Nothing /\ init = "idle"
  /\ asked = Nothing /\ todo = {} /\ entries = << >> /\ floor = [p \in Providers |-> 0]
  /\ pending = Nothing /\ file = Nothing /\ tally = NoCharges /\ warned = FALSE /\ missed = FALSE
  /\ bundle = Nothing /\ snapshot \in {Nothing} \cup {Normalized(payload) : payload \in Payloads}

-----------------------------------------------------------------------------
(* The providers' own tools.                                               *)
Written == SumFunction([f \in Sessions |-> Len(sessions[f])])

(* A message is appended, or a .json session written anew with it; until   *)
(* this is done the line, or the whole file, is not JSON.                  *)
BeginMessage(f, key, tokens) ==
  /\ f \notin writing /\ Written < MaxWritten
  /\ sessions' = [sessions EXCEPT ![f] = Append(@, [key |-> key, tokens |-> tokens])]
  /\ writing' = writing \cup {f}
  /\ UNCHANGED <<used, made, files, scan, listing, bundle, snapshot>>

EndMessage(f) ==
  /\ f \in writing
  /\ writing' = writing \ {f}
  /\ UNCHANGED <<sessions, used, made, files, scan, listing, bundle, snapshot>>

(* A session that is resumed in a new file.                                *)
CopySession(f, g) ==
  /\ sessions[g] = << >> /\ sessions[f] # << >> /\ f \notin writing
  /\ Written + Len(sessions[f]) <= MaxWritten
  /\ sessions' = [sessions EXCEPT ![g] = sessions[f]]
  /\ UNCHANGED <<writing, used, made, files, scan, listing, bundle, snapshot>>

Spent == SumFunction(used) + Cardinality(made)

CodexRuns(t) ==
  /\ used[t] < MaxTokens /\ Spent < MaxUsed
  /\ used' = [used EXCEPT ![t] = @ + 1]
  /\ UNCHANGED <<sessions, writing, made, files, scan, listing, bundle, snapshot>>

ClaudeRuns(r) ==
  /\ Spent < MaxUsed
  /\ made' = made \cup {r}
  /\ UNCHANGED <<sessions, writing, used, files, scan, listing, bundle, snapshot>>

-----------------------------------------------------------------------------
(* The configuration.  The user may also leave one that is not TOML.       *)
EditConfig(content) ==
  /\ config' = content
  /\ UNCHANGED <<tools, init, scan, listing, bundle, snapshot>>

(* write_default_config looks whether there is a configuration ...         *)
CheckConfig(force) ==
  /\ init = "idle" /\ (config = Nothing \/ force)
  /\ init' = "checked"
  /\ UNCHANGED <<tools, config, scan, listing, bundle, snapshot>>

(* ... truncates the file that may be there by now, which leaves no        *)
(* provider in it ...                                                      *)
OpenConfig ==
  /\ init = "checked"
  /\ init' = "opened" /\ config' = NoConfig
  /\ UNCHANGED <<tools, scan, listing, bundle, snapshot>>

(* ... and writes the defaults.                                            *)
WriteConfig ==
  /\ init = "opened"
  /\ init' = "idle" /\ config' = DefaultConfig
  /\ UNCHANGED <<tools, scan, listing, bundle, snapshot>>

KillInit ==
  /\ init # "idle" /\ init' = "idle"
  /\ UNCHANGED <<tools, config, scan, listing, bundle, snapshot>>

(* load_config: no file is a configuration without providers.              *)
LoadConfig == IF config = Nothing THEN NoConfig ELSE config

EnabledProviderNames(c) == {p \in DOMAIN c : c[p] # "off"}

-----------------------------------------------------------------------------
(* What the providers have by now: Claude requests, Codex the tokens of    *)
(* its threads, Gemini the messages that are whole, of those of a file     *)
(* with one key the first.                                                 *)
Whole(f) == IF f \in writing THEN Len(sessions[f]) - 1 ELSE Len(sessions[f])

FirstOfKey(f, i) == \A j \in 1 .. i - 1 : sessions[f][j].key # sessions[f][i].key

Held == {at \in Sessions \X (1 .. MaxWritten) : at[2] <= Whole(at[1]) /\ FirstOfKey(at[1], at[2])}
Message(at) == sessions[at[1]][at[2]]

Work(provider) ==
  CASE provider = "claude" -> [r \in made |-> 1]
    [] provider = "codex" -> used
    [] provider = "gemini" -> [at \in Held |-> Message(at).tokens]
    [] OTHER -> NoCharges

(* Its share that was done in a project.                                   *)
Place(provider, x) == IF provider = "gemini" THEN x[1] ELSE x
About(provider, p) == {x \in DOMAIN Work(provider) : Canonical(Home[Place(provider, x)]) = p}
Worth(provider, p) == SumFunctionOnSet(Work(provider), About(provider, p))

-----------------------------------------------------------------------------
(* The scan.                                                               *)
Idle == UNCHANGED <<tools, files, bundle, snapshot>>

(* A configuration that is not TOML ends the run before it begins.         *)
StartScan ==
  /\ asked = Nothing /\ config # Torn
  /\ asked' = LoadConfig /\ todo' = EnabledProviderNames(LoadConfig) /\ entries' = << >>
  /\ floor' = [p \in Providers |-> SumFunction(Work(p))]
  /\ Idle /\ UNCHANGED listing

(* A message, thread or request that is charged with n tokens.             *)
Only(model, n) == [m \in ModelNames |-> IF m = model THEN n ELSE 0]
Use(x, n) == [tokens |-> n, requests |-> 1, models |-> Only(Model[x], n),
              modelRequests |-> Only(Model[x], 1)]
Charge(name, x, n) == [name |-> name, use |-> Use(x, n)]

LocalAll(charges) ==
  LET all == Together(charges, DOMAIN charges) IN
  Window(all.tokens, all.requests, MergeProjectBreakdowns(charges), NoProjects, "live")

(* quiet: without a warning and without an error.                          *)
Entry(source, windows, quiet, gone) ==
  [source |-> source, windows |-> windows, quiet |-> quiet, missed |-> gone]

Turn(source) ==
  /\ asked # Nothing /\ pending = Nothing
  /\ source \in todo /\ \A p \in todo : Rank[source] <= Rank[p]
Configured(source) == Turn(source) /\ asked[source] = "on"

(* The provider is done.                                                   *)
Enter(source, windows, quiet, gone) ==
  /\ entries' = Append(entries, Entry(source, windows, quiet, gone)) /\ todo' = todo \ {source}
  /\ UNCHANGED <<asked, floor>> /\ Idle

(* A provider without a scanner or a path, or whose path is not there, is  *)
(* entered with a warning and without a window: this is not a zero.  So is *)
(* Codex, with an error, when its database cannot be read.                 *)
EnterNothing(source) ==
  /\ Turn(source)
  /\ Enter(source, << >>, FALSE, FALSE) /\ UNCHANGED listing

(* The requests of transcripts that are too large, and those whose usage   *)
(* is malformed in every record, are left out with a warning each, those   *)
(* of transcripts that cannot be opened without one.                       *)
ScanClaude(large, malformed, gone) ==
  /\ Configured("claude") /\ large \cup malformed \cup gone \subseteq made
  /\ LET counted == made \ (large \cup malformed \cup gone)
         charges == [r \in counted |-> Charge(<<Directory[r]>>, r, 1)]
     IN Enter("claude", <<LocalAll(charges)>>, large = {} /\ malformed = {}, gone # {})
  /\ UNCHANGED listing

(* One SELECT over all threads; those without tokens are passed over.      *)
ScanCodex ==
  /\ Configured("codex")
  /\ LET charges == [t \in {t \in Threads : used[t] > 0} |-> Charge(Cwd[t], t, used[t])] IN
     Enter("codex", <<LocalAll(charges)>>, TRUE, FALSE)
  /\ UNCHANGED listing

ListSessions ==
  /\ Configured("gemini")
  /\ pending' = {f \in Sessions : sessions[f] # << >>}
  /\ tally' = NoCharges /\ warned' = FALSE /\ missed' = FALSE
  /\ UNCHANGED <<scan, file>> /\ Idle

(* The next file: too large, gone by now, or to be read.                   *)
CheckSize ==
  /\ pending \notin {Nothing, {}} /\ file = Nothing
  /\ LET f == Min(pending) IN
     /\ pending' = pending \ {f}
     /\ \/ Len(sessions[f]) > SizeLimit /\ warned' = TRUE /\ UNCHANGED <<file, missed>>
        \/ missed' = TRUE /\ UNCHANGED <<file, warned>>
        \/ Len(sessions[f]) <= SizeLimit /\ file' = f /\ UNCHANGED <<warned, missed>>
  /\ UNCHANGED <<scan, tally>> /\ Idle

(* Mutant: a file that is not JSON has no messages, and that is that.      *)
Malformed_Silently(f) == f \in writing /\ Format[f] = "jsonl"

(* Counted: a row that is not JSON, or a file none of which is.            *)
Malformed(f) == f \in writing

(* Mutant: rows are charged as they come.                                  *)
Messages_Repeated(f) ==
  IF f \in writing /\ Format[f] = "json" THEN {} ELSE {f} \X (1 .. Whole(f))

(* _iter_session_messages: of messages with one key the first.             *)
Messages(f) ==
  IF f \in writing /\ Format[f] = "json" THEN {} ELSE {at \in Held : at[1] = f}

(* One file is read at once; messages without tokens are passed over.      *)
ReadSession ==
  /\ file # Nothing
  /\ LET more == {at \in Messages(file) : Message(at).tokens > 0} IN
     \/ /\ tally' = [at \in DOMAIN tally \cup more |->
                      IF at \in more THEN Charge(Root[file], Message(at).key, Message(at).tokens)
                      ELSE tally[at]]
        /\ warned' = (warned \/ Malformed(file)) /\ UNCHANGED missed
     \/ missed' = TRUE /\ UNCHANGED <<tally, warned>>
  /\ file' = Nothing
  /\ UNCHANGED <<scan, pending>> /\ Idle

FinishGemini ==
  /\ pending = {} /\ file = Nothing
  /\ Enter("gemini", <<LocalAll(tally)>>, ~warned, missed)
  /\ pending' = Nothing /\ tally' = NoCharges /\ warned' = FALSE /\ missed' = FALSE
  /\ UNCHANGED file

(* write_scan replaces the bundle as a whole.                              *)
Publish ==
  /\ asked # Nothing /\ todo = {}
  /\ bundle' = [entries |-> entries, asked |-> asked, floor |-> floor]
  /\ asked' = Nothing /\ entries' = << >> /\ floor' = [p \in Providers |-> 0]
  /\ UNCHANGED <<todo, tools, files, listing, snapshot>>

KillScan ==
  /\ asked # Nothing
  /\ asked' = Nothing /\ todo' = {} /\ entries' = << >> /\ floor' = [p \in Providers |-> 0]
  /\ pending' = Nothing /\ file' = Nothing /\ tally' = NoCharges /\ warned' = FALSE /\ missed' = FALSE
  /\ Idle

Tools ==
  \/ \E f \in Sessions, key \in Keys, n \in 0 .. MaxTokens : BeginMessage(f, key, n)
  \/ \E f \in Sessions : EndMessage(f)
  \/ \E f, g \in Sessions : CopySession(f, g)
  \/ \E t \in Threads : CodexRuns(t)
  \/ \E r \in Requests : ClaudeRuns(r)
Configure ==
  \/ \E content \in Contents \cup {Torn} : EditConfig(content)
  \/ \E force \in BOOLEAN : CheckConfig(force)
  \/ OpenConfig \/ WriteConfig \/ KillInit
Scan ==
  \/ StartScan
  \/ \E source \in Providers : EnterNothing(source)
  \/ \E large, malformed, gone \in SUBSET made : ScanClaude(large, malformed, gone)
  \/ ScanCodex
  \/ ListSessions \/ CheckSize \/ ReadSession \/ FinishGemini
  \/ Publish \/ KillScan

CollectorNext == Tools \/ Configure \/ Scan
CollectorSpec == CollectorInit /\ [][CollectorNext]_collectorVars

-----------------------------------------------------------------------------
Published == IF bundle = Nothing THEN {} ELSE {bundle.entries[i] : i \in DOMAIN bundle.entries}
Counted == {entry \in Published : entry.windows # << >>}

(* cli.scan_config and the scanners' warnings: a bundle has one entry for  *)
(* each enabled provider of the configuration it was made from, in their   *)
(* order, and nothing is missing from an entry without saying so.  One     *)
(* without a warning or an error has at least what the provider had when   *)
(* the scan began, unless a file was gone when it came to it; a session    *)
(* caught in the middle of a write cannot pass for one without use.        *)
QuietEntriesAreComplete ==
  bundle # Nothing =>
    /\ {entry.source : entry \in Published} = EnabledProviderNames(bundle.asked)
    /\ \A i, j \in DOMAIN bundle.entries :
         i < j => Rank[bundle.entries[i].source] < Rank[bundle.entries[j].source]
    /\ \A entry \in Published : entry.quiet =>
         /\ entry.windows # << >>
         /\ entry.missed \/ entry.windows[1].total >= bundle.floor[entry.source]

(* Whatever way a provider spells a worktree, it is named after the        *)
(* project: what the next two properties rest on.                          *)
NamesAreHomes ==
  /\ \A f \in Sessions : NormalizeProjectName(Root[f]) = Canonical(Home[f])
  /\ \A t \in Threads : NormalizeProjectName(Cwd[t]) = Canonical(Home[t])
  /\ \A r \in Requests : NormalizeProjectName(<<Directory[r]>>) = Canonical(Home[r])
  /\ \A payload \in Payloads : \A rows \in {payload.rows, payload.runtime} :
       \A k \in DOMAIN rows : NormalizeProjectName(rows[k].name) = Canonical(rows[k].project)

(* The scanners with projects.normalize_project_name: whatever way a       *)
(* provider names the worktrees of a project, the project is charged with  *)
(* no more than what its worktrees have used there by now.  A message is   *)
(* charged once in each file that holds it, also when it is written twice. *)
ProjectsPayForTheirWork ==
  \A entry \in Counted : \A p \in DOMAIN entry.windows[1].byProject :
    entry.windows[1].byProject[p].tokens <= Worth(entry.source, p)

TokensOf(breakdowns) == SumFunction([k \in DOMAIN breakdowns |-> breakdowns[k].tokens])
AddsUp(window) ==
  /\ TokensOf(window.byProject) = TokensOf(window.byModel)
  /\ RequestsOf(window.byProject) = RequestsOf(window.byModel)
  /\ RequestsOf(window.byProject) = window.requests

(* What a payload's rows say of a project, under all of its names.         *)
RowsOf(rows, p) == {i \in DOMAIN rows : Canonical(rows[i].project) = p}
Stated(rows, p) == SumFunction([i \in RowsOf(rows, p) |-> rows[i].use.tokens])

(* The rows of the runtime for projects that only it names.                *)
RuntimeOnly(payload) ==
  {k \in DOMAIN payload.runtime :
     RowsOf(payload.rows, Canonical(payload.runtime[k].project)) = {}}

(* What projects.py takes on trust: the splits of a payload's rows add up  *)
(* and Gemini's requests are those of its rows.                            *)
Consistent(payload) ==
  /\ \A rows \in {payload.rows, payload.runtime} : \A k \in DOMAIN rows : Sound(rows[k].use)
  /\ payload.source = "gemini" =>
       payload.requests = SumFunction([k \in DOMAIN payload.rows |-> payload.rows[k].use.requests])

(* A total is observed when it is what the rows say together with what the *)
(* runtime says of the projects that only it names.                        *)
Observed(payload) ==
  SumFunction([k \in DOMAIN payload.rows |-> payload.rows[k].use.tokens])
    + SumFunction([k \in RuntimeOnly(payload) |-> payload.runtime[k].use.tokens])
CarriesObserved(payload) ==
  payload.source = "codex" /\ payload.observed = Observed(payload) /\ payload.observed # 0

SharesObserved(window, payload) ==
  CarriesObserved(payload) => TokensOf(window.byProject) = window.total

(* The runtime has one raw name for each of these projects.                *)
NamedOnce(payload) ==
  \A j, k \in RuntimeOnly(payload) :
    Canonical(payload.runtime[j].project) = Canonical(payload.runtime[k].project) => j = k

Agrees(window, payload) ==
  /\ Consistent(payload) => AddsUp(window)
  /\ NamedOnce(payload) => SharesObserved(window, payload)
  /\ \A p \in DOMAIN window.byProject :
       \/ RowsOf(payload.rows, p) # {} /\ window.byProject[p].tokens = Stated(payload.rows, p)
       \/ /\ payload.source = "codex"
          /\ \E k \in RuntimeOnly(payload) : Canonical(payload.runtime[k].project) = p
  /\ \A k \in DOMAIN payload.rows : Canonical(payload.rows[k].project) \in DOMAIN window.byProject
  /\ payload.source = "codex" =>
       \A k \in RuntimeOnly(payload) : LET p == Canonical(payload.runtime[k].project) IN
         /\ p \in DOMAIN window.byProject
         /\ RowsOf(payload.runtime, p) = {k} =>
              window.byProject[p].tokens = payload.runtime[k].use.tokens

(* projects.py: the breakdowns of a window agree, of a local scan also     *)
(* with its total, and those of a payload have each project once, with all *)
(* that the rows say of it and nothing of what the runtime says.  Codex's  *)
(* window also has every project that only its runtime names, and where    *)
(* each of these has one raw name, the projects share the observed total.  *)
BreakdownsAddUp ==
  /\ \A entry \in Counted :
       /\ AddsUp(entry.windows[1])
       /\ entry.windows[1].total = TokensOf(entry.windows[1].byProject)
  /\ snapshot # Nothing =>
       \A i \in DOMAIN snapshot.of.windows : Agrees(snapshot.of.windows[i], snapshot.payload)

(* docs/reporting-semantics.md: projects that exist only in Codex's        *)
(* runtime_by_project are part of by_project "so project shares sum        *)
(* against the observed total".                                            *)
ProjectsSumToObserved ==
  snapshot # Nothing =>
    \A i \in DOMAIN snapshot.of.windows : SharesObserved(snapshot.of.windows[i], snapshot.payload)
=============================================================================
