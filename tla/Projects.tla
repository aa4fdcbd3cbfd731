------------------------------ MODULE Projects ------------------------------
(***************************************************************************)
(* Project names and what is charged to them: adapters/projects.py.        *)
(*                                                                         *)
(* The three providers name the place a request came from in their own     *)
(* ways: a working directory, or a directory name Claude Code makes of it. *)
(* All ways to name one worktree of Agent Crew have to become one project. *)
(*                                                                         *)
(* A raw name is the sequence of its path parts, a part the sequence of    *)
(* its tokens (between dashes), a token the sequence of its words (between *)
(* underscores).  Names are in lower case.                                 *)
(***************************************************************************)
EXTENDS Integers, SequencesExt, FiniteSetsExt

CONSTANT ModelNames  \* the models requests are made with

ASSUME ModelNamesAssumption == IsFiniteSet(ModelNames)

Simple(word) == <<<<word>>>>

PROVIDER_SUFFIXES == {Simple("claude"), Simple("codex"), Simple("gemini")}

Worktrees == Simple("worktrees")
Markers == << <<<<".agent", "crew">>>>, <<<<"agent", "crew">>>>, <<<<"agent">>, <<"crew">>>> >>

Position(parts, part) == SelectInSeq(parts, LAMBDA p : p = part)

(* _canonical_project: underscores become dashes.                          *)
Canonical(part) == LET words == FlattenSeq(part) IN [i \in DOMAIN words |-> <<words[i]>>]

AfterWorktrees(parts) ==
  IF Contains(parts, Worktrees) THEN <<Position(parts, Worktrees) + 1>> ELSE << >>

(* Where the project is after a marker, directly or below its worktrees.   *)
AfterMarker(parts, marker) ==
  LET at == Position(parts, marker) IN
  IF at = 0 THEN << >>
  ELSE IF at < Len(parts) /\ parts[at + 1] = Worktrees THEN <<at + 2, at + 1>>
  ELSE <<at + 1>>

(* The parts that may name the project, in the order they are tried.       *)
Candidates(parts) ==
  AfterWorktrees(parts)
    \o FlattenSeq([m \in DOMAIN Markers |-> AfterMarker(parts, Markers[m])])
    \o <<Len(parts) - 1>>

(* A part names the project when a provider's directory follows it.        *)
NamesProject(parts, i) == i \in 1 .. Len(parts) - 1 /\ parts[i + 1] \in PROVIDER_SUFFIXES

EncodedMarkers == << <<<<"agent">>, <<"crew">>, <<"worktrees">>>>,
                     <<<<"agent">>, <<"crew">>>>, <<<<"worktrees">>>> >>

(* Mutant: the provider stays part of the name.                            *)
WithoutProvider_Kept(tokens) == tokens

WithoutProvider(tokens) ==
  IF tokens # << >> /\ <<Last(tokens)>> \in PROVIDER_SUFFIXES THEN Front(tokens) ELSE tokens

(* What follows a marker in a name whose path was written with dashes.     *)
After(tokens, marker, at) ==
  IF at + Len(marker) - 1 <= Len(tokens) /\ SubSeq(tokens, at, at + Len(marker) - 1) = marker
  THEN WithoutProvider(SubSeq(tokens, at + Len(marker), Len(tokens)))
  ELSE << >>

(* _normalize_encoded_agent_crew                                           *)
Decoded(part) ==
  LET tokens == SelectSeq(part, LAMBDA t : t # <<"">>)
      rests == FlattenSeq([m \in DOMAIN EncodedMarkers |->
                 [i \in DOMAIN tokens |-> After(tokens, EncodedMarkers[m], i)]])
      found == SelectSeq(rests, LAMBDA rest : rest # << >>)
  IN IF found # << >> THEN Head(found) ELSE part

NormalizeProjectName(parts) ==
  LET named == SelectSeq(Candidates(parts), LAMBDA i : NamesProject(parts, i)) IN
  Canonical(IF named # << >> THEN parts[Head(named)] ELSE Decoded(Last(parts)))

-----------------------------------------------------------------------------
(* AggregateBreakdown.  Shares are left out, and a model that was not used *)
(* has a zero in the split by model.                                       *)
Split == [ModelNames -> Nat]
Breakdown == [tokens : Nat, requests : Nat, models : Split, modelRequests : Split]

(* One whose split by model adds up to it.                                 *)
Sound(use) ==
  /\ use \in Breakdown
  /\ use.tokens = SumFunction(use.models) /\ use.requests = SumFunction(use.modelRequests)

(* What is charged under a raw name is a breakdown: that of one request,   *)
(* or a row of a monitor's payload.  Charges are a function to             *)
(* [name, use]; their index is what they were made for.                    *)
ChargedTo(charges, p) == {x \in DOMAIN charges : NormalizeProjectName(charges[x].name) = p}

(* The sum of the charges in S.                                            *)
Together(charges, S) ==
  [tokens |-> SumFunction([x \in S |-> charges[x].use.tokens]),
   requests |-> SumFunction([x \in S |-> charges[x].use.requests]),
   models |-> [m \in ModelNames |-> SumFunction([x \in S |-> charges[x].use.models[m]])],
   modelRequests |->
     [m \in ModelNames |-> SumFunction([x \in S |-> charges[x].use.modelRequests[m]])]]

(* merge_project_breakdown over all charges, and the same sums written out *)
(* in each scanner.                                                        *)
MergeProjectBreakdowns(charges) ==
  [p \in {NormalizeProjectName(charges[x].name) : x \in DOMAIN charges} |->
     Together(charges, ChargedTo(charges, p))]

NoCharges == [x \in {} |-> x]
NoProjects == MergeProjectBreakdowns(NoCharges)

(* Rows are what a monitor's payload says of its raw names, in order.      *)
AggregatesFromRaw(rows) == MergeProjectBreakdowns(rows)

(* Mutant: raw names are compared, not the projects they name.             *)
IsNewName_Raw(rows, k) == \A j \in 1 .. k - 1 : rows[j].name # rows[k].name

IsNewName(rows, k) ==
  \A j \in 1 .. k - 1 : NormalizeProjectName(rows[j].name) # NormalizeProjectName(rows[k].name)

(* The rows of the payload and, of the projects that only its runtime      *)
(* names, the first row that names them.                                   *)
WithRuntimeExtras(rows, runtime) ==
  LET all == rows \o runtime
      kept == {k \in DOMAIN all : k <= Len(rows) \/ IsNewName(all, k)}
  IN MergeProjectBreakdowns([k \in kept |-> all[k]])

(* model_aggregates_from_projects                                          *)
Models(projects) ==
  [m \in ModelNames |->
     [tokens |-> SumFunction([p \in DOMAIN projects |-> projects[p].models[m]]),
      requests |-> SumFunction([p \in DOMAIN projects |-> projects[p].modelRequests[m]])]]
=============================================================================
