---------------------------- MODULE MCCollector ----------------------------
(* Worktrees of two projects, named as each provider names them: by path,  *)
(* by the path with dashes, by a path below agent_crew.  One project's     *)
(* name has an underscore and one ends like a provider.                    *)
EXTENDS Collector, TLC

CONSTANTS k1, k2, t1, t2, r1, opus, flash

App == <<<<"my", "app">>>>
Demo == <<<<"demo">>, <<"codex">>>>
Crew == <<<<".agent", "crew">>>>

Worktree(project, provider) == <<Simple("home"), Crew, Worktrees, project, Simple(provider)>>
OldWorktree(project, provider) == <<<<<<"agent">>, <<"crew">>>>, project, Simple(provider)>>

(* Claude Code's directory name: dashes for slashes, dots and underscores. *)
Undotted(word) == IF word = ".agent" THEN <<"", "agent">> ELSE <<word>>
Encoded(path) ==
  LET words == FlattenSeq(FlattenSeq(path))
      spelled == <<"">> \o FlattenSeq([i \in DOMAIN words |-> Undotted(words[i])])
  IN [i \in DOMAIN spelled |-> <<spelled[i]>>]

MCFormat == <<"jsonl", "json">>
MCRoot == <<Worktree(App, "gemini"), OldWorktree(Demo, "gemini")>>
MCCwd == (t1 :> Worktree(App, "codex")) @@ (t2 :> Worktree(Demo, "codex"))
MCDirectory == r1 :> Encoded(Worktree(App, "claude"))
MCHome == (1 :> App) @@ (2 :> Demo) @@ (t1 :> App) @@ (t2 :> Demo) @@ (r1 :> App)
MCModel == [x \in {k1, t1, r1} |-> opus] @@ [x \in {k2, t2} |-> flash]

MCContents == {[p \in {"codex", "gemini"} |-> "on"],
               [p \in {"codex", "gemini", "ollama"} |->
                  IF p = "codex" THEN "off" ELSE IF p = "gemini" THEN "on" ELSE "pathless"]}

(* Rows of two projects under up to three names each, the last without a   *)
(* split of its requests.                                                  *)
Row(project, name, n) ==
  [project |-> project, name |-> name,
   use |-> [tokens |-> n, requests |-> 1, models |-> Only(opus, n),
            modelRequests |-> Only(opus, IF n = 16 THEN 0 ELSE 1)]]
Rows == {Row(App, Worktree(App, "codex"), 1), Row(App, <<Encoded(Worktree(App, "claude"))>>, 2),
         Row(Demo, Worktree(Demo, "claude"), 4), Row(Demo, OldWorktree(Demo, "gemini"), 8),
         Row(Demo, <<Demo>>, 16)}
Lists == {<< >>} \cup {<<x>> : x \in Rows} \cup {s \in Rows \X Rows : s[1] # s[2]}
Freshness == {[state |-> "absent", stale |-> FALSE, fetched |-> 100, quotaFetched |-> 0],
              [state |-> "stale", stale |-> TRUE, fetched |-> 0, quotaFetched |-> 0]}
Tokens(rows) == SumFunction([k \in DOMAIN rows |-> rows[k].use.tokens])
MCPayloads ==
  {[source |-> s, error |-> e, rows |-> rows, runtime |-> runtime, total |-> Tokens(rows),
    observed |-> IF o THEN Observed([rows |-> rows, runtime |-> runtime]) ELSE 0,
    requests |-> Len(rows), state |-> f.state, stale |-> f.stale,
    fetched |-> f.fetched, quotaFetched |-> f.quotaFetched] :
     s \in {"claude", "codex", "gemini"}, e, o \in BOOLEAN, rows \in Lists, runtime \in Lists,
     f \in Freshness}

(* The payloads share nothing with the scan: one at a time is enough.  A   *)
(* scan starts with everything reset and reads the configuration once, so  *)
(* one bundle, and edits before the scan, are enough as well.              *)
Started == tools # <<[f \in Sessions |-> << >>], {}, [t \in Threads |-> 0], {}>> \/ asked # Nothing
Apart ==
  /\ snapshot # Nothing => ~Started /\ config = Nothing /\ init = "idle"
  /\ bundle # Nothing => asked = Nothing
EditsFirst == asked # Nothing \/ bundle # Nothing => UNCHANGED files

(* From the start of the scan on the file it was configured by does not    *)
(* matter: a scan that is killed leaves a state that could be reached      *)
(* without it.                                                             *)
View == <<tools, scan, listing, bundle, snapshot,
          IF asked = Nothing /\ bundle = Nothing THEN files ELSE <<Nothing, "idle">> >>
=============================================================================
