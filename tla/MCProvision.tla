----------------------------- MODULE MCProvision -----------------------------
\* Distros before the first setup: bare, wired by hand and lived in, with a
\* configuration an old python3 cannot tell to be broken, set up before with the
\* old notify line, without Codex, with settings that do not parse, without
\* python.
EXTENDS Provision, TLC

Before(p, text, hooks, c, a) ==
  [python |-> p, settings |-> [text |-> text, hooks |-> [e \in Events |-> hooks]], codex |-> c, agents |-> a]

Bare == Before("old", "json", {}, "absent", <<>>)
Fresh == Before("old", "json", {}, "none", <<>>)
LivedIn == Before("new", "json", {"older"}, "tables", <<"user", "begin", "block", "end", "user">>)
Own == Before("old", "json", {"user", "wrapped"}, "broken", <<"user">>)
Upgraded == Before("new", "json", {"ours", "user"}, "legacy", <<"user", "begin", "block", "end">>)
NoCodex == Before("new", "json", {"user"}, "nodir", <<>>)
Unparsable == Before("new", "broken", {}, "users", <<"user">>)
NoPython == Before("none", "json", {"user"}, "users", <<"user">>)

AllDistros == {Bare, Fresh, LivedIn, Own, Upgraded, NoCodex, Unparsable, NoPython}

\* Of scripts that do not run it makes no difference which one is started.
First == CHOOSE s \in Scripts : TRUE
InTurn == \A s \in Scripts \ {First} : ~Running(s) /\ Running(s)' => Running(First)

\* Setups overlap in the bare distro, and the user saves files in the others: of
\* a file of the user's nothing is claimed once setups have overlapped.
Scenes == IF codex = "absent" THEN edits' = edits ELSE ~overlapped'
=============================================================================
