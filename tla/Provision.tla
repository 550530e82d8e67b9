------------------------------ MODULE Provision ------------------------------
(***************************************************************************)
(* The setup the application runs once in a WSL distro                     *)
(* (src-tauri/src/provision.rs): the claim that keeps it to one script per *)
(* distro and launch, the script itself step by step, and the marker that  *)
(* ends it for good.  One distro is modelled, reached under its name and   *)
(* as the default one.  The script is a process of WSL: it outlives the    *)
(* application, and it may stop at any step, because a step fails, WSL     *)
(* shuts down, or the application dies while the text of the script is     *)
(* still on its way.                                                       *)
(*                                                                         *)
(* The scripts and texts it installs are files 1..NFiles, each the version *)
(* of the setup it came from.  The user's settings are the kinds of hook   *)
(* each event has; Codex's configuration is the kind of its notify line;   *)
(* AGENTS.md is a sequence of lines.                                       *)
(*                                                                         *)
(* Each file is written beside itself, under a name all scripts share, and  *)
(* moved in place.  Opening truncates what is under that name, and who has *)
(* it open writes to the same file, wherever others have moved it.         *)
(***************************************************************************)
EXTENDS Naturals, FiniteSets, Sequences, SequencesExt

CONSTANTS
  Names,       \* names the distro is asked for under, its own and as the default one
  NFiles,      \* files the script installs, nine in the code
  Events,      \* events of Claude Code that get a hook
  MaxVersion,  \* the last SETUP_VERSION
  MaxFailures, \* times a step fails, or WSL is out of order
  MaxEdits,    \* times the user saves a file
  Scripts,     \* processes that may run the script at the same time
  Distros      \* how the distro may be before: [python, settings, codex, agents]

ASSUME BoundsAssumption == Names \subseteq {"named", "default"} /\ NFiles \in Nat \ {0} /\ MaxVersion \in Nat \ {0}

Versions == 1..MaxVersion
Files == 1..NFiles
Half == MaxVersion + 1      \* what a file holds while it is being written
Absent == 0

\* A hook of an event: the canonical one, one that runs another copy of the
\* script, one that runs it in some other position, one of the user's own.
Mast == {"ours", "older", "wrapped"}
Hooks == [Events -> SUBSET (Mast \union {"user"})]
NoHooks == [e \in Events |-> {}]

\* settings.json: an object with its hooks, a text the user broke, or one whose
\* writing is not over (nothing, or the beginning of an object).
JsonTexts == [text : {"json", "broken", "cut", "absent"}, hooks : Hooks]
Json(hooks) == [text |-> "json", hooks |-> hooks]
Cut == [text |-> "cut", hooks |-> NoHooks]
NoText == [text |-> "absent", hooks |-> NoHooks]

\* python3: none, one before 3.11, one with tomllib.
Pythons == {"none", "old", "new"}

\* config.toml: no ~/.codex at all, no file, one without a notify line and
\* without or with tables, one with a line of an earlier setup, of this one, of
\* the user's (or one we cannot tell, or several), one that does not parse and
\* has neither notify line nor table, the same with our line below, and one
\* whose writing is not over.
CodexKinds == {"nodir", "absent", "none", "tables", "legacy", "ours", "users", "broken", "spliced", "cut"}

\* Before the first setup no event has more than one hook that runs the script.
ASSUME DistrosAssumption ==
  \A d \in Distros :
    /\ d.python \in Pythons /\ d.codex \in CodexKinds \ {"cut"}
    /\ d.settings \in JsonTexts /\ d.settings.text \in {"json", "broken"}
    /\ \A e \in Events : \A a, b \in d.settings.hooks[e] \intersect Mast : a = b

\* Before the first setup no line of the user's stands in a block that nothing
\* has ended.
AgentsLines == {"user", "begin", "block", "end"}
Tidy(lines) ==
  \A i \in DOMAIN lines : lines[i] = "user" =>
    \A j \in 1..(i - 1) : lines[j] = "begin" => \E k \in (j + 1)..(i - 1) : lines[k] = "end"
ASSUME AgentsAssumption == \A d \in Distros : d.agents \in Seq(AgentsLines) /\ Tidy(d.agents)

\* A text of AGENTS.md beside it.
Texts == [there : BOOLEAN, lines : Seq(AgentsLines)]
Text(lines) == [there |-> TRUE, lines |-> lines]
NoLines == [there |-> FALSE, lines |-> <<>>]

VARIABLES
  up, version,     \* the application runs, and its SETUP_VERSION
  wsl,             \* wsl.exe works during this launch
  asked,           \* names ensure_provisioned was called with, its task still to run
  claimed,         \* PROVISIONED: the keys claimed by this process
  script,          \* [Scripts -> record]
  python,          \* the python3 of the distro
  fileTmp, file,   \* [Files -> version], beside the file and in place
  settings, settingsTmp,         \* ~/.claude/settings.json, settings.json.mast-tmp
  codex, codexTmp,               \* ~/.codex/config.toml, config.toml.mast-tmp
  agents, agentsTmp, agentsNew,  \* ~/.codex/AGENTS.md, AGENTS.md.mast-tmp and .mast-new
  markers,         \* versions whose marker exists
  \* What the properties remember:
  launched,        \* scripts started by this launch
  failures, edits, \* what MaxFailures and MaxEdits bound
  overlapped       \* two scripts have run at the same time

appVars == <<up, version, wsl, asked, claimed, launched>>
installVars == <<fileTmp, file>>
settingsVars == <<settings, settingsTmp>>
codexVars == <<codex, codexTmp>>
agentsVars == <<agents, agentsTmp, agentsNew>>
distroVars == <<python, installVars, settingsVars, codexVars, agentsVars, markers>>
historyVars == <<overlapped, failures, edits>>
setupVars == <<appVars, script, distroVars, historyVars>>

\* A script: where it is, its version, the file at hand; where the file it
\* has open is (beside its place, in it, or nowhere any more); the hooks it
\* has read, the configuration it will write, and whether the user has saved
\* the file at hand since the script read it.
NoScript == [at |-> "none", v |-> 1, i |-> 1, handle |-> "tmp", read |-> NoHooks, out |-> "ours", raced |-> FALSE]
Places == {"none", "start", "open", "write", "move",
           "merge", "openSettings", "dump", "replace",
           "codex", "openCodex", "writeCodex", "replaceCodex",
           "agents", "openAwk", "awk", "openNew", "cat", "refresh", "remove", "openAdd", "append", "add", "marker"}
Running(s) == script[s].at # "none"

SetupTypeOK ==
  /\ {up, wsl, overlapped} \subseteq BOOLEAN /\ python \in Pythons
  /\ version \in Versions /\ markers \subseteq Versions
  /\ asked \subseteq Names /\ claimed \subseteq {"D", ""} /\ {launched, failures, edits} \subseteq Nat
  /\ script \in [Scripts -> [at : Places, v : Versions, i : Files, handle : {"tmp", "place", "gone"},
                             read : Hooks, out : CodexKinds, raced : BOOLEAN]]
  /\ fileTmp \in [Files -> 0..Half] /\ file \in [Files -> 0..Half]
  /\ {settings, settingsTmp} \subseteq JsonTexts /\ {codex, codexTmp} \subseteq CodexKinds
  /\ agents \in Seq(AgentsLines) /\ {agentsTmp, agentsNew} \subseteq Texts

SetupInit ==
  /\ up = FALSE /\ version = 1 /\ wsl = TRUE /\ asked = {} /\ claimed = {} /\ launched = 0
  /\ script = [s \in Scripts |-> NoScript]
  /\ \E d \in Distros : python = d.python /\ settings = d.settings /\ codex = d.codex /\ agents = d.agents
  /\ fileTmp = [f \in Files |-> Absent] /\ file = [f \in Files |-> Absent]
  /\ settingsTmp = NoText /\ codexTmp = "absent" /\ agentsTmp = NoLines /\ agentsNew = NoLines
  /\ markers = {}
  /\ overlapped = FALSE /\ failures = 0 /\ edits = 0

(***************************************************************************)
(* The application.                                                        *)
(***************************************************************************)
\* Boot: the default distro and the distros of the workspaces.  An update
\* may have raised the version.
Launch(v, w) ==
  /\ ~up /\ v >= version
  /\ up' = TRUE /\ version' = v /\ wsl' = w /\ asked' = Names
  /\ w \/ failures < MaxFailures
  /\ failures' = IF w THEN failures ELSE failures + 1
  /\ UNCHANGED <<claimed, launched, script, distroVars, overlapped, edits>>

\* Mutant: the claims outlive the process.
ExitKeepsClaims ==
  /\ up
  /\ up' = FALSE /\ wsl' = TRUE /\ asked' = {} /\ launched' = 0
  /\ UNCHANGED <<version, claimed, script, distroVars, historyVars>>

\* The claims are the process's own.
Exit ==
  /\ up
  /\ up' = FALSE /\ wsl' = TRUE /\ asked' = {} /\ claimed' = {} /\ launched' = 0
  /\ UNCHANGED <<version, script, distroVars, historyVars>>

\* CreateWorkspace in the distro, by its name or as the default one
Ask ==
  /\ up /\ \E n \in Names : asked' = asked \union {n}
  /\ UNCHANGED <<up, version, wsl, claimed, launched, script, distroVars, historyVars>>

\* Mutant: the default distro is claimed unresolved.
KeyUnresolved(n) == IF n = "named" THEN "D" ELSE ""

\* The name of the default distro, when wsl.exe answers.
Key(n) == IF n = "named" \/ wsl THEN "D" ELSE ""

Start(s) == script' = [script EXCEPT ![s] = [NoScript EXCEPT !.at = "start", !.v = version]]

\* ensure_provisioned's task: resolve, claim, run.  Without a working wsl.exe
\* run fails, and the key stays claimed.
Ensure(n) ==
  /\ up /\ n \in asked
  /\ asked' = asked \ {n}
  /\ claimed' = claimed \union {Key(n)}
  /\ IF Key(n) \notin claimed /\ wsl
     THEN \E s \in Scripts :
            /\ ~Running(s) /\ Start(s) /\ launched' = launched + 1
            /\ overlapped' = (overlapped \/ \E t \in Scripts : Running(t))
     ELSE UNCHANGED <<script, launched, overlapped>>
  /\ UNCHANGED <<up, version, wsl, distroVars, failures, edits>>

(***************************************************************************)
(* The script.                                                             *)
(***************************************************************************)
At(s, place) == script[s].at = place
V(s) == script[s].v
I(s) == script[s].i
Those(places) == {t \in Scripts : script[t].at \in places}

To(s, place) == script' = [script EXCEPT ![s].at = place]
Stopped(s) == script' = [script EXCEPT ![s] = NoScript]

\* The file at hand is done with.
On(s, place) == script' = [script EXCEPT ![s] = [NoScript EXCEPT !.at = place, !.v = V(s)]]

\* Opening to write, under a name all scripts share.
Opens(s, place) == script' = [script EXCEPT ![s].at = place, ![s].handle = "tmp"]

\* Writing to what is open: what is then beside the place, and in it.
Beside(s, old, new) == IF script[s].handle = "tmp" THEN new ELSE old
InPlace(s, old, new) == IF script[s].handle = "place" THEN new ELSE old

\* A file is moved in place: the scripts of `moved` have it open, those of
\* `replaced` may have the one that it replaces.
Follow(moved, replaced) ==
  [t \in Scripts |->
     IF t \in replaced /\ script[t].handle = "place" THEN [script[t] EXCEPT !.handle = "gone"]
     ELSE IF t \in moved /\ script[t].handle = "tmp" THEN [script[t] EXCEPT !.handle = "place"]
     ELSE script[t]]

\* A file is removed that the scripts of `open` may have open.
Removed(open) ==
  [t \in Scripts |-> IF t \in open /\ script[t].handle = "tmp" THEN [script[t] EXCEPT !.handle = "gone"] ELSE script[t]]

CheckMarker(s) ==
  /\ At(s, "start")
  /\ IF V(s) \in markers THEN Stopped(s) ELSE To(s, "open")
  /\ UNCHANGED <<appVars, distroVars, historyVars>>

(***************************************************************************)
(* The scripts and texts it installs.                                      *)
(***************************************************************************)
\* cat > "$FILE.tmp", which truncates what is there ...
OpenTmp(s) ==
  /\ At(s, "open")
  /\ fileTmp' = [fileTmp EXCEPT ![I(s)] = Half]
  /\ Opens(s, "write")
  /\ UNCHANGED <<appVars, python, file, settingsVars, codexVars, agentsVars, markers, historyVars>>

\* ... and fills the file it has open.
WriteTmp(s) ==
  /\ At(s, "write")
  /\ fileTmp' = [fileTmp EXCEPT ![I(s)] = Beside(s, @, V(s))]
  /\ file' = [file EXCEPT ![I(s)] = InPlace(s, @, V(s))]
  /\ To(s, "move")
  /\ UNCHANGED <<appVars, python, settingsVars, codexVars, agentsVars, markers, historyVars>>

Writing(f) == {t \in Those({"write"}) : I(t) = f}

\* chmod and mv -f; without the temporary file the script gives up.
MoveTmp(s) ==
  /\ At(s, "move")
  /\ IF fileTmp[I(s)] = Absent THEN Stopped(s) /\ UNCHANGED installVars
     ELSE /\ file' = [file EXCEPT ![I(s)] = fileTmp[I(s)]]
          /\ fileTmp' = [fileTmp EXCEPT ![I(s)] = Absent]
          /\ script' = [Follow(Writing(I(s)), Writing(I(s))) EXCEPT ![s] =
                          IF I(s) = NFiles THEN [NoScript EXCEPT !.at = "merge", !.v = V(s)]
                          ELSE [NoScript EXCEPT !.at = "open", !.v = V(s), !.i = I(s) + 1]]
  /\ UNCHANGED <<appVars, python, settingsVars, codexVars, agentsVars, markers, historyVars>>

(***************************************************************************)
(* The hooks of Claude Code.                                               *)
(***************************************************************************)
\* A hook that runs some copy of the script covers its event; a copy that is
\* the leading word is moved on to ours.
Wired(hooks) == hooks \intersect Mast # {}
Migrated(hooks) == {IF h = "older" THEN "ours" ELSE h : h \in hooks}
Merged(h) == [e \in Events |-> IF Wired(h[e]) THEN Migrated(h[e]) ELSE h[e] \union {"ours"}]

\* settings.json is read; with nothing to change, nothing is written.
ReadsHooks(s) ==
  IF Merged(settings.hooks) = settings.hooks THEN On(s, "codex")
  ELSE script' = [script EXCEPT ![s].at = "openSettings", ![s].read = settings.hooks, ![s].raced = FALSE]

\* Mutant: without python3 the script goes on to its marker.
MergeHooksIfAny(s) ==
  /\ At(s, "merge")
  /\ \/ python = "none" /\ On(s, "codex")
     \/ settings.text \in {"broken", "cut"} /\ Stopped(s)
     \/ python # "none" /\ settings.text # "broken" /\ ReadsHooks(s)
  /\ UNCHANGED <<appVars, distroVars, historyVars>>

\* Without python3 the script ends well, without a marker.  A settings.json
\* that does not parse is never overwritten: exit 1.  One that is being written
\* does not parse, or is still empty, which counts as an object without hooks.
MergeHooks(s) ==
  /\ At(s, "merge")
  /\ \/ (python = "none" \/ settings.text \in {"broken", "cut"}) /\ Stopped(s)
     \/ python # "none" /\ settings.text # "broken" /\ ReadsHooks(s)
  /\ UNCHANGED <<appVars, distroVars, historyVars>>

OpenSettings(s) ==
  /\ At(s, "openSettings")
  /\ settingsTmp' = Cut
  /\ Opens(s, "dump")
  /\ UNCHANGED <<appVars, python, installVars, settings, codexVars, agentsVars, markers, historyVars>>

DumpSettings(s) ==
  /\ At(s, "dump")
  /\ settingsTmp' = Beside(s, settingsTmp, Json(Merged(script[s].read)))
  /\ settings' = InPlace(s, settings, Json(Merged(script[s].read)))
  /\ To(s, "replace")
  /\ UNCHANGED <<appVars, python, installVars, codexVars, agentsVars, markers, historyVars>>

\* copymode and os.replace, which raise when the temporary file is gone.
ReplaceSettings(s) ==
  /\ At(s, "replace")
  /\ IF settingsTmp = NoText THEN Stopped(s) /\ UNCHANGED settingsVars
     ELSE /\ settings' = settingsTmp /\ settingsTmp' = NoText
          /\ script' = [Follow(Those({"dump"}), Those({"dump"})) EXCEPT ![s] = [NoScript EXCEPT !.at = "codex", !.v = V(s)]]
  /\ UNCHANGED <<appVars, python, installVars, codexVars, agentsVars, markers, historyVars>>

(***************************************************************************)
(* Codex's notify line.                                                    *)
(***************************************************************************)
\* What a configuration is rewritten to: one without a notify line gets ours,
\* one with the line an earlier setup wrote has it replaced.  Without tomllib
\* one that does not parse gets it as well, and none does that has tables.
Rewritten(c) ==
  IF c \in {"none", "legacy", "cut"} \/ (c = "tables" /\ python = "new") THEN {"ours"}
  ELSE IF c = "broken" /\ python = "old" THEN {"spliced"} ELSE {}

\* With tomllib it is left alone if the result would not parse, or the line
\* would land in a table; and whoever reads it while it is being written may
\* take it for anything.
CodexNotify(s) ==
  /\ At(s, "codex")
  /\ \/ (Rewritten(codex) = {} \/ python = "new" \/ codex = "cut") /\ To(s, "agents")
     \/ \E c \in Rewritten(codex) :
          script' = [script EXCEPT ![s].at = "openCodex", ![s].out = c, ![s].raced = FALSE]
  /\ UNCHANGED <<appVars, distroVars, historyVars>>

OpenCodex(s) ==
  /\ At(s, "openCodex")
  /\ codexTmp' = "cut"
  /\ Opens(s, "writeCodex")
  /\ UNCHANGED <<appVars, python, installVars, settingsVars, codex, agentsVars, markers, historyVars>>

WriteCodex(s) ==
  /\ At(s, "writeCodex")
  /\ codexTmp' = Beside(s, codexTmp, script[s].out)
  /\ codex' = InPlace(s, codex, script[s].out)
  /\ To(s, "replaceCodex")
  /\ UNCHANGED <<appVars, python, installVars, settingsVars, agentsVars, markers, historyVars>>

ReplaceCodex(s) ==
  /\ At(s, "replaceCodex")
  /\ IF codexTmp = "absent" THEN Stopped(s) /\ UNCHANGED codexVars
     ELSE /\ codex' = codexTmp /\ codexTmp' = "absent"
          /\ script' = [Follow(Those({"writeCodex"}), Those({"writeCodex"})) EXCEPT ![s] = [NoScript EXCEPT !.at = "agents", !.v = V(s)]]
  /\ UNCHANGED <<appVars, python, installVars, settingsVars, agentsVars, markers, historyVars>>

(***************************************************************************)
(* The block in AGENTS.md.                                                 *)
(***************************************************************************)
\* Mutant: printing does not start again.
AwkForgets(a, l) ==
  IF l \in {"begin", "end"} THEN [a EXCEPT !.skip = TRUE]
  ELSE IF a.skip THEN a ELSE [a EXCEPT !.out = Append(@, l)]

\* awk: from a begin marker to the next end marker nothing is printed.
Awk(a, l) ==
  IF l \in {"begin", "end"} THEN [a EXCEPT !.skip = (l = "begin")]
  ELSE IF a.skip THEN a ELSE [a EXCEPT !.out = Append(@, l)]

Printed(lines) == FoldLeft(Awk, [skip |-> FALSE, out |-> <<>>], lines)

Blocked(lines) == lines \o <<"begin", "block", "end">>

\* The scripts that may have AGENTS.md or a file beside it open.
Printing == {"awk", "append"}
Splicing == Printing \union {"cat"}

\* Skipped without a ~/.codex.  grep tells whether there is a block.
AgentsBlock(s) ==
  /\ At(s, "agents")
  /\ IF codex = "nodir" THEN On(s, "marker")
     ELSE IF "begin" \in ToSet(agents) THEN To(s, "openAwk") ELSE To(s, "openAdd")
  /\ UNCHANGED <<appVars, distroVars, historyVars>>

OpenAgents(s, from, to) ==
  /\ At(s, from)
  /\ agentsTmp' = Text(<<>>)
  /\ Opens(s, to)
  /\ UNCHANGED <<appVars, python, installVars, settingsVars, codexVars, agents, agentsNew, markers, historyVars>>

\* AGENTS.md is read, and written beside itself.
Prints(s, from, lines, to) ==
  /\ At(s, from)
  /\ agentsTmp' = Beside(s, agentsTmp, Text(lines))
  /\ agents' = InPlace(s, agents, lines)
  /\ script' = [script EXCEPT ![s].at = to, ![s].raced = FALSE]
  /\ UNCHANGED <<appVars, python, installVars, settingsVars, codexVars, agentsNew, markers, historyVars>>

\* Refreshing: what awk prints, then that with the block in a second file.
AwkPrints(s) == Prints(s, "awk", Printed(agents).out, "openNew")

OpenNew(s) ==
  /\ At(s, "openNew")
  /\ agentsNew' = Text(<<>>)
  /\ Opens(s, "cat")
  /\ UNCHANGED <<appVars, python, installVars, settingsVars, codexVars, agents, agentsTmp, markers, historyVars>>

\* A first file that is gone fails cat, but not the group it is in.
CatNew(s) ==
  /\ At(s, "cat")
  /\ agentsNew' = Beside(s, agentsNew, Text(Blocked(agentsTmp.lines)))
  /\ agents' = InPlace(s, agents, Blocked(agentsTmp.lines))
  /\ To(s, "refresh")
  /\ UNCHANGED <<appVars, python, installVars, settingsVars, codexVars, agentsTmp, markers, historyVars>>

Installing == {"open", "write", "move"}
Refreshing == {"openAwk", "awk", "openNew", "cat", "refresh"}
Adding == {"openAdd", "append", "add"}

\* rm -f of what the step at hand writes beside its place, and exit 1; the
\* steps in python leave it behind.
GivesUp(s) ==
  LET at == script[s].at
      open == {t \in Scripts :
                 \/ at \in Installing /\ t \in Writing(I(s))
                 \/ at \in Refreshing \union Adding /\ t \in Those(Printing)
                 \/ at \in Refreshing /\ At(t, "cat")}
  IN /\ script' = [Removed(open) EXCEPT ![s] = NoScript]
     /\ fileTmp' = IF at \in Installing THEN [fileTmp EXCEPT ![I(s)] = Absent] ELSE fileTmp
     /\ agentsTmp' = IF at \in Refreshing \union Adding THEN NoLines ELSE agentsTmp
     /\ agentsNew' = IF at \in Refreshing THEN NoLines ELSE agentsNew
     /\ UNCHANGED <<python, file, settingsVars, codexVars, agents, markers>>

\* mv, which fails when the file is gone.
Refresh(s) ==
  /\ At(s, "refresh")
  /\ IF ~agentsNew.there THEN GivesUp(s)
     ELSE /\ agents' = agentsNew.lines /\ agentsNew' = NoLines
          /\ script' = [Follow(Those({"cat"}), Those(Splicing)) EXCEPT ![s] = [NoScript EXCEPT !.at = "remove", !.v = V(s)]]
          /\ UNCHANGED <<python, installVars, settingsVars, codexVars, agentsTmp, markers>>
  /\ UNCHANGED <<appVars, historyVars>>

RemoveTmp(s) ==
  /\ At(s, "remove")
  /\ agentsTmp' = NoLines
  /\ script' = [Removed(Those(Printing)) EXCEPT ![s].at = "marker"]
  /\ UNCHANGED <<appVars, python, installVars, settingsVars, codexVars, agents, agentsNew, markers, historyVars>>

\* Adding: the file as it is and the block.
CatAll(s) == Prints(s, "append", Blocked(agents), "add")

AddBlock(s) ==
  /\ At(s, "add")
  /\ IF ~agentsTmp.there THEN GivesUp(s)
     ELSE /\ agents' = agentsTmp.lines /\ agentsTmp' = NoLines
          /\ script' = [Follow(Those(Printing), Those(Splicing)) EXCEPT ![s] = [NoScript EXCEPT !.at = "marker", !.v = V(s)]]
          /\ UNCHANGED <<python, installVars, settingsVars, codexVars, agentsNew, markers>>
  /\ UNCHANGED <<appVars, historyVars>>

Mark(s) ==
  /\ At(s, "marker")
  /\ markers' = markers \union {V(s)}
  /\ Stopped(s)
  /\ UNCHANGED <<appVars, python, installVars, settingsVars, codexVars, agentsVars, historyVars>>

\* A step fails and the script gives up, or its process is gone.
Fails(s) ==
  /\ Running(s) /\ failures < MaxFailures
  /\ failures' = failures + 1
  /\ GivesUp(s) \/ (Stopped(s) /\ UNCHANGED distroVars)
  /\ UNCHANGED <<appVars, overlapped, edits>>

(***************************************************************************)
(* The user, who saves what a script may have read.                        *)
(***************************************************************************)
Saves(places) ==
  /\ edits < MaxEdits /\ edits' = edits + 1
  /\ script' = [s \in Scripts |-> [script[s] EXCEPT !.raced = @ \/ script[s].at \in places]]
  /\ UNCHANGED <<appVars, python, installVars, settingsTmp, codexTmp, agentsTmp, agentsNew, markers, overlapped, failures>>

\* A hook of the user's own.
EditSettings(e) ==
  /\ settings.text = "json" /\ "user" \notin settings.hooks[e]
  /\ settings' = [settings EXCEPT !.hooks[e] = @ \union {"user"}]
  /\ Saves({"openSettings", "dump", "replace"})
  /\ UNCHANGED <<codex, agents>>

\* A notify line of the user's own.
EditCodex ==
  /\ codex \in {"none", "tables", "legacy", "ours"}
  /\ codex' = "users"
  /\ Saves({"openCodex", "writeCodex", "replaceCodex"})
  /\ UNCHANGED <<settings, agents>>

\* A line in AGENTS.md, not in a block that nothing has ended.
EditAgents ==
  /\ codex # "nodir" /\ agents' = Append(agents, "user") /\ Tidy(agents')
  /\ Saves({"openNew", "cat", "refresh", "add"})
  /\ UNCHANGED <<settings, codex>>

Step(s) ==
  \/ CheckMarker(s) \/ OpenTmp(s) \/ WriteTmp(s) \/ MoveTmp(s)
  \/ MergeHooks(s) \/ OpenSettings(s) \/ DumpSettings(s) \/ ReplaceSettings(s)
  \/ CodexNotify(s) \/ OpenCodex(s) \/ WriteCodex(s) \/ ReplaceCodex(s)
  \/ AgentsBlock(s) \/ OpenAgents(s, "openAwk", "awk") \/ AwkPrints(s) \/ OpenNew(s) \/ CatNew(s) \/ Refresh(s) \/ RemoveTmp(s)
  \/ OpenAgents(s, "openAdd", "append") \/ CatAll(s) \/ AddBlock(s)
  \/ Mark(s)

App == Exit \/ Ask \/ (\E v \in Versions, w \in BOOLEAN : Launch(v, w)) \/ \E n \in Names : Ensure(n)
User == (\E e \in Events : EditSettings(e)) \/ EditCodex \/ EditAgents
SetupNext == App \/ User \/ \E s \in Scripts : Fails(s) \/ Step(s)

SetupSpec == SetupInit /\ [][SetupNext]_setupVars

\* The user goes on starting the application, long enough now and then for
\* its task to run, and the scripts run.
FairSetupSpec ==
  /\ SetupSpec
  /\ WF_setupVars(Exit) /\ WF_setupVars(\E v \in Versions : Launch(v, TRUE))
  /\ SF_setupVars(\E n \in Names : Ensure(n))
  /\ \A s \in Scripts : WF_setupVars(Step(s))

-----------------------------------------------------------------------------
\* A launch of the application starts at most one setup in a distro, though
\* it asks for it under its name and as the default one (claim, after the
\* default name is resolved).
OneSetupPerLaunch == launched <= 1

\* The marker, which ends the setups for good, is there only over a complete
\* installation, unless two setups overlapped: every event has its hook, and
\* every file is whole and no older than the newest marker, wherever earlier
\* setups were cut off.  No event ever gets a second hook that would report it
\* twice, whatever copies of the script the user has wired by hand.
MarkerMeansInstalled ==
  /\ \A e \in Events : Cardinality(settings.hooks[e] \intersect Mast) <= 1
  /\ ~overlapped /\ markers # {} => \A e \in Events : Wired(settings.hooks[e])
  /\ ~overlapped => \A f \in Files, v \in markers : file[f] >= v
  /\ ~overlapped => \A f \in Files : file[f] # Half

\* What a step may do to the user's files: hooks that are not ours stay, and a
\* settings.json that does not parse is left alone; so are the user's notify
\* line and, but for an old python3, a config.toml that does not parse; and
\* the lines of AGENTS.md outside the block stay.  None is left half written.
UserLine(sofar, l) == IF l = "user" THEN Append(sofar, l) ELSE sofar
UserLines(lines) == FoldLeft(UserLine, <<>>, lines)
SettingsKept ==
  /\ settings'.text = settings.text
  /\ settings.text = "broken" => settings' = settings
  /\ \A e \in Events : settings.hooks[e] \intersect {"user", "wrapped"} \subseteq settings'.hooks[e]
CodexKept ==
  /\ codex' # "cut"
  /\ codex = "users" => codex' = "users"
  /\ codex = "broken" => codex' \in Rewritten("broken")
AgentsKept == IsPrefix(UserLines(agents), UserLines(agents'))

\* A step puts in place what was read before the user's last save.
Overtaken(places) == \E s \in Those(places) : script[s].raced

\* While setups do not overlap, only that loses the user anything.
AllKept ==
  ~overlapped =>
    /\ settings' # settings => SettingsKept \/ Overtaken({"replace"})
    /\ codex' # codex => CodexKept \/ Overtaken({"replaceCodex"})
    /\ agents' # agents => AgentsKept \/ Overtaken({"refresh", "add"})

\* No setup takes anything of the user's away, wherever it is cut off, unless
\* two setups overlapped: only what the user saves after the script has read a
\* file and before it replaces that file is lost.
UserContentKept == [][AllKept]_setupVars

\* A setup that failed, was cut off or found no WSL is tried again by the
\* launches that follow, until its marker is there or overlapping setups have
\* left a settings.json that is cut short.
RetriedUntilInstalled ==
  python # "none" /\ settings.text = "json" ~> version \in markers \/ (overlapped /\ settings.text = "cut")

\* What the repository says of a setup, which does not hold.  Of AGENTS.md:
\* "Any text of yours outside the managed block must be untouched"
\* (docs/WINDOWS-BUILD.md).
TextOutsideUntouched == [][AgentsKept]_setupVars

\* Of config.toml: "Without `tomllib` (e.g. Ubuntu 22.04's Python 3.10), fresh
\* *insertion* is refused entirely" (scripts/wsl/claude-hook-example.md).
InsertionNeedsTomllib == [][python = "old" /\ codex = "none" => codex' # "ours"]_setupVars
=============================================================================
