---- MODULE Workspace ----
(***************************************************************************)
(* The Dispatcher: the one owner of the state of the application (its      *)
(* workspaces, the split layout of each, their panes and tabs), the        *)
(* commands that change it, the events of sessions and terminals that      *)
(* reach it, and the host that runs its shells.                            *)
(*                                                                         *)
(* Every step happens under the lock of the Dispatcher, so a command is    *)
(* one action.  A command that fails leaves the state as it was and is no  *)
(* action, with the exception of a respawn whose spawn fails.              *)
(*                                                                         *)
(* A layout is a binary tree with panes for leaves.  It is kept without    *)
(* recursion: the set of its leaves and, for every split, the sets of      *)
(* panes under its first (left, upper) and its second child.  Names,       *)
(* titles, paths, ratios and offsets are not kept, and the commands that   *)
(* change nothing else are not actions: RenameWorkspace, ResizeSplit,      *)
(* NavigateFolder and SetViewerScroll.                                     *)
(***************************************************************************)
EXTENDS Naturals, Sequences, FiniteSets

CONSTANTS
    MaxId,         \* bound on the stable ids handed out
    MaxTabs,       \* bound on the tabs at a time
    MaxSession     \* bound on the shells started in one run of the application

ASSUME WorkspaceAssumption ==
    /\ MaxId \in Nat
    /\ MaxTabs \in Nat
    /\ MaxSession \in Nat

VARIABLES
    order,         \* AppState.workspaces, as ids from top to bottom
    activeWs,      \* AppState.active_workspace, or NoId
    nextId,        \* AppState.next_id, one counter for objects of every sort
    layout,        \* workspace -> its split tree
    panes,         \* pane -> its workspace, its tabs in order, its active tab
    activePane,    \* workspace -> pane
    tabs,          \* tab -> kind, session, status, unread mark
    agent,         \* workspace -> agent_status and agent_status_source
    started,       \* Dispatcher.started_sessions
    nextSession,   \* the id of the next shell
    shells         \* shells whose exit is not reported: history file, killed

modelVars == <<order, activeWs, nextId, layout, panes, activePane, tabs, agent>>
hostVars == <<started, nextSession, shells>>
vars == <<modelVars, hostVars>>

NoId == 0
TabKinds == {"terminal", "viewer"}
Ids == 1 .. MaxId
Sessions == 1 .. MaxSession

Elements(s) == {s[i] : i \in DOMAIN s}
With(f, k, v) == [x \in DOMAIN f \cup {k} |-> IF x = k THEN v ELSE f[x]]
Only(f, S) == [x \in DOMAIN f \cap S |-> f[x]]

(***************************************************************************)
(* Vec::position, remove, insert and retain.  Retained is SelectSeq of     *)
(* what is not in S, told by the ranks of what is kept.                    *)
(***************************************************************************)
Position(s, x) == CHOOSE i \in DOMAIN s : s[i] = x
RemoveAt(s, i) == [j \in 1 .. Len(s) - 1 |-> IF j < i THEN s[j] ELSE s[j + 1]]
InsertAt(s, i, x) ==
    [j \in 1 .. Len(s) + 1 |-> IF j < i THEN s[j] ELSE IF j = i THEN x ELSE s[j - 1]]

Kept(s, S) == {i \in DOMAIN s : s[i] \notin S}
Rank(K, i) == Cardinality({j \in K : j <= i})
Retained(s, S) ==
    LET K == Kept(s, S)
    IN  [k \in 1 .. Cardinality(K) |-> s[CHOOSE i \in K : Rank(K, i) = k]]

-----------------------------------------------------------------------------
(* The split tree *)

LeafTree(p) == [leaves |-> {p}, splits |-> [s \in {} |-> <<>>]]

\* SplitTree::split: the leaf becomes a split of itself and the new leaf.
SplitLeaf(l, target, new, split) ==
    LET grow(S) == IF target \in S THEN S \cup {new} ELSE S
    IN  [leaves |-> l.leaves \cup {new},
         splits |-> With([s \in DOMAIN l.splits |->
                            [first |-> grow(l.splits[s].first),
                             second |-> grow(l.splits[s].second)]],
                         split, [first |-> {target}, second |-> {new}])]

\* Mutant: the pane stays under the splits above its parent.
RemoveLeafShallow(l, target) ==
    [leaves |-> l.leaves \ {target},
     splits |-> Only(l.splits,
                     {s \in DOMAIN l.splits :
                         {target} \notin {l.splits[s].first, l.splits[s].second}})]

\* SplitTree::remove: the split that has the leaf for a child gives its place
\* to the other child.
RemoveLeaf(l, target) ==
    [leaves |-> l.leaves \ {target},
     splits |-> [s \in {x \in DOMAIN l.splits :
                            {target} \notin {l.splits[x].first, l.splits[x].second}} |->
                    [first |-> l.splits[s].first \ {target},
                     second |-> l.splits[s].second \ {target}]]]

\* SplitTree::leaves()[0]: the leaf that is under no second child.
FirstLeaf(l) ==
    CHOOSE p \in l.leaves : \A s \in DOMAIN l.splits : p \notin l.splits[s].second

-----------------------------------------------------------------------------
(* Where things are *)

PanesOf(w) == {p \in DOMAIN panes : panes[p].ws = w}
PaneOf(t) == CHOOSE p \in DOMAIN panes : t \in Elements(panes[p].tabs)
WsOf(t) == panes[PaneOf(t)].ws
TabsIn(P) == UNION {Elements(panes[p].tabs) : p \in P}
Terminals == {t \in DOMAIN tabs : tabs[t].kind = "terminal"}
Locate(s) == {t \in Terminals : tabs[t].session = s}
Visible(t) == activeWs = WsOf(t) /\ panes[PaneOf(t)].active = t

-----------------------------------------------------------------------------
(* Shells: SessionHost *)

\* spawn_shell, asked for the shell of the tab with this id.
SpawnFor(history) ==
    /\ nextSession \in Sessions
    /\ nextSession' = nextSession + 1
    /\ shells' = With(shells, nextSession, [history |-> history, killed |-> FALSE])

\* retire_tabs: the sessions of the terminals among these tabs are killed.
KillAll(S) ==
    [s \in DOMAIN shells |->
        IF \E t \in S \cap Terminals : tabs[t].session = s
        THEN [shells[s] EXCEPT !.killed = TRUE] ELSE shells[s]]

RetireTabs(S) == shells' = KillAll(S)

-----------------------------------------------------------------------------
(* Making and removing tabs *)

TabValue(kind, session) ==
    [kind |-> kind, session |-> session, unread |-> FALSE,
     status |-> IF kind = "terminal" THEN "running" ELSE "none"]

\* prepare_tab and into_tab.  The shell is started before any id is handed
\* out and is told the id read ahead (peek_id); `id' is the one handed out.
PrepareTab(kind, peeked, id) ==
    /\ kind \in TabKinds /\ Cardinality(DOMAIN tabs) < MaxTabs
    /\ IF kind = "terminal"
       THEN SpawnFor(peeked)
       ELSE UNCHANGED <<nextSession, shells>>
    /\ tabs' = With(tabs, id,
                    TabValue(kind, IF kind = "terminal" THEN nextSession ELSE NoId))

NewPane(w, tabSeq) ==
    [ws |-> w, tabs |-> tabSeq,
     active |-> IF tabSeq = <<>> THEN NoId ELSE tabSeq[1]]

\* Mutant: counts the next call as the first.
PeekIdFromOne(n) == nextId + n - 1

\* peek_id(n): the id the n-th next call of alloc_id will return.
PeekId(n) == nextId + n

\* clear_visible_unread: what a workspace shows when it comes into view is read.
Read(S) == [t \in DOMAIN tabs |->
                IF t \in S THEN [tabs[t] EXCEPT !.unread = FALSE] ELSE tabs[t]]
Shown(w) == {panes[p].active : p \in PanesOf(w)}

\* reset_agent_source: the tab that set the status of its workspace is gone.
ResetAgentSource(w, gone) ==
    agent' = [agent EXCEPT ![w] =
                IF @.source \in gone THEN [status |-> "idle", source |-> NoId] ELSE @]

\* collapse_pane, with the panes as they are after the tab was taken out.
CollapsePane(w, p) ==
    /\ layout' = [layout EXCEPT ![w] = RemoveLeaf(@, p)]
    /\ panes' = Only(panes, DOMAIN panes \ {p})
    /\ activePane' = [activePane EXCEPT ![w] =
                        IF @ = p THEN FirstLeaf(RemoveLeaf(layout[w], p)) ELSE @]

-----------------------------------------------------------------------------
(* Commands on workspaces *)

\* What belongs to these workspaces.
OfWorkspaces(f, ws) == Only(f, Elements(ws))

\* The new workspace takes an id, its pane the next and its tab, if one is
\* asked for, the third; it becomes the active one.
InsertWorkspace(tabSeq) ==
    LET w == nextId
        p == nextId + 1
    IN  /\ order' = Append(order, w)
        /\ layout' = With(layout, w, LeafTree(p))
        /\ panes' = With(panes, p, NewPane(w, tabSeq))
        /\ activePane' = With(activePane, w, p)
        /\ agent' = With(agent, w, [status |-> "idle", source |-> NoId])
        /\ activeWs' = w
        /\ UNCHANGED started

CreateWorkspace ==
    /\ nextId + 1 <= MaxId
    /\ nextId' = nextId + 2
    /\ InsertWorkspace(<<>>)
    /\ UNCHANGED <<tabs, nextSession, shells>>

CreateWorkspaceWithTab(kind) ==
    /\ nextId + 2 <= MaxId
    /\ PrepareTab(kind, PeekId(2), nextId + 2)
    /\ nextId' = nextId + 3
    /\ InsertWorkspace(<<nextId + 2>>)

SwitchWorkspace(w) ==
    /\ tabs' = Read(Shown(w))
    /\ activeWs' = w
    /\ UNCHANGED <<order, nextId, layout, panes, activePane, agent, hostVars>>

CloseWorkspace(w) ==
    LET rest == RemoveAt(order, Position(order, w))
        gone == TabsIn(PanesOf(w))
        kept == IF activeWs = w /\ rest # <<>> THEN Read(Shown(rest[1])) ELSE tabs
    IN  /\ order' = rest
        /\ activeWs' = IF activeWs # w THEN activeWs
                       ELSE IF rest = <<>> THEN NoId ELSE rest[1]
        /\ tabs' = Only(kept, DOMAIN tabs \ gone)
        /\ panes' = Only(panes, DOMAIN panes \ PanesOf(w))
        /\ layout' = OfWorkspaces(layout, rest)
        /\ activePane' = OfWorkspaces(activePane, rest)
        /\ agent' = OfWorkspaces(agent, rest)
        /\ RetireTabs(gone)
        /\ UNCHANGED <<nextId, started, nextSession>>

\* before = NoId: to the end.  Before itself is where it is.
MoveWorkspace(w, before) ==
    LET rest == RemoveAt(order, Position(order, w))
        at == IF before = NoId THEN Len(rest) + 1 ELSE Position(rest, before)
    IN  /\ before # w
        /\ order' = InsertAt(rest, at, w)
        /\ UNCHANGED <<activeWs, nextId, layout, panes, activePane, tabs, agent, hostVars>>

-----------------------------------------------------------------------------
(* Commands on panes *)

FocusPane(p) ==
    /\ activePane' = [activePane EXCEPT ![panes[p].ws] = p]
    /\ UNCHANGED <<order, activeWs, nextId, layout, panes, tabs, agent, hostVars>>

\* The pane takes an id, the split the next and the tab, if one is asked for,
\* the third.
InsertPane(p, tabSeq) ==
    LET w == panes[p].ws
        new == nextId
        split == nextId + 1
    IN  /\ layout' = [layout EXCEPT ![w] = SplitLeaf(@, p, new, split)]
        /\ panes' = With(panes, new, NewPane(w, tabSeq))
        /\ activePane' = [activePane EXCEPT ![w] = new]
        /\ UNCHANGED <<order, activeWs, agent, started>>

SplitPane(p) ==
    /\ nextId + 1 <= MaxId
    /\ nextId' = nextId + 2
    /\ InsertPane(p, <<>>)
    /\ UNCHANGED <<tabs, nextSession, shells>>

SplitPaneWithTab(p, kind) ==
    /\ nextId + 2 <= MaxId
    /\ PrepareTab(kind, PeekId(2), nextId + 2)
    /\ nextId' = nextId + 3
    /\ InsertPane(p, <<nextId + 2>>)

ClosePane(p) ==
    LET w == panes[p].ws
        gone == TabsIn({p})
    IN  /\ Cardinality(PanesOf(w)) > 1
        /\ CollapsePane(w, p)
        /\ ResetAgentSource(w, gone)
        /\ RetireTabs(gone)
        /\ tabs' = Only(tabs, DOMAIN tabs \ gone)
        /\ UNCHANGED <<order, activeWs, nextId, started, nextSession>>

-----------------------------------------------------------------------------
(* Commands on tabs *)

CreateTab(p, kind) ==
    /\ nextId <= MaxId
    /\ PrepareTab(kind, PeekId(0), nextId)
    /\ nextId' = nextId + 1
    /\ panes' = [panes EXCEPT ![p].tabs = Append(@, nextId), ![p].active = nextId]
    /\ UNCHANGED <<order, activeWs, layout, activePane, agent, started>>

ActivateTab(t) ==
    /\ panes' = [panes EXCEPT ![PaneOf(t)].active = t]
    /\ tabs' = Read({t})
    /\ UNCHANGED <<order, activeWs, nextId, layout, activePane, agent, hostVars>>

\* The tab that takes the place of a closed active one: the one before it, or
\* the one after it if it was the first.
Promoted(s, i) ==
    LET rest == RemoveAt(s, i)
    IN  IF rest = <<>> THEN NoId ELSE rest[IF i > 1 THEN i - 1 ELSE 1]

\* The tab an ending one brings into view, if its workspace is in view.
PromotedInView(p, active) ==
    IF panes[p].active # active /\ activeWs = panes[p].ws THEN {active} ELSE {}

CloseTab(t) ==
    LET p == PaneOf(t)
        w == panes[p].ws
        i == Position(panes[p].tabs, t)
        rest == RemoveAt(panes[p].tabs, i)
        active == IF panes[p].active = t THEN Promoted(panes[p].tabs, i)
                  ELSE panes[p].active
    IN  /\ tabs' = Only(Read(PromotedInView(p, active)), DOMAIN tabs \ {t})
        /\ IF rest = <<>> /\ Cardinality(PanesOf(w)) > 1
           THEN CollapsePane(w, p)
           ELSE /\ panes' = [panes EXCEPT ![p].tabs = rest, ![p].active = active]
                /\ UNCHANGED <<layout, activePane>>
        /\ ResetAgentSource(w, {t})
        /\ RetireTabs({t})
        /\ UNCHANGED <<order, activeWs, nextId, started, nextSession>>

-----------------------------------------------------------------------------
(* Restarting the shell of a tab *)

\* The terminals boot restores: running, with no session.
ToRestore == {t \in Terminals : tabs[t].session = NoId /\ tabs[t].status = "running"}
Respawnable == ToRestore \cup {t \in Terminals : tabs[t].status \in {"notStarted", "exited"}}

RespawnTab(t) ==
    /\ t \in Respawnable
    /\ nextSession \in Sessions
    /\ shells' = With(KillAll({t}), nextSession, [history |-> t, killed |-> FALSE])
    /\ nextSession' = nextSession + 1
    /\ tabs' = [tabs EXCEPT ![t].session = nextSession, ![t].status = "running"]
    /\ UNCHANGED <<order, activeWs, nextId, layout, panes, activePane, agent, started>>

\* The spawn fails: the old session is gone all the same.
RespawnFails(t) ==
    /\ t \in Respawnable
    /\ RetireTabs({t})
    /\ tabs' = [tabs EXCEPT ![t].session = NoId, ![t].status = "exited"]
    /\ UNCHANGED <<order, activeWs, nextId, layout, panes, activePane, agent,
                   started, nextSession>>

-----------------------------------------------------------------------------
(* Events of sessions and terminals *)

SessionExited(s) ==
    /\ s \in DOMAIN shells
    /\ started' = started \ {s}
    /\ shells' = Only(shells, DOMAIN shells \ {s})
    /\ tabs' = [t \in DOMAIN tabs |->
                  IF t \in Locate(s)
                  THEN [tabs[t] EXCEPT !.session = NoId, !.status = "exited"]
                  ELSE tabs[t]]
    /\ agent' = [w \in DOMAIN agent |->
                   IF agent[w].source \in Locate(s)
                   THEN [status |-> "idle", source |-> NoId] ELSE agent[w]]
    /\ UNCHANGED <<order, activeWs, nextId, layout, panes, activePane, nextSession>>

SessionStartupTimeout(s) ==
    /\ s \notin started
    /\ \E t \in Locate(s) :
          /\ tabs[t].status = "running"
          /\ tabs' = [tabs EXCEPT ![t].status = "notStarted"]
    /\ UNCHANGED <<order, activeWs, nextId, layout, panes, activePane, agent, hostVars>>

\* OscDelta, as far as the model tells deltas apart: the start marker, a bell
\* or notification, an agent status ("same": none).  One that carries several
\* of them is the sequence of those that carry one.
Quiet == [started |-> FALSE, unread |-> FALSE, status |-> "same"]
Deltas == {[Quiet EXCEPT !.started = TRUE], [Quiet EXCEPT !.unread = TRUE]}
          \cup {[Quiet EXCEPT !.status = st] : st \in {"running", "needsInput", "idle"}}

\* Mutant: the last report wins.
AgentAfterLast(a, t, status) ==
    IF status # "same" THEN [status |-> status, source |-> t] ELSE a

\* apply_delta, the status of the workspace: a workspace that waits for input
\* yields to the tab that made it wait and to another wait only.
AgentAfter(a, t, status) ==
    IF status # "same" /\ (\/ a.status # "needsInput"
                           \/ status = "needsInput"
                           \/ a.source = t)
    THEN [status |-> status, source |-> t] ELSE a

\* apply_delta, the tab itself.
TabAfter(t, d) ==
    [tabs[t] EXCEPT
        !.status = IF d.started /\ @ = "notStarted" THEN "running" ELSE @,
        !.unread = @ \/ (d.unread /\ ~Visible(t))]

\* apply_osc with one entry; a batch of several is a sequence of these.
ApplyOsc(s, d) ==
    /\ started' = IF d.started THEN started \cup {s} ELSE started
    /\ IF Locate(s) = {}
       THEN UNCHANGED <<tabs, agent>>
       ELSE \E t \in Locate(s) :
              /\ tabs' = [tabs EXCEPT ![t] = TabAfter(t, d)]
              /\ agent' = [agent EXCEPT ![WsOf(t)] = AgentAfter(@, t, d.status)]
    /\ UNCHANGED <<order, activeWs, nextId, layout, panes, activePane,
                   nextSession, shells>>

-----------------------------------------------------------------------------
(* The end of the application and its next start *)

\* remove_unknown_tabs: a pane that showed one of them shows its first tab, if
\* it has one left.
WithoutTabs(p, unknown) ==
    LET rest == Retained(panes[p].tabs, unknown)
    IN  [panes[p] EXCEPT
            !.tabs = rest,
            !.active = IF @ \notin unknown THEN @
                       ELSE IF rest = <<>> THEN NoId ELSE rest[1]]

\* Tabs of a kind this version does not know: a file written by another one.
MayBeUnknown == DOMAIN tabs \ Terminals

\* sanitize: no session outlives the application, and what the terminals had
\* reported is forgotten.
Sanitized(t) ==
    [tabs[t] EXCEPT !.session = NoId, !.unread = FALSE,
                    !.status = IF @ = "notStarted" THEN "running" ELSE @]

\* Workspace::validate, for the panes pns.  A split is known by its id here, so
\* that no two of a workspace have the same.
ValidWorkspace(w, pns) ==
    /\ layout[w].leaves = {p \in DOMAIN pns : pns[p].ws = w}
    /\ activePane[w] \in layout[w].leaves
    /\ \A p \in layout[w].leaves :
          pns[p].active = NoId \/ pns[p].active \in Elements(pns[p].tabs)

\* The claims of validate_app: no id names two things of whatever sort.
IdsDistinct(pns) ==
    LET splits == UNION {{w} \X DOMAIN layout[w].splits : w \in Elements(order)}
        placed == UNION {{p} \X DOMAIN pns[p].tabs : p \in DOMAIN pns}
        ids == Elements(order) \cup DOMAIN pns \cup {s[2] : s \in splits}
                 \cup {pns[t[1]].tabs[t[2]] : t \in placed}
    IN  Cardinality(ids) = Len(order) + Cardinality(DOMAIN pns)
                             + Cardinality(splits) + Cardinality(placed)

\* validate_app
ValidApp(pns) ==
    /\ IdsDistinct(pns)
    /\ \A w \in Elements(order) : ValidWorkspace(w, pns)
    /\ activeWs = NoId \/ activeWs \in Elements(order)

\* load: the state without the tabs of the kinds this version does not know,
\* and with what is left sanitized.  Their ids stay used up.
Restored(unknown) ==
    /\ panes' = [p \in DOMAIN panes |-> WithoutTabs(p, unknown)]
    /\ tabs' = [t \in DOMAIN tabs \ unknown |-> Sanitized(t)]
    /\ agent' = [w \in DOMAIN agent |-> [status |-> "idle", source |-> NoId]]
    /\ UNCHANGED <<order, activeWs, nextId, layout, activePane>>

Empty ==
    /\ order = <<>>
    /\ activeWs = NoId
    /\ nextId = 1
    /\ layout = [w \in {} |-> <<>>]
    /\ panes = [p \in {} |-> <<>>]
    /\ activePane = [w \in {} |-> NoId]
    /\ tabs = [t \in {} |-> <<>>]
    /\ agent = [w \in {} |-> <<>>]

\* The state file holds the last state (Saver); one that is not valid before
\* and after the unknown tabs are gone is put aside for an empty state
\* (fresh_corrupt).  The Dispatcher and the SessionManager of the next run
\* are new.
Restart(unknown) ==
    /\ IF ValidApp(panes) /\ ValidApp([p \in DOMAIN panes |-> WithoutTabs(p, unknown)])
       THEN Restored(unknown) ELSE Empty'
    /\ started' = {}
    /\ nextSession' = 1
    /\ shells' = [s \in {} |-> <<>>]

-----------------------------------------------------------------------------

Init ==
    /\ Empty
    /\ started = {}
    /\ nextSession = 1
    /\ shells = [s \in {} |-> <<>>]

WorkspaceCommand ==
    \/ CreateWorkspace
    \/ \E kind \in TabKinds : CreateWorkspaceWithTab(kind)
    \/ \E w \in Elements(order) :
          \/ SwitchWorkspace(w)
          \/ CloseWorkspace(w)
          \/ \E before \in Elements(order) \cup {NoId} : MoveWorkspace(w, before)

PaneCommand ==
    \E p \in DOMAIN panes :
        \/ FocusPane(p)
        \/ SplitPane(p)
        \/ ClosePane(p)
        \/ \E kind \in TabKinds : SplitPaneWithTab(p, kind) \/ CreateTab(p, kind)

TabCommand ==
    \E t \in DOMAIN tabs :
        \/ ActivateTab(t)
        \/ CloseTab(t)
        \/ RespawnTab(t)
        \/ RespawnFails(t)

SessionReport ==
    \E s \in 1 .. nextSession - 1 :
        \/ SessionExited(s)
        \/ SessionStartupTimeout(s)
        \/ \E d \in Deltas : ApplyOsc(s, d)

Next ==
    \/ WorkspaceCommand \/ PaneCommand \/ TabCommand \/ SessionReport
    \/ \E unknown \in SUBSET MayBeUnknown : Restart(unknown)

Spec == Init /\ [][Next]_vars

-----------------------------------------------------------------------------
(* Properties *)

\* Every variable has its type.
TypeOK ==
    /\ order \in Seq(Ids)
    /\ activeWs \in Ids \cup {NoId}
    /\ nextId \in 1 .. MaxId + 1
    /\ DOMAIN layout = Elements(order)
    /\ \A w \in DOMAIN layout :
          /\ layout[w].leaves \subseteq Ids
          /\ DOMAIN layout[w].splits \subseteq Ids
          /\ \A s \in DOMAIN layout[w].splits :
                layout[w].splits[s] \in [first : SUBSET Ids, second : SUBSET Ids]
    /\ DOMAIN panes \subseteq Ids
    /\ \A p \in DOMAIN panes :
          /\ panes[p].ws \in Ids
          /\ panes[p].tabs \in Seq(Ids)
          /\ panes[p].active \in Ids \cup {NoId}
    /\ activePane \in [Elements(order) -> Ids]
    /\ DOMAIN tabs \subseteq Ids
    /\ \A t \in DOMAIN tabs :
          tabs[t] \in [kind : TabKinds,
                       session : Sessions \cup {NoId}, unread : BOOLEAN,
                       status : {"none", "running", "notStarted", "exited"}]
    /\ agent \in [Elements(order) -> [status : {"idle", "running", "needsInput"},
                                      source : Ids \cup {NoId}]]
    /\ started \subseteq Sessions
    /\ nextSession \in 1 .. MaxSession + 1
    /\ \E S \in SUBSET Sessions : shells \in [S -> [history : Ids, killed : BOOLEAN]]

\* A family of splits is a binary tree over the leaves: some split covers all
\* of them unless there is one leaf, and each side of a split is a leaf or
\* what exactly one other split covers.
Covers(l, s) == l.splits[s].first \cup l.splits[s].second
SideIsTree(l, S) ==
    IF Cardinality(S) = 1 THEN \A s \in DOMAIN l.splits : Covers(l, s) # S
    ELSE Cardinality({s \in DOMAIN l.splits : Covers(l, s) = S}) = 1
IsTree(l) ==
    /\ l.leaves # {}
    /\ SideIsTree(l, l.leaves)
    /\ Cardinality(DOMAIN l.splits) = Cardinality(l.leaves) - 1
    /\ \A s \in DOMAIN l.splits :
          /\ l.splits[s].first \cap l.splits[s].second = {}
          /\ SideIsTree(l, l.splits[s].first)
          /\ SideIsTree(l, l.splits[s].second)

LayoutIntact ==
    \A w \in Elements(order) :
        /\ IsTree(layout[w])
        /\ layout[w].leaves = PanesOf(w)

\* A tab is in one pane, once; a pane with tabs shows one of them.
TabsPlaced ==
    /\ DOMAIN tabs = TabsIn(DOMAIN panes)
    /\ \A p \in DOMAIN panes :
          /\ panes[p].ws \in Elements(order)
          /\ Cardinality(Elements(panes[p].tabs)) = Len(panes[p].tabs)
          /\ IF panes[p].tabs = <<>> THEN panes[p].active = NoId
             ELSE panes[p].active \in Elements(panes[p].tabs)
          /\ \A q \in DOMAIN panes \ {p} :
                Elements(panes[p].tabs) \cap Elements(panes[q].tabs) = {}

\* No id is still to be handed out.
AllSplits == UNION {DOMAIN layout[w].splits : w \in DOMAIN layout}
IdsUsed ==
    Elements(order) \cup DOMAIN panes \cup DOMAIN tabs \cup AllSplits \subseteq 1 .. nextId - 1

\* What is in view carries no unread mark, on every path that brings a tab
\* into view (a switch, a closed workspace, an activated or promoted tab).
VisibleIsRead == \A t \in DOMAIN tabs : Visible(t) => ~tabs[t].unread

\* A workspace that shows an agent at work or waiting shows one of its own
\* tabs, which still exists: every path a tab goes by resets it.
SourceExists ==
    \A w \in Elements(order) :
        /\ agent[w].status # "idle" => agent[w].source # NoId
        /\ agent[w].source # NoId =>
             agent[w].source \in TabsIn(PanesOf(w)) \cap Terminals

\* After every command the state is one that the next start of the
\* application accepts, and more: the splits of a layout form a tree, a tab is
\* in one place, an id that is in use is not handed out again, what is in view
\* is read and a status belongs to a tab (validate_app, Workspace::validate,
\* load).
WellFormed ==
    /\ TypeOK
    /\ ValidApp(panes)
    /\ LayoutIntact
    /\ TabsPlaced
    /\ IdsUsed
    /\ VisibleIsRead
    /\ SourceExists
    /\ order = <<>> <=> activeWs = NoId

\* No shell is left behind and none is lost: a shell nobody asked to end is
\* the session of exactly one tab and writes the history file of that tab,
\* and the session of a tab is such a shell (SplitPane, CreateWorkspace and
\* CreateTab read the id of the tab ahead of handing it out).
ShellsOwned ==
    /\ \A s \in DOMAIN shells : ~shells[s].killed => Locate(s) = {shells[s].history}
    /\ \A t \in Terminals :
          tabs[t].session # NoId =>
             /\ tabs[t].session \in DOMAIN shells
             /\ ~shells[tabs[t].session].killed

\* A workspace that waits for input stops waiting only because the tab it
\* waits for reported, ended or went away, or because the application was
\* started again.
WaitEnds ==
    \A w \in Elements(order) \cap Elements(order') :
        agent[w].status = "needsInput" /\ agent'[w].status # "needsInput" =>
           \/ agent'[w].source = agent[w].source
           \/ agent[w].source \notin DOMAIN tabs'
           \/ tabs'[agent[w].source].session # tabs[agent[w].source].session
           \/ nextSession' = 1
WaitEndsBySource == [][WaitEnds]_vars

\* What events.rs says of the rule above: a workspace never shows an agent
\* of a tab whose shell is gone.
SourceIsAlive ==
    \A w \in Elements(order) :
        agent[w].source # NoId => tabs[agent[w].source].session # NoId
====
