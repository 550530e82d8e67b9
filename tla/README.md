# Formal models of mast (winmux)

mast is a terminal for Windows + WSL2 written in Rust (Tauri) and TypeScript: a
core crate `crates/mast-core` with the model and the PTY sessions, the
application glue `apps/mast/src-tauri`, the page `apps/mast/src`, and a remote
server for a phone, `crates/mast-remote`.  This directory holds TLA+ models of
the parts of it where several threads, callbacks or failures meet, the TLC
configurations that check them on small instances, and TLAPS proofs of the most
important results for every size.

Run `tlc -config <cfg> <module>` for a model (the runs are listed below and in
`PROJECT.json`) and `tlapm <Module>Proofs.tla` for the proofs.  `PROJECT.json`
also maps every definition to the lines it translates, lists for every property
a mutant (a plausible bug of that code, kept beside the definition it changes)
under which TLC finds the property violated, and lists the hazards the
properties are aimed at.

## 1. Inventory

### How the parts interact

    shell --PTY--> reader thread --TerminalSink--> channel --> TerminalView (page)
                      |   ^                                       |
                      |   +---- flow account <--- ack_output -----+
                      |
                      +-- replay buffer, modes --> phone (screen), new views
                      +-- sends, queries ------> pool of threads --> other shells
                      +-- OSC events --> OscRouter --(lock)--> Dispatcher (model)
    waiter thread -- on_exit -------------------(lock)----------^   ^   |
    startup watchdog -- on_startup_timeout -----(lock)--------------+   |
    commands of the user, boot wave, audits ----(lock)--------------+   |
                                                                        v
                              publish_state: snapshot to the page, Saver --> file

    phone --HTTP--> remote server (limiter, token) --> screen, input of a session
    input, focus, memory --> reset supervisor --> reload of the page
    launch --> provisioning --> script in each WSL distro

The *Dispatcher lock* guards the model (workspaces, panes, tabs).  Output and
acknowledgements never take it.  The registries (sessions, sinks) have locks of
their own, so that a tab, a registry entry and a shell can disagree for a while;
most of what can go wrong in this program happens in those whiles.

### Components

| Component | State | Operations | What makes it correct | Model |
|---|---|---|---|---|
| Flow account (`flow.rs`) | pending bytes, paused | on_sent, on_acked, reset | no leak, no pause without somebody who owes an ack | `FlowControl` |
| PTY session (`session.rs`) | replay buffer, modes, offset, flow, handles; reader, waiter, watchdog threads | read loop, kill, ack, reset_flow, reattach, screen_since, take_record | the reader always wakes; offset, buffer and sink agree | `PtyStream`, `Lifecycle`, `SessionModes`, `RemoteScreen` |
| Terminal sink (`sink.rs`) | slot with the channel, the tab it was made for | attach, detach, on_output, on_exit, on_startup_timeout, on_osc | nobody takes the channel of a live view; an exit leaves the right record and no trace | `PtyStream`, `Lifecycle`, `OscRouter`, `AgentChannel` |
| Terminal view (`attach-gate.ts`, `ack-batcher.ts`, `view.ts`) | queue, end offset, accumulated acks | attach, onChunk, onWritten, dispose | the screen is the stream, once and in order; every byte is acknowledged | `PtyStream` |
| View reconciliation (`view-reconcile.ts`, `workspace-view.ts`) | live views, swept sessions | render | sessions in no view are swept once | `PtyStream` (one session) |
| Saver (`persist.rs`) | slot, deadline, generations; worker | schedule, flush, drop, save_atomic | the file is whole, only moves forward; flush returns | `Saver`, `DurableState` |
| Session lifecycle (`host.rs`, `session.rs`, `deadline.rs`) | registries, ids, deadline of a spawn | spawn, adopt, late clean-up, kill | no zombie shell, every tab attachable, every exit reported | `Lifecycle` |
| Registry audit (`audit.rs`, `command/audit.rs`) | exits in flight | run_audit | repairs faults, never a normal moment | `Lifecycle` |
| Exit records (`record.rs`) | a file per tab | write, remove, sweep | the record is a screen of its tab | `Lifecycle` |
| OSC router (`router.rs`, `notify.rs`) | pending batch, closed; worker | push, flush_now, drop | the last event of a field reaches the tab, none a dead one | `OscRouter` |
| Boot wave (`boot.rs`) | - | respawn tabs one by one | as the lifecycle | `Lifecycle` (as respawns) |
| Workspace model (`command.rs`, `mutations.rs`, `tabs.rs`, `events.rs`, `layout`, `model.rs`, `load`) | workspaces, layout trees, panes, tabs, active ids, marks, agent status | commands, session events, OSC deltas, restart | tree and panes agree, ids are fresh, a visible tab is read, waiting for input is visible, shells have a tab | `Workspace` |
| Replay buffer (`replay.rs`) | chunks, evicted | push, snapshot, bytes_from | a suffix of the stream within its cap; a delta is exact | `ReplayBuffer` |
| OSC and mode scanner (`osc.rs`) | automaton, bounded buffer | feed, parse | the events a program meant, however its output is cut | `OscScanner`, `SessionModes` |
| Terminal modes (`session.rs`) | values of tracked modes | apply_mode_event, preamble | a new terminal ends in the modes of the old one | `SessionModes` |
| Remote screen (`handlers.rs`, `poller.ts`, `protocol.ts`, `tab-view.ts`) | epoch, offset, schedule | poll, pause, resume, 409, 429 | the phone shows the stream of one session and catches up | `RemoteScreen` |
| Remote input (`input-queue.ts`, `handlers.rs`) | queue, request in flight | push, drain, fail | no Enter without its text, nothing twice | `RemoteScreen` |
| Remote server (`server.rs`, `ratelimit.rs`, `token.rs`) | threads, limiter, token file | accept, head, check, handle, stop, start | threads counted, guesses bounded, a pairing lasts | `RemoteServer` |
| Idle reset (`reset.rs`, `reset_supervisor.rs`) | idle, hidden, memory, cooldown, alarm | signals, scan, poll, sleep | misses no deadline, repeats no reload | `IdleReset` |
| Provisioning (`provision.rs`) | claims; the distro's files and markers | ensure, script step by step | one setup per launch, retried until complete, the user's lines kept | `Provision` |
| Agent channel (`sink.rs`, `queries.rs`, `send.rs`, the `mast` CLI) | slots, requests, reply files | send, ls, colour query | what is typed reaches the tab addressed, slots are counted, answers are whole | `AgentChannel` |
| Page store, viewers, capture, git, paths, updates, firewall, diagnostics, dialogs | | | | not modelled, see section 7 |

### Hard behaviours

* **Interleaving**: six kinds of thread around a session (reader, waiter,
  watchdog, spawn thread, router worker, main thread), a pool for the requests
  of agents, a thread per connection of the phone, and two pages whose calls are
  asynchronous and which may be reloaded or closed at any moment.
* **Order**: attach response against frames; detach of one view against attach
  of the next; the exit of a shell against its own registration; the report of
  the watchdog against the marker it missed; two batches of terminal events; the
  text of a line against its Enter.
* **Timeouts and retries**: process creation under a deadline that comes late; a
  tab that is retried while its old shell still dies; a poll answered after its
  view was closed, paused or given another shell; a setup tried again.
* **Failure**: sends to a dead channel, saves that fail or panic, requests lost
  on the way in or out, a setup script cut off, the end of the process or the
  machine in the middle of a save.
* **Liveness**: a reader asleep on a condition variable four parties notify; a
  flush on the exit path; exits that wait for a lock somebody holds during a
  spawn; a worker that sleeps until a deadline it has to compute.

## 2. Modules

| Module | Role | Run |
|---|---|---|
| `FlowControl` | the account as a record and operators; used by `PtyStream` | |
| `PtyStream`, `MCPtyStream` | one session, its sink, the main thread and the page: the output path | `pty_stream` |
| `PtyStreamProofs` | its inductive invariant and five theorems | |
| `DurableState` | abstract specification: the disk holds a state that existed and only moves forward | |
| `Saver` | the debounced saver, crashes and boots; implements `DurableState` | `saver` |
| `Lifecycle`, `MCLifecycle` | many sessions and tabs: spawn, exit, close, audit, records, watchdog | `lifecycle` |
| `LifecycleProofs` | its inductive invariant and five theorems | |
| `OscRouter`, `MCOscRouter` | batches of terminal events and the exit path | `osc_router` |
| `Workspace` | the model of workspaces, layouts, panes and tabs, and the shells it owns | `workspace` |
| `WorkspaceProofs` | its inductive invariant and five theorems | |
| `ReplayBuffer` | the recent output of a session as operators; used by `RemoteScreen` and `SessionModes` | |
| `RemoteScreen` | a terminal tab on the phone: polls and inputs | `remote_screen`, `remote_input` |
| `RemoteServer` | threads, limiter, token and life of the remote server | `remote_server` |
| `RemoteProofs` | the remote surface: the inductive invariants of `RemoteScreen` and of `RemoteServer`, three theorems on each | |
| `IdleReset` | the policy and the worker of the automatic reload | `idle_reset` |
| `IdleResetProofs` | its inductive invariant and three theorems | |
| `Provision`, `MCProvision` | the setup of a WSL distro, step by step | `provision` |
| `DiskProofs` | what is kept on disk: the inductive invariants of `Saver`, with six theorems and the refinement, and of `Provision`, with three | |
| `OscScanner` | the automaton that finds sequences in the output, as operators; used by the next two | |
| `SessionModes`, `MCSessionModes` | what a session remembers of the modes of its terminal | `session_modes` |
| `ModesProofs` | its inductive invariant and two theorems, with the lemmas about the scanner | |
| `AgentChannel`, `MCAgentChannel` | `mast send`, `mast ls` and colour queries between shells | `agent_channel` |
| `OscProofs` | what becomes of the sequences a reader finds: the inductive invariants of `OscRouter` and of `AgentChannel`, three theorems on each | |

The models share the waiter and the reader only at their edges: `PtyStream`
looks at one session closely and has its end as two steps (`ChildExit`,
`CloseMaster`); `Lifecycle` has no output, and starts where the waiter thread
reports the end; `OscRouter` has spawn and exit only as far as they hold the
lock or let go of a tab; `Workspace` has what each of these does to the model
once it holds the lock; `SessionModes` and `RemoteScreen` use the same buffer,
the one for the page's next terminal and the other for the phone; `AgentChannel`
and `SessionModes` use the same scanner.

### PtyStream and FlowControl

`flow` is `FlowControl`; `bytesOut`, `killed`, `masterOpen`, `childAlive` are the
session; `readerPc` and `hand` the reader thread; `slot` the channel in the sink
(a view is named by its number); `ctl` the attach and detach commands the page
issued and the main thread has not finished, `mainPc` which half of the first one
is done; the rest the page: the live view, whether it has its attach response, the
frames in its channel and its gate, and where each byte that still has to be
acknowledged is (`unwritten`, `acc`, `flying`, `stale`).

One action is one region under the session lock or one task of the page.
`ReaderCheck` to `Rollback` are `reader_loop`; `ChildExit`, `Kill`,
`CloseMaster` the end of a session; `AttachSink`/`Reattach` and
`DetachSink`/`DetachReset` the two commands, each in its two steps;
`RenderShow`, `RenderSweep`, `Dispose`, `Reload` what a render or a user makes of
the view; `ReceiveEarly`, `ReceiveKept`, `ReceiveDiscarded`, `Snapshot`,
`Written`, `FlushTimer` the callbacks of the view.

The page is asynchronous but its commands `attach` and `detach` are synchronous
Tauri commands: they reach the main thread in the order they were issued.  An
`ack_output` may be overtaken, also by the detach of its own view and the attach
of the next (`StaleAck`).

### Saver and DurableState

An action is a region under the slot lock or a step of `save_atomic` (write,
sync, rename).  A state is its generation.  Time is one bit, whether the deadline
of the pending state has passed (`Ripen`).  `disk` and `tmp` are files with a
content and a flag whether it survives a power loss; a content written and not
synced does not, which is why the order of `SaveSync` and `SaveRename` matters.
`Crash` ends the process, `PowerLoss` the machine; both are followed by the boot,
which takes the whole file or starts from nothing.

### Lifecycle

`status`, `session`, `started` are the model; `sessions`, `sinks`, `nextId` the
registries; `spawning` and `auditPc` say who holds the Dispatcher lock (every
other region under it is one step); `spawnPc` is the thread
`call_with_deadline` starts, which goes on when the command has given up;
`shell` is the life of a shell and, after its death, the next step of its waiter
thread in `on_exit`: take the record, ask under the lock whether the tab carries
the session, write, mark the exit, apply it, let go of the sink, of the session,
and of the mark.  `doomed` holds the orphans an audit found and releases after
it gave the lock back.  `record` and `deleting` are the files and the threads
that delete them.

### OscRouter

`batch` is the pending batch under the router's own lock, `hand` what the worker
took, `exitHand` what `flush_now` took.  Events of a field are numbered in the
order the reader found them; the last one wins.  Two fields stand for all:
`cwd`, which a tab keeps when its shell ends, and `status`, which is reset.  A
session that is `starting` stands for a command that keeps the Dispatcher lock
during a spawn, so that a batch with the first events of a shell waits until the
tab has it.

### Workspace

`order`, `activeWs`, `layout`, `panes`, `activePane`, `tabs` and `agent` are
`AppState`; `nextId` its one counter of ids; `shells` the sessions the host has
started and whose end is not reported, each with the tab whose history file it
was given.  A command is one action, because it runs under the Dispatcher lock;
one that fails changes nothing and is none, except `RespawnFails`, which leaves
the tab as not started.  A layout is a set of leaves and, for every split, the
panes on each of its sides: `SplitLeaf` and `RemoveLeaf` are the two changes of
the tree.  `CreateWorkspaceWithTab` and `SplitPaneWithTab` start a shell for a tab
whose id is not handed out yet (`PeekId`).  `SessionExited`,
`SessionStartupTimeout` and `ApplyOsc` are the reports; `Restart` is the end of
the application and the next start, which may not know the kind of some tabs,
drops them, repairs what showed them and validates the rest.

### ReplayBuffer and RemoteScreen

A byte of output is named by its session and offset, so that a repetition, a
hole or another shell's byte shows.  `Push`, `Snapshot` and `BytesFrom` are the
buffer's three methods.  `tab`, `stream`, `dead`, `paired` and `typed` are the
desktop; `view` the protocol state and the terminal, `sched` the schedule,
`poll` the request under way, `queue`, `post`, `pending` and `box` the inputs.
A poll goes through `PollArrives` (the handler reads the session of the tab
and asks it for what is new), `PollAnswered` (it reads the size of the tab) and
`PollSettles` (the page applies the answer, or drops it because the view has
another generation).  Any request may be refused with 429, or lost before or after
it did something (`PollFails`, `PostFails`).  `Restart`, `CloseTab`, `Resize`,
`Unpair` and the user's steps happen in between.

### RemoteServer

`app` is the run of the application: the steps of its start (`LoadToken`,
`WriteToken`, `RenameToken`, `Serve`), on, down or failed; `file` and `tmp` the
token's files, which a power cut may tear; `token` what the run compares with.
`conn` is each connection: in the backlog, or the stage its thread is in.  One
action is one stage of `handle`: first check of the limiter, head (which may be
refused, or late), second check, failure, body, the handler.  The limiter's
`entry` is shared by the threads under its lock.  `told` is history: the
failures that were answered 401, each with its connection and the time at which
it was found, which is before the limiter's lock and the order of recording.

### IdleReset

`on` is what the environment leaves on.  The policy's instants are kept as ages
and times left, which is what its comparisons see: `sinceInput`, `hiddenFor`,
`sampleIn`, `cooldown`.  The worker's loop is `BeginScan`/`SkipScan`, `EndScan`,
`PollFires` or `PollSleeps`, `Reloaded`, `Wake`; the signals are one action
each; `Tick` is time, which stands still while the worker can run without
waiting for the operating system.

### Provision

`up`, `version`, `wsl`, `asked`, `claimed` are the application; `file`, `settings`,
`codex`, `agents`, `markers` the distro, and `fileTmp`, `settingsTmp`, `codexTmp`,
`agentsTmp`, `agentsNew` what lies beside these files.  `Ensure` is
`ensure_provisioned`, asked for a distro by name and as the default one.

The script is a process with a place.  It outlives the application, it stops at
any place (`Fails`), and the script of the next launch may run at the same time.
What it does to a file are the steps of the code, one action each:

| File | Reads | Opens beside it | Writes | Moves in place |
|---|---|---|---|---|
| installed files | | `OpenTmp` | `WriteTmp` | `MoveTmp` |
| `settings.json` | `MergeHooks` | `OpenSettings` | `DumpSettings` | `ReplaceSettings` |
| `config.toml` | `CodexNotify` | `OpenCodex` | `WriteCodex` | `ReplaceCodex` |
| `AGENTS.md` with a block | `AgentsBlock`, `AwkPrints` | `OpenAgents`, `OpenNew` | `AwkPrints`, `CatNew` | `Refresh`, `RemoveTmp` |
| `AGENTS.md` without | `AgentsBlock`, `CatAll` | `OpenAgents` | `CatAll` | `AddBlock` |

The names beside the files are the same for all scripts.  Opening truncates what
is there (`Half`, `Cut`, `"cut"`, no lines); a script's `handle` says where the file
it has open is by now, beside its place, in it, or replaced; what it writes goes
there.  A move without a file to move ends the script.  The user saves any of the
three files of theirs between any two steps (`EditSettings`, `EditCodex`,
`EditAgents`); `raced` remembers that it was a file the script had read and not yet
replaced.

`config.toml` is the kind of its notify line, with what the code does to each
(`Rewritten`): with tomllib (`python` is `"new"`) it is left alone if it does not
parse or the result would not; without, one without tables gets a line, parsing
or not, and one with tables is refused.

### OscScanner and SessionModes

`Feed` is one byte of the automaton, the parsing of what it found in operators
of their own.  `pipe` is what the program wrote and nobody read; `scanner`,
`modes` and `replay` the session; `view` the terminal of the page.  What a sequence
means is said by whoever wrote it (`Sayings`), never computed by the scanner:
`meant` is the terminal as the program wants it, `meantEvents` what it reported.
`Say`, `Read` (a chunk of any allowed size, cut anywhere), `Open` (a new
terminal: modes, then recent output) and `Close` are the actions.

### AgentChannel

`session`, `status`, `title` are the tabs; `call` what each call of the CLI is
doing; `out` the output of each session, which its reader reads (`ReadRequest`:
take a slot or drop the request); `tasks` the pool, in no order; `input` what was
typed into each session.  A task resolves its target (`ResolveTask`), then writes
(`WriteTask`): in between the tab may be renamed, closed or started again.  The
reply of `mast ls` is a file created, filled and renamed by the pool and waited
for, taken or given up by the caller.

## 3. Runs: what each shows

All runs are expected to pass.

| Run | Configuration | Checks |
|---|---|---|
| `pty_stream` | `MCPtyStream.cfg` | `NeverStranded`, `StreamIntact`, `ReaderWakes`, `ScreenCatchesUp` |
| `saver` | `MCSaver.cfg` | `FlushedUnlessFailed`, `NothingLeftBehind`, `ImplementsDurableState`, `FlushReturns` |
| `lifecycle` | `MCLifecycle.cfg` | `Attachable`, `AuditQuiet`, `OnlyOwnScreen`, `MarkerWins`, `NoZombie` |
| `osc_router` | `MCOscRouter.cfg` | `NothingLost`, `PersistedUnlessCrossed`, `Delivered` |
| `workspace` | `MCWorkspace.cfg` | `WellFormed`, `ShellsOwned`, `WaitEndsBySource` |
| `remote_screen` | `MCRemoteScreen.cfg` | `ScreenFollows`, `PhoneCatchesUp` |
| `remote_input` | `MCRemoteInput.cfg` | `ScheduleAlive`, `EnterAfterText` |
| `remote_server` | `MCRemoteServer.cfg` | `ConnsCounted`, `FewRefusals`, `PairingLasts`, `ConnectionsEnd` |
| `idle_reset` | `MCIdleReset.cfg` | `SleepMissesNothing`, `NoNeedlessReset`, `ResetsHappen` |
| `provision` | `MCProvision.cfg` | `OneSetupPerLaunch`, `MarkerMeansInstalled`, `UserContentKept`, `RetriedUntilInstalled` |
| `session_modes` | `MCSessionModes.cfg` | `EventsAsMeant`, `ReloadRestoresModes` |
| `agent_channel` | `MCAgentChannel.cfg` | `ReachesOnlyTheAddressed`, `SlotsCounted`, `AnswerIsWhole` |

**Output path.**  The screen of an attached view is the stream without gap or
repetition, whatever the order of attach response, frames, output and commands
(`StreamIntact`); a sleeping reader always has somebody who will wake it
(`NeverStranded`, `ReaderWakes`), also after a reload that destroyed the view
without `dispose`; a view that stays draws everything (`ScreenCatchesUp`).

**Saver.**  It implements `DurableState`: whatever ends the process or the
machine, the file holds a state that existed and never goes back.  `flush` always
returns, and only a failed save can make its promise void; a saver closed in
order leaves nothing behind.

**Lifecycle.**  Every tab with a session can be attached to, every exit of an
adopted session is reported, no record of another session is written over the
screen of a tab, an audit never takes an ordinary moment for a fault, and no
shell outlives its tab, even if process creation returns after its deadline, or
never.  As a consequence of `Attachable` and `AuditQuiet`, two branches are
unreachable short of a fault outside the model: the repair of dangling tabs in
`audit_registries`, and the exit of an adopted session whose record cannot be
taken (`sink.rs:231-237`).

**Router.**  No event is lost between reader and tab, also when the batch is
taken or the tab is adopted at the same moment; an orderly exit saves what came
before it unless it meets the worker with a batch in hand.

**Workspace.**  After any series of commands and reports the state is one the
next start accepts, and more than that start checks (`WellFormed`); a shell
nobody asked to end belongs to exactly the tab whose history file it has
(`ShellsOwned`); waiting for input ends only by the tab that waited
(`WaitEndsBySource`).

**Remote screen and input.**  The phone shows an unbroken piece of one session's
stream in the modes that stream has set, through evictions, restarts, resizes,
pauses and lost answers, and if left alone it catches up.  The schedule is never
stuck and never doubled.  An Enter is read only after its text and nothing twice.

**Remote server.**  The counter is the number of threads on every way a
connection can end; an address gets no more than `MAX_FAILURES` answers 401 in the
window that lasts, however many requests are under way at once, as long as the
table has room for all that failed; a pairing survives every
interrupted start; every connection ends, but for one that waits for a shell
to take its input.

**Idle reset.**  The worker's alarm is never later than what it has to do; one
hiding causes one reload, and no reload answers a measure of the memory taken
before the last; a pending watchdog and a window that stays hidden are served.

**Provisioning.**  One setup per launch and distro, so that two overlap only when
the application is started again while the first still runs.  Unless two have
overlapped, a marker is there only over a complete installation no older than
itself (`MarkerMeansInstalled`), and hooks, notify line and lines of `AGENTS.md` of
the user's stay, wherever setups are cut off, but for what the user saves between
a script's reading of a file and its replacing of it (`UserContentKept`).  No event
gets a second hook, overlapping or not.  A setup that was cut off is tried again
until its marker is there (`RetriedUntilInstalled`), unless overlapping ones have
left a `settings.json` that does not parse: it is never overwritten, so only the
user can end that.

**Modes.**  Events and remembered modes are what the program meant, however the
reads cut its output; a new terminal and the record of an ended session end in
the same modes as one that saw everything.

**Agent channel.**  What is typed for a call reaches only a tab of the caller's
workspace, never the caller, and the numbered tab if a number was given, also
when tabs are closed, renamed or started again between resolution and write.
Slots are counted; `mast ls` reads a whole answer or none.

### Where the code and its documents differ

Met while modelling.  Each is a definition kept in its module that states the
document; none is in a run's list, and each is false in the model by the steps
given here.

* `Provision!TextOutsideUntouched`: `docs/WINDOWS-BUILD.md:1101` says that text of
  the user's outside the managed block must be untouched.  The setup of a distro
  runs, the application is started again, and its setup opens
  `AGENTS.md.mast-tmp` (`provision.rs:1377-1381`) after the first has printed into
  it and before it copies it (`provision.rs:1382`): the copy has the block alone,
  and is moved in place.  The same names serve for `settings.json` and
  `config.toml` (`provision.rs:1172-1178`, `1329-1333`), which may be cut short.
* `Provision!InsertionNeedsTomllib`: `scripts/wsl/claude-hook-example.md:91` says
  that without tomllib insertion is refused entirely.  `provision.rs:1323` refuses
  it only in a file with tables.
* `Saver!FlushedIsOnDisk`: the comment on `flush` (`persist.rs:598`) promises
  that all earlier schedules are on the disk on return.  The worker acknowledges
  a generation whose save failed (`persist.rs:660, 684-691`).
* `Lifecycle!NeverAnOlderScreen`: ADR-0018 (line 308) says a record undone by a
  late write costs disk residue, not a wrong screen.  `on_exit` checks the
  adoption and writes later without a lock (`sink.rs:217-225`): the shell of a
  restored tab ends and its waiter passes the check; the user retries the tab;
  the new shell ends and its record is written; then the first waiter writes the
  older screen, which the exited tab shows.
* `OscRouter!LastIsPersisted`: ADR-0006 (line 31) says `flush_now` before the
  flush of the saver persists the last cwd and status.  A batch the worker has
  taken and not applied is neither seen nor waited for (`router.rs:138, 175`).
* `Workspace!SourceIsAlive`: `events.rs:204-208` says that every path by which a
  tab dies resets the status it is the source of, lest a dead tab wait for input
  for ever.  A respawn that fails is not among them and leaves the source on a tab
  without a shell.  Also, a second tab that waits for input
  becomes the source and hides the first (`events.rs:178`), where decision 4 of
  ADR-0006 lets waiting end only by its own tab.
* `RemoteScreen!EnterMeetsItsText`: decision 6 of ADR-0016 and
  `input-queue.ts:16-17` promise that no input is typed into a shell the phone
  was not looking at.  The session is read when an input is sent, not
  when it is queued (`tab-view.ts:428-432`), so that a text and its Enter go to
  two shells if the page learns of a restart between the two requests.
* `RemoteScreen!FailedTextReturns`: the comment `tab-view.ts:74-76` promises that
  a text which could not be sent comes back.  Only the last Send is remembered
  (`tab-view.ts:411`).
* `SessionModes!RememberedIsRight` without `SayingsAssumption`: a mode reset in a
  CSI sequence longer than `MAX_CSI_BYTES` is dropped (`osc.rs:133-135`) and stays
  remembered as set.  The assumption leaves such sequences out of what a program
  says; those too long for a payload are in.
* `AgentChannel!EnterFollowsText`: the CLI (`provision.rs:581-582`) and
  `SKILL.md:36` say the application writes a send as soon as it arrives.
  `deliver_send` hands it to a pool without an order (`sink.rs:371`), so Enter can
  be written before its text, or to another tab if the title was given to
  another one in between.

Further observations that no document contradicts: an idle watchdog over its
limit after every cooldown leaves no turn to the other triggers; a block in
`AGENTS.md` whose end marker is missing takes the lines after it along
(`provision.rs:1373-1384`, though the comment near 1346 promises to keep them);
two setups that overlap (of two launches) may leave an older file, or one of the
user's cut short, under a marker; what the user saves between the setup's reading
and replacing of `settings.json`, `config.toml` or `AGENTS.md` is lost; a power cut can tear the token file, which is
not synced, and the server then refuses to start until the user deletes it; the limiter forgets an
address when its table is full; `mast ls` that gives up leaves its reply file
behind; a send whose text is too long is dropped while its Enter is sent.

## 4. Bounds

| Run | Bounds | Why they are enough |
|---|---|---|
| `pty_stream` | chunks of 1 and 2 bytes, `High` 3, `Low` 1, acknowledgement at 2, 4 bytes, 2 views, 1 reload | the account passes both marks; the second view has a predecessor whose commands and acks are still under way |
| `saver` | 2 callers of flush, 3 schedules, 1 crash | a schedule before, during and after a write; two flushes with different targets; crash and boot |
| `lifecycle` | 1 tab, 2 sessions, empty boot, session 1 with marker and watchdog | one shell can die, hang or come late while the tab is retried with the other, closed or judged by an audit; any number of tabs is in the theorems |
| `osc_router` | 2 sessions; two `cwd` and one `status` event of one, one `cwd` of the other | two events show their order; the second session holds the lock while the first prints |
| `workspace` | 6 ids, 3 tabs at a time, 2 shells in a run of the application, any number of restarts | two workspaces with a tab, or one with two panes and a split, next to tabs without a shell |
| `remote_screen` | buffer of 2 bytes, reads of 1 and 3, line end at 1, a mode on at 0 and off at 2, 3 bytes, 2 sessions, 2 sizes, close and hide, 1 fault | a read larger than the buffer, an eviction with the mode behind it, a restart and a resize under a poll |
| `remote_input` | 2 sessions, 2 uses of a control, 1 fault, all four events, no output | a Send of two requests next to another input, either lost in either direction |
| `remote_server` | 3 connections, 2 addresses, `MaxConnections` 2, `MaxFailures` 1, window of 1 tick, room for 1 address, 2 tokens, 3 starts, one of them served | a connection too many, two guesses at once, an address that has to make room; a start that fails before the one that pairs and one after it |
| `idle_reset` | idle 4, hidden 3, sample 2, safe 2, cooldown 5, every choice of triggers; time unbounded | all thresholds differ and the cooldown outlasts a period and two scans, as the defaults of 300 and 60 seconds do |
| `provision` | 2 names, 1 file, 1 event, 2 versions, 1 failure, 2 scripts, 1 save, 8 kinds of distro | a setup cut off, tried again and overtaken by that of an update; every kind of configuration that is rewritten, refused or left alone; a save before, between and after reading and replacing |
| `session_modes` | 3 sayings of 9 kinds, reads of 2 and 3 bytes, 2 tracked modes of 3, buffer of 15, 1 new terminal | a sequence cut at every byte; one mode too many; an eviction past what set a mode |
| `agent_channel` | 3 tabs in 2 workspaces, 2 calls, 1 slot, 4 sessions, 2 changes | two requests for one slot; a restart and a rename between resolution and write |

Two constraints on steps keep `provision` small (`MCProvision`).  `InTurn`: scripts
are started in order, which is the symmetry of their set.  `Scenes`: setups overlap
in the bare distro only, and the user saves files in the others only.  Once setups
have overlapped, `UserContentKept` claims nothing, and `MarkerMeansInstalled` only
that no event has two hooks; the theorems have neither constraint.

`CHECK_DEADLOCK FALSE` is set wherever the programs really stop or the bounds are
used up: a session ends and its page stays idle, a saver is closed, the process
exits.  The worker of `IdleReset` never stops, and its run checks for deadlock.

## 5. Fairness

* **Output path** (`PtyStream!Fairness`): threads that can run do, the waiter
  drops the master of a dead child, synchronous commands and acks are executed,
  callbacks and the timer of the page fire, a loading page renders.  None for
  the shell writing or ending, for a read to end while the master is open (on
  Windows it does not), for the user, or for a reload.
* **Saver**: the worker runs, the clock passes, a woken or timed-out caller
  runs.  None for spurious wakeups, failures, panics, crashes.
* **Lifecycle**: the waiter and spawn threads run, a command waits no longer
  than its deadline, a killed shell ends, an audit that holds the lock finishes.
  None for process creation returning, shells ending by themselves, markers or
  commands.  Weak fairness for the lock is enough since the bounded commands
  leave it free for good in the end; the platform's lock is not fair, so for an
  endless stream of commands this is an assumption.
* **Router**: the worker and the exit path run, and a spawn ends by its
  deadline.
* **Remote screen**: the timers of the page expire, a request that is not lost
  is answered, callbacks run.  None for shells, faults or the user.
* **Remote server**: the accepting thread and the thread of each connection run,
  which includes that their deadlines pass.  None for the phone, the user, or a
  shell that takes its input.
* **Idle reset**: weak for the worker; strong for time, which the model stops
  while the worker is runnable: signals come a finite number of times in a unit
  of time, so it is enabled again and again and passes.
* **Provisioning**: the scripts run; the user ends and starts the application
  again and again with WSL in order, and keeps it open long enough, again and
  again, for its task to run.  This is what "tried again by the launches that
  follow" supposes of the user; none for failures to happen or not.
* `Workspace`, `SessionModes`, `AgentChannel` and the run `remote_input` claim
  safety only.  In particular no liveness is claimed for the agent channel: a
  write to a shell that does not read holds its slot for as long as it blocks.

## 6. Proofs

Assumptions: `WaterMarks` (`Low <= High`, as `FlowControl::new` asserts),
`DistrosAssumption` (before the first setup no event has two hooks that run the
script: a user who wired two by hand has them reported twice, and the setup does
not remove one), `AgentsAssumption` (before the first setup no line of the user's
stands in `AGENTS.md` behind a begin marker that nothing has ended: awk would take
it for the block's), and otherwise that constants are numbers and sets of the right
kind (`PtyStreamConstants`, `SaverConstants`, `LifecycleConstants`,
`OscRouterConstants`, `ConfigAssumption`, `BufferAssumption`, `RemoteAssumption`,
`RemoteServerAssumption`, `BoundsAssumption`, `WorkspaceAssumption`,
`ModesAssumption`, `ReplayAssumption`, `SayingsAssumption`, `ChannelAssumption`).  The last one
also says what the CLI and the coding of words ensure: the target of a send
contains no semicolon (`cmd_send` refuses one), and ids, words, texts and paths
are different words, which is why there are at most 99 tabs and calls in it.
`SayingsAssumption` says what a saying is: one sequence, whole or broken off, with
an ESC of its own at the beginning, which a scanner with nothing under way takes for
what it is meant to be (for nothing, if it is broken off or its payload is too long).  `ReplayAssumption` asks for
a buffer that holds a sequence, a read and the window of the trimming
(`replay_cap` is 1 MiB, the others 64, 16 and 4 KiB), and `ModesAssumption` for a
limit of a CSI that admits the number of a mode.  All other bounds are arbitrary.

* **`PtyStreamProofs`**: `TypeCorrect`, `NoLeak`, `NoStrandedReader`,
  `SlotIsKept`, `ScreenIsTheStream`.  That no charged byte is forgotten (`Accounted`) is not
  inductive: that a byte is in exactly one place needs to know who owns the sink
  slot while commands are under way (`OwnerInv`: the last command, or the slot,
  names the live view) and that the frames in flight are a run without gap
  (`RunInv`), which turns "the bytes in the channel" into a difference of two
  offsets.  The last theorem (`StreamIntact`) adds where the drawing of a view
  ends (`Drawn`): the snapshot of its attach response ends between two frames, at
  `EndMark`, the frames kept begin at `Front`, and the drawing ends at the later
  of the two.  A frame that begins before the mark then lies wholly before it
  (`Unstraddled`), so that discarding it loses nothing and drawing the next one
  repeats nothing.
* **`DiskProofs`**, of the saver: `TypeCorrect`, `AtomicSave`, `FlushHonest`,
  `FlushNotForgotten`, `NothingIsLeft`, `DebounceSurvivesFlush`, `Refinement`.
  The invariant says which generation is in the slot, in the worker's hands, in
  the temporary file and on the disk at each step of a save, and that a sleeping
  worker owes nobody a write.
* **`LifecycleProofs`**: `TypeCorrect`, `AlwaysAttachable`,
  `AuditsSpareTheLiving`, `OwnScreens`, `StartedIsStarted`.  The invariant says,
  of every session, in whose hands it is (a command under its deadline, the
  spawn thread after it, a tab, its waiter) and which steps of its exit are done;
  each registry is then known to hold it or not.
* **`OscProofs`**, of the router: `NoEventLost`, `DeadTabsStayQuiet`,
  `ExitPersists`.  The batch is newer than the hands and a hand newer than the
  tab, as long as at most one party has a batch in hand; an event of a session
  without a tab cannot have been applied; and what the exit path owes (`Due`) is
  in the batch, in its hand or applied.
* **`OscProofs`**, of the agent channel: `SlotsAreCounted`, `SendsStayInside`,
  `AnswersAreWhole`.  None of the three is inductive.  Tasks can be counted as
  slots because a call makes each of its requests once (`Made`) and a request
  waits in one place, the output of its caller's session or the pool (`Waiting`,
  `Working`): otherwise two requests could be one task.  A send stays inside its
  workspace because a session keeps the tab it was started for (`Owners`), so
  that the session found under the lock is at the write still one of that tab, or
  closed.  What a task found is about its own call, which needs what the reader
  makes of a payload: the lemmas from `ExtensionCuts` to `Understood` show
  that the scanner takes a request apart into the fields it was put together
  from.  An answer is whole because it is fixed under the lock, the temporary
  file has it when it is renamed, and the empty file that reserved the name is
  gone before the request is made (`Replies`).
* **`WorkspaceProofs`**: `Invariant`, `StateIsWellFormed`, `ShellsAreOwned`,
  `NextStartAccepts`, `WaitsForItsSource`.  What the next start validates
  is not inductive: the agreement of tree, panes and tabs needs that the leaves of a
  layout are its panes and every split has something on both sides (`Layouts`),
  that a tab is in one pane at most and the ids are below the counter (`Placed`,
  `Sorted`), that the tab a workspace shows was read (`ShownRead`), that the source
  of a waiting status is a tab of that workspace (`Sources`), and that a running tab
  and its shell name each other (`Running`).  `WaitsForItsSource` is an action
  property: a step that ends waiting for input is one of the tab that waited.
* **`IdleResetProofs`**: `TypeCorrect`, `NothingIsMissed`, `NoneIsNeedless`.  The
  alarm is the least of the deadlines when the worker goes to sleep, and time
  brings each nearer by what it takes from the alarm (`Quiet`); a hiding that has
  not fired had no reload (`Hiding`); a stale measure is replaced before the
  cooldown ends (`Freshness`), which needs a cooldown longer than a sampling
  period and two scans.  The last theorem has that as its hypothesis.
* **`RemoteProofs`**, of the screen: `ScreensFollow`, `ScheduleStaysAlive`,
  `EntersFollowTexts`.  The first is not inductive: what the page draws next
  depends on what is on the way to it, and that on the buffer.  The invariant
  (`ScreenInv`) says that a buffer holds the end of what its session wrote and
  knows the mode all of it has set (`Holds`), that the page has drawn a stretch of
  that stream up to the offset it asks from (`Drawn`), and that an answer that
  still counts stands for itself or goes on at that offset (`Fits`); one that was
  overtaken may say anything.  It rests on lemmas about the buffer: what eviction
  leaves is the end of the stream (`PushHolds`), and a terminal that is given the
  mode of a stream and then reads its end once more stays in it (`ModeAgain`).
  The inputs: each use of a control has one place at a time, the queue, the
  request under way or what shells read (`Once`), and an Enter leaves the page
  when its text was read (`Ordered`), because the queue sends nothing after an
  input that failed.  The schedule: a poll, a timer, or a reason for neither
  (`Alive`).
* **`RemoteProofs`**, of the server: `CounterIsRight`, `PhonesStayPaired`,
  `RefusalsAreFew`.  The threads are counted with the theorems of finite sets; the
  token's part says whose token the file holds at every step of a start.
  `RefusalsAreFew` compares the answers an address was given with the failures the
  limiter remembers of it: as long as no more addresses failed than the table
  holds, each answer of the window is among them, and an entry at its limit
  refuses.
* **`DiskProofs`**, of the setup: `OneSetup`, `MarkersAreTrue`, `KeepsUserContent`, from
  `SetupInvariance`.  As long as no two scripts have overlapped, there is one at
  most (`Alone`), and what it relies on is its own doing (`Mine`): what it has open
  has not been moved, what lies beside a file is what it has written there, and
  that is what it read, brought up to date, which is still in place unless the
  user saved the file since (`raced`).  `FilesMine`, `SettingsMine`, `CodexMine` and
  `AgentsMine` say so of the four kinds of file, at each place of the script.  With
  it what is in place is whole, and no older than any marker (`Whole`), since
  versions never pass the application's (`Ahead`, `Versioned`).  A script that is
  cut off takes none of that back, and the next one begins by opening, so it uses
  nothing that was left.  That no event has two hooks holds without the condition:
  what is read was in place, and merging adds a hook only where there is none
  (`Single`).  awk prints all lines of the user's, by induction over the lines:
  while it skips, a block is open, and no line of the user's follows before its
  end; and what it prints has no block in it (`IsPrinted`, `PrintedIs`).
* **`ModesProofs`**: `SinkIsTold`, `ReloadIsFaithful`.  Two stretches of output are
  scanned as one (`FeedJoined`), so it does not matter where reads cut it.  What
  the sink was told, followed by the events of what nobody has read yet
  (`SinkInv`), is what the program meant, because every saying begins with an ESC
  and an ESC ends whatever was under way (`SayingScanned`).  What is remembered is
  right of what was read, and complete as long as the modes fit (`KeepsIs`).  The
  rest is about a terminal that has not seen all of the output.  The preamble
  leaves it with what is remembered and nothing under way (`PreambleIs`).  What the
  snapshot shows is an end of the output no shorter than any sequence
  (`SnapshotRecent`), so that the terminal has missed at most the beginning of
  one; and from the first ESC on its scanner is in step with one that has read
  everything (`EndsAll`, `InStepFeeds`).  Of a mode, events leave it alone or
  force a value on it (`EventsEffect`): terminals that agree on it go on to do so,
  and one that has it as it is at the end has it still when it is shown the end
  once more (`ShownAlike`), which is why the preamble may come before output that
  is older than it.

Proved and in no run, because they are what the properties of the runs rest on or
say nearly the same: `Accounted`, `AttachedHoldsSlot`, `DiskIsWhole`, `FlushIsServed`,
`EarlyOnlyWhenAsked`, `DeadTabIsQuiet`, `Accepted` (whatever kinds of tabs the next
version does not know, what is left of the file is valid), and the type invariants.

Induction.  The provers cannot instantiate the library's induction theorems,
which take an operator as their parameter.  What a concatenation or a stretch of
a stream is, for every length, is proved from the least number for which it would
fail (`Least`, `Greatest` and `Induction` of `RemoteProofs` and `ModesProofs`,
`SeqInduction` of `DiskProofs`, from the well-order of the natural numbers); a fold is a table over the prefixes of its
sequence, one step per element (`FoldFollows`).

Only model-checked: all liveness properties (fairness and `ENABLED` are out of the
provers' reach).  Every safety property of the runs is proved.

## 7. Not modelled, and why

Within the modelled parts:

* `PtyStream`: an attach to an unknown session (an error and nothing else), the
  resize nudge after an attach, interrupted reads, scroll restore; a kill that
  waits for the lock of the writer behind a write that blocks.
* `Saver`: two instances of the program at once; whether the rename itself
  reaches the disk (the code does not sync the directory); the version check and
  the copies `load` sets aside.
* `Lifecycle`: a process whose `PtySession::spawn` fails after it was created
  (what becomes of it depends on a library); two writers of the same temporary
  record file; the size cap of a record that is read; the pacing of the boot wave.
* `OscRouter`: a batch dropped because the application state is gone; parsing of
  URIs and tokens; messages and sticky flags.
* `Workspace`: names, titles, paths, ratios and scroll offsets, and the four
  commands that change nothing else.  The revision and the page's store: every
  publication carries the whole state and the store compares one number.
* `RemoteScreen`: what a terminal draws; the list of workspaces; the keyboard;
  the refusals for a session that has not started or is not registered.  A write
  to a dead shell is refused at once, in the code once its writer is dropped.
* `RemoteServer`: the parser of HTTP and what the handlers answer; an unread body
  that is drained after a refusal; an error of accept other than an interruption,
  which ends the loop.
* `IdleReset`: how memory is measured and the window reloaded (platform calls);
  `reset_now`, which bypasses the policy.
* `Provision`: the texts of the installed scripts (versions), and that a distro's
  name may be written in two cases, or the default fail to resolve once, which
  gives it a second claim.  A text is written in one step after its file was
  opened: of two scripts that write to the same open file the later text stands,
  where they could be mixed.  A `cat` of a file that is there does not fail by
  itself while the block below it is written.
* `SessionModes`: output that reaches the page late (it is `PtyStream`'s), base64
  and percent encoding.  Modes are independent of one another; the terminal of the
  page keeps one mouse mode and one encoding of those it was given last, which the
  preamble, in ascending order, need not name last.
* `AgentChannel`: the letters of a title or a text; the cleaning of a sent text.

Not at all: parsing and rendering without state between calls (`capture.rs`,
`wslpath.rs`, `git.rs`, diffs), platform calls (`update.rs`, `firewall.rs`,
windows, identity), read-only diagnostics, presentation (viewers, sidebar,
splitter, dialogs), and the prototype `apps/spike`.

## 8. Plan

Done: the output path, the saver, the lifecycle and the router with their proofs,
down to the stream an attached view shows; the workspace model, and proofs that
the next start accepts what it leaves behind; the phone's screen, input and
server; the automatic reload; provisioning; scanner and modes; the agent channel;
proofs about the phone's screen and inputs, the server with its limiter, the
reload, the setup, the channel, the scanner and the modes.

Next, in this order:

1. An abstract specification of the phone's screen (a suffix of the stream of
   the running session) that `RemoteScreen` implements.
2. The viewers' late answers, and the boot wave with its list of distributions.
