# Verification of acp-runtime

TLA+ models of the runtime library of this repository (`src/runtime`) and of its
simulator agent (`packages/simulator-agent`): what the runtime promises to hosts
that run turns on sessions with an ACP agent, model-checked with TLC on small
instances and, but for liveness, proved with TLAPS for every instance. Every
invariant and every action property that a run finds true is also a theorem,
some under a hypothesis named in section 5. Paths below are relative to the
repository; `src/runtime/acp/driver.ts` is written `driver.ts` where no other
file has that name.

    tlc -config driver_queue.cfg MCSessionDriver      check one run
    tlapm SessionDriverProofs.tla                      check the proofs of a module

`PROJECT.json` lists the runs, the lines of code each definition stands for,
for each property a mistake in the code that it detects, the disagreements
between code and documents, and the hazards.

## 1. The system

A *host* (a product, the CLI) asks `AcpRuntime` for a *session*, by starting,
loading, resuming or forking one. Behind the session is a *driver*, which owns
an agent process and speaks ACP (JSON-RPC over standard input and output) with
it. The host starts *turns*: a prompt, and a stream of events until exactly one
terminal event. Between prompt and answer the agent sends updates and asks for
permissions; they become events of the turn and entries of the session's
*timeline*. Sessions are remembered in a JSON file which several runtime
processes share, and so is the cache of agents they may launch.

| component | state | operations | interacts with | hard | what makes it correct |
|---|---|---|---|---|---|
| turn engine, `driver.ts` | status, queue policy, pending turns, current turn, per turn: events, terminal event, cancel/timeout/denial flags, timer | startTurn, cancelTurn, sendQueuedTurnNow, withdraw/clearQueuedTurns, setQueuePolicy, setAgentMode/ConfigOption, close; timeouts; end of a stream; permission requests; the answer | host (calls, streams, watchers), agent (requests, notifications) | every await is a place where the host calls; cancel names no turn; late answers | one prompt at a time, in order; each turn one terminal event, last; nobody waits for nothing; a cancel hits what it was meant for |
| session sharing, `core/runtime.ts`, `core/session.ts`, `core/concurrency.ts`, `session-service.ts` | activeSessions, closingSessions, pendingOpens, a refCount per entry | start, load, resume, fork; close of a handle; failures of each step | driver (created, closed), registry (rememberSnapshot), agent | opens, closes and failures of one id interleave at every await | the driver lives exactly as long as somebody holds it; one driver per id; every call returns |
| session registry, `registry/session-registry.ts`, `session-registry-store.ts` | in memory: entries, running and next batch, retained deletions; on disk: entries, lock file | hydrate, rememberSnapshot, deleteSession(s), saving a batch | other processes, through the file | crashes, stale locks, failing files, changes during a save | what a caller was told is saved is in the file; no entry of another process is lost; deletions are not forgotten |
| agent launch registry, `registry/agent-launch-registry.ts` | cached registry with its age, fetch in flight, binaries' directories, lock file | fetch, cache, download, extract | network, other processes | crashes in an extraction, stale locks, versions that change meanwhile | the binary returned is the one listed, whole; none is overwritten |
| update delivery and permissions, `authority-bridge.ts`, `session-update-mapper.ts`, `turn-state.ts` | buffered updates, SerialActor, operations, denials and requests of a turn | sessionUpdate, requestPermission, the host's decision, the answer | agent, driver, host, timeline | updates wait for terminals, answers and permissions overtake them | stream and thread tell the same; what was said in an ended turn is frozen; a permission has one answer, which fits the turn's result |
| normalisation of updates, `session-update-normalizer.ts` | none | checks and repairs a notification | driver | malformed updates | what is refused reaches nothing |
| timeline and read models, `core/session-timeline.ts` | entries, operations, requests, terminals, diffs, history | append, upsert, complete, seal, drain, watch | driver, host | the same terminal is written by updates and by host calls | objects agree with the thread and with what happened |
| agent process, `stdio-connection.ts` | child process, exit promise, connection, stage of dispose | spawn, request, exit, staged termination | operating system | exit during a request, signals that are ignored, descendants with the pipes | a dead agent ends all requests; dispose ends and leaves nothing |
| initial configuration, `core/initial-config.ts`, `core/config-options.ts` | report, options known of the agent | mode and option requests in order | driver, agent | one change undoes another; one of several requests fails | the report says what is in force |
| authentication, `core/authentication-utils.ts`, `session-service.ts` | none | choice of a method, one request | host, agent | failures between spawn and session | a failure leaves no process |
| simulator agent, `simulator-agent.ts` | sessions in files, live prompt, remembered permissions, faults to come | initialize, new, load, resume, fork, settings, prompt, cancel, close | client, its disk | cancel, close, kill and saves between the steps of a prompt | what was answered is stored; a remembered permission was given; a fault strikes once |
| profiles, logs and traces, CLI, harness | | | | | no part of what the runtime promises |

## 2. Modules

### Turn engine

`TurnService` is the promise, in six actions: a turn is submitted, waits, holds
the agent, gets one result; waiting turns may be merged into another's prompt or
dropped; closing gives everything a result.

`SessionDriver` is the engine. JavaScript runs one piece of code at a time, so
an action is what runs between two awaits. Two gaps inside a start are visible
and are stages of a turn:

* `starting`: the prompt is on the timeline, `session/prompt` is not sent.
  Nothing runs here but watchers of the timeline, which may call the session
  (`HostMayCall`, environment `watcherCalls`).
* `settling`: the answer was handled and the promise of the turn resolved, the
  finally block of `runQueuedTurn` has not run. Host code runs, timers do not.

| variables | code |
|---|---|
| `status`, `policy`, `pending`, `current` | `statusValue`, `queuePolicyValue`, `pendingTurns`, `currentTurn` with `currentTurnExecution` |
| `stage`, `prompt` | how far `startTurn` .. `runQueuedTurn` got; the turns merged into one prompt |
| `outcome`, `events`, `closedStreams` | `hasTerminalEvent` and which event; what `AsyncEventQueue` was given; that it is closed |
| `cancelRequested`, `timedOut`, `denied`, `timer` | `ActiveTurn.state`, the timeout of `installTimeoutHandlers` |
| `wire`, `working`, `answer`, `connected` | agent: messages in order on its standard input, what it works on, its answer, life of the process |
| `arrived`, `promoted`, `asked`, `sent`, `hit` | history, read by properties only |

One action per method of the driver that changes this state, one each for
timer, end of a stream, denial, answer and finally block, and five for the
agent and its connection. Of the details: only the events `queued`, `started`
and the terminal one are kept; permission requests are there as far as their
denial decides the result; an agent that the close request has not ended is
ended by `Dispose`. `cancelTurn` of any turn but the current one returns false
and is no step. A call to `close` of a closed session is no step. A prompt or
answer that fails because the connection is gone is an error.

### Session sharing

`SessionManager` is `AcpRuntime` for one session id; different ids share nothing
but the maps. A call (`load`, `resume`, `start`, `fork`) goes through `call`, the
creation of a driver through `job`; a driver is named after the call that
created it. `load` and `resume` of an active session take its entry, otherwise
they join the one operation that `pendingOpens` (SingleFlight) runs. `start` and
`fork` create a driver under an id the agent chooses, and no other call can know
that id before the agent has answered (`Known`). An await of a settled promise is
part of the step that ends it. A failing configuration, file, agent or close is a
step of its own, enabled by the environment. That a failing start hears of it
only when its driver is closed is left out: nothing depends on it.

`SharedSession` is the promise to those who load or resume, without counts, maps
and promises: one driver is made for all that wait, shared by those who hold it
and closed with the last of them, and the next is made when it has ended.
`SessionManager!Shares` maps the one to the other. The promise is no better than
the code: a driver whose registration fails stays open (`Refuse`), a failing
configuration closes one whose end nobody waits for (`Discard`), and who has been
given a driver but holds no handle yet may lose it (`Leave`, `Discard`).

### Session registry

`FileLock` is the lock file protocol, the same in `session-registry-store.ts` and
`agent-launch-registry.ts`: create with `wx`, else stat, remove a stale file,
wait, try again or give up; the finally block removes the path. `old` says that
the file has reached 30 s. `stolen` is history: somebody inside had its lock file
removed as stale, because it was slow or because the remover's stat had seen an
older file. Nothing in the code keeps that from happening, and the properties of
both registries say what holds until it does.

`SessionRegistry` adds the entries: each process has its copy (`cache`), at most
two batches (the running one and the next), retained deletions, the image given
to the running save; the file has an `updatedAt` per session, 0 for none. An
entry is its `updatedAt`, which is all that merging looks at. `hydrate` is one
step: what it read may be outdated after it anyway. Time is `now`, moved by
`Tick`. Watchers, listing and the public `save()`, which no code calls, are left
out.

### Launch registry

`LaunchRegistry` is `resolveAgentLaunch` for one agent that is published in
growing versions, called from several processes. `fetching` is
`registryFetchInFlight`, `cache` the file with the age its modification time
gives it, `at` how far a call is; `archive` gives for each version the directory
name made of its archive's file name, which the registry chooses and two versions
may share; `dir` is what is in each directory: a version, partly or wholly
extracted. The lock is `FileLock`
by `INSTANCE`, contended for by calls. The lock that `persistRegistryCache` takes
for the registry's file is not a second instance: that file is replaced by rename,
best effort, so a step that succeeds or not stands for it.

### Updates, permissions, read models

`UpdateMapping` is a module of operators: what the normaliser refuses (`Accepted`)
and repairs (`Normalized`), and what `session-update-mapper.ts` makes of an
update, a permission request, a decision and an answer, as functions from the
state of a turn to its next state and the events for the host. `n` names a
payload, `sound` is FALSE where a required field is missing.

`SessionTimeline` is `AcpRuntimeSessionTimeline`: a record, and a function for
each method that changes it. `told` is what watchers have been given. Terminals
are there with the fields the code merges (`status`, `exit`, `completedAt`,
`stopRequested`, `released`), diffs with their tool call.

`Conversation` puts them together with the authority bridge and the driver's
handlers: the agent writes messages (`inbound`), an update becomes a job of the
SerialActor (`jobs`) or waits in `buffered` until the driver exists, a job that
shows terminals waits for the host, which reads them one at a time and in any
order (`ReadOutput`, `EndJob`), permission requests wait for the host's decision (`asking`, `told`), the answer ends the turn
(`ReceiveAnswer`), a timeout or an abandoned stream ends it before (`EndEarly`),
and the host calls its terminals (`CallTerminal`, `TerminalReturns`).
`handleSessionUpdate` looks at its turn twice, with an await between: `Write`, at
the start of a job or when its terminals were read, is the first look and what it
writes to the thread; `TellHost` the second, with the events or the history. Only
host code can come between, as microtasks run before the next message is read or
a timer fires (`ActorRests`). A chunk that is no text, or an empty one
(`blank_text`, `blank_thought`), is an event and part of the output and leaves
nothing in the thread. Turns follow one another; their queue is `SessionDriver`'s.

### One opening, its agent and its configuration

`AgentProcess` is the child process as the runtime sees it: exit, end of output
and close, where close needs both and that no descendant has the pipes (`held`);
`onExit` settles at close. Requests that race with it go from `pending` to
`guarded` (the connection is closed, the reason is waited for) to their failure.
`disposal` is the stage of `terminateAgentProcess`.

`InitialConfig` has the decisions of `initial-config.ts` as operators: candidates
with aliases, the steps in order, what each reports. `Effects` is the agent: a
mode may change the option of that name, the model or the effort, an option one
that comes later in the order. The driver learns of the agent's options from the
answers to `session/set_config_option`, and only of the mode from that to
`session/set_mode`, as the code does; what an agent announces by itself during
the opening (`config_option_update`) is left out.

`SessionOpening` extends both with one opening: spawn, initialize,
authentication, the session request, configuration, registration, a prompt, and
close, or the listing of the agent's sessions. `SessionManager` has all this as
one step that succeeds or fails.

### Simulator agent

`Simulator` is a prompt as a script of steps (`Script`), each from one await to
the next, so that kills, cancels, closes and settings fall between them. `live`
is the session's object, `file` what is on disk, `saves` the at most two
`saveSession` under way. `Opening` is what comes before the action: a title, which
a prompt that is a slash command goes without, and the fault that was queued. A
step that sends updates appends to `prompt.tool` and
`prompt.plan` what the client sees, which the fault flags distort. `told` records
what the client was answered. One process serves one session and processes follow
one another, as with the runtime.

### MC modules

One for each of `SessionDriver`, `SessionManager`, `SessionRegistry`,
`LaunchRegistry`, `Conversation`, `SessionOpening` and `Simulator`, with the
symmetry sets, agents, updates and environments of the configurations. Turns with
and without timeouts are interchangeable among themselves, so are loads,
processes, and ids; no symmetry is used where liveness is checked.

The *slips* in the modules are no part of the specifications. Each is a
definition with a mistake somebody could make in that code, and `PROJECT.json`
names the property that fails with it.

## 3. Runs

All runs have `CHECK_DEADLOCK FALSE`: a host may stop calling, and every turn,
call or process has an end.

| run | instance | properties |
|---|---|---|
| driver_queue | 3 turns, no timeouts, both policies; answers endTurn, error; 242 k states | `OneActiveTurn`, `CancelHitsOnlyAsked`, `CancelNotLost`, `QueueOrder`, `CoalescedCarried`, `NoWorkAfterClose`, `Refines` |
| driver_reentrant | 2 turns with timeouts, every environment, all answers; 547 k | `DroppedNeverPrompted`, `NoStrandedTurn`, `StreamShape` |
| driver_live | 2 turns, one with a timeout, connection loss, fair | `AnsweredTurnsSettle`, `TimedTurnSettles`, `ClosedSessionStops` |
| manager_shared | 1 start, 3 loads, every failure | `ActiveIsOpen`, `RefCountExact`, `SiblingsSurvive` |
| manager_reopen | 4 loads, failing agents and closes, fair; 67 k | `NoDriverLeaked`, `ReopenWaitsForClose`, `Shares`, `EveryOpenReturns` |
| registry_shared | 2 processes, 2 ids, 2 time stamps, crashes, slow holders, failing files, deletions, until a lock is stolen; 1.8 M | `LockExclusive`, `ConfirmedIsStored`, `DeletionKept`, `NoEntryLost` |
| registry_live | 2 processes, 1 id, crashes, failing files and lock removals, fair | `EveryCallReturns` |
| conversation | a load and 2 turns; 5 kinds of updates, 1 permission request, 1 terminal, 2 tool calls that change the same file, 2 messages beside the answers; 1.6 M | `DecisionsKept`, `ThreadIsStream`, `ReplayWhole`, `ObjectsTrue`, `EndedThreadFrozen` |
| opening | 4 agents, 4 lists of methods, with and without an authentication handler, mode with an alias, model required, effort; fair; 24 k | `LeavesNothing`, `ReportTrue`, `DeathIsNoticed`, `DisposeReturns` |
| simulator | 2 sessions, 4 of the actions (one uses all tools), 4 faults, 3 moves of the client, kills and closes, fair; 829 k | `AnsweredIsStored`, `RulesAreGiven`, `RegularUnlessStruck`, `CancelReturns` |
| launch | 3 calls, 2 in one process, 2 versions with one archive name or two, crashes, failing files and lock removals, garbage bodies; 1.1 M | `BinaryIsRight`, `WholeStays` |
| driver_denial | 2 turns, denials, all answers | `DenialDecidesOutcome`, violated |

Bounds and why they are enough:

* *Three turns* are needed for order: one runs while two wait, and a merge of two
  with one running. A timeout concerns the turn alone or the turn and its
  successor: two turns.
* `MaxWire` bounds host calls that write to an agent which does not read. Two
  messages are the prompt and the cancel that may overtake or miss it. Messages
  the driver itself sends (the prompt, the cancel of a timeout) are not bounded.
* *Four calls*: a driver with two handles, one that closes, and one that reopens
  while it closes; or a start, and loads before, during and after a close.
* *Two processes*: a save interleaves with one other, which may be dead or slow.
  `MaxStamp` 2 has an older and a newer entry of a session. The constraint
  `NotStolen` cuts registry_shared off where a process loses its lock: three of
  its four properties say nothing of what follows, and the fourth,
  `DeletionKept`, is proved with it. Two waiting processes and a dead owner,
  where stat and rm race, need a third process (launch has three calls).
* `MaxWrites` 2 in conversation, beside the answers of the load and of the
  prompts: an update that waits for a terminal and one behind it, a permission
  request and a tool call, two texts, two tool calls that change one file. That
  tool calls which share a terminal, and any longer exchange, do no harm is proved.
* *Three moves* in simulator: a prompt that queues a fault, the prompt it strikes
  and a cancel, close or kill; kills and restarts need no move afterwards.
* *Three calls* in launch: one that prepares, one that waits for its lock and
  one that joins a fetch; two versions: the one listed before and after.

Fairness:

* `EventLoopFairness` (driver): the event loop runs the continuations it has,
  messages on a pipe are read, timers fire, and `close` gets to `dispose`, because
  it waits for the agent at most a second. Nothing says that the agent answers;
  that is a premise of `AnsweredTurnsSettle` only.
* `SessionManager!Fairness`: requests of an opening end, by answer or failure;
  files are written or fail; `driver.close()` settles. Handles need never close.
* `SessionRegistry!Fairness`: a live process goes on. For `NoLock` it is strong:
  a waiting process gives up after 5 s, and the wait is entered again and again.
* `SessionOpening!Fairness`: the operating system reports what has happened,
  timers fire, nothing survives SIGKILL, continuations run. An agent need neither
  answer nor exit by itself, a descendant need not let go of the pipes, and the
  host's authentication handler need not return: the properties name these.
* `Simulator!Fairness`: steps of a prompt and saves go on, and a client answers
  what it is asked, as the runtime does when it cancels a turn. A client that
  never decides leaves the prompt waiting, cancelled or not.

## 4. Disagreements found

`driver_denial` is a run that ends with a counterexample. The others are
properties stated in the modules and listed in no configuration: add the name to
the configuration given here, and TLC finds what is described. (`CopyFollows` and
`UpdatesStayInTurn` look at history variables that the VIEW of the configuration
leaves out: take that line away.)

* `DenialDecidesOutcome`: after a denied permission an error answer gives
  `AcpProcessError`, not the `AcpPermissionDeniedError` RFC 0002 section 10 asks
  for in every case (`driver.ts:1217-1240`). What holds: `DecisionsKept`.
* `NoWorkAfterClose`, driver_reentrant: a watcher that closes the session inside
  `appendPrompt` does not stop the start around it; the prompt is sent to the
  agent after close (`driver.ts:1084-1103`). RFC 0002 section 5 says that a closed
  session executes no further turn. Without watcher calls it does not
  (driver_queue).
* `HandleHasDriver`, manager_reopen: `load` and `resume` of an active session count
  their handle after an await; a close in between closes the driver and the call
  returns a handle on it (`runtime.ts:265-295`). What holds: a handle that was counted never loses its
  driver to another (`SiblingsSurvive`).
* `NoDriverLeaked`, manager_reopen with `o4` in `Starters`: `releaseSession`
  reuses the promise of an earlier close of the id and never closes the newer
  driver (`runtime.ts:811-820`). It takes a start that is overtaken by a load of
  its id; with loads and resumes alone it does not happen.
* `NoEntryEverLost`, registry_shared with three processes, one id and crashes
  only, without `NotStolen`: after a crash in the lock, two waiting processes can
  both remove "the stale lock", the second one the fresh lock of the first, and
  one save overwrites the other (`session-registry-store.ts:167-178`). A holder
  that needs 30 s loses its lock in the same way with two processes. What holds:
  `NoEntryLost`, until then.
* `NoStaleBinary`, launch: the directory of a binary is named after the last
  component of its archive's URL (`agent-launch-registry.ts:146-153`, `:251`), so
  two releases with the same archive name share it and the first one's binary is
  taken for the second. What holds: it is from an archive of that name
  (`BinaryIsRight`).
* `RequestsKept`, conversation: permission requests are counted per turn and
  stored per session, so the first request of a turn takes the place of the first
  of the turn before (`turn-state.ts:35`, `session-timeline.ts:641`).
* `CopyFollows`, conversation: `completeTurn` changes entries and tells no watcher
  (`session-timeline.ts:579`); a host's copy shows the message as streaming.
* `CompletedStays`, conversation: an update of a tool call writes the old items of
  its content again, and a completed terminal is running once more
  (`session-timeline.ts:777`).
* `BundleWhole`, conversation: a terminal or diff belongs to the last tool call that
  showed it; the bundle of an earlier one that still shows it does not have it
  (`session-timeline.ts:777-819`). What holds: it is found under a tool call that
  shows it (`ObjectsTrue`).
* `UpdatesStayInTurn`, conversation: an update that waits in the SerialActor while
  its turn ends is given to the next turn (`driver.ts:869`). What holds: it does
  not change what was said in the ended one (`EndedThreadFrozen`).
* `AlreadySetTrue`, opening: `setAgentMode` notes the mode alone, so if the mode
  decides the model, the next step compares with the model of before and reports
  "already-set" of a value no longer in force (`driver.ts:614-632`,
  `initial-config.ts:191`). What holds: `ReportTrue`, which leaves out an
  already-set behind a mode that was applied.
* `NothingUnregistered`, opening: a start whose registration fails leaves its
  driver and agent running (`runtime.ts:225`, `:720`).
* `FailsOnlyIfDifferent`, opening: the mode is set in two ways,
  and the start fails if one of them fails though the other has set it
  (`initial-config.ts:76`, `:139`): set `Required` to `{"mode"}`.
* `DenyBlocks`, simulator: a write or a command looks at the mode, announces its
  tool and looks again whether to ask (`simulator-agent.ts:2035`, `:2115`,
  `:1513`); a switch to deny in between lets it run unasked.
* `FaultStrikesOnce`, simulator: a crash strikes again after each restart, because
  the file still holds it (`simulator-agent.ts:1177`).
* `CancelHeard`, simulator: a cancel that comes while a hang is being announced is
  not heard, and the prompt hangs for ever (`simulator-agent.ts:1212`).

Seen while modelling: a cancel that a watcher makes during a start is written
before the prompt and hits nothing (`driver.ts:504-523`; the reason `CancelNotLost`
is checked without watcher calls). Control operations are written while a prompt
runs, where RFC 0002 asks for one serial execution stream. A failing initial
configuration closes a driver without an entry in `closingSessions`, so a
reopening does not wait for it. A process with an old copy of the file brings back
sessions another has deleted, and its deletions remove entries another has
renewed: `NoEntryLost` and `ConfirmedIsStored` are stated up to deletions for that
reason. The host is asked for permissions of a turn that has its result but is
still current. A text whose turn the host ends in the await of
`handleSessionUpdate` is in the thread and was told by no event, and blocks that
are no text (images) are in stream and output and not in the thread:
`ThreadIsStream` says so. An update of a tool call that is handled after its turn
changes the entry of the ended turn, under its old turn id
(`session-timeline.ts:504-520`). An error of the agent's process, such as a signal
the system refuses, ends the wait for its exit (`stdio-connection.ts:890`) and is
not modelled. A descendant of the agent that keeps its pipes keeps `dispose`
waiting and a death unnoticed: three properties of opening say `held`. What a
failed or interrupted extraction leaves is taken for the agent's binary, and a
call that looks before the lock may return one that is being extracted: see
`BinaryIsRight`. In the simulator, saves of one session may overlap, a load
answers before it replays over the live history, a close during a prompt is
undone by the prompt's save, and a failed tool leaves its call in progress.

## 5. Proofs

Every theorem holds for every value of the constants that their assumptions
(`ConstantsAssumption`, `ManagerAssumption`, `RegistryAssumption`,
`LaunchAssumption`, `OpeningAssumption`, `SimulatorAssumption`,
`ConversationAssumption`) allow: any number of turns, calls, processes, tool
calls, terminals and messages. TLC evaluates the assumptions on the runs'
constants. Each module has an inductive invariant, which some properties strengthen, with a lemma per action or
per part of the invariant, and a theorem per property that cites it.

| module of proofs | inductive invariant | properties |
|---|---|---|
| `SessionDriverProofs` | `IInv` | `OneActiveTurn`, `NoStrandedTurn`, `ClosedSettles`, `CancelHitsOnlyAsked`, `StreamShape`, `DroppedNeverPrompted`, `CoalescedCarried`, `QueueOrder`; with passive watchers `NoWorkAfterClose`, `CancelNotLost` |
| `SessionDriverRefines` | the same | `Refines`, `NoTurnLost` |
| `SessionManagerProofs` | `IInv`, `LoadInv`, `OnlyLoads` | `ActiveIsOpen`, `RefCountExact`, `SiblingsSurvive`; without starts `OneDriverShared`, `Shares`; and without late failures `NoDriverLeaked`, `ReopenWaitsForClose` |
| `SessionRegistryProofs` | `SaveInv`, `SafeInv` | `DeletionKept`, `LockExclusive`, `ConfirmedIsStored`, `NoEntryLost` |
| `LaunchRegistryProofs` | `IInv` | `BinaryIsRight`, `WholeStays`, `Lock!LockExclusive` |
| `ConversationProofs` | `IInv`, `DecisionInv`, `ObjectsInv`, `ReplayInv` | `ThreadIsStream`, `EndedThreadFrozen`, `DecisionsKept`, `ObjectsTrue`, `ReplayWhole` |
| `SessionOpeningProofs` | `IInv`, `ReportInv` | `LeavesNothing`, `ReportTrue` |
| `SimulatorProofs` | `IInv`, `RegularOk`, `StoreInv` | `RulesAreGiven`, `RegularUnlessStruck`; with whole writes `AnsweredIsStored` |

### Hypotheses

Some theorems assume that a part of the environment stays away. None of these can
be dropped:

* `PassiveWatchers`: no watcher calls the session during a start. With such calls
  `NoWorkAfterClose` fails, and a cancel goes out before its prompt.
* `NoStarts`: the session is loaded and resumed, not started, by the calls of the
  model; otherwise a start overtaken by a load of its id leaks a driver.
  `NoLateFailures`: configuration and file do not fail once a driver exists; its
  failing closes it outside `closingSessions`.
* `WholeWrites`: the simulator is not killed inside `writeFile`. The torn file
  that is left otherwise cannot be parsed by the next load.

`Shares` needs `NoStarts` because a start makes a second driver of the session; it
does not need `NoLateFailures`. The registries' theorems need none: where a lock is
stolen the properties themselves stop. `ReportTrue` needs none of these, but rests
on how the external agent is modelled: `Effects` lets a change of the mode or of an
option alter only what comes later in the order of `Keys`. An agent whose model
changes its mode back would make an earlier line of the report false, and the
runtime does not look again.

### Arguments

*Turn engine.* `OneActiveTurn` is not inductive by itself: that no second prompt is
sent needs that the current turn's is the only one anywhere, on the wire, with the
agent or answered (`WireOk`), that no turn but the current one is past its start
(`RunnerOk`), also after a close, when there is no current turn but a prompt may
still be out; `NoStrandedTurn` and `ClosedSettles` need that the queue is exactly
the turns not started and not finished (`QueueOk`) and which turns have their event
(`OutcomeOk`). `CancelHitsOnlyAskedHolds` strengthens once more: a cancel on the
wire that is not behind a prompt concerns a turn that was asked to stop, or none;
`CancelNotLostHolds` follows a cancel from the request to the agent, and has it
behind its prompt on the wire (`AskedOk`). `CarriedOk`: a prompt is made of its own
turn, started, and of turns that were told "coalesced", and a withdrawn turn never
left the queue, so it is in no prompt. `QueueOrderHolds` has the order of arrival in the queue, in the prompts sent, and
between the two, for turns nobody promoted. `DriverRefines`: every step is a step
of `TurnService` or a stutter, under the mapping that reads `submitted` from
`stage`, `queued` from `pending`, `holder` from `current`, `result` from `outcome`;
it covers timeouts, which the run with three turns leaves out.

*Session sharing.* There is one creation under way at a time among the loads, its
driver is open and nobody else's, entries in hand were registered, and the count is
the number of live handles (by cardinality lemmas on the sets of handles before and
after a step). `SiblingsSurviveHolds` uses it: the driver is closed only where the
count says zero. Without starts, operations on the id follow one another
(`OneFlight`): a creation, an active entry and a close under way exclude each other,
so an open driver is the one everybody gets. `DriversKept` adds that an open driver
is the entry's, the creation's or about to close. `SharesHolds` maps each step to
one of `SharedSession` or to none: with `OneFlight`, what the mapping calls made,
shared and ending is one driver in all, so `Make` finds none; with `RefCountExact`,
"the count falls to zero" is "the last holder leaves"; and who waits is whoever
joined the one operation under way.

*Registries.* Until a lock is stolen, who is inside created the lock file that is
there (`LockHeld`): a crash leaves the file, so nobody gets in; a file that a dead
process or a failed removal left is taken away only while nobody is inside, else
that is the theft; and a process that gives up removes nothing. So what a process
read is still the file when it renames, and the image it saves is at least as new
as what its callers wait for. In the launch registry a directory holds a version
whose archive has its name (`DirNamed`), so what a call finds there is from an
archive of the name it was given, whatever fails; that it is whole needs that the
call was alone inside (`AloneInside`) and that no extraction in that directory was
cut off.

*Conversation.* What the agent says goes from the connection through the bridge's
buffer and the SerialActor to the thread and stays in order (`InOrder`). `Past` are
the messages older than all that is still to come. The output of a turn is what its
stream tells, all of it past; its thread is that and the text of the job between
its two looks (`Pending`), which is the first job and whose turn is current
(`WrittenOk`), so the next text is newer than any in either. If the turn ends
between the looks, it is the host that ends it, the text stays untold, and nothing
is added to that thread any more. Each handler makes one of four kinds of steps
for a turn: it says nothing, writes a text to the thread, tells a text, or tells
something else (`Quiet`, `Written`, `Said`, `Unsaid`). A prompt has one
answer (`AnswerOk`), so a turn that completed is over. For permissions each number of a
turn belongs to one record, before the host or answered (`AskedOk`), which gives
the cardinalities of `DecisionsKept`; a denial recorded before the end keeps the
turn from completing, and after the end the answer is "cancelled". For the objects:
what was read of a terminal stays true, because exited processes stay exited,
wherever it is on its way, in a job, in the host's call, or in the content of a tool
call (`ReadsTrue`); and an update stamps all objects of its tool call as its own and
as it shows them, so whoever wrote an object last shows it. For the replay every
text replayed is, until the session opens, in the history, in a job of the actor,
in the bridge's buffer or on the wire (`Replaying`), each place in order and newer
than the one before; the jobs that flush the buffer have run before the history is
sealed, and what is added after the seal is behind it.

*Opening.* Where an opening is decides what its process may be doing, which
requests are under way and how far the disposal may have got; at the end it is past
the last stage. For `ReportTrue`, the report followed by the work ahead is the order
of steps (`InOrder`); the driver knows what the agent has of every option it has
still to decide on, unless the mode was changed since the last answer that listed
them (`Stale`, `KnownIs`); and a change touches only what comes later in that
order, and of the mode the other name, so what is reported as applied, or as
already set where that is not `Stale`, stays in force or gives way to another
report of the same key that is (`Held`, `InPlace`).

*Simulator.* `RegularUnlessStruck`: the script lays out the plan in rising order and
each tool as announced, used, ended (`Laid`), and what the client has seen is as far
as the script has come, while no fault distorts it (`SeenInOrder`). `RulesAreGiven`:
the steps of a script come in order, the step that
uses a tool behind the one that decided, and every copy of the rules, live, on disk
or in a save under way, has only rules the client gave. `AnsweredIsStored`: the
session's object and its file keep what the client knows, but for faults that have
struck (`Keeps`), and a save under way writes what the session is, unless two saves
of the session overlapped once (`crossed`).

### What proving changed

Invariants that were not inductive found mistakes in the models. `Simulator` let any
prompt queue a fault, where only one that simulates does, and a failed tool skipped
to the wrong step. `Conversation` read all terminals of an update at one instant,
while the handler's reads settle one by one; and its instance had no two tool calls
with an object in common, where an earlier form of `ObjectsTrue` fails
(`BundleWhole`, section 4). Three definitions were restated so that they can be
reasoned about: `ReplayWhole` speaks of positions in the history and `Work` is a
concatenation, because `SelectSeq` is recursive, and the assumptions of
`InitialConfig` say what kind of thing an agent's options are.

### Only model-checked

* Liveness under fairness (`AnsweredTurnsSettle`, `TimedTurnSettles`,
  `ClosedSessionStops`, `EveryOpenReturns`, `EveryCallReturns`, `DeathIsNoticed`,
  `DisposeReturns`, `CancelReturns`), and whatever is about `ENABLED`: out of the
  proof system's reach.
* `DenialDecidesOutcome` and the properties of section 4 are violated.

`TypeOK`, the inductive invariants, `ClosedSettles`, `NoTurnLost` and
`OneDriverShared`, which `Shares` amounts to, are proved and in no configuration. `GiveUp` and `Discard` of `SharedSession` need a failing
configuration, which manager_reopen leaves out; the proof covers them.

## 6. What is left

1. An abstract session with starts: `SharedSession` would need a driver made beside
   the shared one and closed as a duplicate, and the leak of section 4 as a step.
2. An abstract registry (a map with durable puts and deletes) that
   `SessionRegistry` implements until a lock is stolen; its theorems say so property by
   property.
3. Three hazards without a property: control requests written while a turn runs,
   rejected cancels nobody awaits, and whole-copy writes that bring back deleted
   sessions.
4. The prompt mapper and the profiles, as operators over tables.

## 7. Not modelled

The CLI, harness and examples use or test the runtime. Logs and traces decide
nothing. Profiles are tables. The prompt mapper, the arguments of launched
commands, reads and writes of files for the agent, and next-edit suggestions of
the simulator are conversions or calls passed through. Exceptions thrown by host
callbacks (watchers, redaction) and unhandled rejections are left out of all
modules: what they break is listed under the hazards. What each component leaves
out is in the notes of `PROJECT.json`.
