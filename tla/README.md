# Verification of crobe

crobe is a compliance probe: it loads a *playbook*, executes the commands of its
assertions, scores them, and writes or submits a report. It runs headless, or as a local
web server with a browser UI. This directory holds TLA+ models of its control logic, the
TLC configurations that check them and TLAPS proofs about them. Paths below are relative
to the repository's root.

## 1. The system

| Component | State it keeps | Operations | Interacts with |
|---|---|---|---|
| Run control: `internal/server/state.go`, `handlers_*.go`, `server.go` | `StateManager` behind one mutex: lifecycle status, errors, destination, playbook, active run and its cancel function, last report, snapshot | HTTP handlers (load, unload, destination, run, cancel, report, submit), one goroutine per run, `Shutdown` | calls the director, `SetupElevation`, the report writers; broadcasts to the event broker; the lifecycle manager reads its status |
| Elevated execution: `internal/elevation`, `executor/exec_runner.go` | the process-wide elevated runner, which nothing synchronises; a client with one connection to a privileged worker process | install, run a command, ping, close; the worker's loop | used by run goroutines and by `RunExec` |
| Director: `director` | the trace of one run | sections, assertions, pre, main and post commands, unwinding after a cancellation | calls `RunExec`, `EvaluateRule` and the observer |
| Command execution: `executor` | none; a child process per command | run a script, gather values, evaluate a rule | called by the director and by the worker |
| Event broker: `internal/server/events.go` | subscribers with bounded channels, the last event id | subscribe, unsubscribe, broadcast, termination broadcast | run control and the observer broadcast; `handleEvents` streams |
| Lifecycle: `internal/server/lifecycle.go` | client count, grace timer, idle timer | connect, disconnect, end of an activity, timer callbacks, stop | reads run control's status, triggers `Shutdown` |
| Report and writers: `report`, `internal/reportwriter`, `internal/server/archive.go` | none | render, write three files, HTTP upload | called by run control and the runner |
| Playbook and validator: `playbook` | none | parse, validate, defaults of scores | called by the loaders and the director |
| Runner: `internal/runner`, `cmd/probe` | none of its own | headless flow, UI flow | all of the above |
| Web UI client: `webui/src/lib` | the browser's copy of the server's state | event stream client, reconciliation, user actions | HTTP API, event stream |
| Builder: `cmd/builder`, `internal/transpile` | none | inline external scripts, bake a playbook; a hook before a headless run | the runner, the validator |
| Script transpiler, SDK, desktop, embedded assets, token check | none | file translation, operating-system calls | none of them takes part in a run |

What makes it hard:

- **One mutex, many critical sections.** A handler checks the status in one critical
  section and acts in another; uploads and remote loads have a network wait in between.
  Run goroutines outlive the request that started them, and can be overtaken by a load.
- **A process-wide elevated runner.** It is installed by one run, found by others, and
  removed after the installing run has already published its outcome.
- **Cancellation.** It may come at any point of a run: while a worker is awaited (where it
  is not heard), between commands, within a command (which is killed, and scored), after
  the last command, or when the run is over.
- **Timers.** A timer that has fired runs its callback later, whatever happened since.
- **Two records of a run.** The trace becomes the report, the snapshot and the events are
  what clients see; they are written at different moments.
- **Two ways to the browser.** A tab learns of a run from a stream that may lose events and
  from a snapshot that may be older than the stream; it tells them apart by event ids that
  are written into the snapshot after the event was sent.
- **A decoder left behind.** A cancelled elevated command leaves a goroutine reading the
  connection while the next command uses it.
- **An end with several callers.** A signal, a request and a timer may each shut the server
  down, and each waits for the event streams on its own account.

What each component has to get right:

- Run control: only complete runs have their structured report released; a running status
  has a run that ends it and a cancelling one a context that is cancelled; only valid
  playbooks run; no worker is left behind; a report goes where its playbook says.
- Director: every assertion is reported once, in the trace and to the client alike; a
  verdict stands; a cancelled run returns.
- Lifecycle: an unused server shuts down, a used one does not.
- Elevated execution: an answer belongs to its request; a call returns; the worker ends with
  its client.
- Event feed: a stream is in order and closes a run last; what a tab drops it knows, what it
  shows of a verdict is true of the run it shows, and stays.
- Validator and builder: what runs has distinct codes and names no script that would be
  skipped; what the builder bakes the probe accepts.
- Runner: exit code 0 means that everything passed and the whole report was delivered; a
  server that shuts down tells its streams first, and ends.

## 2. Modules and how they correspond to the code

| Module | Models | Lines of the code |
|---|---|---|
| `ReportRelease` | abstract specification: what the server promises about reports | none: it is what a reader of the API may rely on |
| `DirectedRun` | abstract specification: what a run promises to whoever watches it | none: `Director` and every run of `EventFeed` implement it |
| `RunResult` | abstract specification: what a run's goroutine may get from the director | none: `Director` implements it, `RunControl` relies on it |
| `RemoteExecution` | abstract specification: what the privileged worker promises to who has it run a command | none: `ElevationChannel` implements it |
| `RunControl`, `MCRunControl` | state manager, handlers, run goroutines, elevated runner | `internal/server`, `internal/elevation/elevation.go` |
| `Director`, `MCDirector` | `RunWithObserver`, `unwindRemaining`, `serverObserver`, scoring | `director/director.go`, `handlers_execution.go:18-192`, `playbook_types.go` |
| `Lifecycle` | `LifecycleManager` and its callers | `lifecycle.go`, `events.go:183-210`, `server.go:231-251` |
| `EventFeed` | a run's observer, the broker, an event stream and the browser tab at its end | `events.go`, `handlers_execution.go`, `webui/src/lib/api/events.ts`, `webui/src/lib/state/appState.svelte.ts` |
| `ElevationChannel` | client and worker over their connection | `internal/elevation/client.go`, `worker.go` |
| `Validation` | playbooks, the validator's rules, the need for elevation, the inlining of scripts, as operators | `playbook/*.go`, `internal/transpile/preprocess.go` |
| `Headless` (extends `Validation`) | a run without the web server and its report | `internal/runner/runner.go:149-196`, `report/report.go`, `internal/reportwriter` |
| `ServerExit` | the end of the web server's process: signal, `TriggerShutdown`, `Shutdown`, termination broadcast | `server.go:221-251`, `events.go:116-239`, `runner.go:106-146` |
| `Runner` (extends `Headless`, instantiates `ServerExit`), `MCRunner` | the two programs, from their arguments to their exit code | `internal/runner/runner.go`, `cmd/*/main.go` |
| `RunControlProofs`, `RunControlQuietProofs`, `DirectorProofs`, `LifecycleProofs`, `EventFeedProofs`, `ElevationChannelProofs`, `ValidationProofs`, `RunnerProofs` | theorems | |

A definition whose name starts with `Faulty` is a plausible mistake in the definition after
it. No specification uses one; they document which mistakes a property notices.

### RunControl

One action is one critical section of `StateManager.mu`, or one step between two of them.
A run is known by its id, and its report by the same id.

| Code | Model |
|---|---|
| `status`, `errors`, `reportDestination`, `playbook`, `activeRunID`, `isCancelled`, `lastReport` | variables of those names; `errors` is a set of codes, `destination` keeps whether a folder is written and which HTTPS source is chosen |
| `activeRunCancel` and `activeRunDone` | `cancelTarget`, the run they belong to. `SetPlaybook` and `UnloadPlaybook` do not reset them |
| `handleRun` up to its `go` | `StartRun` |
| its goroutine | `SetupElevation`, `WorkerConnects` / `WorkerFails`, `CommitElevation` / `CommitElevationFailure`, `RunElevatedCommand`, `DirectorReturns`, `CommitInterrupted` / `CommitCompleted`, and the deferred clean-up: `CloseWorker`, `ClearRunner`, `NothingToClean` |
| `handleCancel` | `MarkCancelling` (under the lock), `CallCancel` (after it), `AnswerCancel` (the run is done, or ten seconds passed) |
| `handlePlaybookUpload`, `handlePlaybookRemote` | `BeginLoad` (the check) and `FinishLoad` (the body has arrived: `SetPlaybook` or `SetLoadError`, without another check) |
| `handlePlaybookDelete`, `handleDestination` | `UnloadPlaybook`, `UpdateDestination` |
| `handleReportRemoteSubmit` | `BeginSubmission`, `SubmissionSucceeds` / `SubmissionFails` (delivered or not) |
| `Shutdown`, `Close` | `ShutdownCancelsRun` |

`DirectorReturns` summarises the director: with its context cancelled a run may leave a
*partial* trace, a *tainted* one (a killed command was its last and was scored like any
other) or a *whole* one. The choice is made from `RunResult!Results`, and that these are all
the cases is what `Director` shows, which implements `RunResult`.

The elevated runner is a plain variable that goroutines read and write without
synchronisation. Its reads and writes are taken as atomic; which value a read returns is
left to the interleaving.

### Director

One action is what the goroutine does between two looks at the context, or between the
start and the return of a command. The playbook is a constant: sequences of sections,
assertions and commands, with the scores of the main commands. `section`, `assertion`,
`phase` and `cmd` are the loop variables, counted from 1. `trace` has each section's
assertions with their status and score, `snapshot` what the observer has written for the
assertion at that position (codes are unique in a valid playbook, and only valid ones run).
`told` and `killed` are history variables: how often an assertion was announced, and which
assertions had a main command that was still running when the context was cancelled.

`SomeCommandReturns` lets a command fail to run, or end with any combination of exit code,
matched rule and verdicts on its output; `Evaluation` is the precedence among them.
A cancelled assertion's score is 0 in the trace and the sum so far in the snapshot, as in the
code; no property relates the two for cancelled assertions.

### Lifecycle

One action is one critical section of `LifecycleManager.mu`. Timers are objects with a state
of their own: `armed`, or `fired` with the callback still to run; `idleTimer` is the one on
record. `outdated` is a history variable: the timers pending when a client last connected.
The status enters as `busy`; `LateLoad` is the load of `RunControl` that resets it during an
activity. The termination broadcast is taken to end, as its timeout makes sure
(`ServerExit` has it in full).

### EventFeed

One action is one critical section of the state manager or of the broker, or one event or
answer that the tab, a single thread, takes in. The playbook stays loaded and requires no
elevation; loads and submissions are `RunControl`'s.

| Code | Model |
|---|---|
| `handleRun` to its broadcast, then its `go` | `StartRun`, `AnnounceStart` |
| an observer callback: `OnRunStart`, `OnAssertionStart`, `OnAssertionComplete` | three steps: `Callback` (writes the snapshot), `BroadcastEvent`, `NoteEventID`; `at` is the callback that is next |
| the goroutine's commit and its broadcast | `Commit`, `Announce` |
| `handleCancel` | `RequestCancel` (under the lock), `AnnounceCancel`, `CallCancel` |
| `Broadcast` with its `select` | `Broadcast`: numbers the event, and hands it over if there is room |
| `handleEvents` | `OpenStream`, `Serve`, `LoseStream` |
| the tab's `onmessage`, `handleStateChange`, `handleAssertionProgress` | `Receive` and the operators it uses |
| `fullSync`, `reconcileExecution` | `TakeState`, `AnswerSnapshot`, `TakeSnapshot`: the answer is captured in one step and applied in another; `FailSync` when a request fails or its answer is lost |

`buffer` stands for the subscriber's channel and the connection, which keep the same order.
One `fullSync` is under way at a time, see section 7.
`LoseStream` is a network failure, and also what `WriteTimeout` (`server.go:78`) does to
every stream after a minute. The director's verdicts are recorded in `result`, which no
code reads: it is what the tab is compared with.

### ElevationChannel

`Run` is `Send` / `SendFails` / `Refuse`, then `Return` or `ReturnCancelled`; its goroutine is
in `reading` until `Decode`, `DecodeAny` or `DecodeFails`. `json.Decoder` must not be used by
two goroutines at once, and a cancelled call leaves its own behind: `raced` remembers that
two met there, and from then on a read may return any answer sent so far, or fail.
`Close` may lose its shutdown message (a connection closed with unread data is reset).
`RunWorker` is `TakeRequest`, `TakeShutdown`, `TakeError` and, from a goroutine per request,
`Answer`. Its loop returns without waiting for those goroutines: a command under way is
killed in time or left running. `Die` is a crash of the worker.

### Validation, Headless, ServerExit, Runner

A playbook is a record as in the code, with titles, URLs and formats told apart as far as
the validator does, and an assertion with its code, its need for elevation and the *places*
in its commands that name an external script. `Validate` returns the set of errors, `Seen` is
`seenCodes`, `Preprocess` inlines the scripts. `Headless` goes through `Run` of the runner:
each step may fail, the three files are written one after the other and the one that fails
may be left short, an endpoint may have received a report whose answer is lost, and SIGINT
ends the process at any step. The director is summarised by its verdicts.

`ServerExit` has a `call` of `Shutdown` for the main goroutine and for each trigger:
`BeginShutdown` (the termination broadcast), `EndWait` (acknowledged, or timed out),
`CloseShutdownChan`, `CancelRun`, `EndShutdown`. A stream writes one termination and returns
(`WriteTermination`), or leaves without reporting back (`LeaveStream`). `handed` and
`timedOut` are history variables. `Runner` adds the choice among the modes by the arguments
(`Mode`), `BakeFile`, and the exit code, which `Headless` and `ServerExit` share.

## 3. What the runs check

| Run | Specification and instance | Properties | Distinct states |
|---|---|---|---|
| `runs` | `RunControl!Spec`: 2 runs, an elevated and an invalid playbook, 1 load, 1 cancel request, 1 submission | `TypeOK`, `ActiveStatusHasRun`, `CancelReachesRun`, `WorkersReleased`, `NoPartialReportReleased`, `OnlyValidPlaybooksRun`, `ImplementsReportRelease` | 4,160,352 |
| `quiet` | `RunControl!QuietFairSpec`: 2 runs, an elevated playbook and one with an endpoint, 1 request of each kind | `OneActivity`, `SubmittedMeansDelivered`, `CompletedReportIsServed`, `ReportGoesHome`, `CancellationEnds` | 1,075,708 |
| `director` | `Director!FairSpec`: 2 sections, 3 assertions | `TypeOK`, `TraceComplete`, `SnapshotAgrees`, `OutcomeIsSound`, `TaintIsLast`, `TotalsAddUp`, `ImplementsDirectedRun`, `CancellationEndsRun` | 1,479 |
| `idle` | `Lifecycle!FairSpec`: 2 streams, 2 activities, 3 timers | `TypeOK`, `CountdownNotLost`, `UnusedServerShutsDown` | 91,780 |
| `feed` | `EventFeed!Spec`: 2 runs of 1 assertion, the second cancellable, 2 streams, buffers of 2 | `TypeOK`, `StreamInOrder`, `FinalStateIsLast`, `VerdictsAreTheRuns`, `NothingSkipped`, `VerdictKept` | 3,960,167 |
| `channel` | `ElevationChannel!FairSpec`: 2 requests | `TypeOK`, `MismatchMeansRace`, `ImplementsRemoteExecution`, `CallsReturn`, `WorkerEnds` | 29,237 |
| `runner` | `Runner!FairSpec`: every kind of arguments, 88 shapes of playbook (`MCPlaybooks`), 2 streams, a signal and one trigger | `TypeOK`, `ReportAccounts`, `ExitZeroMeansReported`, `BuilderInlinesScripts`, `OrderlyShutdown`, `ServerExits` | 175,076 |
| `lateload` | `Spec` | `NoLoadWhileBusy` is violated (finding 1) | |
| `handover` | `QuietSpec` | `ElevatedCommandsHaveWorker` is violated (finding 2) | |
| `connect` | `Lifecycle!Spec` | `ConnectCancelsCountdown` is violated (finding 3) | |
| `scripts` | `Runner!Spec` | `NoScriptsRun` is violated (finding 4) | |
| `halt` | `Runner!Spec` | `ShutdownHaltsRuns` is violated (finding 5) | |

**Bounds.** Two runs suffice for every way one run can overtake, share with or outlive
another: the server's state remembers one active run, one cancel function and one report, so
a third run meets nothing that a second did not. One load and one cancel request at a time
reach every position relative to two runs, because a request that has ended may be made
again. `runs` and `quiet` differ in their playbooks: the first has an invalid one, and
submissions go to the endpoint that a client chooses; the second has valid ones only, one of
them with an endpoint of its own. `Deliveries` and the runs are finite by the
constants alone, so no state constraint is used. The playbook of
`director` has an assertion that is the last command before the next assertion, one with
commands in every phase, one with a minimum of its own, a score of 0
and two sections, so that each of the four places where the director looks at the context is
reached with the context done. Three timers in `Lifecycle` bound the callbacks pending at
once; an action that needs a free timer waits for one when there is none, which removes
behaviours with four late callbacks and nothing else. `RunSymmetry` permutes runs, which the
model treats alike, and is used in `runs` only, which has no liveness property. There the
`VIEW` is `WithoutHistory`: states that differ only in `starved`, the record of the runs that
lost their elevated runner, are taken for one. No guard reads it and no property of that run.

In `feed` the second run is what makes events and snapshots of an earlier one late; only that
one may be cancelled, since a cancelled first run is just one more way to be over. A buffer
of 2 in place of 128 is full after an event and its successor, so every event is lost in some
behaviour; the second stream is the reconnection. One assertion is enough for its start and
its verdict to be lost, repeated and overtaken separately; what the proofs say holds for any
number. In `channel` two requests already share the decoder; a third would only add another
reader to a state in which any answer may be read. In `runner` the playbooks differ from a
good one in one respect at a time, but for the codes, where two assertions are needed, and
the places of scripts. One trigger and the signal give two overlapping calls of `Shutdown`;
both kinds of caller matter, since only the main goroutine's own keeps the process alive.

**Deadlock** is checked in the runs of `RunControl` and `Lifecycle`, which go on for ever. It
is not checked where the system stops: a director that has returned (`director`), a run of the
feed that is over with its streams used up (`feed`), a worker that has ended (`channel`), a
program that has exited (`runner`).

**Fairness.** Goroutines that can go on are scheduled. A worker connects or the minute of
`NewClient` passes. Submissions end by the HTTP client's timeout of 60 seconds, cancel
requests by their ten seconds. A director whose context is done returns, because
`exec.CommandContext` kills the command and `WaitDelay` bounds the wait for its output.
Timers fire, and their callbacks get the mutex. `proc.Wait` in `Close` returns, because the
worker ends when its connection does. Functions of a playbook that run in the JavaScript
engine are assumed to end: nothing interrupts them. Nothing is assumed of clients, and
nothing of a run that is not cancelled. In `channel` the worker's loop, the goroutines that
read and the calls that may return go on; commands need not end, and requests need not be
answered. In `runner` a call of `Shutdown` goes on once it has begun, since each of its waits
has a timeout, and the main goroutine sees `shutdownChan` closed; streams and runs need not
do anything.

## 4. Findings

1. **A load is applied during an execution** (`handlers_playbook.go:111`, `:264`). The check
   that refuses it is made before the body is read or the URL fetched, and not again. The
   load resets the status to `loaded` and drops the active run while its goroutine goes on;
   a second run can then start beside it. `QuietSpec` is the server without such loads: what
   holds only there (`OneActivity`, `SubmittedMeansDelivered`, `CompletedReportIsServed`,
   `ReportGoesHome`) is what a late load puts at risk; what holds of `Spec` it leaves intact.
2. **A run can lose its elevated runner** (`elevation.go:11`, `handlers_execution.go:335`). A
   run publishes its outcome first and uninstalls the runner in a deferred call afterwards;
   the next run finds it installed in between, shares it and then fails every elevated
   command, which counts as a failed check and not as an error. `OwnersAreServed` shows that
   sharing is all there is to it: without late loads, a run that connected a worker of its own
   has it until its outcome is committed.
3. **An idle countdown survives a connection** (`lifecycle.go:115`). A callback that has fired
   and waits for the mutex is not recalled by `OnClientConnect`. If the client leaves before
   the callback runs, the server shuts down at once instead of a minute later.
   `PromptConnectsCancel` shows that this race is the only way: a client that meets no waiting
   callback cancels whatever countdown there is.
4. **The probe runs a playbook that names an external script** (`validator.go:173-245`).
   External scripts "are disallowed" for an agent (`validator.go:37`), using one "in real
   playbook will cause error" (`playbook_types.go:88`), and "Only the `crobe-builder` can read
   these" (`docs/PlaybookDevelopment.md:14`). The validator looks for `funcFile` in the gather
   specifications of main commands but not in those of pre and post commands, and the executor
   never reads it: the run completes, without what the script would have gathered.
   `OnlyGathersSlipThrough` shows that nothing else gets past the validator.
5. **A requested shutdown ends the process before it halts the run** (`runner.go:143`). The
   dialog that asks for one says "Any in-flight executions will be halted"
   (`ShutdownModal.svelte:54`). `Shutdown` closes `shutdownChan` before it cancels the run
   (`server.go:237`, `:246`), and the main goroutine returns as soon as it sees the channel
   closed. A command in flight has a process group of its own (`exec_runner_posix.go:11`) and
   may outlive the server. `SignalHaltsRuns` shows that after a signal, when the main goroutine
   itself goes through `Shutdown`, the run it found is cancelled.

## 5. What is proved

The theorems hold for every value of the constants that meets the assumptions of the module
(`ConstantsAssumption`, `DirectorAssumption`, `LifecycleAssumption`, `ChannelAssumption`,
`PlaybooksAssumption`, `RunnerAssumption`): nil is none of the ids, subsets are subsets, a
playbook is a sequence of sequences of assertions, streams are finitely many, a buffer has
room for an event.

**`RunControlProofs`.** Type correctness first. Then four inductive invariants, each as small
as its property allows, so that a change of the code breaks one of them and not all:

- `ReportInv` for `NoPartialReportReleased` and the refinement of `ReportRelease`. The
  property alone is not inductive: it needs that a report on offer, in a submission or
  delivered belongs to a goroutine past its commit, whose trace no longer changes, and that a
  trace that is not whole belongs to a run whose context is done, so that the commit's test of
  the context suffices to tell it.
- `StatusInv` (`ActiveStatusHasRun` and `CancelReachesRun`), which is inductive as it stands:
  a run's commit overwrites whatever status there is, also that of a later run.
- `ValidInv` for `OnlyValidPlaybooksRun`: the loaded playbook's verdict is still in `errors`.
- `WorkersInv` for `WorkersReleased`: the installed runner is connected, or the run that
  installed it is about to uninstall it.

`ServerImplementsRelease` shows that every step of the server maps to a step of
`ReportRelease` or leaves it unchanged, with `ReportInv` at the commit of a complete run.
`ServerRunsReturnResults` shows the same of `RunResult`, for every run at once: its goroutine
takes one result from the director, and only a whole one while nobody has cancelled it.

**`RunControlQuietProofs`.** `QuietInv` for the four invariants of `QuietSpec`: one run or
one submission at a time, what it works on is what the state manager holds, and a completed
status has its report on offer. It rests on
the theorems about `Spec`, since every quiet behaviour is one of the server. `OwnerInv` is for
`OnlySharersStarve`: the installed runner belongs to the run that has a connection or is about
to uninstall it, and a run that waits for its worker finds none installed. The statement is
false of `Spec`, where a late load lets a second run be set up beside the first.

**`DirectorProofs`.** `DirectorInv` for the six invariants and the action property
`VerdictsStand`. `Shape` says
how much of the trace the loops have filled at each point, `Progress` that nothing is
cancelled before the director returns and where a killed command can have been. The
central lemma, `UnwindKeeps`, is about `unwindRemaining` called with any trace that is filled
up to the position it is called with; the three places that call it establish that.

`DirectorImplementsDirectedRun` is about what the snapshot shows: assertions are judged in the
order of the playbook, each of them once, none is started once the context is done, and those
given up are given up in order. `DirectorImplementsRunResult` is about what the caller gets.
The two abstract specifications are where the models meet. `RunControl` and `EventFeed` each
replace the director by less than it is; `RunResult` says what the one assumes of it and
`DirectedRun` what the other does, and both assumptions are theorems about `Director`.
`UncancelledRunsAreJudged` is what a headless run needs of it, which nothing cancels: a verdict
on every assertion, and the run calls itself complete.

**`LifecycleProofs`.** `CountdownInv` for `CountdownNotLost`: a busy status has an activity
that will still notify, and a timer on record is pending (`RecordedTimerIsPending`).
`PromptInv` for `PromptConnectsCancel`: of the behaviours in which no client connects while an
expired timer's callback waits for the mutex (`PromptSpec`) it says that one timer is pending
at a time, the one on record, and none while a client is counted. Of `Spec` both are false, see
section 7.

**`EventFeedProofs`.** `Inv` for the five invariants and `VerdictKept`, for any number of
runs, assertions and streams and any capacity. The heart of it are facts about event ids.
The snapshot's id is that of the last event whose callback is over, so whatever verdict of
the run has a smaller id the snapshot shows (`SkippedOK`), and a callback in progress has an
event with a greater one (`NotedOK`). Conversely, where a verdict is shown, the id that goes
with it is at least that of the assertion's start (`KnownOK`), so a start that arrives late is
dropped. Both are carried from the snapshot to the answer under way and to the tab.
`RunsOK` says that only the latest run has an active observer and `SnapshotOK` that
between `handleRun` and the first callback the snapshot is empty.

`FeedRunsAreDirected` shows that each run of the feed implements `DirectedRun`, whatever the
other runs do: the callbacks assumed in `EventFeed` are those of the director. Its invariant
`ResultsOK` says which assertions have ended at which callback. `ShownVerdictsNeverDiffer`
is stronger than `VerdictKept`, which is about two successive states: what a tab has shown of
a run as finished it never shows otherwise again, also when it has shown another run in
between. It follows from `VerdictsAreTheRuns` and the finality of the director's verdicts.

**`ElevationChannelProofs`.** `Inv` for the three invariants: an answer was sent by a command
that finished, and as long as no two goroutines have met in the decoder (`Alone`) everything
under way belongs to the one that reads. `ChannelImplementsRemoteExecution` states what is left
of the promise in spite of the races: a command is started at most once and only if it was
let through, an answer is given only for a command that has run to its end, a worker that has
ended starts nothing, and a caller that gives up knows nothing of its command.

**`ValidationProofs`.** About the operators, for every playbook: accepted codes are distinct
across sections (`ValidCodesAreDistinct`), an agent refuses scripts but where the validator
does not look (`AgentsRefuseScripts`), `Preprocess` leaves none and keeps the codes
(`PreprocessInlines`, `PreprocessKeepsCodes`), and what the builder accepts after it the probe
accepts (`BakedIsAccepted`). `Preprocess` neither mends nor breaks anything: either program
finds in the result what the builder finds in the source (`PreprocessKeepsErrors`).
The proofs go through one lemma, `PreprocessKeeps`, on what `Preprocess` leaves alone.

**`RunnerProofs`.** `ServerInv` and `EndOK` for `OrderlyShutdown`: a stream that was handed a
termination owes the answer or has written it, and a caller beyond its wait is owed nothing
unless it timed out. `HeadlessInv` for the three properties of the runs and the baking: it
says at each step what has been established about the playbook, the result and the files.
`OnlyGathersSlipThrough` and `SignalHaltsRuns`, from the same invariants, are what holds in
place of the two statements that `scripts` and `halt` refute.
`ReportsAccount`, the lemma behind `ReportAccounts`, shows by a bijection from positions to
codes that map and totals agree, and needs that the codes are distinct: it is the validator
that makes the report complete.

## 6. What is only model-checked, and what is not modelled

Liveness (`CancellationEnds`, `CancellationEndsRun`, `UnusedServerShutsDown`, `CallsReturn`,
`WorkerEnds`, `ServerExits`) needs fairness and is left to TLC, as are the five violations.
Everything else that a run checks is proved.

The other way round, some theorems state what no run checks. `RunsAreDirected` and
`RunsReturnResults` instantiate an abstract specification once for each run; TLC has checked
them on instances for given runs, since a PROPERTY needs the instance to be a constant one.
`VerdictsStand`, `AnswerMeansExecuted` and `ImplementsRunResult` have become consequences of
the refinements that the runs check. `OnlySharersStarve`, `ConnectCancelsCountdown` under
`PromptSpec`, `OnlyGathersSlipThrough` and `SignalHaltsRuns` say where the findings end.

Not modelled:

- gathering, embedded JavaScript, interpreters, temporary files and the text of commands and
  outputs; parsing of playbooks, transpiling of a single script, the schema and the SDK;
  rendering, signing and archiving of reports: functions from data to data, whose control is
  a success or a failure, which is modelled where they are called;
- `Client.Ping`, which only a test calls; the spawning of the worker process and its
  transport; desktop integration: operating-system calls without state of their own;
- log lines and the events `execution_completed` and `execution_cancelled`, which pass through
  the broker like the others and which the tab does not use for what it shows of verdicts;
- several tabs: tabs share nothing but the server, and a buffer belongs to one;
- the token check, which is stateless and comes before every handler; views and styles.

`EventFeed`, `RunControl` and `ServerExit` each carry as much of a run as they need. The first
two are tied to `Director` by `DirectedRun` and `RunResult`; that the run control seen in
`EventFeed` and in `ServerExit` is that of `RunControl` is not stated as a refinement, because
each leaves out requests that the other has. `PROJECT.json` lists
the hazards, with the properties about each, and says why a property is missing where one is.

## 7. What the models leave to a reader of the code

Behaviour met while modelling that no run refutes a statement of, and that a maintainer may
want to know:

- *Tab.* `appState.svelte.ts:362` says that progress of an older run is discarded; the branch
  above it has replaced the execution by then, so the test at 374 never holds. The first
  `fullSync` (163) does not wait for the stream: events between its answer and the
  subscription are missed until the next reconnection. The two answers of a `fullSync` are
  captured at different times, and one of another run replaces the execution shown (225).
  A reconnection starts a `fullSync` while an earlier one may still wait for its answers; the
  model lets the earlier one end first. The answers of two that overlap may arrive in either
  order, and the older snapshot may be of an earlier run: that `NothingSkipped` holds then as
  well is neither checked nor claimed.
- *Idle timers.* A callback that runs late forgets the timer on record even if that is a newer
  one than its own (`lifecycle.go:118`, `:122`). If a run has begun by then, the server goes on, the
  newer timer is still armed, and the next client to connect does not stop it: should the run
  end and the client leave in time, the server is shut down by that earlier countdown.
- *Cancel.* `handleCancel` broadcasts after it has released the lock (443), so a tab may see
  `running.cancelling` after the run's last state: the exception in `FinalStateIsLast`.
- *Start.* Between `handleRun`'s reset of the snapshot and the first callback the snapshot
  carries the id of the run before (262), with no verdicts.
- *Streams.* A handler that leaves because its client or `shutdownChan` ends never
  acknowledges a termination (`events.go:204-220`); the second of two overlapping calls of
  `Shutdown` waits for streams that have returned after the first, until its timeout. A
  subscriber whose buffer is full counts as flushed (115). `WriteTimeout` (`server.go:78`) cuts
  every stream after a minute.
- *Reports.* `report.go:60` writes title and date into the frontmatter map of the playbook, so
  a second report of a loaded playbook keeps the first one's date. Report files are named by
  the second.
- *Builder.* In its web mode the builder does not preprocess.
- *Worker.* `RunWorker` returns without waiting for the command that it cancelled
  (`worker.go:100-130`): the process may exit before the command is killed.
- *Exit.* A run that begins after `cancelRun` (`late`) is not cancelled. A
  headless run that gets SIGINT skips its deferred clean-up.

## 8. Plan

Done: `ReportRelease`, `DirectedRun`, `RunResult`, `RemoteExecution`, `RunControl`, `Director`,
`Lifecycle`, `EventFeed`, `ElevationChannel`, `Validation`, `Headless`, `ServerExit`, `Runner`,
with their runs and proofs.

Next:

1. Loads and deletions in `EventFeed`: observers of overtaken runs that go on writing into the
   snapshot of the next, which `RunControl` shows to happen.
2. Gathering and scoring of a single assertion as operators, with lemmas about their bounds.
