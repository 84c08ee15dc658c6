----------------------------- MODULE RunControl -----------------------------
(***************************************************************************)
(* The web server's run control: the StateManager that every HTTP handler  *)
(* locks, the goroutine that executes a run, the cancel, submission,       *)
(* playbook and destination handlers, and the process-wide elevated        *)
(* runner that runs share (internal/server/state.go, handlers_*.go,        *)
(* server.go; internal/elevation/elevation.go; executor/exec_runner.go).   *)
(*                                                                         *)
(* One action stands for one critical section of StateManager.mu, or for   *)
(* one step taken between two of them: the interleavings of handlers and   *)
(* run goroutines are those of the code.  A run is named by its run id,    *)
(* and its report by the same id, since a run produces one report.         *)
(*                                                                         *)
(* Broadcasts to the event stream never block and never touch this state;  *)
(* they are left to the event broker's own model.                          *)
(*                                                                         *)
(* A definition whose name starts with Faulty is the definition after it   *)
(* with a plausible mistake.  No specification uses it: it serves to show  *)
(* that the properties notice such a mistake.                              *)
(***************************************************************************)
EXTENDS Naturals

CONSTANTS
    Runs,           \* run ids handleRun may hand out: a bound on the runs started
    None,           \* Go's nil, and the empty run id
    Playbooks,      \* playbooks a client may load
    Invalid,        \* those Validate reports errors for
    Elevated,       \* those with a command that requires elevation
    HasEndpoint,    \* those that configure an HTTPS report endpoint
    SelectsHttps,   \* those whose reportDestination is "https"
    CustomEndpoint, \* the endpoint of a custom HTTPS destination
    FolderLocked,   \* whether --folder was given, which pins the folder
    Loaders,        \* concurrent upload or remote-load requests
    Cancellers,     \* concurrent cancel requests
    Submitters      \* concurrent remote-submission requests

ASSUME ConstantsAssumption ==
    /\ None \notin Runs \cup Playbooks
    /\ CustomEndpoint \notin Playbooks
    /\ None # CustomEndpoint
    /\ Invalid \subseteq Playbooks
    /\ Elevated \subseteq Playbooks
    /\ HasEndpoint \subseteq Playbooks
    /\ SelectsHttps \subseteq Playbooks
    /\ FolderLocked \in BOOLEAN
    /\ None \notin [report : Runs, to : Playbooks \cup {CustomEndpoint}]

VARIABLES
    \* StateManager
    status,       \* lifecycle status, the strings of types.go
    errors,       \* the codes in sm.errors
    destination,  \* [folder: is a folder source "on", https: the https source]
    playbook,     \* the loaded playbook or None
    activeRun,    \* activeRunID
    cancelTarget, \* the run that activeRunCancel and activeRunDone belong to
    isCancelled,
    lastReport,   \* the run whose report is kept, or None
    \* run goroutines
    pc,           \* where each run's goroutine is
    pbOf,         \* the playbook pointer each run captured
    ctxDone,      \* the runs whose context has been cancelled
    trace,        \* what the director returned: "whole", "partial" or "tainted"
    starved,      \* runs that had an elevated command fail for want of a worker
    \* the process-wide elevated runner
    runner,       \* the run that installed elevatedExecutionRunner, or None
    connected,    \* the runs whose client connection to a worker is open
    \* HTTP requests in flight
    loading,      \* is this load request past its CanMutate check?
    cancelPc,     \* where each cancel request is
    victim,       \* the run whose cancel function a cancel request captured
    submission,   \* the report and endpoint a submission captured, or None
    delivered     \* deliveries an endpoint has received

appVars == <<status, errors, destination, playbook, activeRun, cancelTarget,
             isCancelled, lastReport>>
runVars == <<pc, pbOf, ctxDone, trace, starved>>
elevVars == <<runner, connected>>
reqVars == <<loading, cancelPc, victim, submission, delivered>>
vars == <<appVars, runVars, elevVars, reqVars>>

Executing == {"running.elevating", "running", "running.cancelling"}
Busy == Executing \cup {"completed.submitting"}
Completed == {"completed", "completed.confirming_submission", "completed.submitting",
              "completed.submitted", "completed.submission_error"}
Statuses == {"idle", "loaded"} \cup Executing \cup Completed

ErrorCodes == {"LOAD_FAILED", "PLAYBOOK_VALIDATION_FAILED", "ELEVATION_FAILED",
               "EXECUTION_ABORTED", "FOLDER_WRITE_FAILED", "REMOTE_SUBMISSION_FAILED"}

Deliveries == [report : Runs, to : Playbooks \cup {CustomEndpoint}]

\* A run is uncommitted until its goroutine has published its outcome.
Uncommitted == {"setup", "dialing", "failed", "elevated", "directing", "returned"}
RunPcs == {"unused"} \cup Uncommitted \cup {"committed", "closing", "done"}

FaultyCanMutateCancelling == status \notin Busy \ {"running.cancelling"}
FaultyCanMutateSubmitting == status \notin Executing
CanMutate == status \notin Busy
HasValidationErrors == "PLAYBOOK_VALIDATION_FAILED" \in errors
RequiresElevation(pb) == pb \in Elevated

-----------------------------------------------------------------------------
(* The state manager's own operations.                                     *)

DefaultDestination == [folder |-> "on", https |-> "off"]

FaultyPlaybookDestination(pb) ==
    [folder |-> "on", https |-> IF pb \in SelectsHttps THEN "https" ELSE "off"]

\* In web UI mode a loaded playbook always gets a folder destination, and the
\* HTTPS one too if it asks for it.
PlaybookDestination(pb) ==
    [folder |-> "on", https |-> IF pb \in SelectsHttps THEN "playbook" ELSE "off"]

FaultyReportAfterLoad == lastReport
ReportAfterLoad == None

\* SetPlaybook: whatever the state was.  The cancel function and done channel of
\* an earlier run are not reset.
SetPlaybook(pb) ==
    /\ playbook' = pb
    /\ status' = "loaded"
    /\ errors' = IF pb \in Invalid THEN {"PLAYBOOK_VALIDATION_FAILED"} ELSE {}
    /\ isCancelled' = FALSE
    /\ lastReport' = ReportAfterLoad
    /\ activeRun' = None
    /\ destination' = PlaybookDestination(pb)
    /\ UNCHANGED cancelTarget

\* SetLoadError: the last report, its flag and the destination stay.
SetLoadError ==
    /\ status' = "idle"
    /\ playbook' = None
    /\ errors' = {"LOAD_FAILED"}
    /\ UNCHANGED <<destination, activeRun, cancelTarget, isCancelled, lastReport>>

UnloadPlaybook ==
    /\ CanMutate
    /\ status' = "idle"
    /\ playbook' = None
    /\ errors' = {}
    /\ lastReport' = None
    /\ isCancelled' = FALSE
    /\ activeRun' = None
    /\ destination' = DefaultDestination
    /\ UNCHANGED <<cancelTarget, runVars, elevVars, reqVars>>

\* UpdateDestination: Validate makes sure that a custom HTTPS source comes with
\* its configuration; a request may leave either half alone.
UpdateDestination(folder, https) ==
    /\ CanMutate
    /\ FolderLocked => folder = destination.folder
    /\ destination' = [folder |-> folder, https |-> https]
    /\ UNCHANGED <<status, errors, playbook, activeRun, cancelTarget, isCancelled,
                   lastReport, runVars, elevVars, reqVars>>

\* The endpoint that a destination resolves to for a playbook, None without one.
Endpoint(https, pb) ==
    IF https = "custom" THEN CustomEndpoint
    ELSE IF https = "playbook" /\ pb \in HasEndpoint THEN pb ELSE None

-----------------------------------------------------------------------------
(* handleRun and its goroutine.                                            *)

FaultyCancelledAtStart == isCancelled
CancelledAtStart == FALSE

StartRun(r) ==
    /\ pc[r] = "unused"
    /\ playbook # None
    /\ ~HasValidationErrors
    /\ CanMutate
    /\ activeRun' = r
    /\ cancelTarget' = r
    /\ isCancelled' = CancelledAtStart
    /\ lastReport' = None
    /\ errors' = {}
    /\ status' = IF RequiresElevation(playbook) THEN "running.elevating" ELSE "running"
    /\ pbOf' = [pbOf EXCEPT ![r] = playbook]
    /\ pc' = [pc EXCEPT ![r] = IF RequiresElevation(playbook) THEN "setup" ELSE "directing"]
    /\ UNCHANGED <<destination, playbook, ctxDone, trace, starved, elevVars, reqVars>>

\* SetupElevation: a runner that is already installed is shared, and the run then
\* has nothing to clean up.
SetupElevation(r) ==
    /\ pc[r] = "setup"
    /\ pc' = [pc EXCEPT ![r] = IF runner = None THEN "dialing" ELSE "elevated"]
    /\ UNCHANGED <<appVars, pbOf, ctxDone, trace, starved, elevVars, reqVars>>

\* NewClient waits, for at most a minute and deaf to cancellation, for a worker to
\* connect; its client becomes the runner of the whole process.
WorkerConnects(r) ==
    /\ pc[r] = "dialing"
    /\ pc' = [pc EXCEPT ![r] = "elevated"]
    /\ runner' = r
    /\ connected' = connected \cup {r}
    /\ UNCHANGED <<appVars, pbOf, ctxDone, trace, starved, reqVars>>

WorkerFails(r) ==
    /\ pc[r] = "dialing"
    /\ pc' = [pc EXCEPT ![r] = "failed"]
    /\ UNCHANGED <<appVars, pbOf, ctxDone, trace, starved, elevVars, reqVars>>

CommitElevationFailure(r) ==
    /\ pc[r] = "failed"
    /\ pc' = [pc EXCEPT ![r] = "done"]
    /\ status' = "loaded"
    /\ errors' = errors \cup {"ELEVATION_FAILED"}
    /\ UNCHANGED <<destination, playbook, activeRun, cancelTarget, isCancelled,
                   lastReport, pbOf, ctxDone, trace, starved, elevVars, reqVars>>

FaultyStatusOnceElevated == "running"

\* The status moves on only if nothing, such as a cancel request, moved it before.
StatusOnceElevated == IF status = "running.elevating" THEN "running" ELSE status

CommitElevation(r) ==
    /\ pc[r] = "elevated"
    /\ pc' = [pc EXCEPT ![r] = "directing"]
    /\ status' = StatusOnceElevated
    /\ UNCHANGED <<errors, destination, playbook, activeRun, cancelTarget, isCancelled,
                   lastReport, pbOf, ctxDone, trace, starved, elevVars, reqVars>>

\* RunExec of a command that requires elevation, when the installed runner is
\* missing or its connection is closed: the command fails and is scored as failed.
RunElevatedCommand(r) ==
    /\ pc[r] = "directing"
    /\ RequiresElevation(pbOf[r])
    /\ runner \notin connected
    /\ starved' = starved \cup {r}
    /\ UNCHANGED <<appVars, pc, pbOf, ctxDone, trace, elevVars, reqVars>>

\* What the director promises the goroutine of the run r.
Returning(r) == INSTANCE RunResult WITH cancelled <- r \in ctxDone, result <- trace[r]

\* RunWithObserver returns.  It looks at the context only between commands: with the
\* context cancelled it leaves a partial trace if it noticed, a tainted one if the
\* cancellation killed its last command, which was then scored like any other, and
\* a whole one if nothing was left to do.
DirectorReturns(r) ==
    /\ pc[r] = "directing"
    /\ \E t \in Returning(r)!Results : trace' = [trace EXCEPT ![r] = t]
    /\ pc' = [pc EXCEPT ![r] = "returned"]
    /\ UNCHANGED <<appVars, pbOf, ctxDone, starved, elevVars, reqVars>>

FaultyInterrupted(r) == trace[r] = "partial"

\* The commit asks the context, not the trace, whether the run was cancelled.
Interrupted(r) == r \in ctxDone

CommitInterrupted(r) ==
    /\ pc[r] = "returned"
    /\ Interrupted(r)
    /\ pc' = [pc EXCEPT ![r] = "committed"]
    /\ lastReport' = r
    /\ isCancelled' = TRUE
    /\ status' = "loaded"
    /\ errors' = errors \cup {"EXECUTION_ABORTED"}
    /\ UNCHANGED <<destination, playbook, activeRun, cancelTarget, pbOf, ctxDone, trace,
                   starved, elevVars, reqVars>>

\* The folder is written inside the critical section; isCancelled is not touched.
CommitCompleted(r) ==
    /\ pc[r] = "returned"
    /\ ~Interrupted(r)
    /\ pc' = [pc EXCEPT ![r] = "committed"]
    /\ lastReport' = r
    /\ \/ UNCHANGED errors
       \/ destination.folder = "on" /\ errors' = errors \cup {"FOLDER_WRITE_FAILED"}
    /\ status' = IF Endpoint(destination.https, pbOf[r]) # None
                 THEN "completed.confirming_submission" ELSE "completed"
    /\ UNCHANGED <<destination, playbook, activeRun, cancelTarget, isCancelled, pbOf,
                   ctxDone, trace, starved, elevVars, reqVars>>

FaultyOwnsWorker(r) == runner = r

\* The run's own cleanup, if it installed the runner: close the connection and wait
\* for the worker, then uninstall whatever runner is installed by now.
OwnsWorker(r) == r \in connected

CloseWorker(r) ==
    /\ pc[r] = "committed"
    /\ OwnsWorker(r)
    /\ pc' = [pc EXCEPT ![r] = "closing"]
    /\ connected' = connected \ {r}
    /\ UNCHANGED <<appVars, pbOf, ctxDone, trace, starved, runner, reqVars>>

ClearRunner(r) ==
    /\ pc[r] = "closing"
    /\ pc' = [pc EXCEPT ![r] = "done"]
    /\ runner' = None
    /\ UNCHANGED <<appVars, pbOf, ctxDone, trace, starved, connected, reqVars>>

NothingToClean(r) ==
    /\ pc[r] = "committed"
    /\ ~OwnsWorker(r)
    /\ pc' = [pc EXCEPT ![r] = "done"]
    /\ UNCHANGED <<appVars, pbOf, ctxDone, trace, starved, elevVars, reqVars>>

Elevate(r) == SetupElevation(r) \/ WorkerConnects(r) \/ WorkerFails(r)
Publish(r) == CommitElevationFailure(r) \/ CommitElevation(r) \/ CommitInterrupted(r)
              \/ CommitCompleted(r)
CleanUp(r) == CloseWorker(r) \/ ClearRunner(r) \/ NothingToClean(r)

-----------------------------------------------------------------------------
(* handleCancel.  A request that finds the run already cancelling only     *)
(* reports the state.                                                      *)

FaultyCapturedVictim == IF status = "running" THEN cancelTarget ELSE None

\* Which run's cancel function the request captures.
CapturedVictim == cancelTarget

MarkCancelling(c) ==
    /\ cancelPc[c] = "idle"
    /\ status \in {"running", "running.elevating"}
    /\ status' = "running.cancelling"
    /\ cancelPc' = [cancelPc EXCEPT ![c] = "marked"]
    /\ victim' = [victim EXCEPT ![c] = CapturedVictim]
    /\ UNCHANGED <<errors, destination, playbook, activeRun, cancelTarget, isCancelled,
                   lastReport, runVars, elevVars, loading, submission, delivered>>

\* The captured function is called after the lock is released.
CallCancel(c) ==
    /\ cancelPc[c] = "marked"
    /\ cancelPc' = [cancelPc EXCEPT ![c] = "waiting"]
    /\ ctxDone' = ctxDone \cup ({victim[c]} \ {None})
    /\ UNCHANGED <<appVars, pc, pbOf, trace, starved, elevVars, loading, victim,
                   submission, delivered>>

\* The request is answered when the run's goroutine is done, or after ten seconds.
AnswerCancel(c) ==
    /\ cancelPc[c] = "waiting"
    /\ cancelPc' = [cancelPc EXCEPT ![c] = "idle"]
    /\ victim' = [victim EXCEPT ![c] = None]
    /\ UNCHANGED <<appVars, runVars, elevVars, loading, submission, delivered>>

\* Server.Shutdown and Close cancel the run whose function is stored, if any.
ShutdownCancelsRun ==
    /\ cancelTarget \notin ctxDone \cup {None}
    /\ ctxDone' = ctxDone \cup {cancelTarget}
    /\ UNCHANGED <<appVars, pc, pbOf, trace, starved, elevVars, reqVars>>

-----------------------------------------------------------------------------
(* handlePlaybookUpload and handlePlaybookRemote: the state is checked     *)
(* before the body is read, or the URL fetched, and not again.             *)

BeginLoad(l) ==
    /\ ~loading[l]
    /\ CanMutate
    /\ loading' = [loading EXCEPT ![l] = TRUE]
    /\ UNCHANGED <<appVars, runVars, elevVars, cancelPc, victim, submission, delivered>>

FinishLoad(l) ==
    /\ loading[l]
    /\ loading' = [loading EXCEPT ![l] = FALSE]
    /\ SetLoadError \/ \E pb \in Playbooks : SetPlaybook(pb)
    /\ UNCHANGED <<runVars, elevVars, cancelPc, victim, submission, delivered>>

-----------------------------------------------------------------------------
(* handleReportRemoteSubmit and the report downloads.                      *)

FaultyReportAvailable == lastReport # None

\* What GET /api/report and the archive download answer with and a submission may take.
\* The log and the Markdown text of an interrupted run stay readable, by design.
ReportAvailable == lastReport # None /\ ~isCancelled

BeginSubmission(s) ==
    /\ submission[s] = None
    /\ CanMutate
    /\ ReportAvailable
    /\ Endpoint(destination.https, playbook) # None
    /\ status' = "completed.submitting"
    /\ submission' = [submission EXCEPT ![s] =
                        [report |-> lastReport, to |-> Endpoint(destination.https, playbook)]]
    /\ UNCHANGED <<errors, destination, playbook, activeRun, cancelTarget, isCancelled,
                   lastReport, runVars, elevVars, loading, cancelPc, victim, delivered>>

FaultyWithoutSubmissionErrors == {}

\* The remaining errors once a submission has succeeded.
WithoutSubmissionErrors == errors \ {"REMOTE_SUBMISSION_FAILED"}

SubmissionSucceeds(s) ==
    /\ submission[s] # None
    /\ submission' = [submission EXCEPT ![s] = None]
    /\ delivered' = delivered \cup {submission[s]}
    /\ status' = "completed.submitted"
    /\ errors' = WithoutSubmissionErrors
    /\ UNCHANGED <<destination, playbook, activeRun, cancelTarget, isCancelled, lastReport,
                   runVars, elevVars, loading, cancelPc, victim>>

\* The endpoint refused the report, or its answer was lost or too late.
StatusAfterFailure == "completed.submission_error"

SubmissionFails(s) ==
    /\ submission[s] # None
    /\ submission' = [submission EXCEPT ![s] = None]
    /\ \/ UNCHANGED delivered
       \/ delivered' = delivered \cup {submission[s]}
    /\ status' = StatusAfterFailure
    /\ errors' = errors \cup {"REMOTE_SUBMISSION_FAILED"}
    /\ UNCHANGED <<destination, playbook, activeRun, cancelTarget, isCancelled, lastReport,
                   runVars, elevVars, loading, cancelPc, victim>>

EndSubmission(s) == SubmissionSucceeds(s) \/ SubmissionFails(s)

-----------------------------------------------------------------------------
(* NewStateManager, and the playbook that may be given on the command line.*)
Init ==
    /\ \/ /\ status = "idle"
          /\ playbook = None
          /\ errors \in {{}, {"LOAD_FAILED"}}
          /\ destination = DefaultDestination
       \/ /\ status = "loaded"
          /\ playbook \in Playbooks
          /\ errors = IF playbook \in Invalid THEN {"PLAYBOOK_VALIDATION_FAILED"} ELSE {}
          /\ destination = PlaybookDestination(playbook)
    /\ activeRun = None
    /\ cancelTarget = None
    /\ isCancelled = FALSE
    /\ lastReport = None
    /\ pc = [r \in Runs |-> "unused"]
    /\ pbOf = [r \in Runs |-> None]
    /\ ctxDone = {}
    /\ trace = [r \in Runs |-> "none"]
    /\ starved = {}
    /\ runner = None
    /\ connected = {}
    /\ loading = [l \in Loaders |-> FALSE]
    /\ cancelPc = [c \in Cancellers |-> "idle"]
    /\ victim = [c \in Cancellers |-> None]
    /\ submission = [s \in Submitters |-> None]
    /\ delivered = {}

RunStep(r) ==
    \/ StartRun(r)
    \/ Elevate(r)
    \/ RunElevatedCommand(r)
    \/ DirectorReturns(r)
    \/ Publish(r)
    \/ CleanUp(r)

\* Every step but the one that applies a load.
ServerStep ==
    \/ \E r \in Runs : RunStep(r)
    \/ \E c \in Cancellers : MarkCancelling(c) \/ CallCancel(c) \/ AnswerCancel(c)
    \/ ShutdownCancelsRun
    \/ \E l \in Loaders : BeginLoad(l)
    \/ \E s \in Submitters : BeginSubmission(s) \/ EndSubmission(s)
    \/ UnloadPlaybook
    \/ \E folder \in {"on", "off"}, https \in {"off", "playbook", "custom"} :
          UpdateDestination(folder, https)

Next == ServerStep \/ \E l \in Loaders : FinishLoad(l)

\* The same server when no load is applied while a run or a submission is under way,
\* that is, when every slow upload or fetch happens to finish in time.
QuietNext == ServerStep \/ \E l \in Loaders : CanMutate /\ FinishLoad(l)

\* Goroutines are scheduled, a worker connects or the minute passes, submissions end
\* by their HTTP timeout, and a cancelled director stops: its commands are killed.
\* Nothing makes an uncancelled director return, or a client send a request.
Fairness ==
    /\ \A r \in Runs : /\ WF_vars(Elevate(r))
                       /\ WF_vars(Publish(r))
                       /\ WF_vars(CleanUp(r))
                       /\ WF_vars(r \in ctxDone /\ DirectorReturns(r))
    /\ \A c \in Cancellers : WF_vars(CallCancel(c)) /\ WF_vars(AnswerCancel(c))
    /\ \A s \in Submitters : WF_vars(EndSubmission(s))

Spec == Init /\ [][Next]_vars
QuietSpec == Init /\ [][QuietNext]_vars
QuietFairSpec == QuietSpec /\ Fairness

-----------------------------------------------------------------------------
(* Properties that hold however requests and runs interleave.              *)

\* Type invariant of the state manager, the run goroutines and the requests.
TypeOK ==
    /\ status \in Statuses
    /\ errors \subseteq ErrorCodes
    /\ destination \in [folder : {"on", "off"}, https : {"off", "playbook", "custom"}]
    /\ playbook \in Playbooks \cup {None}
    /\ {activeRun, cancelTarget, lastReport, runner} \subseteq Runs \cup {None}
    /\ isCancelled \in BOOLEAN
    /\ pc \in [Runs -> RunPcs]
    /\ pbOf \in [Runs -> Playbooks \cup {None}]
    /\ trace \in [Runs -> {"none", "whole", "partial", "tainted"}]
    /\ ctxDone \subseteq Runs /\ starved \subseteq Runs /\ connected \subseteq Runs
    /\ loading \in [Loaders -> BOOLEAN]
    /\ cancelPc \in [Cancellers -> {"idle", "marked", "waiting"}]
    /\ victim \in [Cancellers -> Runs \cup {None}]
    /\ submission \in [Submitters -> Deliveries \cup {None}]
    /\ delivered \subseteq Deliveries

\* The structured report of an interrupted run, partial or with a killed command scored
\* as a failure, is never served, alone or in an archive, never picked up by a submission
\* and never reaches an endpoint, even when runs and loads overlap (GetLastReport,
\* handleReportGet, handleReportDownload, handleReportRemoteSubmit).
NoPartialReportReleased ==
    /\ ReportAvailable => trace[lastReport] = "whole"
    /\ \A s \in Submitters : submission[s] # None => trace[submission[s].report] = "whole"
    /\ \A d \in delivered : trace[d.report] = "whole"

\* A status that says a run is executing always names, through activeRunID, a run
\* whose goroutine will still publish an outcome: the server cannot be left in a
\* running status with nothing to end it.
ActiveStatusHasRun ==
    status \in Executing =>
        /\ activeRun # None
        /\ activeRun = cancelTarget
        /\ pc[activeRun] \in Uncommitted

\* A status that says the active run is being cancelled is backed by its context:
\* it is cancelled, or a request holds that very run's cancel function and is about
\* to call it.
CancelReachesRun ==
    status = "running.cancelling" =>
        \/ activeRun \in ctxDone
        \/ \E c \in Cancellers : cancelPc[c] = "marked" /\ victim[c] = activeRun

\* No playbook that failed validation is ever executed, although errors, where the
\* verdict is kept, is rewritten by runs and submissions that may be older.
OnlyValidPlaybooksRun == \A r \in Runs : pbOf[r] \notin Invalid

\* When no run is in progress, no privileged worker is left connected or installed.
WorkersReleased ==
    (\A r \in Runs : pc[r] \in {"unused", "done"}) => runner = None /\ connected = {}

\* A cancellation comes to an end: the status does not stay "running.cancelling".
CancellationEnds == (status = "running.cancelling") ~> (status # "running.cancelling")

-----------------------------------------------------------------------------
(* Properties that hold as long as no load is applied late (QuietSpec).    *)

\* At most one run is in progress, and a busy status tells exactly whether a run or
\* a submission is under way.
OneActivity ==
    /\ \A q, r \in Runs : {pc[q], pc[r]} \subseteq Uncommitted => q = r
    /\ status \in Executing <=> \E r \in Runs : pc[r] \in Uncommitted
    /\ status = "completed.submitting" <=> \E s \in Submitters : submission[s] # None

\* "submitted" means that the report on display is the one an endpoint received.
SubmittedMeansDelivered ==
    status = "completed.submitted" =>
        /\ ReportAvailable
        /\ \E d \in delivered : d.report = lastReport

\* A status that says completed comes with a report that can be fetched, and it is that of a
\* run of the playbook on display, if one is: neither an earlier run's flag nor a
\* cancellation, a failed elevation or a submission since then withholds a complete report
\* (handleRun's reset, its two commits, SetLoadError, GetLastReport).
CompletedReportIsServed ==
    status \in Completed => ReportAvailable /\ playbook \in {None, pbOf[lastReport]}

\* A report goes to a playbook's endpoint only if that playbook's run produced it.
ReportGoesHome ==
    \A d \in delivered : d.to \in Playbooks => d.to = pbOf[d.report]

\* Only a run that shares the worker of an earlier one may lose it to that run's cleanup: a
\* run that has connected a worker of its own has it until its outcome is committed
\* (Cleanup, which uninstalls whatever runner is installed, and SetupElevation).
OnlySharersStarve == [][\A r \in starved' \ starved : r \notin connected]_vars

-----------------------------------------------------------------------------
(* Inductive strengthenings of these properties, for the proofs.           *)

\* The goroutines past their commit: their trace and playbook no longer change.
Past == {"committed", "closing", "done"}

ReportInv ==
    /\ \A r \in Runs : trace[r] # "none" => pc[r] \in {"returned"} \cup Past
    /\ \A r \in Runs : pc[r] = "returned" /\ r \notin ctxDone => trace[r] = "whole"
    /\ lastReport # None => pc[lastReport] \in Past
    /\ \A s \in Submitters : submission[s] # None => pc[submission[s].report] \in Past
    /\ \A d \in delivered : pc[d.report] \in Past
    /\ NoPartialReportReleased

StatusInv == ActiveStatusHasRun /\ CancelReachesRun

ValidInv ==
    /\ playbook \in Invalid => HasValidationErrors
    /\ OnlyValidPlaybooksRun

WorkersInv ==
    /\ \A r \in connected : pc[r] \in {"elevated", "directing", "returned", "committed"}
    /\ runner # None => runner \in connected \/ pc[runner] = "closing"

\* For QuietSpec: at most one run, or one submission, and what it works on is what
\* the state manager holds.
QuietInv ==
    /\ OneActivity
    /\ \A s, t \in Submitters : submission[s] # None /\ submission[t] # None => s = t
    /\ \A r \in Runs : pc[r] \in Uncommitted => pbOf[r] = playbook
    /\ lastReport # None /\ playbook # None => pbOf[lastReport] = playbook
    /\ \A s \in Submitters : submission[s] # None =>
          /\ submission[s].report = lastReport
          /\ ReportAvailable
          /\ submission[s].to \in Playbooks => submission[s].to = playbook
    /\ status \in Executing => ~isCancelled
    /\ CompletedReportIsServed
    /\ SubmittedMeansDelivered
    /\ ReportGoesHome

\* For QuietSpec: the installed runner is that of the only run that has a connection, or
\* that is about to uninstall it; who waits for a worker finds none installed.
OwnerInv ==
    /\ \A q \in Runs : q \in connected \/ pc[q] = "closing" => runner = q
    /\ \A r \in Runs : pc[r] = "dialing" => runner = None

-----------------------------------------------------------------------------
(* Statements of the code that it does not live up to.                     *)

\* "Cannot upload playbook during active execution or submission".
NoLoadWhileBusy == [][playbook' # playbook => CanMutate]_vars

\* A runner that is already configured is preserved for the run that shares it.
ElevatedCommandsHaveWorker == starved = {}

-----------------------------------------------------------------------------
(* What the server promises about reports, as an abstract specification.   *)
Outcome(r) ==
    IF trace[r] = "none" THEN "open"
    ELSE IF trace[r] = "whole" THEN "complete" ELSE "interrupted"

Outcomes == [r \in Runs |-> Outcome(r)]
Available == IF ReportAvailable THEN lastReport ELSE None
Sending == {submission[s].report : s \in {t \in Submitters : submission[t] # None}}
Sent == {d.report : d \in delivered}

Release == INSTANCE ReportRelease WITH
    outcome <- Outcomes, available <- Available, sending <- Sending, sent <- Sent

\* The server implements the abstract specification of report release.
ImplementsReportRelease == Release!RelSpec

\* What each run's goroutine makes of the director is what the director promises: it
\* returns once, and while nobody has cancelled the context, a whole trace.
RunsReturnResults == \A r \in Runs : Returning(r)!ResultSpec
=============================================================================
