----------------------- MODULE RunControlQuietProofs -----------------------
(* What holds of the run control when no load is applied while a run or a  *)
(* submission is under way (QuietSpec), for any sets of runs, playbooks    *)
(* and requests.                                                           *)
EXTENDS RunControlProofs

\* What a quiet server does, the server may do.
LEMMA QuietIsServer == QuietSpec => Spec
<1>1. QuietNext => Next
  BY DEF QuietNext, Next
<1> QED
  BY <1>1, PTL DEF QuietSpec, Spec

\* At the start nothing is under way.
LEMMA InitQuietInv == Init => QuietInv
  BY ConstantsAssumption
  DEF Init, QuietInv, OneActivity, SubmittedMeansDelivered, CompletedReportIsServed,
      ReportGoesHome, Executing, Uncommitted, Completed

\* What a run's goroutine does keeps QuietInv.
LEMMA RunStepQuietInv ==
  ASSUME TypeOK, ReportInv, QuietInv, NEW r \in Runs, RunStep(r)
  PROVE  QuietInv'
<1> USE ConstantsAssumption
    DEF TypeOK, QuietInv, OneActivity, SubmittedMeansDelivered, CompletedReportIsServed,
        ReportGoesHome, Executing, Uncommitted, Completed, ReportAvailable
<1>1. UNCHANGED <<playbook, submission, delivered>>
  BY DEF RunStep, StartRun, Elevate, SetupElevation, WorkerConnects, WorkerFails,
         RunElevatedCommand, DirectorReturns, Publish, CommitElevationFailure,
         CommitElevation, CommitInterrupted, CommitCompleted, CleanUp, CloseWorker,
         ClearRunner, NothingToClean, appVars, reqVars
<1>2. CASE StartRun(r)
  <2>1. /\ \A q \in Runs : pc[q] \notin Uncommitted
        /\ \A s \in Submitters : submission[s] = None
    BY <1>2 DEF StartRun, CanMutate, Busy
  <2>2. \A q \in Runs : pc'[q] \in Uncommitted <=> q = r
    BY <1>2, <2>1 DEF StartRun
  <2>3. pbOf'[r] = playbook'
    BY <1>2 DEF StartRun
  <2>4. ReportGoesHome'
    BY <1>1, <1>2 DEF StartRun, ReportInv, Past, Deliveries
  <2>5. status' \in Executing /\ lastReport' = None /\ ~isCancelled'
    BY <1>2 DEF StartRun, CancelledAtStart
  <2>6. OneActivity' /\ status' \notin Completed
    BY <1>1, <2>1, <2>2, <2>5
  <2>7. \A q \in Runs : pc'[q] \in Uncommitted => pbOf'[q] = playbook'
    BY <2>2, <2>3
  <2>8. CompletedReportIsServed' /\ SubmittedMeansDelivered'
    BY <2>6
  <2>9. \A s \in Submitters : submission'[s] = None
    BY <1>1, <2>1
  <2> QED
    BY <2>4, <2>5, <2>6, <2>7, <2>8, <2>9
<1>3. CASE Elevate(r)
  BY <1>1, <1>3 DEF Elevate, SetupElevation, WorkerConnects, WorkerFails, appVars
<1>4. CASE RunElevatedCommand(r)
  BY <1>1, <1>4 DEF RunElevatedCommand, appVars
<1>5. CASE DirectorReturns(r)
  BY <1>1, <1>5 DEF DirectorReturns, appVars
<1>6. CASE CommitElevation(r)
  BY <1>1, <1>6 DEF CommitElevation, StatusOnceElevated
<1>7. CASE CommitElevationFailure(r) \/ CommitInterrupted(r) \/ CommitCompleted(r)
  <2> USE <1>7 DEF CommitElevationFailure, CommitInterrupted, CommitCompleted
  <2>1. /\ pc[r] \in Uncommitted
        /\ pc' \in {[pc EXCEPT ![r] = "done"], [pc EXCEPT ![r] = "committed"]}
        /\ UNCHANGED pbOf
    OBVIOUS
  <2>2. \A q \in Runs : pc'[q] \notin Uncommitted
    BY <2>1
  <2>3. \A s \in Submitters : submission[s] = None
    BY <2>1
  <2>4. status' \in {"loaded", "completed", "completed.confirming_submission"}
    OBVIOUS
  <2>5. pbOf[r] = playbook /\ lastReport' \in {lastReport, r}
    BY <2>1
  <2> QED
    BY <1>1, <2>1, <2>2, <2>3, <2>4, <2>5
<1>8. CASE CleanUp(r)
  BY <1>1, <1>8 DEF CleanUp, CloseWorker, ClearRunner, NothingToClean, appVars
<1> QED
  BY <1>2, <1>3, <1>4, <1>5, <1>6, <1>7, <1>8 DEF RunStep, Publish

\* What the request handlers do keeps QuietInv, loads being applied in time.
LEMMA RequestStepQuietInv ==
  ASSUME TypeOK, QuietInv,
         \/ \E c \in Cancellers : MarkCancelling(c) \/ CallCancel(c) \/ AnswerCancel(c)
         \/ ShutdownCancelsRun
         \/ \E l \in Loaders : BeginLoad(l) \/ (CanMutate /\ FinishLoad(l))
         \/ \E s \in Submitters : BeginSubmission(s) \/ EndSubmission(s)
         \/ UnloadPlaybook
         \/ \E folder \in {"on", "off"}, https \in {"off", "playbook", "custom"} :
               UpdateDestination(folder, https)
  PROVE  QuietInv'
<1> USE ConstantsAssumption
    DEF TypeOK, QuietInv, OneActivity, SubmittedMeansDelivered, CompletedReportIsServed,
        ReportGoesHome, Executing, Uncommitted, Completed, ReportAvailable
<1>1. UNCHANGED <<pc, pbOf>>
  BY DEF MarkCancelling, CallCancel, AnswerCancel, ShutdownCancelsRun, BeginLoad, FinishLoad,
         BeginSubmission, EndSubmission, SubmissionSucceeds, SubmissionFails, UnloadPlaybook,
         UpdateDestination, runVars
<1>2. CASE CanMutate /\ (UnloadPlaybook \/ \E l \in Loaders : FinishLoad(l))
  <2>1. /\ \A q \in Runs : pc[q] \notin Uncommitted
        /\ \A s \in Submitters : submission[s] = None
    BY <1>2 DEF CanMutate, Busy
  <2>2. UNCHANGED <<submission, delivered>>
    BY <1>2 DEF UnloadPlaybook, FinishLoad, reqVars
  <2>3. status' \in {"idle", "loaded"} /\ (playbook' = None \/ lastReport' = None)
    BY <1>2 DEF UnloadPlaybook, FinishLoad, SetLoadError, SetPlaybook, ReportAfterLoad
  <2> QED
    BY <1>1, <2>1, <2>2, <2>3
<1>3. CASE \E c \in Cancellers : MarkCancelling(c)
  BY <1>1, <1>3 DEF MarkCancelling
<1>4. CASE \E s \in Submitters : BeginSubmission(s)
  <2> PICK s \in Submitters : BeginSubmission(s)
    BY <1>4
  <2>1. /\ \A q \in Runs : pc[q] \notin Uncommitted
        /\ \A t \in Submitters : submission[t] = None
    BY DEF BeginSubmission, CanMutate, Busy
  <2>2. /\ submission'[s] # None
        /\ submission'[s].report = lastReport
        /\ submission'[s].to \in Playbooks => submission'[s].to = playbook
    BY DEF BeginSubmission, Endpoint
  <2>3. \A t \in Submitters : submission'[t] # None <=> t = s
    BY <2>1, <2>2 DEF BeginSubmission
  <2>4. /\ UNCHANGED <<lastReport, isCancelled, playbook, delivered>>
        /\ ReportAvailable
        /\ status' = "completed.submitting"
    BY DEF BeginSubmission
  <2> QED
    BY <1>1, <2>1, <2>2, <2>3, <2>4
<1>5. CASE \E s \in Submitters : EndSubmission(s)
  <2> PICK s \in Submitters : EndSubmission(s)
    BY <1>5
  <2> USE DEF EndSubmission, SubmissionSucceeds, SubmissionFails
  <2>1. submission[s] # None /\ submission' = [submission EXCEPT ![s] = None]
    OBVIOUS
  <2>2. /\ \A t \in Submitters : submission'[t] = None
        /\ \A q \in Runs : pc[q] \notin Uncommitted
    BY <2>1
  <2>3. UNCHANGED <<lastReport, isCancelled, playbook>> /\ ReportAvailable
    BY <2>1
  <2>4. /\ submission[s] \in Deliveries
        /\ submission[s].report = lastReport
        /\ submission[s].to \in Playbooks => submission[s].to = pbOf[lastReport]
    BY <2>1
  <2>5. CASE SubmissionSucceeds(s)
    BY <1>1, <2>2, <2>3, <2>4, <2>5
  <2>6. CASE SubmissionFails(s)
    <3>1. status' = "completed.submission_error"
      BY <2>6 DEF StatusAfterFailure
    <3> QED
      BY <1>1, <2>2, <2>3, <2>4, <2>6, <3>1
  <2> QED
    BY <2>5, <2>6
<1>6. CASE UNCHANGED <<status, lastReport, isCancelled, playbook, submission, delivered>>
  BY <1>1, <1>6
<1> QED
  BY <1>2, <1>3, <1>4, <1>5, <1>6
  DEF CallCancel, AnswerCancel, ShutdownCancelsRun, BeginLoad, UnloadPlaybook,
      UpdateDestination, appVars, reqVars

\* QuietInv is inductive in QuietSpec.
LEMMA NextQuietInv == TypeOK /\ ReportInv /\ QuietInv /\ [QuietNext]_vars => QuietInv'
<1> SUFFICES ASSUME TypeOK, ReportInv, QuietInv, [QuietNext]_vars PROVE QuietInv'
  OBVIOUS
<1>1. CASE \E r \in Runs : RunStep(r)
  BY <1>1, RunStepQuietInv
<1>2. CASE UNCHANGED vars
  BY <1>2
  DEF QuietInv, OneActivity, SubmittedMeansDelivered, CompletedReportIsServed,
      ReportGoesHome, ReportAvailable, vars, appVars, runVars, reqVars
<1> QED
  BY <1>1, <1>2, RequestStepQuietInv DEF QuietNext, ServerStep

\* The inductive invariant behind the properties of QuietSpec, about the busy statuses that gate
\* loads, runs and submissions.
LEMMA QuietInvariant == QuietSpec => []QuietInv
<1>1. QuietSpec => [](TypeOK /\ ReportInv)
  BY QuietIsServer, TypeCorrect, ReportInvariant, PTL
<1> QED
  BY <1>1, InitQuietInv, NextQuietInv, PTL DEF QuietSpec

\* At most one run is in progress, and the busy statuses tell exactly what is.
THEOREM OneActivityAtATime == QuietSpec => []OneActivity
<1>1. QuietInv => OneActivity
  BY DEF QuietInv
<1> QED
  BY <1>1, QuietInvariant, PTL

\* A "submitted" status speaks of the report on display.
THEOREM SubmittedIsTrue == QuietSpec => []SubmittedMeansDelivered
<1>1. QuietInv => SubmittedMeansDelivered
  BY DEF QuietInv
<1> QED
  BY <1>1, QuietInvariant, PTL

\* A "completed" status comes with a report that can be fetched.
THEOREM CompletedIsServed == QuietSpec => []CompletedReportIsServed
<1>1. QuietInv => CompletedReportIsServed
  BY DEF QuietInv
<1> QED
  BY <1>1, QuietInvariant, PTL

\* A playbook's endpoint receives only reports of that playbook's runs.
THEOREM ReportsGoHome == QuietSpec => []ReportGoesHome
<1>1. QuietInv => ReportGoesHome
  BY DEF QuietInv
<1> QED
  BY <1>1, QuietInvariant, PTL

-----------------------------------------------------------------------------
(* The worker of a run.                                                    *)

\* At the start there is no worker.
LEMMA InitOwnerInv == Init => OwnerInv
  BY DEF Init, OwnerInv

\* Only the run that waits for a worker installs one, and only the run whose worker is
\* installed has a connection to close.
LEMMA RunStepOwnerInv ==
  ASSUME TypeOK, WorkersInv, QuietInv, OwnerInv, NEW r \in Runs, RunStep(r)
  PROVE  OwnerInv'
<1>1. /\ pc \in [Runs -> RunPcs] /\ connected \subseteq Runs
      /\ \A q \in Runs : q # None
  BY ConstantsAssumption DEF TypeOK
<1>2. CASE SetupElevation(r)
  <2>1. UNCHANGED <<runner, connected>>
    BY <1>2 DEF SetupElevation, elevVars
  <2>2. pc' = [pc EXCEPT ![r] = IF runner = None THEN "dialing" ELSE "elevated"]
    BY <1>2 DEF SetupElevation
  <2> QED
    BY <1>1, <2>1, <2>2 DEF OwnerInv
<1>3. CASE WorkerConnects(r)
  <2>1. /\ pc[r] = "dialing" /\ pc' = [pc EXCEPT ![r] = "elevated"]
        /\ runner' = r /\ connected' = connected \cup {r} /\ runner = None
    BY <1>3 DEF WorkerConnects, OwnerInv
  <2>2. \A q \in Runs : q \notin connected /\ pc[q] # "closing"
    BY <1>1, <2>1 DEF OwnerInv
  <2>3. \A q \in Runs : pc[q] = "dialing" => q = r
    BY <2>1 DEF QuietInv, OneActivity, Uncommitted
  <2> QED
    BY <1>1, <2>1, <2>2, <2>3 DEF OwnerInv
<1>4. CASE CloseWorker(r)
  <2>1. /\ r \in connected /\ pc' = [pc EXCEPT ![r] = "closing"]
        /\ connected' = connected \ {r} /\ UNCHANGED runner
    BY <1>4 DEF CloseWorker, OwnsWorker
  <2> QED
    BY <1>1, <2>1 DEF OwnerInv
<1>5. CASE ClearRunner(r)
  <2>1. /\ pc[r] = "closing" /\ pc' = [pc EXCEPT ![r] = "done"]
        /\ runner' = None /\ UNCHANGED connected
    BY <1>5 DEF ClearRunner
  <2>2. r \notin connected
    BY <2>1 DEF WorkersInv
  <2>3. \A q \in Runs : q \in connected \/ pc[q] = "closing" => q = r
    BY <2>1 DEF OwnerInv
  <2> QED
    BY <1>1, <2>1, <2>2, <2>3 DEF OwnerInv
<1>6. CASE \/ StartRun(r) \/ WorkerFails(r) \/ RunElevatedCommand(r) \/ DirectorReturns(r)
           \/ Publish(r) \/ NothingToClean(r)
  <2>1. UNCHANGED <<runner, connected>>
    BY <1>6
    DEF StartRun, WorkerFails, RunElevatedCommand, DirectorReturns, Publish,
        CommitElevationFailure, CommitElevation, CommitInterrupted, CommitCompleted,
        NothingToClean, elevVars
  <2>2. \/ UNCHANGED pc
        \/ \E x \in RunPcs \ {"closing", "dialing"} : pc' = [pc EXCEPT ![r] = x]
    BY <1>6
    DEF StartRun, WorkerFails, RunElevatedCommand, DirectorReturns, Publish,
        CommitElevationFailure, CommitElevation, CommitInterrupted, CommitCompleted,
        NothingToClean, RunPcs, Uncommitted
  <2> QED
    BY <1>1, <2>1, <2>2 DEF OwnerInv
<1> QED
  BY <1>2, <1>3, <1>4, <1>5, <1>6 DEF RunStep, Elevate, CleanUp

\* OwnerInv is inductive in QuietSpec, and only a run without a connection starves.
LEMMA NextOwnerInv ==
  ASSUME TypeOK, WorkersInv, QuietInv, OwnerInv, [QuietNext]_vars
  PROVE  OwnerInv' /\ \A r \in starved' \ starved : r \notin connected
<1>1. CASE \E r \in Runs : RunStep(r)
  <2> PICK r \in Runs : RunStep(r)
    BY <1>1
  <2>1. CASE RunElevatedCommand(r)
    <3>1. starved' = starved \cup {r} /\ runner \notin connected
      BY <2>1 DEF RunElevatedCommand
    <3>2. r \notin connected
      BY <3>1 DEF OwnerInv
    <3> QED
      BY <3>1, <3>2, RunStepOwnerInv
  <2>2. CASE ~RunElevatedCommand(r)
    <3>1. UNCHANGED starved
      BY <2>2
      DEF RunStep, StartRun, Elevate, SetupElevation, WorkerConnects, WorkerFails,
          DirectorReturns, Publish, CommitElevationFailure, CommitElevation,
          CommitInterrupted, CommitCompleted, CleanUp, CloseWorker, ClearRunner,
          NothingToClean
    <3> QED
      BY <3>1, RunStepOwnerInv
  <2> QED
    BY <2>1, <2>2
<1>2. CASE ~\E r \in Runs : RunStep(r)
  <2>1. UNCHANGED <<pc, runner, connected, starved>>
    BY <1>2
    DEF QuietNext, ServerStep, MarkCancelling, CallCancel, AnswerCancel, ShutdownCancelsRun,
        BeginLoad, FinishLoad, BeginSubmission, EndSubmission, SubmissionSucceeds,
        SubmissionFails, UnloadPlaybook, UpdateDestination, vars, runVars, elevVars
  <2> QED
    BY <2>1 DEF OwnerInv
<1> QED
  BY <1>1, <1>2

\* The worker that a run has connected serves it until its outcome is committed: the runs
\* whose commands may fail for want of a worker are those that share an earlier run's.
THEOREM OwnersAreServed == QuietSpec => OnlySharersStarve
<1>1. QuietSpec => [](TypeOK /\ WorkersInv)
  BY QuietIsServer, TypeCorrect, WorkersInvariant, PTL
<1>2. TypeOK /\ WorkersInv /\ QuietInv /\ OwnerInv /\ [QuietNext]_vars
        => OwnerInv' /\ [\A r \in starved' \ starved : r \notin connected]_vars
  BY NextOwnerInv
<1> QED
  BY <1>1, <1>2, InitOwnerInv, QuietInvariant, PTL DEF QuietSpec, OnlySharersStarve
=============================================================================
