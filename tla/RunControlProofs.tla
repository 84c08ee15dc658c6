-------------------------- MODULE RunControlProofs --------------------------
(* Proofs about RunControl, for any sets of runs, playbooks and requests.  *)
EXTENDS RunControl, TLAPS

-----------------------------------------------------------------------------
(* Type correctness.                                                       *)

\* The server starts well typed.
LEMMA InitTypeOK == Init => TypeOK
<1> SUFFICES ASSUME Init PROVE TypeOK
  OBVIOUS
<1>1. destination \in [folder : {"on", "off"}, https : {"off", "playbook", "custom"}]
  BY DEF Init, DefaultDestination, PlaybookDestination
<1>2. status \in Statuses /\ errors \subseteq ErrorCodes /\ playbook \in Playbooks \cup {None}
  BY DEF Init, Statuses, ErrorCodes
<1>3. {activeRun, cancelTarget, lastReport, runner} \subseteq Runs \cup {None}
  BY DEF Init
<1>4. /\ pc \in [Runs -> RunPcs]
      /\ pbOf \in [Runs -> Playbooks \cup {None}]
      /\ trace \in [Runs -> {"none", "whole", "partial", "tainted"}]
      /\ isCancelled \in BOOLEAN
      /\ ctxDone \subseteq Runs /\ starved \subseteq Runs /\ connected \subseteq Runs
  BY DEF Init, RunPcs
<1>5. /\ loading \in [Loaders -> BOOLEAN]
      /\ cancelPc \in [Cancellers -> {"idle", "marked", "waiting"}]
      /\ victim \in [Cancellers -> Runs \cup {None}]
      /\ submission \in [Submitters -> Deliveries \cup {None}]
      /\ delivered \subseteq Deliveries
  BY DEF Init
<1> QED
  BY <1>1, <1>2, <1>3, <1>4, <1>5 DEF TypeOK

\* What a step of one run's goroutine preserves.
LEMMA RunStepTypeOK ==
  ASSUME TypeOK, NEW r \in Runs, RunStep(r)
  PROVE  TypeOK'
<1> USE ConstantsAssumption
    DEF TypeOK, Statuses, Executing, Completed, ErrorCodes, RunPcs, Uncommitted
<1>1. CASE StartRun(r)
  <2>1. status' \in Statuses /\ pc' \in [Runs -> RunPcs] /\ pbOf' \in [Runs -> Playbooks \cup {None}]
    BY <1>1 DEF StartRun
  <2>2. {activeRun, cancelTarget, lastReport, runner}' \subseteq Runs \cup {None}
    BY <1>1 DEF StartRun, elevVars
  <2>3. isCancelled' \in BOOLEAN /\ errors' \subseteq ErrorCodes
    BY <1>1 DEF StartRun, CancelledAtStart
  <2> QED
    BY <1>1, <2>1, <2>2, <2>3 DEF StartRun, elevVars, reqVars
<1>2. CASE SetupElevation(r)
  BY <1>2 DEF SetupElevation, appVars, elevVars, reqVars
<1>3. CASE WorkerConnects(r)
  BY <1>3 DEF WorkerConnects, appVars, reqVars
<1>4. CASE WorkerFails(r)
  BY <1>4 DEF WorkerFails, appVars, elevVars, reqVars
<1>5. CASE CommitElevationFailure(r)
  BY <1>5 DEF CommitElevationFailure, elevVars, reqVars
<1>6. CASE CommitElevation(r)
  BY <1>6 DEF CommitElevation, StatusOnceElevated, elevVars, reqVars
<1>7. CASE RunElevatedCommand(r)
  BY <1>7 DEF RunElevatedCommand, appVars, elevVars, reqVars
<1>8. CASE DirectorReturns(r)
  BY <1>8 DEF DirectorReturns, Returning!Results, appVars, elevVars, reqVars
<1>9. CASE CommitInterrupted(r)
  BY <1>9 DEF CommitInterrupted, elevVars, reqVars
<1>10. CASE CommitCompleted(r)
  <2>1. status' \in Statuses /\ errors' \subseteq ErrorCodes
    BY <1>10 DEF CommitCompleted
  <2> QED
    BY <1>10, <2>1 DEF CommitCompleted, elevVars, reqVars
<1>11. CASE CloseWorker(r)
  BY <1>11 DEF CloseWorker, appVars, reqVars
<1>12. CASE ClearRunner(r)
  BY <1>12 DEF ClearRunner, appVars, reqVars
<1>13. CASE NothingToClean(r)
  BY <1>13 DEF NothingToClean, appVars, elevVars, reqVars
<1> QED
  BY <1>1, <1>2, <1>3, <1>4, <1>5, <1>6, <1>7, <1>8, <1>9, <1>10, <1>11, <1>12, <1>13
  DEF RunStep, Elevate, Publish, CleanUp

\* A step of a request, a load or a shutdown.
RequestStep ==
    \/ \E c \in Cancellers : MarkCancelling(c) \/ CallCancel(c) \/ AnswerCancel(c)
    \/ ShutdownCancelsRun
    \/ \E l \in Loaders : BeginLoad(l) \/ FinishLoad(l)
    \/ \E s \in Submitters : BeginSubmission(s) \/ EndSubmission(s)
    \/ UnloadPlaybook
    \/ \E folder \in {"on", "off"}, https \in {"off", "playbook", "custom"} :
          UpdateDestination(folder, https)

\* What the request handlers and Shutdown do keeps the types.
LEMMA RequestStepTypeOK ==
  ASSUME TypeOK, RequestStep
  PROVE  TypeOK'
<1> USE ConstantsAssumption DEF TypeOK, Statuses, Executing, Completed, ErrorCodes
<1>1. CASE \E c \in Cancellers : MarkCancelling(c)
  BY <1>1 DEF MarkCancelling, CapturedVictim, runVars, elevVars
<1>2. CASE \E c \in Cancellers : CallCancel(c)
  BY <1>2 DEF CallCancel, appVars, elevVars
<1>3. CASE \E c \in Cancellers : AnswerCancel(c)
  BY <1>3 DEF AnswerCancel, appVars, runVars, elevVars
<1>4. CASE ShutdownCancelsRun
  BY <1>4 DEF ShutdownCancelsRun, appVars, elevVars, reqVars
<1>5. CASE \E l \in Loaders : BeginLoad(l)
  BY <1>5 DEF BeginLoad, appVars, runVars, elevVars
<1>6. CASE \E l \in Loaders : FinishLoad(l)
  <2>1. CASE SetLoadError
    BY <1>6, <2>1 DEF FinishLoad, SetLoadError, runVars, elevVars
  <2>2. CASE \E pb \in Playbooks : SetPlaybook(pb)
    <3> PICK pb \in Playbooks : SetPlaybook(pb)
      BY <2>2
    <3>1. destination' \in [folder : {"on", "off"}, https : {"off", "playbook", "custom"}]
      BY DEF SetPlaybook, PlaybookDestination
    <3>2. status' \in Statuses /\ errors' \subseteq ErrorCodes /\ isCancelled' \in BOOLEAN
      BY DEF SetPlaybook
    <3> QED
      BY <1>6, <3>1, <3>2 DEF FinishLoad, SetPlaybook, ReportAfterLoad, runVars, elevVars
  <2> QED
    BY <1>6, <2>1, <2>2 DEF FinishLoad
<1>7. CASE \E s \in Submitters : BeginSubmission(s)
  <2> PICK s \in Submitters : BeginSubmission(s)
    BY <1>7
  <2>1. [report |-> lastReport, to |-> Endpoint(destination.https, playbook)] \in Deliveries
    BY DEF BeginSubmission, ReportAvailable, Endpoint, Deliveries
  <2> QED
    BY <2>1 DEF BeginSubmission, runVars, elevVars
<1>8. CASE \E s \in Submitters : EndSubmission(s)
  <2>1. CASE \E s \in Submitters : SubmissionSucceeds(s)
    BY <2>1 DEF SubmissionSucceeds, WithoutSubmissionErrors, runVars, elevVars
  <2>2. CASE \E s \in Submitters : SubmissionFails(s)
    BY <2>2 DEF SubmissionFails, StatusAfterFailure, runVars, elevVars
  <2> QED
    BY <1>8, <2>1, <2>2 DEF EndSubmission
<1>9. CASE UnloadPlaybook
  <2>1. destination' \in [folder : {"on", "off"}, https : {"off", "playbook", "custom"}]
    BY <1>9 DEF UnloadPlaybook, DefaultDestination
  <2>2. /\ status' \in Statuses /\ errors' \subseteq ErrorCodes
        /\ playbook' \in Playbooks \cup {None} /\ isCancelled' \in BOOLEAN
    BY <1>9 DEF UnloadPlaybook
  <2>3. {activeRun, cancelTarget, lastReport, runner}' \subseteq Runs \cup {None}
    BY <1>9 DEF UnloadPlaybook, elevVars
  <2>4. UNCHANGED <<runVars, elevVars, reqVars>>
    BY <1>9 DEF UnloadPlaybook
  <2> QED
    BY <2>1, <2>2, <2>3, <2>4 DEF runVars, elevVars, reqVars
<1>10. CASE \E folder \in {"on", "off"}, https \in {"off", "playbook", "custom"} :
              UpdateDestination(folder, https)
  BY <1>10 DEF UpdateDestination, runVars, elevVars, reqVars
<1> QED
  BY <1>1, <1>2, <1>3, <1>4, <1>5, <1>6, <1>7, <1>8, <1>9, <1>10 DEF RequestStep

\* Every step of the server keeps the types.
LEMMA NextTypeOK == TypeOK /\ [Next]_vars => TypeOK'
<1> SUFFICES ASSUME TypeOK, [Next]_vars PROVE TypeOK'
  OBVIOUS
<1>1. CASE \E r \in Runs : RunStep(r)
  BY <1>1, RunStepTypeOK
<1>2. CASE UNCHANGED vars
  BY <1>2 DEF TypeOK, vars, appVars, runVars, elevVars, reqVars
<1> QED
  BY <1>1, <1>2, RequestStepTypeOK DEF Next, ServerStep, RequestStep

\* The state manager, the run goroutines and the requests keep their types.
THEOREM TypeCorrect == Spec => []TypeOK
  BY InitTypeOK, NextTypeOK, PTL DEF Spec

-----------------------------------------------------------------------------
(* Only the reports of complete runs are released.                         *)

\* The goroutine of a run that has published its outcome leaves the trace alone.
LEMMA PastIsStable ==
  ASSUME TypeOK, NEW r \in Runs, RunStep(r)
  PROVE  \A q \in Runs : pc[q] \in Past => pc'[q] \in Past /\ trace'[q] = trace[q]
<1> USE DEF Past, TypeOK
<1>1. CASE StartRun(r)
  BY <1>1 DEF StartRun
<1>2. CASE Elevate(r)
  BY <1>2 DEF Elevate, SetupElevation, WorkerConnects, WorkerFails
<1>3. CASE RunElevatedCommand(r)
  BY <1>3 DEF RunElevatedCommand
<1>4. CASE DirectorReturns(r)
  BY <1>4 DEF DirectorReturns
<1>5. CASE Publish(r)
  BY <1>5 DEF Publish, CommitElevationFailure, CommitElevation, CommitInterrupted,
              CommitCompleted
<1>6. CASE CleanUp(r)
  BY <1>6 DEF CleanUp, CloseWorker, ClearRunner, NothingToClean
<1> QED
  BY <1>1, <1>2, <1>3, <1>4, <1>5, <1>6 DEF RunStep

\* At the start there is no report, and nothing has been sent.
LEMMA InitReportInv == Init => ReportInv
  BY ConstantsAssumption DEF Init, ReportInv, NoPartialReportReleased, ReportAvailable

\* What a run's goroutine does, the only writer of reports, releases complete ones only.
LEMMA RunStepReportInv ==
  ASSUME TypeOK, ReportInv, NEW r \in Runs, RunStep(r)
  PROVE  ReportInv'
<1>1. \A q \in Runs : pc[q] \in Past => pc'[q] \in Past /\ trace'[q] = trace[q]
  BY PastIsStable
<1>2. UNCHANGED <<submission, delivered>>
  BY DEF RunStep, StartRun, Elevate, SetupElevation, WorkerConnects, WorkerFails,
         RunElevatedCommand, DirectorReturns, Publish, CommitElevationFailure,
         CommitElevation, CommitInterrupted, CommitCompleted, CleanUp, CloseWorker,
         ClearRunner, NothingToClean, reqVars
<1>3. /\ \A q \in Runs : trace'[q] # "none" => pc'[q] \in {"returned"} \cup Past
      /\ \A q \in Runs : pc'[q] = "returned" /\ q \notin ctxDone' => trace'[q] = "whole"
  <2> USE DEF TypeOK, ReportInv, Past
  <2>1. CASE StartRun(r)
    BY <2>1 DEF StartRun
  <2>2. CASE Elevate(r)
    BY <2>2 DEF Elevate, SetupElevation, WorkerConnects, WorkerFails
  <2>3. CASE RunElevatedCommand(r)
    BY <2>3 DEF RunElevatedCommand
  <2>4. CASE DirectorReturns(r)
    BY <2>4 DEF DirectorReturns, Returning!Results
  <2>5. CASE Publish(r)
    BY <2>5 DEF Publish, CommitElevationFailure, CommitElevation, CommitInterrupted,
                CommitCompleted
  <2>6. CASE CleanUp(r)
    BY <2>6 DEF CleanUp, CloseWorker, ClearRunner, NothingToClean
  <2> QED
    BY <2>1, <2>2, <2>3, <2>4, <2>5, <2>6 DEF RunStep
<1>4. (\A s \in Submitters : submission[s] # None =>
          pc[submission[s].report] \in Past /\ trace[submission[s].report] = "whole")'
  BY <1>1, <1>2 DEF TypeOK, ReportInv, NoPartialReportReleased, Deliveries
<1>5. (\A d \in delivered : pc[d.report] \in Past /\ trace[d.report] = "whole")'
  BY <1>1, <1>2 DEF TypeOK, ReportInv, NoPartialReportReleased, Deliveries
<1>6. /\ lastReport' # None => pc'[lastReport'] \in Past
      /\ ReportAvailable' => trace'[lastReport'] = "whole"
  <2>1. CASE StartRun(r)
    BY <2>1 DEF StartRun, ReportAvailable
  <2>2. CASE CommitInterrupted(r)
    BY <2>2 DEF CommitInterrupted, ReportAvailable, TypeOK, Past
  <2>3. CASE CommitCompleted(r)
    BY <2>3 DEF CommitCompleted, Interrupted, ReportAvailable, ReportInv, TypeOK, Past
  <2>4. CASE UNCHANGED <<lastReport, isCancelled>>
    BY <1>1, <2>4 DEF ReportAvailable, ReportInv, NoPartialReportReleased, TypeOK
  <2> QED
    BY <2>1, <2>2, <2>3, <2>4
    DEF RunStep, Elevate, SetupElevation, WorkerConnects, WorkerFails,
        RunElevatedCommand, DirectorReturns, Publish, CommitElevationFailure,
        CommitElevation, CleanUp, CloseWorker, ClearRunner, NothingToClean, appVars
<1> QED
  BY <1>3, <1>4, <1>5, <1>6 DEF ReportInv, NoPartialReportReleased

\* No request handler makes a report out of anything but the last one.
LEMMA RequestStepReportInv == TypeOK /\ ReportInv /\ RequestStep => ReportInv'
<1> SUFFICES ASSUME TypeOK, ReportInv, RequestStep PROVE ReportInv'
  OBVIOUS
<1>1. /\ UNCHANGED <<pc, trace>>
      /\ ctxDone \subseteq ctxDone'
  BY DEF RequestStep, MarkCancelling, CallCancel, AnswerCancel, ShutdownCancelsRun,
         BeginLoad, FinishLoad, BeginSubmission, EndSubmission, SubmissionSucceeds,
         SubmissionFails, UnloadPlaybook, UpdateDestination, runVars
<1>2. /\ lastReport' \in {lastReport, None}
      /\ lastReport' # None => isCancelled' = isCancelled
  BY DEF RequestStep, MarkCancelling, CallCancel, AnswerCancel, ShutdownCancelsRun,
         BeginLoad, FinishLoad, SetLoadError, SetPlaybook, ReportAfterLoad,
         BeginSubmission, EndSubmission, SubmissionSucceeds, SubmissionFails,
         UnloadPlaybook, UpdateDestination, appVars
<1>3. CASE UNCHANGED <<submission, delivered>>
  BY <1>1, <1>2, <1>3 DEF ReportInv, NoPartialReportReleased, ReportAvailable
<1>4. CASE \E s \in Submitters : BeginSubmission(s)
  BY <1>1, <1>2, <1>4
  DEF BeginSubmission, ReportInv, NoPartialReportReleased, ReportAvailable, TypeOK
<1>5. CASE \E s \in Submitters : EndSubmission(s)
  BY <1>1, <1>2, <1>5 
  DEF EndSubmission, SubmissionSucceeds, SubmissionFails, ReportInv,
      NoPartialReportReleased, ReportAvailable, TypeOK
<1> QED
  BY <1>3, <1>4, <1>5
  DEF RequestStep, MarkCancelling, CallCancel, AnswerCancel, ShutdownCancelsRun,
      BeginLoad, FinishLoad, UnloadPlaybook, UpdateDestination, reqVars

\* ReportInv is inductive.
LEMMA NextReportInv == TypeOK /\ ReportInv /\ [Next]_vars => ReportInv'
<1> SUFFICES ASSUME TypeOK, ReportInv, [Next]_vars PROVE ReportInv'
  OBVIOUS
<1>1. CASE \E r \in Runs : RunStep(r)
  BY <1>1, RunStepReportInv
<1>2. CASE RequestStep
  BY <1>2, RequestStepReportInv
<1>3. CASE UNCHANGED vars
  BY <1>3 DEF ReportInv, NoPartialReportReleased, ReportAvailable, vars, appVars, runVars,
              reqVars
<1> QED
  BY <1>1, <1>2, <1>3 DEF Next, ServerStep, RequestStep

\* The inductive invariant behind the release of reports, about handleRun's goroutine, GetLastReport
\* and handleReportRemoteSubmit.
THEOREM ReportInvariant == Spec => []ReportInv
  BY InitTypeOK, NextTypeOK, InitReportInv, NextReportInv, PTL DEF Spec

\* The report of an interrupted run is never offered, captured or delivered.
THEOREM OnlyCompleteReportsReleased == Spec => []NoPartialReportReleased
<1>1. ReportInv => NoPartialReportReleased
  BY DEF ReportInv
<1> QED
  BY <1>1, ReportInvariant, PTL

-----------------------------------------------------------------------------
(* A running status is always ended by a run, and a cancellation by its    *)
(* context.                                                                *)

\* No status is active at the start.
LEMMA InitStatusInv == Init => StatusInv
  BY DEF Init, StatusInv, ActiveStatusHasRun, CancelReachesRun, Executing

\* A run's goroutine takes a running status away when it ends, and not before.
LEMMA RunStepStatusInv ==
  ASSUME TypeOK, StatusInv, NEW r \in Runs, RunStep(r)
  PROVE  StatusInv'
<1> USE DEF TypeOK, StatusInv, ActiveStatusHasRun, CancelReachesRun, Executing, Uncommitted
<1>1. CASE StartRun(r)
  BY <1>1, ConstantsAssumption DEF StartRun
<1>2. CASE Elevate(r)
  BY <1>2 DEF Elevate, SetupElevation, WorkerConnects, WorkerFails, appVars, reqVars
<1>3. CASE RunElevatedCommand(r)
  BY <1>3 DEF RunElevatedCommand, appVars, reqVars
<1>4. CASE DirectorReturns(r)
  BY <1>4 DEF DirectorReturns, appVars, reqVars
<1>5. CASE CommitElevation(r)
  BY <1>5 DEF CommitElevation, StatusOnceElevated, reqVars
<1>6. CASE CommitElevationFailure(r) \/ CommitInterrupted(r) \/ CommitCompleted(r)
  BY <1>6 DEF CommitElevationFailure, CommitInterrupted, CommitCompleted
<1>7. CASE CleanUp(r)
  BY <1>7 DEF CleanUp, CloseWorker, ClearRunner, NothingToClean, appVars, reqVars
<1> QED
  BY <1>1, <1>2, <1>3, <1>4, <1>5, <1>6, <1>7 DEF RunStep, Publish

\* handleCancel, loads and submissions leave a running status to its run.
LEMMA RequestStepStatusInv == TypeOK /\ StatusInv /\ RequestStep => StatusInv'
<1> SUFFICES ASSUME TypeOK, StatusInv, RequestStep PROVE StatusInv'
  OBVIOUS
<1> USE DEF TypeOK, StatusInv, ActiveStatusHasRun, CancelReachesRun, Executing
<1>1. CASE \E c \in Cancellers : MarkCancelling(c)
  BY <1>1 DEF MarkCancelling, CapturedVictim, runVars
<1>2. CASE \E c \in Cancellers : CallCancel(c)
  BY <1>2 DEF CallCancel, appVars
<1>3. CASE \E c \in Cancellers : AnswerCancel(c)
  BY <1>3 DEF AnswerCancel, appVars, runVars
<1>4. CASE ShutdownCancelsRun
  BY <1>4 DEF ShutdownCancelsRun, appVars, reqVars
<1>5. CASE \E l \in Loaders : BeginLoad(l)
  BY <1>5 DEF BeginLoad, appVars, runVars
<1>6. CASE \E folder \in {"on", "off"}, https \in {"off", "playbook", "custom"} :
             UpdateDestination(folder, https)
  BY <1>6 DEF UpdateDestination, runVars, reqVars
<1>7. CASE status' \notin Executing
  BY <1>7
<1> QED
  BY <1>1, <1>2, <1>3, <1>4, <1>5, <1>6, <1>7
  DEF RequestStep, FinishLoad, SetLoadError, SetPlaybook, BeginSubmission, EndSubmission,
      SubmissionSucceeds, SubmissionFails, StatusAfterFailure, UnloadPlaybook

\* StatusInv is inductive.
LEMMA NextStatusInv == TypeOK /\ StatusInv /\ [Next]_vars => StatusInv'
<1> SUFFICES ASSUME TypeOK, StatusInv, [Next]_vars PROVE StatusInv'
  OBVIOUS
<1>1. CASE \E r \in Runs : RunStep(r)
  BY <1>1, RunStepStatusInv
<1>2. CASE RequestStep
  BY <1>2, RequestStepStatusInv
<1>3. CASE UNCHANGED vars
  BY <1>3 DEF StatusInv, ActiveStatusHasRun, CancelReachesRun, vars, appVars, runVars, reqVars
<1> QED
  BY <1>1, <1>2, <1>3 DEF Next, ServerStep, RequestStep

\* The inductive invariant behind ActiveStatusHasRun and CancelReachesRun, about the status that
\* handleRun, its goroutine and handleCancel write.
THEOREM StatusInvariant == Spec => []StatusInv
  BY InitTypeOK, NextTypeOK, InitStatusInv, NextStatusInv, PTL DEF Spec

\* The server is never left in a running status that no goroutine will end.
THEOREM RunningStatusEnds == Spec => []ActiveStatusHasRun
<1>1. StatusInv => ActiveStatusHasRun
  BY DEF StatusInv
<1> QED
  BY <1>1, StatusInvariant, PTL

\* A status that announces a cancellation is backed by a cancelled context, or by a
\* request about to cancel it.
THEOREM CancellationIsBacked == Spec => []CancelReachesRun
<1>1. StatusInv => CancelReachesRun
  BY DEF StatusInv
<1> QED
  BY <1>1, StatusInvariant, PTL

-----------------------------------------------------------------------------
(* Validation gates execution.                                             *)

\* No playbook runs at the start.
LEMMA InitValidInv == Init => ValidInv
  BY ConstantsAssumption DEF Init, ValidInv, HasValidationErrors, OnlyValidPlaybooksRun

\* A run is started for a valid playbook, and its end removes no validation error.
LEMMA RunStepValidInv ==
  ASSUME TypeOK, ValidInv, NEW r \in Runs, RunStep(r)
  PROVE  ValidInv'
<1> USE DEF TypeOK, ValidInv, HasValidationErrors, OnlyValidPlaybooksRun
<1>1. CASE StartRun(r)
  BY <1>1 DEF StartRun
<1>2. CASE UNCHANGED <<playbook, pbOf>> /\ errors \subseteq errors'
  BY <1>2
<1> QED
  BY <1>1, <1>2
  DEF RunStep, Elevate, SetupElevation, WorkerConnects, WorkerFails, RunElevatedCommand,
      DirectorReturns, Publish, CommitElevationFailure, CommitElevation, CommitInterrupted,
      CommitCompleted, CleanUp, CloseWorker, ClearRunner, NothingToClean, appVars

\* Loads and submissions keep the validation errors of the playbook on display.
LEMMA RequestStepValidInv == TypeOK /\ ValidInv /\ RequestStep => ValidInv'
<1> SUFFICES ASSUME TypeOK, ValidInv, RequestStep PROVE ValidInv'
  OBVIOUS
<1> USE ConstantsAssumption
    DEF TypeOK, ValidInv, HasValidationErrors, OnlyValidPlaybooksRun
<1>1. UNCHANGED pbOf
  BY DEF RequestStep, MarkCancelling, CallCancel, AnswerCancel, ShutdownCancelsRun,
         BeginLoad, FinishLoad, BeginSubmission, EndSubmission, SubmissionSucceeds,
         SubmissionFails, UnloadPlaybook, UpdateDestination, runVars
<1>2. CASE \E l \in Loaders : FinishLoad(l)
  BY <1>1, <1>2 DEF FinishLoad, SetLoadError, SetPlaybook
<1>3. CASE UnloadPlaybook
  BY <1>1, <1>3 DEF UnloadPlaybook
<1>4. CASE \E s \in Submitters : EndSubmission(s)
  BY <1>1, <1>4 DEF EndSubmission, SubmissionSucceeds, SubmissionFails, WithoutSubmissionErrors
<1>5. CASE UNCHANGED <<playbook, errors>>
  BY <1>1, <1>5
<1> QED
  BY <1>2, <1>3, <1>4, <1>5
  DEF RequestStep, MarkCancelling, CallCancel, AnswerCancel, ShutdownCancelsRun, BeginLoad,
      BeginSubmission, UpdateDestination, appVars

\* ValidInv is inductive.
LEMMA NextValidInv == TypeOK /\ ValidInv /\ [Next]_vars => ValidInv'
<1> SUFFICES ASSUME TypeOK, ValidInv, [Next]_vars PROVE ValidInv'
  OBVIOUS
<1>1. CASE \E r \in Runs : RunStep(r)
  BY <1>1, RunStepValidInv
<1>2. CASE RequestStep
  BY <1>2, RequestStepValidInv
<1>3. CASE UNCHANGED vars
  BY <1>3 DEF ValidInv, HasValidationErrors, OnlyValidPlaybooksRun, vars, appVars, runVars
<1> QED
  BY <1>1, <1>2, <1>3 DEF Next, ServerStep, RequestStep

\* A playbook that failed validation is never executed, whatever rewrites the errors.
THEOREM ValidationGatesRuns == Spec => []OnlyValidPlaybooksRun
<1>1. ValidInv => OnlyValidPlaybooksRun
  BY DEF ValidInv
<1> QED
  BY <1>1, InitTypeOK, NextTypeOK, InitValidInv, NextValidInv, PTL DEF Spec

-----------------------------------------------------------------------------
(* No privileged worker outlives the runs.                                 *)

\* No worker is connected at the start.
LEMMA InitWorkersInv == Init => WorkersInv
  BY DEF Init, WorkersInv

\* WorkersInv is inductive.
LEMMA NextWorkersInv == TypeOK /\ WorkersInv /\ [Next]_vars => WorkersInv'
<1> SUFFICES ASSUME TypeOK, WorkersInv, [Next]_vars PROVE WorkersInv'
  OBVIOUS
<1>1. CASE \E r \in Runs : RunStep(r)
  <2> PICK r \in Runs : RunStep(r)
    BY <1>1
  <2> USE DEF TypeOK, WorkersInv
  <2>1. CASE StartRun(r)
    BY <2>1, ConstantsAssumption DEF StartRun, elevVars
  <2>2. CASE SetupElevation(r) \/ WorkerFails(r)
    BY <2>2 DEF SetupElevation, WorkerFails, elevVars
  <2>3. CASE WorkerConnects(r)
    BY <2>3 DEF WorkerConnects
  <2>4. CASE RunElevatedCommand(r)
    BY <2>4 DEF RunElevatedCommand, elevVars
  <2>5. CASE DirectorReturns(r)
    BY <2>5 DEF DirectorReturns, elevVars
  <2>6. CASE Publish(r)
    BY <2>6 DEF Publish, CommitElevationFailure, CommitElevation, CommitInterrupted,
                CommitCompleted, elevVars
  <2>7. CASE CloseWorker(r)
    BY <2>7 DEF CloseWorker
  <2>8. CASE ClearRunner(r)
    BY <2>8 DEF ClearRunner
  <2>9. CASE NothingToClean(r)
    BY <2>9 DEF NothingToClean, OwnsWorker, elevVars
  <2> QED
    BY <2>1, <2>2, <2>3, <2>4, <2>5, <2>6, <2>7, <2>8, <2>9 DEF RunStep, Elevate, CleanUp
<1>2. CASE UNCHANGED <<pc, runner, connected>>
  BY <1>2 DEF WorkersInv
<1> QED
  BY <1>1, <1>2
  DEF Next, ServerStep, MarkCancelling, CallCancel, AnswerCancel, ShutdownCancelsRun,
      BeginLoad, FinishLoad, BeginSubmission, EndSubmission, SubmissionSucceeds,
      SubmissionFails, UnloadPlaybook, UpdateDestination, vars, runVars, elevVars

\* Every connected or installed worker has a run that will still clean it up.
LEMMA WorkersInvariant == Spec => []WorkersInv
  BY InitTypeOK, NextTypeOK, InitWorkersInv, NextWorkersInv, PTL DEF Spec

\* When no run is in progress, no privileged worker is connected or installed.
THEOREM WorkersAreReleased == Spec => []WorkersReleased
<1>1. TypeOK /\ WorkersInv => WorkersReleased
  BY DEF TypeOK, WorkersInv, WorkersReleased
<1> QED
  BY <1>1, TypeCorrect, WorkersInvariant, PTL

-----------------------------------------------------------------------------
(* The server implements ReportRelease.                                    *)

\* Which abstract variables a step leaves alone follows from the concrete ones.
LEMMA Frames ==
  /\ UNCHANGED trace => UNCHANGED Outcomes
  /\ UNCHANGED <<lastReport, isCancelled>> => UNCHANGED Available
  /\ UNCHANGED submission => UNCHANGED Sending
  /\ UNCHANGED delivered => UNCHANGED Sent
  BY DEF Outcomes, Outcome, Available, ReportAvailable, Sending, Sent

\* The server starts as ReportRelease does.
LEMMA InitRefines == Init => Release!RelInit
  BY ConstantsAssumption
  DEF Init, Release!RelInit, Outcomes, Outcome, Available, ReportAvailable, Sending, Sent

\* What a run's goroutine does is a step of ReportRelease, or leaves it as it is.
LEMMA RunStepRefines ==
  ASSUME TypeOK, ReportInv, NEW r \in Runs, RunStep(r)
  PROVE  [Release!RelNext]_Release!relVars
<1>1. UNCHANGED <<Sending, Sent>>
  BY Frames
  DEF RunStep, StartRun, Elevate, SetupElevation, WorkerConnects, WorkerFails,
      RunElevatedCommand, DirectorReturns, Publish, CommitElevationFailure,
      CommitElevation, CommitInterrupted, CommitCompleted, CleanUp, CloseWorker,
      ClearRunner, NothingToClean, reqVars
<1>2. CASE DirectorReturns(r)
  <2>1. UNCHANGED Available
    BY <1>2, Frames DEF DirectorReturns, appVars
  <2>2. Outcomes[r] = "open"
    BY <1>2 DEF DirectorReturns, ReportInv, Past, Outcomes, Outcome
  <2>3. PICK t \in {"whole", "partial", "tainted"} : trace' = [trace EXCEPT ![r] = t]
    BY <1>2 DEF DirectorReturns, Returning!Results
  <2>4. Outcomes' = [Outcomes EXCEPT ![r] = IF t = "whole" THEN "complete" ELSE "interrupted"]
    BY <2>3 DEF TypeOK, Outcomes, Outcome
  <2>5. Release!EndRun(r)
    BY <1>1, <2>1, <2>2, <2>4 DEF Release!EndRun
  <2> QED
    BY <2>5 DEF Release!RelNext
<1>3. CASE CommitCompleted(r)
  <2>1. UNCHANGED Outcomes
    BY <1>3, Frames DEF CommitCompleted
  <2>2. Outcomes[r] = "complete"
    BY <1>3 DEF CommitCompleted, Interrupted, ReportInv, Outcomes, Outcome
  <2>3. Available' \in {r, None}
    BY <1>3 DEF CommitCompleted, Available
  <2> QED
    BY <1>1, <2>1, <2>2, <2>3 DEF Release!RelNext, Release!Publish, Release!Withdraw
<1>4. CASE StartRun(r) \/ CommitInterrupted(r)
  <2>1. UNCHANGED Outcomes
    BY <1>4, Frames DEF StartRun, CommitInterrupted
  <2>2. Available' = None
    BY <1>4 DEF StartRun, CommitInterrupted, Available, ReportAvailable
  <2> QED
    BY <1>1, <2>1, <2>2 DEF Release!RelNext, Release!Withdraw
<1>5. CASE UNCHANGED <<trace, lastReport, isCancelled>>
  BY <1>1, <1>5, Frames DEF Release!relVars
<1> QED
  BY <1>2, <1>3, <1>4, <1>5
  DEF RunStep, Elevate, SetupElevation, WorkerConnects, WorkerFails, RunElevatedCommand,
      Publish, CommitElevationFailure, CommitElevation, CleanUp, CloseWorker, ClearRunner,
      NothingToClean, appVars

\* What the request handlers do is a step of ReportRelease, or leaves it as it is.
LEMMA RequestStepRefines ==
  TypeOK /\ RequestStep => [Release!RelNext]_Release!relVars
<1> SUFFICES ASSUME TypeOK, RequestStep PROVE [Release!RelNext]_Release!relVars
  OBVIOUS
<1>1. UNCHANGED Outcomes
  BY Frames
  DEF RequestStep, MarkCancelling, CallCancel, AnswerCancel, ShutdownCancelsRun,
      BeginLoad, FinishLoad, BeginSubmission, EndSubmission, SubmissionSucceeds,
      SubmissionFails, UnloadPlaybook, UpdateDestination, runVars
<1>2. CASE \E l \in Loaders : FinishLoad(l)
  <2>1. UNCHANGED <<Sending, Sent>>
    BY <1>2, Frames DEF FinishLoad
  <2>2. Available' \in {Available, None}
    BY <1>2 DEF FinishLoad, SetLoadError, SetPlaybook, ReportAfterLoad, Available,
                ReportAvailable
  <2> QED
    BY <1>1, <2>1, <2>2 DEF Release!RelNext, Release!Withdraw, Release!relVars
<1>3. CASE UnloadPlaybook
  <2>1. UNCHANGED <<Sending, Sent>>
    BY <1>3, Frames DEF UnloadPlaybook, reqVars
  <2>2. Available' = None
    BY <1>3 DEF UnloadPlaybook, Available, ReportAvailable
  <2> QED
    BY <1>1, <2>1, <2>2 DEF Release!RelNext, Release!Withdraw
<1>4. CASE \E s \in Submitters : BeginSubmission(s)
  <2> PICK s \in Submitters : BeginSubmission(s)
    BY <1>4
  <2>1. UNCHANGED <<Available, Sent>>
    BY Frames DEF BeginSubmission
  <2>2. Available # None /\ Available = lastReport
    BY DEF BeginSubmission, Available, ReportAvailable
  <2>3. /\ submission' = [submission EXCEPT ![s] =
                            [report |-> lastReport, to |-> Endpoint(destination.https, playbook)]]
        /\ submission[s] = None
        /\ submission'[s] # None
    BY ConstantsAssumption DEF BeginSubmission, ReportAvailable, TypeOK, Endpoint
  <2>4. Sending' = Sending \cup {lastReport}
    BY <2>3 DEF Sending, TypeOK
  <2>5. Release!BeginDelivery
    BY <1>1, <2>1, <2>2, <2>4 DEF Release!BeginDelivery
  <2> QED
    BY <2>5 DEF Release!RelNext
<1>5. CASE \E s \in Submitters : EndSubmission(s)
  <2> PICK s \in Submitters : EndSubmission(s)
    BY <1>5
  <2> DEFINE r == submission[s].report
  <2>1. UNCHANGED Available
    BY Frames DEF EndSubmission, SubmissionSucceeds, SubmissionFails
  <2>2. /\ submission[s] # None
        /\ submission' = [submission EXCEPT ![s] = None]
        /\ delivered' \in {delivered, delivered \cup {submission[s]}}
    BY DEF EndSubmission, SubmissionSucceeds, SubmissionFails
  <2>3. r \in Sending /\ r \in Runs
    BY <2>2 DEF Sending, TypeOK, Deliveries
  <2>4. Sending' \in {Sending, Sending \ {r}}
    BY <2>2 DEF Sending, TypeOK
  <2>5. Sent' \in {Sent, Sent \cup {r}}
    BY <2>2 DEF Sent
  <2>6. Release!EndDelivery(r)
    BY <1>1, <2>1, <2>3, <2>4, <2>5 DEF Release!EndDelivery
  <2> QED
    BY <2>3, <2>6 DEF Release!RelNext
<1>6. CASE UNCHANGED <<lastReport, isCancelled, submission, delivered>>
  BY <1>1, <1>6, Frames DEF Release!relVars
<1> QED
  BY <1>2, <1>3, <1>4, <1>5, <1>6
  DEF RequestStep, MarkCancelling, CallCancel, AnswerCancel, ShutdownCancelsRun, BeginLoad,
      UpdateDestination, appVars, reqVars

\* Every step of the server is a step of ReportRelease, or leaves it as it is.
LEMMA NextRefines == TypeOK /\ ReportInv /\ [Next]_vars => [Release!RelNext]_Release!relVars
<1> SUFFICES ASSUME TypeOK, ReportInv, [Next]_vars PROVE [Release!RelNext]_Release!relVars
  OBVIOUS
<1>1. CASE \E r \in Runs : RunStep(r)
  BY <1>1, RunStepRefines
<1>2. CASE RequestStep
  BY <1>2, RequestStepRefines
<1>3. CASE UNCHANGED vars
  BY <1>3, Frames DEF vars, appVars, runVars, reqVars, Release!relVars
<1> QED
  BY <1>1, <1>2, <1>3 DEF Next, ServerStep, RequestStep

\* Every behaviour of the server is one that the abstract specification allows.
THEOREM ServerImplementsRelease == Spec => ImplementsReportRelease
  BY InitTypeOK, NextTypeOK, InitReportInv, NextReportInv, InitRefines, NextRefines, PTL
  DEF Spec, ImplementsReportRelease, Release!RelSpec

-----------------------------------------------------------------------------
(* What the director promises, as each run's goroutine relies on it.       *)

\* Every step leaves what the director returned to the run r as it was, or is its return,
\* or the cancellation of the run's context.
LEMMA NextReturnsResult ==
  ASSUME TypeOK, ReportInv, [Next]_vars, NEW r \in Runs
  PROVE  [Returning(r)!Cancel \/ Returning(r)!Return]_(Returning(r)!resultVars)
<1>1. CASE \E q \in Runs : DirectorReturns(q)
  <2> PICK q \in Runs : DirectorReturns(q)
    BY <1>1
  <2>1. UNCHANGED ctxDone /\ pc[q] = "directing"
    BY DEF DirectorReturns
  <2>2. PICK t \in Returning(q)!Results : trace' = [trace EXCEPT ![q] = t]
    BY DEF DirectorReturns
  <2>3. trace[q] = "none"
    BY <2>1 DEF ReportInv, TypeOK, Past
  <2>4. CASE q = r
    <3>1. trace'[r] \in Returning(r)!Results
      BY <2>2, <2>4 DEF TypeOK
    <3> QED
      BY <2>1, <2>3, <2>4, <3>1 DEF Returning!Return
  <2>5. CASE q # r
    BY <2>1, <2>2, <2>5 DEF TypeOK, Returning!resultVars
  <2> QED
    BY <2>4, <2>5
<1>2. CASE UNCHANGED trace /\ ctxDone \subseteq ctxDone'
  <2>1. CASE r \in ctxDone'
    BY <1>2, <2>1 DEF Returning!Cancel
  <2>2. CASE r \notin ctxDone'
    BY <1>2, <2>2 DEF Returning!resultVars
  <2> QED
    BY <2>1, <2>2
<1>3. CASE \E q \in Runs : RunStep(q) /\ ~DirectorReturns(q)
  <2>1. UNCHANGED <<trace, ctxDone>>
    BY <1>3 DEF RunStep, StartRun, Elevate, SetupElevation, WorkerConnects, WorkerFails,
       RunElevatedCommand, Publish, CommitElevationFailure, CommitElevation,
       CommitInterrupted, CommitCompleted, CleanUp, CloseWorker, ClearRunner, NothingToClean
  <2> QED
    BY <1>2, <2>1
<1>4. CASE RequestStep
  <2>1. UNCHANGED trace /\ ctxDone \subseteq ctxDone'
    BY <1>4
    DEF RequestStep, MarkCancelling, CallCancel, AnswerCancel, ShutdownCancelsRun, BeginLoad,
        FinishLoad, BeginSubmission, EndSubmission, SubmissionSucceeds, SubmissionFails,
        UnloadPlaybook, UpdateDestination, runVars
  <2> QED
    BY <1>2, <2>1
<1>5. CASE UNCHANGED vars
  BY <1>2, <1>5 DEF vars, runVars
<1> QED
  BY <1>1, <1>3, <1>4, <1>5 DEF Next, ServerStep, RequestStep

\* For every run and whatever overlaps it, its goroutine takes from the director what
\* RunResult allows, which is what the director was shown to return.
THEOREM ServerRunsReturnResults == Spec => RunsReturnResults
<1>1. ASSUME NEW r \in Runs PROVE Spec => Returning(r)!ResultSpec
  <2>1. Init => Returning(r)!ResultInit
    BY DEF Init, Returning!ResultInit
  <2>2. TypeOK /\ ReportInv /\ [Next]_vars
          => [Returning(r)!Cancel \/ Returning(r)!Return]_(Returning(r)!resultVars)
    BY NextReturnsResult
  <2> QED
    BY <2>1, <2>2, TypeCorrect, ReportInvariant, PTL DEF Spec, Returning!ResultSpec
<1> QED
  BY <1>1 DEF RunsReturnResults
=============================================================================
