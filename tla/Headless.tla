------------------------------ MODULE Headless ------------------------------
(***************************************************************************)
(* A run of a playbook without the web server (internal/runner/runner.go,  *)
(* from its comment "Headless CLI execution" to the end): one load, one    *)
(* validation, one run of the director, one report to one destination,     *)
(* and an exit code.                                                       *)
(*                                                                         *)
(* One action is one of these steps, and one file or one request of the    *)
(* report's.  The director is what Director shows of it: without a         *)
(* cancellation it returns a verdict on every assertion.                   *)
(*                                                                         *)
(* A definition whose name starts with Faulty is the definition after it   *)
(* with a plausible mistake, which no specification uses.                  *)
(***************************************************************************)
EXTENDS Validation, FiniteSets

CONSTANTS
    Playbooks  \* what the path on the command line may hold

\* The reports there are: verdicts by code, and the two totals.
Reports ==
    [assertions : UNION {[C -> BOOLEAN] : C \in SUBSET (Codes \cup {None})},
     passed : Nat, failed : Nat]

\* How Go ends a process on a signal that it does not handle.
Killed == 2

ASSUME PlaybooksAssumption ==
    /\ Playbooks \subseteq AllPlaybooks
    /\ None \notin Codes \cup AllPlaybooks \cup Endpoints \cup Reports
    /\ None \notin {0, 1, Killed}

VARIABLES
    agent,       \* opts.IsAgent: crobe, and not crobe-builder, which preprocesses
    folderFlag,  \* --folder was given
    step,        \* what Run does next
    config,      \* the playbook, or None
    worker,      \* an elevated worker is connected
    result,      \* the director's verdicts as GenerateReport puts them, or None
    files,       \* what the run's report files hold on disk
    received,    \* the endpoint has received the report
    exit         \* the exit code, or None while the process runs

reportVars == <<files, received>>
headlessVars == <<agent, folderFlag, step, config, worker, result, reportVars, exit>>

FileKinds == <<"log", "md", "json">>

\* SetPlaybook outside of the web mode: one destination, and --folder overrides.
Destination(pb) ==
    IF ~folderFlag /\ pb.reportDestination = "https" THEN "https" ELSE "folder"

-----------------------------------------------------------------------------
\* A return from Run: the deferred cleanup closes the worker's connection.
Return(code) ==
    /\ exit' = code
    /\ step' = "returned"
    /\ worker' = FALSE
    /\ UNCHANGED <<agent, folderFlag>>

Proceed(next) ==
    /\ step' = next
    /\ UNCHANGED <<agent, folderFlag, exit>>

Load ==
    /\ step = "load"
    /\ \/ \E pb \in Playbooks : config' = pb /\ Proceed("validate") /\ UNCHANGED worker
       \/ Return(1) /\ UNCHANGED config
    /\ UNCHANGED <<result, reportVars>>

ValidateConfig ==
    /\ step = "validate"
    /\ \/ Validate(config, agent) # {} /\ Return(1)
       \/ /\ Validate(config, agent) = {}
          /\ Proceed(IF agent THEN "elevate" ELSE "preprocess")
          /\ UNCHANGED worker
    /\ UNCHANGED <<config, result, reportVars>>

\* The hook of crobe-builder.  A script that cannot be read or transpiled ends the program,
\* and the playbook inlined so far is lost with it.
PreprocessConfig ==
    /\ step = "preprocess"
    /\ \/ config' = Preprocess(config) /\ Proceed("elevate") /\ UNCHANGED worker
       \/ References(config) # {} /\ Return(1) /\ UNCHANGED config
    /\ UNCHANGED <<result, reportVars>>

SetupElevation ==
    /\ step = "elevate"
    /\ \/ worker' = RequiresElevation(config) /\ Proceed("run")
       \/ RequiresElevation(config) /\ Return(1)
    /\ UNCHANGED <<config, result, reportVars>>

FaultyGenerateReport(pb, passed) ==
    [assertions |-> passed,
     passed |-> Cardinality({p \in Positions(pb) : passed[p]}),
     failed |-> Cardinality({p \in Positions(pb) : ~passed[p]})]

\* The entry of a code is that of the last assertion with this code; the totals count all.
GenerateReport(pb, passed) ==
    LET coded(c) == {p \in Positions(pb) : At(pb, p).code = c}
        last(c) == CHOOSE p \in coded(c) : \A q \in coded(c) : q = p \/ Before(q, p)
    IN [assertions |-> [c \in {At(pb, p).code : p \in Positions(pb)} |-> passed[last(c)]],
        passed |-> Cardinality({p \in Positions(pb) : passed[p]}),
        failed |-> Cardinality({p \in Positions(pb) : ~passed[p]})]

RunDirector ==
    /\ step = "run"
    /\ \E passed \in [Positions(config) -> BOOLEAN] :
           result' = GenerateReport(config, passed)
    /\ Proceed(IF Destination(config) = "https" THEN "submit" ELSE "makeFolder")
    /\ UNCHANGED <<config, worker, reportVars>>

-----------------------------------------------------------------------------
MakeFolder ==
    /\ step = "makeFolder"
    /\ \/ Proceed("log") /\ UNCHANGED worker
       \/ Return(1)
    /\ UNCHANGED <<config, result, reportVars>>

FaultyAfterFile(k) == IF k = 1 THEN "json" ELSE "finish"

AfterFile(k) == IF k = Len(FileKinds) THEN "finish" ELSE FileKinds[k + 1]

\* os.WriteFile creates the file before it writes: a failure may leave it short.
WriteFile(k) ==
    /\ step = FileKinds[k]
    /\ \/ /\ files' = [files EXCEPT ![step] = "whole"]
          /\ Proceed(AfterFile(k))
          /\ UNCHANGED worker
       \/ /\ \E left \in {"absent", "short"} : files' = [files EXCEPT ![step] = left]
          /\ Return(1)
    /\ UNCHANGED <<config, result, received>>

\* DispatchReport's and WriteToHTTP's own checks of the endpoint.
Secure(https) == https # None /\ https.url = "secure"

\* An answer of 2xx, another answer or none; of the latter two the endpoint may have kept
\* the report all the same.
Submit ==
    /\ step = "submit"
    /\ \/ /\ Secure(config.https)
          /\ received' = TRUE
          /\ Proceed("finish")
          /\ UNCHANGED worker
       \/ /\ received' \in IF Secure(config.https) THEN BOOLEAN ELSE {FALSE}
          /\ Return(1)
    /\ UNCHANGED <<config, result, files>>

Finish ==
    /\ step = "finish"
    /\ Return(IF result.failed > 0 THEN 1 ELSE 0)
    /\ UNCHANGED <<config, result, reportVars>>

\* There is no handler for SIGINT: the deferred cleanup does not run.
Interrupt ==
    /\ step \notin {"start", "returned"}
    /\ exit' = Killed
    /\ step' = "returned"
    /\ UNCHANGED <<agent, folderFlag, config, worker, result, reportVars>>

HeadlessInit ==
    /\ agent \in BOOLEAN
    /\ folderFlag \in BOOLEAN
    /\ step = "start"
    /\ config = None
    /\ worker = FALSE
    /\ result = None
    /\ files = [k \in {"log", "md", "json"} |-> "absent"]
    /\ received = FALSE
    /\ exit = None

HeadlessNext ==
    \/ Load
    \/ ValidateConfig
    \/ PreprocessConfig
    \/ SetupElevation
    \/ RunDirector
    \/ MakeFolder
    \/ \E k \in 1..3 : WriteFile(k)
    \/ Submit
    \/ Finish
    \/ Interrupt

=============================================================================
