------------------------------- MODULE Runner -------------------------------
(***************************************************************************)
(* The programs crobe and crobe-builder from their start to their exit     *)
(* code (internal/runner/runner.go and the mains under cmd/): what the     *)
(* arguments ask for, the baking of a playbook (transpile.BakeFile), a run *)
(* without the web server (Headless), or the web server (ServerExit).      *)
(*                                                                         *)
(* The worker that -worker asks for is ElevationChannel's; here it only    *)
(* ends.                                                                   *)
(*                                                                         *)
(* A definition whose name starts with Faulty is the definition after it   *)
(* with a plausible mistake, which no specification uses.                  *)
(***************************************************************************)
EXTENDS Headless

CONSTANTS
    Streams, Triggers, Main  \* ServerExit's

ASSUME RunnerAssumption ==
    /\ None \notin Triggers \cup {Main}
    /\ None # "headless"

VARIABLES
    mode,   \* what the arguments ask for, or None
    baked,  \* the playbook that --preprocess has written, or None
    main, call, stream, inbox, owed, handed, timedOut, closer, run  \* ServerExit's

Server == INSTANCE ServerExit

serverState == <<main, call, stream, inbox, owed, handed, timedOut, closer, run>>
headlessState == <<folderFlag, step, config, worker, result, reportVars>>
vars == <<mode, baked, serverState, agent, headlessState, exit>>

-----------------------------------------------------------------------------
Arguments ==
    [worker : BOOLEAN,   \* -worker
     handler : {"none", "preprocess", "schema"},
     ui : BOOLEAN,       \* -ui
     path : BOOLEAN,     \* a playbook is named
     other : BOOLEAN,    \* there are other arguments
     desktop : BOOLEAN]  \* desktop.IsDesktopGUI()

\* Only crobe-builder has custom flags.  Without any argument a desktop gets the web server.
Mode(args) ==
    CASE args.worker -> "worker"
      [] args.handler # "none" /\ ~agent -> args.handler
      [] args.ui -> "ui"
      [] args.path -> "headless"
      [] args.desktop /\ ~args.other -> "ui"
      [] OTHER -> "none"

\* flags.Parse, which may refuse the arguments, and the choice of what to do.
ParseArguments ==
    /\ mode = None
    /\ \/ \E args \in Arguments : mode' = Mode(args) /\ UNCHANGED exit
       \/ mode' = "none" /\ exit' = 1
    /\ step' = IF mode' = "headless" THEN "load" ELSE step
    /\ UNCHANGED <<baked, serverState, agent, folderFlag, config, worker, result, reportVars>>

NoPlaybook ==
    /\ mode = "none"
    /\ exit' = 1
    /\ UNCHANGED <<mode, baked, serverState, agent, headlessState>>

\* RunWorker's end, or that of -schema.
RunOther ==
    /\ mode \in {"worker", "schema"}
    /\ exit' \in {0, 1}
    /\ UNCHANGED <<mode, baked, serverState, agent, headlessState>>

\* BakeFile: each of its steps may fail, the last one after it has created the file.
BakeFile ==
    /\ mode = "preprocess"
    /\ \/ /\ \E pb \in Playbooks :
                /\ Validate(Preprocess(pb), FALSE) = {}
                /\ baked' = Preprocess(pb)
          /\ exit' = 0
       \/ exit' = 1 /\ UNCHANGED baked
    /\ UNCHANGED <<mode, serverState, agent, headlessState>>

HeadlessRun ==
    /\ mode = "headless"
    /\ HeadlessNext
    /\ UNCHANGED <<mode, baked, serverState>>

WebServer ==
    /\ mode = "ui"
    /\ Server!ServerNext
    /\ UNCHANGED <<mode, baked, agent, headlessState>>

Init ==
    /\ HeadlessInit
    /\ Server!ServerInit
    /\ mode = None
    /\ baked = None

Next ==
    /\ exit = None
    /\ \/ ParseArguments
       \/ NoPlaybook
       \/ RunOther
       \/ BakeFile
       \/ HeadlessRun
       \/ WebServer

Spec == Init /\ [][Next]_vars

\* Goroutines that can go on do, and each wait of a shutdown has a timeout.
ServerProgress ==
    /\ exit = None
    /\ mode = "ui"
    /\ \/ Server!SeeShutdown
       \/ \E c \in Server!Callers :
             \/ Server!EndWait(c)
             \/ Server!CloseShutdownChan(c)
             \/ Server!CancelRun(c)
             \/ Server!EndShutdown(c)
    /\ UNCHANGED <<mode, baked, agent, headlessState>>

FairSpec == Spec /\ WF_vars(ServerProgress)

-----------------------------------------------------------------------------
(* Properties.                                                             *)

\* What each variable may hold, at every point of the program.
TypeOK ==
    /\ agent \in BOOLEAN /\ folderFlag \in BOOLEAN /\ worker \in BOOLEAN /\ received \in BOOLEAN
    /\ mode \in {None, "worker", "preprocess", "schema", "ui", "headless", "none"}
    /\ step \in {"start", "load", "validate", "preprocess", "elevate", "run", "makeFolder",
                 "log", "md", "json", "submit", "finish", "returned"}
    /\ config \in AllPlaybooks \cup {None}
    /\ baked \in AllPlaybooks \cup {None}
    /\ result \in Reports \cup {None}
    /\ files \in [{"log", "md", "json"} -> {"absent", "short", "whole"}]
    /\ exit \in {None, 0, 1, Killed}
    /\ Server!ServerTypeOK

\* The report of a run without the web server has one entry for each assertion of the
\* playbook, and totals that count these entries: the map by codes and the totals of the
\* director agree because the validator refused a playbook in which a code appears twice.
ReportAccounts ==
    result # None =>
        /\ Cardinality(DOMAIN result.assertions) = Cardinality(Positions(config))
        /\ \A v \in BOOLEAN :
               Cardinality({c \in DOMAIN result.assertions : result.assertions[c] = v})
                   = IF v THEN result.passed ELSE result.failed

\* A run without the web server that exits with 0 has found that every assertion passed and
\* has delivered the whole report: all three files, or to the endpoint alone.
ExitZeroMeansReported ==
    mode = "headless" /\ exit = 0 =>
        /\ result # None
        /\ result.failed = 0
        /\ \A p \in Positions(config) : result.assertions[At(config, p).code]
        /\ received = (Destination(config) = "https")
        /\ \A k \in DOMAIN files : files[k] = IF received THEN "absent" ELSE "whole"
        /\ ~worker

\* What crobe-builder runs or bakes names no external script, at whatever place the
\* playbook on disk named one (Preprocess and processAssertion reach every place the
\* executor takes a script from), and what it bakes crobe accepts.
BuilderInlinesScripts ==
    /\ result # None /\ ~agent => References(config) = {}
    /\ baked # None => References(baked) = {} /\ Validate(baked, TRUE) = {}

\* The web server ends in order.  When the caller that closes shutdownChan has not given up
\* waiting, every stream it handed its termination has written one, and the process does
\* not end before shutdownChan is closed (BroadcastTermination, Shutdown, Run's select).
OrderlyShutdown ==
    /\ closer # None /\ closer \notin timedOut =>
           \A s \in handed[closer] : stream[s] = "told"
    /\ mode = "ui" /\ exit = 0 => closer # None

\* A shutdown that has begun ends the process, whatever the streams and other shutdowns do.
ServerExits == (\E c \in Server!Callers : call[c] # "idle") ~> (exit # None)

-----------------------------------------------------------------------------
(* Statements of the repository that the code does not live up to.         *)

\* "When isAgent is true, external script references (funcFile, shellFuncFile) are
\* disallowed" (Validate): no playbook runs that still names one, in either program.
NoScriptsRun == result # None => References(config) = {}

\* "Any in-flight executions will be halted": when the web server has ended, the context
\* of the run that it was executing has been cancelled (Shutdown, Run's select).
ShutdownHaltsRuns == mode = "ui" /\ exit = 0 => run # "active"

=============================================================================
