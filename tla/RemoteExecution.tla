--------------------------- MODULE RemoteExecution ---------------------------
(***************************************************************************)
(* What the privileged worker promises to whoever has it run a command:    *)
(* the command is started at most once, and never if the request was       *)
(* rejected; an answer is given only for a command that has run to its     *)
(* end.  A caller may go away without an answer at any time, and then      *)
(* nothing is said of the command: it may not have been started, still be  *)
(* running, or be done.  A worker that has ended starts nothing more, and  *)
(* leaves what it was running without a result.                            *)
(*                                                                         *)
(* The channel between the probe and its worker implements this            *)
(* specification (ElevationChannelProofs).                                 *)
(***************************************************************************)
CONSTANT Requests

VARIABLES
    call,    \* what the caller of each request knows
    command, \* what has become of its command
    alive    \* is there a worker?

remoteVars == <<call, command, alive>>

RemoteInit ==
    /\ call = [r \in Requests |-> "unused"]
    /\ command = [r \in Requests |-> "none"]
    /\ alive = TRUE

Issue(r) ==
    /\ call[r] = "unused"
    /\ call' = [call EXCEPT ![r] = "issued"]
    /\ UNCHANGED <<command, alive>>

Reject(r) ==
    /\ call[r] = "unused"
    /\ call' = [call EXCEPT ![r] = "rejected"]
    /\ UNCHANGED <<command, alive>>

\* A command is started for a request that has been issued, answered to or not.
Begin(r) ==
    /\ alive
    /\ call[r] \notin {"unused", "rejected"}
    /\ command[r] = "none"
    /\ command' = [command EXCEPT ![r] = "running"]
    /\ UNCHANGED <<call, alive>>

Finish(r) ==
    /\ alive
    /\ command[r] = "running"
    /\ command' = [command EXCEPT ![r] = "finished"]
    /\ UNCHANGED <<call, alive>>

Answer(r) ==
    /\ call[r] = "issued"
    /\ command[r] = "finished"
    /\ call' = [call EXCEPT ![r] = "answered"]
    /\ UNCHANGED <<command, alive>>

\* Without a worker a request need not even be issued.
GoWithout(r) ==
    /\ call[r] = "issued" \/ (call[r] = "unused" /\ ~alive)
    /\ call' = [call EXCEPT ![r] = "unanswered"]
    /\ UNCHANGED <<command, alive>>

EndWorker ==
    /\ alive
    /\ alive' = FALSE
    /\ command' = [r \in Requests |-> IF command[r] = "running" THEN "abandoned"
                                      ELSE command[r]]
    /\ UNCHANGED call

RemoteNext ==
    \/ EndWorker
    \/ \E r \in Requests : Issue(r) \/ Reject(r) \/ Begin(r) \/ Finish(r) \/ Answer(r)
                           \/ GoWithout(r)

RemoteSpec == RemoteInit /\ [][RemoteNext]_remoteVars
=============================================================================
