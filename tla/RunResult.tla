------------------------------ MODULE RunResult ------------------------------
(***************************************************************************)
(* What the web server's run goroutine may rely on when the director       *)
(* returns: the trace is whole, unless the run's context was done by then. *)
(* With the context done it may also be partial (assertions are recorded   *)
(* as cancelled), or tainted (every assertion has a verdict, the last one  *)
(* from a command that the cancellation killed); the director does not     *)
(* tell these apart for its caller.                                        *)
(*                                                                         *)
(* RunControl chooses what a run returns from Results, and the director    *)
(* implements this specification (DirectorProofs): what the one assumes    *)
(* the other guarantees.                                                   *)
(***************************************************************************)
VARIABLES
    cancelled, \* is the run's context done?
    result     \* "none", then what the director returned

resultVars == <<cancelled, result>>

\* What the director may return.
Results == IF cancelled THEN {"whole", "partial", "tainted"} ELSE {"whole"}

ResultInit ==
    /\ cancelled = FALSE
    /\ result = "none"

Cancel ==
    /\ cancelled' = TRUE
    /\ UNCHANGED result

Return ==
    /\ result = "none"
    /\ result' \in Results
    /\ UNCHANGED cancelled

ResultSpec == ResultInit /\ [][Cancel \/ Return]_resultVars
=============================================================================
