--------------------------- MODULE ReportRelease ---------------------------
(***************************************************************************)
(* What the web server promises about structured reports, whatever its     *)
(* handlers and run goroutines do: a report can be fetched, downloaded as  *)
(* an archive or sent to a remote endpoint only if its run was executed to *)
(* the end.  The reports of interrupted runs never become available, and a *)
(* delivery always starts from a report available at that moment.  (The    *)
(* log and the Markdown text of an interrupted run may be read.)           *)
(*                                                                         *)
(* RunControl implements this specification (RunControlProofs).            *)
(***************************************************************************)
CONSTANTS
    Runs,  \* the runs, each with the report it produces
    None   \* no report

VARIABLES
    outcome,    \* how each run ended: executed completely, or interrupted
    available,  \* the report GET /api/report answers with, or None
    sending,    \* the reports a remote submission is carrying
    sent        \* the reports an endpoint has received

relVars == <<outcome, available, sending, sent>>

RelInit ==
    /\ outcome = [r \in Runs |-> "open"]
    /\ available = None
    /\ sending = {}
    /\ sent = {}

\* A run ends, once, in one way or the other.
EndRun(r) ==
    /\ outcome[r] = "open"
    /\ \E o \in {"complete", "interrupted"} : outcome' = [outcome EXCEPT ![r] = o]
    /\ UNCHANGED <<available, sending, sent>>

\* The report of a complete run becomes the one on offer.
Publish(r) ==
    /\ outcome[r] = "complete"
    /\ available' = r
    /\ UNCHANGED <<outcome, sending, sent>>

\* The report on offer is withdrawn: a new run, an aborted run, another playbook.
Withdraw ==
    /\ available' = None
    /\ UNCHANGED <<outcome, sending, sent>>

\* A submission of the report on offer begins.
BeginDelivery ==
    /\ available # None
    /\ sending' = sending \cup {available}
    /\ UNCHANGED <<outcome, available, sent>>

\* A submission ends; the endpoint may or may not have received the report.
\* Another submission of the same report may still be under way.
EndDelivery(r) ==
    /\ r \in sending
    /\ sending' \in {sending, sending \ {r}}
    /\ sent' \in {sent, sent \cup {r}}
    /\ UNCHANGED <<outcome, available>>

RelNext ==
    \/ Withdraw
    \/ \E r \in Runs : Publish(r) \/ EndRun(r) \/ EndDelivery(r)
    \/ BeginDelivery

RelSpec == RelInit /\ [][RelNext]_relVars
=============================================================================
