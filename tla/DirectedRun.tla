----------------------------- MODULE DirectedRun -----------------------------
(***************************************************************************)
(* What a run of a playbook promises to whoever watches it, whatever its   *)
(* commands do and whenever it is cancelled: its assertions are judged one *)
(* after the other, in the order of the playbook, and a verdict stands.    *)
(* Once the run is cancelled no assertion is started: the one under way    *)
(* may still get its verdict, and all that have none end as cancelled.     *)
(* The run ends when every assertion has ended, and calls itself complete  *)
(* only if each of them has a verdict.                                     *)
(*                                                                         *)
(* The director implements this specification (DirectorProofs), and so     *)
(* does every run of the event feed (EventFeedProofs), which knows the     *)
(* director by its callbacks only.                                         *)
(***************************************************************************)
CONSTANTS
    Items,   \* the assertions of the playbook
    Earlier  \* for each assertion, those that come before it

VARIABLES
    cancelled, \* is the run's context done?
    verdict,   \* what has become of each assertion
    outcome    \* "none", then how the run ended: "complete" or "cancelled"

directedVars == <<cancelled, verdict, outcome>>

Verdicts == {"passed", "failed"}
Unended == {a \in Items : verdict[a] \in {"pending", "running"}}

DirectedInit ==
    /\ cancelled = FALSE
    /\ verdict = [a \in Items |-> "pending"]
    /\ outcome = "none"

Cancel ==
    /\ cancelled' = TRUE
    /\ UNCHANGED <<verdict, outcome>>

StartItem(a) ==
    /\ ~cancelled
    /\ outcome = "none"
    /\ verdict[a] = "pending"
    /\ \A b \in Earlier[a] : verdict[b] \in Verdicts
    /\ verdict' = [verdict EXCEPT ![a] = "running"]
    /\ UNCHANGED <<cancelled, outcome>>

JudgeItem(a) ==
    /\ outcome = "none"
    /\ verdict[a] = "running"
    /\ \E v \in Verdicts : verdict' = [verdict EXCEPT ![a] = v]
    /\ UNCHANGED <<cancelled, outcome>>

\* Assertions are given up in order, one at a time or all that are left at once, and
\* the run may end with the last of them.
GiveUp ==
    /\ cancelled
    /\ outcome = "none"
    /\ \E S \in SUBSET Unended :
          /\ \A a \in S : Earlier[a] \cap Unended \subseteq S
          /\ verdict' = [a \in Items |-> IF a \in S THEN "cancelled" ELSE verdict[a]]
          /\ outcome' = "none" \/ (outcome' = "cancelled" /\ S = Unended)
    /\ UNCHANGED cancelled

EndDirected ==
    /\ outcome = "none"
    /\ Unended = {}
    /\ outcome' = IF \A a \in Items : verdict[a] \in Verdicts THEN "complete" ELSE "cancelled"
    /\ UNCHANGED <<cancelled, verdict>>

DirectedNext ==
    \/ Cancel
    \/ \E a \in Items : StartItem(a) \/ JudgeItem(a)
    \/ GiveUp
    \/ EndDirected

DirectedSpec == DirectedInit /\ [][DirectedNext]_directedVars
=============================================================================
