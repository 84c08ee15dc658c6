------------------------------ MODULE Director ------------------------------
(***************************************************************************)
(* The director, which runs a playbook's assertions one after the other    *)
(* (director/director.go), with the serverObserver that copies what it     *)
(* announces into the snapshot clients read (handlers_execution.go), while *)
(* the context may be cancelled at any moment.                             *)
(*                                                                         *)
(* One action is what the director's goroutine does between two looks at   *)
(* the context, or between the start and the return of a command.  A       *)
(* command is known by its verdict; its output and the gathered values are *)
(* left out.                                                               *)
(*                                                                         *)
(* A definition whose name starts with Faulty is the definition after it   *)
(* with a plausible mistake, which no specification uses.                  *)
(***************************************************************************)
EXTENDS Integers, Sequences, FiniteSets, Functions

CONSTANTS
    Playbook,    \* its sections: sequences of assertions
    Unset,       \* no minPassingScore in the playbook
    NoAssertion  \* the empty ActiveAssertionCode

Assertions ==
    [pre : Nat, cmds : Seq([pass : Int, fail : Int]), post : Nat, min : Int \cup {Unset}]

ASSUME DirectorAssumption ==
    /\ Playbook \in Seq(Seq(Assertions))
    /\ \A s \in DOMAIN Playbook : NoAssertion \notin {s} \X DOMAIN Playbook[s]

VARIABLES
    ctxDone,    \* ctx.Err() # nil
    pc,
    section, assertion, phase, cmd,  \* what the loops have come to
    score,
    totals,     \* totalPassed and totalFailed
    trace,      \* trace.Sections, each the sequence of its assertions' contexts
    outcome,    \* the last call of the observer: "none", "complete" or "cancelled"
    snapshot,   \* snapshot.Assertions, by position
    active,     \* snapshot.ActiveAssertionCode
    told,       \* history: how often OnAssertionComplete named each assertion
    killed      \* history: the assertions one of whose main commands the context killed

loopVars == <<section, assertion, phase, cmd, score>>
resultVars == <<totals, trace, outcome, snapshot, active, told>>
vars == <<ctxDone, pc, loopVars, resultVars, killed>>

Positions == UNION {{s} \X DOMAIN Playbook[s] : s \in DOMAIN Playbook}
Here == <<section, assertion>>
Current == Playbook[section][assertion]

\* The position p comes after q in the playbook.
After(p, q) == p[1] > q[1] \/ (p[1] = q[1] /\ p[2] > q[2])

Commands == [pre |-> Current.pre, main |-> Len(Current.cmds), post |-> Current.post][phase]

GetMinPassingScore(a) ==
    LET sum == FoldFunction(LAMBDA c, total : c.pass + total, 0, a.cmds)
    IN  IF a.min # Unset THEN a.min ELSE IF sum = 0 THEN 1 ELSE sum

\* The exit code is judged by the first rule that matches it, if one does; a verdict on
\* stdout or stderr other than 0 replaces that of what comes before it.
Evaluation(matched, rule, exitZero, stdout, stderr) ==
    IF stderr # 0 THEN stderr
    ELSE IF stdout # 0 THEN stdout
    ELSE IF matched THEN rule
    ELSE IF exitZero THEN 1 ELSE -1

\* A rule may return any integer; only 1 and -1 score.
Scored(c, result) == CASE result = 1 -> c.pass [] result = -1 -> c.fail [] OTHER -> 0

-----------------------------------------------------------------------------
(* unwindRemaining                                                         *)

FaultyFirst(s, s0, a0) == a0

\* Its aStart.
First(s, s0, a0) == IF s = s0 THEN a0 ELSE 1

Cancelled == [status |-> "cancelled", score |-> 0]

\* The trace tr with every assertion from <<s0, a0>> on added as cancelled.
Unwound(tr, s0, a0) ==
    [s \in DOMAIN Playbook |->
        LET done == IF s \in DOMAIN tr THEN tr[s] ELSE <<>>
        IN  IF s < s0 THEN done
            ELSE done \o [i \in 1 .. (Len(Playbook[s]) + 1 - First(s, s0, a0)) |-> Cancelled]]

FaultyRemaining(s0, a0) == {p \in Positions : p[1] >= s0}

Remaining(s0, a0) == {p \in Positions : p[1] >= s0 /\ p[2] >= First(p[1], s0, a0)}

\* snap and n are the snapshot and the announcements before it is called.
UnwindRemaining(tr, snap, n, s0, a0) ==
    /\ trace' = Unwound(tr, s0, a0)
    /\ snapshot' = [p \in Positions |-> IF p \in Remaining(s0, a0) THEN Cancelled ELSE snap[p]]
    /\ told' = [p \in Positions |-> IF p \in Remaining(s0, a0) THEN n[p] + 1 ELSE n[p]]
    /\ outcome' = "cancelled"
    /\ active' = NoAssertion
    /\ pc' = "returned"

-----------------------------------------------------------------------------
(* RunWithObserver                                                         *)

StartSection ==
    /\ pc = "section"
    /\ section <= Len(Playbook)
    /\ ~ctxDone
    /\ trace' = Append(trace, <<>>)
    /\ assertion' = 1
    /\ pc' = "assertion"
    /\ UNCHANGED <<ctxDone, section, phase, cmd, score, totals, outcome, snapshot, active,
                   told, killed>>

FaultyStartAssertion ==
    /\ pc = "assertion"
    /\ assertion <= Len(Playbook[section])
    /\ phase' = "pre"
    /\ cmd' = 1
    /\ score' = 0
    /\ active' = Here
    /\ snapshot' = [snapshot EXCEPT ![Here].status = "running"]
    /\ pc' = "command"
    /\ UNCHANGED <<ctxDone, section, assertion, totals, trace, outcome, told, killed>>

StartAssertion ==
    /\ pc = "assertion"
    /\ assertion <= Len(Playbook[section])
    /\ ~ctxDone
    /\ phase' = "pre"
    /\ cmd' = 1
    /\ score' = 0
    /\ active' = Here
    /\ snapshot' = [snapshot EXCEPT ![Here].status = "running"]
    /\ pc' = "command"
    /\ UNCHANGED <<ctxDone, section, assertion, totals, trace, outcome, told, killed>>

EndSection ==
    /\ pc = "assertion"
    /\ assertion > Len(Playbook[section])
    /\ section' = section + 1
    /\ pc' = "section"
    /\ UNCHANGED <<ctxDone, assertion, phase, cmd, score, resultVars, killed>>

StartCommand ==
    /\ pc = "command"
    /\ cmd <= Commands
    /\ ~ctxDone
    /\ pc' = "running"
    /\ UNCHANGED <<ctxDone, loopVars, resultVars, killed>>

\* runExec returns; a command that fails to run scores as one that failed.
CommandReturns(failed, result) ==
    /\ pc = "running"
    /\ score' = IF phase # "main" THEN score
                ELSE score + Scored(Current.cmds[cmd], IF failed THEN -1 ELSE result)
    /\ killed' = IF ctxDone /\ phase = "main" THEN killed \cup {Here} ELSE killed
    /\ cmd' = cmd + 1
    /\ pc' = "command"
    /\ UNCHANGED <<ctxDone, section, assertion, phase, resultVars>>

\* The codes, and the verdicts on output, that a command may end with; 2 stands for
\* every integer that is none of the others.
Verdicts == {-1, 0, 1, 2}

SomeCommandReturns ==
    \E failed, matched, exitZero \in BOOLEAN, rule, stdout, stderr \in Verdicts :
        CommandReturns(failed, Evaluation(matched, rule, exitZero, stdout, stderr))

FaultyCancelledCommandReturns == FALSE

\* exec.CommandContext kills a command whose context is done, and Run then returns.
CancelledCommandReturns == ctxDone /\ SomeCommandReturns

FaultyCommandAfterPhase == cmd

CommandAfterPhase == 1

\* No look at the context is taken between the last command of one phase and the next.
NextPhase ==
    /\ pc = "command"
    /\ cmd > Commands
    /\ phase # "post"
    /\ phase' = [pre |-> "main", main |-> "post"][phase]
    /\ cmd' = CommandAfterPhase
    /\ UNCHANGED <<ctxDone, pc, section, assertion, score, resultVars, killed>>

FaultyTotalsWith(passed) == [totals EXCEPT !.passed = @ + 1]

TotalsWith(passed) ==
    IF passed THEN [totals EXCEPT !.passed = @ + 1] ELSE [totals EXCEPT !.failed = @ + 1]

\* All commands have been run, and the assertion gets its verdict.
CompleteAssertion ==
    LET passed == score >= GetMinPassingScore(Current)
        entry == [status |-> IF passed THEN "passed" ELSE "failed", score |-> score]
    IN  /\ pc = "command"
        /\ cmd > Commands
        /\ phase = "post"
        /\ totals' = TotalsWith(passed)
        /\ trace' = [trace EXCEPT ![section] = Append(@, entry)]
        /\ snapshot' = [snapshot EXCEPT ![Here] = entry]
        /\ told' = [told EXCEPT ![Here] = @ + 1]
        /\ assertion' = assertion + 1
        /\ pc' = "assertion"
        /\ UNCHANGED <<ctxDone, section, phase, cmd, score, outcome, active, killed>>

StopBeforeSection ==
    /\ pc = "section"
    /\ section <= Len(Playbook)
    /\ ctxDone
    /\ UnwindRemaining(trace, snapshot, told, section, 1)
    /\ UNCHANGED <<ctxDone, loopVars, totals, killed>>

StopBeforeAssertion ==
    /\ pc = "assertion"
    /\ assertion <= Len(Playbook[section])
    /\ ctxDone
    /\ UnwindRemaining(trace, snapshot, told, section, assertion)
    /\ UNCHANGED <<ctxDone, loopVars, totals, killed>>

FaultyAfterCancelledAssertion == assertion

AfterCancelledAssertion == assertion + 1

\* The context is done before all commands were run.  The observer is told the score
\* so far, the trace is not.
CancelAssertion ==
    /\ pc = "command"
    /\ cmd <= Commands
    /\ ctxDone
    /\ UnwindRemaining([trace EXCEPT ![section] = Append(@, Cancelled)],
                       [snapshot EXCEPT ![Here] = [status |-> "cancelled", score |-> score]],
                       [told EXCEPT ![Here] = @ + 1],
                       section, AfterCancelledAssertion)
    /\ UNCHANGED <<ctxDone, loopVars, totals, killed>>

FaultyCompleteRun ==
    /\ pc \in {"section", "assertion"}
    /\ section >= Len(Playbook)
    /\ outcome' = "complete"
    /\ active' = NoAssertion
    /\ pc' = "returned"
    /\ UNCHANGED <<ctxDone, loopVars, totals, trace, snapshot, told, killed>>

\* No look at the context is taken after the last command of the playbook.
CompleteRun ==
    /\ pc = "section"
    /\ section > Len(Playbook)
    /\ outcome' = "complete"
    /\ active' = NoAssertion
    /\ pc' = "returned"
    /\ UNCHANGED <<ctxDone, loopVars, totals, trace, snapshot, told, killed>>

\* Whoever holds the context's cancel function calls it: handleCancel or Shutdown.
CancelContext ==
    /\ ctxDone' = TRUE
    /\ UNCHANGED <<pc, loopVars, resultVars, killed>>

-----------------------------------------------------------------------------
\* OnRunStart has been called, and nothing else.
Init ==
    /\ ctxDone = FALSE
    /\ pc = "section"
    /\ section = 1
    /\ assertion = 1
    /\ phase = "pre"
    /\ cmd = 1
    /\ score = 0
    /\ totals = [passed |-> 0, failed |-> 0]
    /\ trace = <<>>
    /\ outcome = "none"
    /\ snapshot = [p \in Positions |-> [status |-> "pending", score |-> 0]]
    /\ active = NoAssertion
    /\ told = [p \in Positions |-> 0]
    /\ killed = {}

\* What the director's goroutine does, but for waiting for a command.
DirectorStep ==
    \/ StartSection \/ StartAssertion \/ EndSection
    \/ StartCommand \/ NextPhase \/ CompleteAssertion
    \/ StopBeforeSection \/ StopBeforeAssertion \/ CancelAssertion
    \/ CompleteRun

Next == DirectorStep \/ SomeCommandReturns \/ CancelContext

Spec == Init /\ [][Next]_vars

\* The goroutine is scheduled, and a command returns when it is killed; one that is
\* not cancelled may run for ever.
FairSpec == Spec /\ WF_vars(DirectorStep) /\ WF_vars(CancelledCommandReturns)

-----------------------------------------------------------------------------
(* Properties                                                              *)

Status(p) == snapshot[p].status
HasVerdict(p) == Status(p) \in {"passed", "failed"}
Recorded(p) == p[1] \in DOMAIN trace /\ p[2] \in DOMAIN trace[p[1]]
Having(status) == {p \in Positions : Status(p) = status}

\* An assertion in the trace, and one in the snapshot.
Entries == [status : {"passed", "failed", "cancelled"}, score : Int]
AssertionSnapshots ==
    [status : {"pending", "running", "passed", "failed", "cancelled"}, score : Int]

LoopsTypeOK ==
    /\ pc \in {"section", "assertion", "command", "running", "returned"}
    /\ section \in 1 .. Len(Playbook) + 1
    /\ assertion \in Nat \ {0}
    /\ phase \in {"pre", "main", "post"}
    /\ cmd \in Nat \ {0}
    /\ score \in Int
    /\ pc \in {"command", "running"} => Here \in Positions /\ cmd <= Commands + 1
    /\ pc = "running" => cmd <= Commands

ResultsTypeOK ==
    /\ totals \in [passed : Nat, failed : Nat]
    /\ trace \in Seq(Seq(Entries))
    /\ outcome \in {"none", "complete", "cancelled"}
    /\ snapshot \in [Positions -> AssertionSnapshots]
    /\ active \in Positions \cup {NoAssertion}
    /\ told \in [Positions -> Nat]
    /\ killed \subseteq Positions

\* Every variable has its type; no loop runs past the end of what it goes through.
TypeOK == ctxDone \in BOOLEAN /\ LoopsTypeOK /\ ResultsTypeOK

\* When RunWithObserver returns, however the run ended, its trace holds every
\* assertion of the playbook once: the loops and unwindRemaining, which takes over at
\* any point of them, leave none out and add none twice.
TraceComplete ==
    pc = "returned" => /\ DOMAIN trace = DOMAIN Playbook
                       /\ \A s \in DOMAIN Playbook : Len(trace[s]) = Len(Playbook[s])

\* What clients see of a run is what its trace records: each assertion is announced
\* once, with the status it has in the trace; the others are still to be announced,
\* and only the active one is shown running.
SnapshotAgrees ==
    /\ \A p \in Positions :
          /\ Recorded(p) => told[p] = 1 /\ Status(p) = trace[p[1]][p[2]].status
          /\ ~Recorded(p) => told[p] = 0 /\ Status(p) \in {"pending", "running"}
          /\ Status(p) = "running" => p = active
    /\ pc = "returned" => active = NoAssertion

\* A run announced as complete has a verdict on every assertion.  Nothing is recorded
\* as cancelled, and no command killed, unless the context was cancelled; after the
\* first cancelled assertion all are.
OutcomeIsSound ==
    /\ outcome = "complete" => \A p \in Positions : HasVerdict(p)
    /\ outcome = "cancelled" \/ Having("cancelled") # {} \/ killed # {} => ctxDone
    /\ \A p \in Having("cancelled"), q \in Positions : After(q, p) => Status(q) = "cancelled"

\* A cancellation taints one verdict at most, that of the assertion in flight: nothing
\* that comes after a killed command is started.
TaintIsLast ==
    \A p \in killed, q \in Positions : After(q, p) => Status(q) \in {"pending", "cancelled"}

\* The totals of a report count its verdicts, and a verdict is what the score says.
TotalsAddUp ==
    /\ totals.passed = Cardinality(Having("passed"))
    /\ totals.failed = Cardinality(Having("failed"))
    /\ \A p \in Positions :
          HasVerdict(p) => (Status(p) = "passed"
                            <=> snapshot[p].score >= GetMinPassingScore(Playbook[p[1]][p[2]]))

\* A verdict, once announced, is never taken back, by a cancellation either.
VerdictsStand ==
    [][\A p \in Positions : HasVerdict(p) => snapshot'[p] = snapshot[p]]_vars

\* The director of a cancelled run returns: it need not wait for commands that would
\* never end.
CancellationEndsRun == ctxDone ~> pc = "returned"

-----------------------------------------------------------------------------
(* What a run promises, as abstract specifications.                        *)
Directed == INSTANCE DirectedRun WITH
    Items <- Positions,
    Earlier <- [p \in Positions |-> {q \in Positions : After(p, q)}],
    cancelled <- ctxDone,
    verdict <- [p \in Positions |-> Status(p)]

\* Whoever watches a run by its snapshot sees a run that DirectedRun allows: assertions
\* are started in order and only while the context is not done, and a cancellation ends
\* those that have no verdict and no others (RunWithObserver, unwindRemaining).
ImplementsDirectedRun == Directed!DirectedSpec

\* What the goroutine that called the director may make of it.
Result ==
    IF pc # "returned" THEN "none"
    ELSE IF outcome = "cancelled" THEN "partial"
    ELSE IF killed # {} THEN "tainted" ELSE "whole"

Returning == INSTANCE RunResult WITH cancelled <- ctxDone, result <- Result

\* The director returns once, and anything but a whole trace only if its context was done.
ImplementsRunResult == Returning!ResultSpec

=============================================================================
