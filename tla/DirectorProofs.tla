--------------------------- MODULE DirectorProofs ---------------------------
(* Proofs about Director, for every playbook.                              *)
EXTENDS Director, FiniteSetTheorems, TLAPS

\* An element of a sequence is of the sequence's type.
LEMMA ElementOfSeq ==
  ASSUME NEW S, NEW seq \in Seq(S), NEW i \in 1 .. Len(seq)
  PROVE  seq[i] \in S
  OBVIOUS

\* What the assumption on Playbook says of its parts.
LEMMA PlaybookType ==
  /\ Len(Playbook) \in Nat
  /\ DOMAIN Playbook = 1 .. Len(Playbook)
  /\ \A s \in 1 .. Len(Playbook) :
        /\ Playbook[s] \in Seq(Assertions)
        /\ Len(Playbook[s]) \in Nat
        /\ DOMAIN Playbook[s] = 1 .. Len(Playbook[s])
        /\ \A a \in 1 .. Len(Playbook[s]) : Playbook[s][a] \in Assertions
  BY DirectorAssumption

\* A position is a section's number and an assertion's number in it.
LEMMA PositionsAre ==
  /\ \A s \in 1 .. Len(Playbook) : \A a \in 1 .. Len(Playbook[s]) : <<s, a>> \in Positions
  /\ \A p \in Positions : /\ p = <<p[1], p[2]>>
                          /\ p[1] \in 1 .. Len(Playbook)
                          /\ p[2] \in 1 .. Len(Playbook[p[1]])
  BY PlaybookType DEF Positions

\* The empty ActiveAssertionCode names no assertion.
LEMMA NoAssertionIsNone == NoAssertion \notin Positions
  BY DirectorAssumption DEF Positions

\* Where the loops are: the trace holds what comes before the section and assertion
\* they have come to.
Shape ==
    /\ pc = "section" => Len(trace) = section - 1
    /\ pc \in {"assertion", "command", "running"} =>
          /\ section <= Len(Playbook)
          /\ Len(trace) = section
          /\ assertion <= Len(Playbook[section]) + 1
          /\ Len(trace[section]) = assertion - 1
    /\ pc # "returned" => \A s \in 1 .. section - 1 : Len(trace[s]) = Len(Playbook[s])

\* Until it returns, the director has cancelled nothing, only the assertion it works
\* on is running, and a killed command was the last thing it did.
Progress ==
    /\ \A p \in Positions : Status(p) = "running" => pc \in {"command", "running"} /\ p = Here
    /\ pc # "returned" => Having("cancelled") = {} /\ outcome = "none"
    /\ pc \in {"command", "running"} => active = Here
    /\ pc = "running" => killed = {}
    /\ pc = "command" => killed \subseteq {Here}
    /\ pc = "assertion" => \A p \in killed : p[1] = section /\ p[2] = assertion - 1
    /\ pc = "section" => \A p \in killed : p[1] = section - 1 /\ p[2] = Len(Playbook[p[1]])

\* The verdicts given before a step stand after it.
VerdictsKept == \A p \in Positions : HasVerdict(p) => snapshot'[p] = snapshot[p]

\* A step that gives no verdict.
NoneJudged == \A p \in Positions : snapshot'[p].status \in {"passed", "failed"} => HasVerdict(p)

FiniteVerdicts == IsFiniteSet(Having("passed")) /\ IsFiniteSet(Having("failed"))

\* The inductive invariant.
DirectorInv ==
    /\ TypeOK
    /\ Shape
    /\ TraceComplete
    /\ SnapshotAgrees
    /\ Progress
    /\ OutcomeIsSound
    /\ TaintIsLast
    /\ TotalsAddUp
    /\ FiniteVerdicts

\* The director starts with nothing recorded.
LEMMA InitDirectorInv == Init => DirectorInv
<1> SUFFICES ASSUME Init PROVE DirectorInv
  OBVIOUS
<1>1. TypeOK
  <2>1. LoopsTypeOK
    BY PlaybookType DEF Init, LoopsTypeOK
  <2>2. trace \in Seq(Seq(Entries))
    BY DEF Init
  <2>3. snapshot \in [Positions -> AssertionSnapshots]
    BY DEF Init, AssertionSnapshots
  <2>4. ResultsTypeOK
    BY <2>2, <2>3 DEF Init, ResultsTypeOK
  <2> QED
    BY <2>1, <2>4 DEF Init, TypeOK
<1>2. \A p \in Positions : Status(p) = "pending" /\ ~Recorded(p) /\ told[p] = 0
  BY DEF Init, Status, Recorded
<1>3. Having("passed") = {} /\ Having("failed") = {} /\ Having("cancelled") = {}
  BY <1>2 DEF Having
<1>4. FiniteVerdicts /\ TotalsAddUp
  BY <1>2, <1>3, FS_EmptySet DEF FiniteVerdicts, TotalsAddUp, HasVerdict, Init
<1>5. Shape /\ TraceComplete
  BY DEF Init, Shape, TraceComplete
<1>6. SnapshotAgrees /\ OutcomeIsSound /\ TaintIsLast /\ Progress
  BY <1>2, <1>3 DEF Init, SnapshotAgrees, OutcomeIsSound, TaintIsLast, Progress
<1> QED
  BY <1>1, <1>4, <1>5, <1>6 DEF DirectorInv

\* In terms of the loops' counters, what has been recorded before the director returns.
LEMMA RecordedBefore ==
  ASSUME TypeOK, Shape, pc # "returned", NEW p \in Positions
  PROVE  Recorded(p) <=> \/ p[1] < section
                         \/ p[1] = section /\ pc # "section" /\ p[2] < assertion
<1>1. /\ p[1] \in 1 .. Len(Playbook) /\ p[2] \in 1 .. Len(Playbook[p[1]])
      /\ Len(Playbook[p[1]]) \in Nat
  BY PositionsAre, PlaybookType
<1>2. trace \in Seq(Seq(Entries)) /\ section \in Nat /\ assertion \in Nat
  BY PlaybookType DEF TypeOK, LoopsTypeOK, ResultsTypeOK
<1>3. CASE pc = "section"
  BY <1>1, <1>2, <1>3 DEF Recorded, Shape
<1>4. CASE pc # "section"
  <2>1. pc \in {"assertion", "command", "running"}
    BY <1>4 DEF TypeOK, LoopsTypeOK
  <2>2. Len(trace) = section /\ Len(trace[section]) = assertion - 1
    BY <2>1 DEF Shape
  <2>3. \A s \in 1 .. section - 1 : Len(trace[s]) = Len(Playbook[s])
    BY DEF Shape
  <2>4. \A s \in 1 .. section : trace[s] \in Seq(Entries)
    BY <1>2, <2>2
  <2>5. CASE p[1] < section
    BY <1>1, <1>2, <2>2, <2>3, <2>4, <2>5 DEF Recorded
  <2>6. CASE p[1] = section
    BY <1>1, <1>2, <1>4, <2>2, <2>4, <2>6 DEF Recorded
  <2>7. CASE p[1] > section
    BY <1>1, <1>2, <2>2, <2>7 DEF Recorded
  <2> QED
    BY <1>1, <1>2, <2>5, <2>6, <2>7
<1> QED
  BY <1>3, <1>4

-----------------------------------------------------------------------------
(* The steps between commands, which record nothing.                       *)

\* A step that leaves the results alone disturbs none of what is said of them alone.
LEMMA NothingRecorded ==
  ASSUME DirectorInv, UNCHANGED resultVars, pc' # "returned"
  PROVE  /\ TraceComplete'
         /\ SnapshotAgrees'
         /\ TotalsAddUp'
         /\ FiniteVerdicts'
         /\ \A status : Having(status)' = Having(status)
<1>1. \A p \in Positions : Status(p)' = Status(p) /\ Recorded(p)' = Recorded(p)
  BY DEF resultVars, Status, Recorded
<1>2. \A status : Having(status)' = Having(status)
  BY <1>1 DEF Having
<1>3. SnapshotAgrees'
  BY <1>1 DEF DirectorInv, SnapshotAgrees, resultVars
<1>4. TotalsAddUp'
  BY <1>1, <1>2 DEF DirectorInv, TotalsAddUp, resultVars, HasVerdict
<1> QED
  BY <1>2, <1>3, <1>4 DEF DirectorInv, TraceComplete, FiniteVerdicts

\* The director works on an assertion of the playbook, which has not been recorded.
LEMMA HereIsNew ==
  ASSUME DirectorInv, pc \in {"command", "running"}
  PROVE  /\ Here \in Positions
         /\ section \in 1 .. Len(Playbook)
         /\ assertion \in 1 .. Len(Playbook[section])
         /\ Current \in Assertions
         /\ ~Recorded(Here)
<1>1. Here \in Positions
  BY DEF DirectorInv, TypeOK, LoopsTypeOK
<1>2. Here[1] = section /\ Here[2] = assertion
  BY DEF Here
<1>3. section \in 1 .. Len(Playbook) /\ assertion \in 1 .. Len(Playbook[section])
  BY <1>1, <1>2, PositionsAre
<1>4. ~Recorded(Here)
  BY <1>1, <1>2, <1>3, PlaybookType, RecordedBefore DEF DirectorInv
<1> QED
  BY <1>1, <1>3, <1>4, PlaybookType DEF Current

\* Going on to the next section keeps the invariant.
LEMMA EndSectionKeeps == DirectorInv /\ EndSection => DirectorInv'
<1> SUFFICES ASSUME DirectorInv, EndSection PROVE DirectorInv'
  OBVIOUS
<1> USE DEF EndSection
<1>1. /\ section \in 1 .. Len(Playbook) /\ Len(Playbook) \in Nat
      /\ Len(Playbook[section]) \in Nat /\ assertion \in Nat
      /\ assertion - 1 = Len(Playbook[section])
  BY PlaybookType DEF DirectorInv, Shape, TypeOK, LoopsTypeOK
<1>2. TypeOK'
  <2>1. LoopsTypeOK'
    BY <1>1 DEF DirectorInv, TypeOK, LoopsTypeOK
  <2> QED
    BY <2>1 DEF DirectorInv, TypeOK, ResultsTypeOK, resultVars
<1>3. Shape'
  <2>1. /\ Len(trace) = section /\ Len(trace[section]) = assertion - 1
        /\ \A s \in 1 .. section - 1 : Len(trace[s]) = Len(Playbook[s])
    BY DEF DirectorInv, Shape
  <2>2. section' - 1 = section /\ trace' = trace
    BY <1>1 DEF resultVars
  <2> QED
    BY <1>1, <2>1, <2>2 DEF Shape
<1>4. UNCHANGED resultVars /\ pc' # "returned"
  OBVIOUS
<1>5. \A p \in Positions : Status(p)' = Status(p)
  BY DEF Status, resultVars
<1>6. Progress'
  <2>1. \A p \in killed' : p[1] = section' - 1 /\ p[2] = Len(Playbook[p[1]])
    BY <1>1 DEF DirectorInv, Progress
  <2> QED
    BY <1>4, <1>5, <2>1, NothingRecorded DEF DirectorInv, Progress, resultVars
<1>7. OutcomeIsSound' /\ TaintIsLast'
  BY <1>4, <1>5, NothingRecorded
  DEF DirectorInv, OutcomeIsSound, TaintIsLast, HasVerdict, resultVars
<1> QED
  BY <1>2, <1>3, <1>4, <1>6, <1>7, NothingRecorded DEF DirectorInv

\* How many commands the phases of an assertion have.
LEMMA CommandsAre ==
  ASSUME Current \in Assertions
  PROVE  /\ phase = "pre" => Commands = Current.pre
         /\ phase = "main" => Commands = Len(Current.cmds)
         /\ phase = "post" => Commands = Current.post
         /\ phase \in {"pre", "main", "post"} => Commands \in Nat
<1>1. Current.pre \in Nat /\ Current.post \in Nat /\ Len(Current.cmds) \in Nat
  BY DEF Assertions
<1> QED
  BY <1>1 DEF Commands

\* Starting a command keeps the invariant.
LEMMA StartCommandKeeps == DirectorInv /\ StartCommand => DirectorInv'
<1> SUFFICES ASSUME DirectorInv, StartCommand PROVE DirectorInv'
  OBVIOUS
<1> USE DEF StartCommand
<1>1. UNCHANGED resultVars /\ pc' # "returned" /\ UNCHANGED loopVars
  OBVIOUS
<1>2. Here' = Here /\ Commands' = Commands
  BY <1>1 DEF loopVars, Here, Commands, Current
<1>3. \A p \in Positions : Status(p)' = Status(p)
  BY DEF Status, resultVars
<1>4. TypeOK'
  <2>1. LoopsTypeOK'
    BY <1>2 DEF DirectorInv, TypeOK, LoopsTypeOK, loopVars
  <2> QED
    BY <2>1 DEF DirectorInv, TypeOK, ResultsTypeOK, resultVars
<1>5. Shape'
  BY DEF DirectorInv, Shape, loopVars, resultVars
<1>6. Progress'
  <2>1. killed = {}
    BY DEF DirectorInv, OutcomeIsSound
  <2> QED
    BY <1>1, <1>2, <1>3, <2>1, NothingRecorded DEF DirectorInv, Progress, resultVars
<1>7. OutcomeIsSound' /\ TaintIsLast'
  BY <1>1, <1>3, NothingRecorded
  DEF DirectorInv, OutcomeIsSound, TaintIsLast, HasVerdict, resultVars
<1> QED
  BY <1>1, <1>4, <1>5, <1>6, <1>7, NothingRecorded DEF DirectorInv

\* Going on to the next phase keeps the invariant.
LEMMA NextPhaseKeeps == DirectorInv /\ NextPhase => DirectorInv'
<1> SUFFICES ASSUME DirectorInv, NextPhase PROVE DirectorInv'
  OBVIOUS
<1> USE DEF NextPhase
<1>1. UNCHANGED resultVars /\ pc = "command" /\ pc' = "command"
  OBVIOUS
<1>2. Here' = Here /\ Current' = Current
  BY DEF Here, Current
<1>3. \A p \in Positions : Status(p)' = Status(p)
  BY DEF Status, resultVars
<1>4. TypeOK'
  <2>1. Current \in Assertions /\ Here \in Positions
    BY <1>1, HereIsNew
  <2>2. phase \in {"pre", "main"} /\ phase' \in {"main", "post"}
    BY DEF DirectorInv, TypeOK, LoopsTypeOK
  <2>3. Commands' \in Nat
    <3>1. Commands' = [pre |-> Current.pre, main |-> Len(Current.cmds),
                       post |-> Current.post][phase']
      BY <1>2 DEF Commands
    <3>2. Current.pre \in Nat /\ Current.post \in Nat /\ Len(Current.cmds) \in Nat
      BY <2>1 DEF Assertions
    <3> QED
      BY <2>2, <3>1, <3>2
  <2>4. UNCHANGED <<pc, section, assertion, score>> /\ cmd' = 1
    BY DEF CommandAfterPhase
  <2>5. cmd' <= Commands' + 1
    <3>1. \A n \in Nat : 1 <= n + 1
      OBVIOUS
    <3> QED
      BY <2>3, <2>4, <3>1, Zenon
  <2>6. LoopsTypeOK'
    BY <1>1, <1>2, <2>1, <2>2, <2>4, <2>5, PlaybookType DEF DirectorInv, TypeOK, LoopsTypeOK
  <2> QED
    BY <2>6 DEF DirectorInv, TypeOK, ResultsTypeOK, resultVars
<1>5. Shape'
  BY <1>1 DEF DirectorInv, Shape, resultVars
<1>6. Progress'
  BY <1>1, <1>2, <1>3, NothingRecorded DEF DirectorInv, Progress, resultVars
<1>7. OutcomeIsSound' /\ TaintIsLast'
  BY <1>1, <1>3, NothingRecorded
  DEF DirectorInv, OutcomeIsSound, TaintIsLast, HasVerdict, resultVars
<1> QED
  BY <1>1, <1>4, <1>5, <1>6, <1>7, NothingRecorded DEF DirectorInv

\* Nothing that comes after the assertion at work has been announced or started.
LEMMA LaterIsPending ==
  ASSUME DirectorInv, pc \in {"command", "running"},
         NEW q \in Positions, After(q, Here)
  PROVE  Status(q) = "pending"
<1>1. ~Recorded(q)
  <2>1. /\ q[1] \in 1 .. Len(Playbook) /\ q[2] \in 1 .. Len(Playbook[q[1]])
        /\ Len(Playbook[q[1]]) \in Nat /\ Len(Playbook) \in Nat
    BY PositionsAre, PlaybookType
  <2>2. section \in Nat /\ assertion \in Nat
    BY PlaybookType DEF DirectorInv, TypeOK, LoopsTypeOK
  <2>3. q[1] > section \/ (q[1] = section /\ q[2] > assertion)
    BY DEF After, Here
  <2> QED
    BY <2>1, <2>2, <2>3, RecordedBefore DEF DirectorInv
<1>2. Status(q) \in {"pending", "running"}
  BY <1>1 DEF DirectorInv, SnapshotAgrees
<1>3. Status(q) # "running"
  <2>1. q # Here
    BY PlaybookType, HereIsNew DEF After, Here
  <2> QED
    BY <2>1 DEF DirectorInv, Progress
<1> QED
  BY <1>2, <1>3

\* A command's return keeps the invariant, whatever its verdict.
LEMMA CommandReturnsKeeps ==
  ASSUME DirectorInv, NEW failed \in BOOLEAN, NEW result \in Int,
         CommandReturns(failed, result)
  PROVE  DirectorInv'
<1> USE DEF CommandReturns
<1>1. UNCHANGED resultVars /\ pc = "running" /\ pc' = "command"
  OBVIOUS
<1>2. Here' = Here /\ Current' = Current /\ Commands' = Commands
  BY DEF Here, Current, Commands
<1>3. \A p \in Positions : Status(p)' = Status(p)
  BY DEF Status, resultVars
<1>4. Current \in Assertions /\ Here \in Positions /\ Commands \in Nat
  BY <1>1, HereIsNew, CommandsAre DEF DirectorInv, TypeOK, LoopsTypeOK
<1>5. cmd \in Nat /\ cmd >= 1 /\ cmd <= Commands
  BY <1>1 DEF DirectorInv, TypeOK, LoopsTypeOK
<1>6. score' \in Int
  <2>1. CASE phase = "main"
    <3>1. Commands = Len(Current.cmds) /\ Current.cmds \in Seq([pass : Int, fail : Int])
      BY <1>4, <2>1, CommandsAre DEF Assertions
    <3>2. Current.cmds[cmd] \in [pass : Int, fail : Int]
      <4>1. cmd \in 1 .. Len(Current.cmds)
        BY <1>5, <3>1
      <4> QED
        BY <3>1, <4>1, ElementOfSeq, Zenon
    <3>3. Scored(Current.cmds[cmd], IF failed THEN -1 ELSE result) \in Int
      BY <3>2 DEF Scored
    <3> QED
      BY <2>1, <3>3 DEF DirectorInv, TypeOK, LoopsTypeOK
  <2>2. CASE phase # "main"
    BY <2>2 DEF DirectorInv, TypeOK, LoopsTypeOK
  <2> QED
    BY <2>1, <2>2
<1>7. TypeOK'
  <2>1. LoopsTypeOK'
    BY <1>1, <1>2, <1>4, <1>5, <1>6 DEF DirectorInv, TypeOK, LoopsTypeOK
  <2>2. ResultsTypeOK'
    BY <1>4 DEF DirectorInv, TypeOK, ResultsTypeOK, resultVars
  <2> QED
    BY <2>1, <2>2 DEF DirectorInv, TypeOK
<1>8. Shape'
  BY <1>1 DEF DirectorInv, Shape, resultVars
<1>9. killed = {} /\ killed' \subseteq {Here} /\ (killed' # {} => ctxDone')
  BY <1>1 DEF DirectorInv, Progress
<1>10. Progress'
  BY <1>1, <1>2, <1>3, <1>9, NothingRecorded DEF DirectorInv, Progress, resultVars
<1>11. OutcomeIsSound'
  BY <1>1, <1>3, <1>9, NothingRecorded DEF DirectorInv, OutcomeIsSound, HasVerdict, resultVars
<1>12. TaintIsLast'
  BY <1>1, <1>3, <1>9, LaterIsPending DEF TaintIsLast
<1> QED
  BY <1>1, <1>7, <1>8, <1>10, <1>11, <1>12, NothingRecorded DEF DirectorInv

-----------------------------------------------------------------------------
(* Sections and assertions begin.                                          *)

\* Starting a section keeps the invariant.
LEMMA StartSectionKeeps == DirectorInv /\ StartSection => DirectorInv'
<1> SUFFICES ASSUME DirectorInv, StartSection PROVE DirectorInv'
  OBVIOUS
<1>1. /\ pc = "section" /\ pc' = "assertion" /\ section <= Len(Playbook) /\ ~ctxDone
      /\ trace' = Append(trace, <<>>) /\ assertion' = 1
      /\ UNCHANGED <<ctxDone, section, phase, cmd, score, totals, outcome, snapshot, active,
                     told, killed>>
  BY DEF StartSection
<1>2. /\ trace \in Seq(Seq(Entries)) /\ Len(trace) = section - 1 /\ killed = {}
      /\ section \in 1 .. Len(Playbook) /\ Len(Playbook[section]) \in Nat
      /\ \A s \in 1 .. section - 1 : Len(trace[s]) = Len(Playbook[s])
  BY <1>1, PlaybookType
  DEF DirectorInv, TypeOK, LoopsTypeOK, ResultsTypeOK, Shape, OutcomeIsSound
<1>3. /\ trace' \in Seq(Seq(Entries)) /\ Len(trace') = section
      /\ \A s \in 1 .. section - 1 : trace'[s] = trace[s]
      /\ trace'[section] = <<>>
  <2>1. <<>> \in Seq(Entries)
    OBVIOUS
  <2> QED
    BY <1>1, <1>2, <2>1
<1>4. TypeOK'
  <2>1. LoopsTypeOK'
    BY <1>1 DEF DirectorInv, TypeOK, LoopsTypeOK
  <2>2. ResultsTypeOK'
    BY <1>1, <1>3 DEF DirectorInv, TypeOK, ResultsTypeOK
  <2> QED
    BY <1>1, <2>1, <2>2 DEF DirectorInv, TypeOK
<1>5. Shape'
  BY <1>1, <1>2, <1>3 DEF Shape
<1>6. \A p \in Positions : Status(p)' = Status(p)
  BY <1>1 DEF Status
<1>7. \A status : Having(status)' = Having(status)
  BY <1>6 DEF Having
<1>8. SnapshotAgrees'
  <2>1. ASSUME NEW p \in Positions
        PROVE  /\ Recorded(p)' <=> Recorded(p)
               /\ Recorded(p) => trace'[p[1]][p[2]] = trace[p[1]][p[2]]
    <3>1. p[1] \in Nat /\ p[1] >= 1 /\ section \in Nat
      BY <1>2, PositionsAre, PlaybookType
    <3>2. DOMAIN trace = 1 .. section - 1 /\ DOMAIN trace' = 1 .. section
      BY <1>2, <1>3
    <3>3. CASE p[1] < section
      BY <1>3, <3>1, <3>2, <3>3 DEF Recorded
    <3>4. CASE p[1] = section
      <4>1. DOMAIN trace'[p[1]] = {}
        BY <1>3, <3>4
      <4> QED
        BY <3>1, <3>2, <3>4, <4>1 DEF Recorded
    <3>5. CASE p[1] > section
      BY <3>1, <3>2, <3>5 DEF Recorded
    <3> QED
      BY <3>1, <3>3, <3>4, <3>5
  <2> QED
    BY <1>1, <1>6, <2>1 DEF DirectorInv, SnapshotAgrees
<1>9. TotalsAddUp' /\ FiniteVerdicts'
  BY <1>1, <1>6, <1>7 DEF DirectorInv, TotalsAddUp, FiniteVerdicts, HasVerdict
<1>10. Progress'
  BY <1>1, <1>2, <1>6, <1>7 DEF DirectorInv, Progress
<1>11. TraceComplete' /\ OutcomeIsSound' /\ TaintIsLast'
  BY <1>1, <1>2, <1>6, <1>7
  DEF DirectorInv, TraceComplete, OutcomeIsSound, TaintIsLast, HasVerdict
<1> QED
  BY <1>4, <1>5, <1>8, <1>9, <1>10, <1>11 DEF DirectorInv

\* Starting an assertion keeps the invariant and every verdict.
LEMMA StartAssertionKeeps == DirectorInv /\ StartAssertion => DirectorInv' /\ VerdictsKept
<1> SUFFICES ASSUME DirectorInv, StartAssertion PROVE DirectorInv' /\ VerdictsKept
  OBVIOUS
<1>1. /\ pc = "assertion" /\ pc' = "command" /\ assertion <= Len(Playbook[section])
      /\ ~ctxDone /\ phase' = "pre" /\ cmd' = 1 /\ score' = 0 /\ active' = Here
      /\ snapshot' = [snapshot EXCEPT ![Here].status = "running"]
      /\ UNCHANGED <<ctxDone, section, assertion, totals, trace, outcome, told, killed>>
  BY DEF StartAssertion
<1>2. /\ section \in 1 .. Len(Playbook) /\ assertion \in 1 .. Len(Playbook[section])
      /\ Here \in Positions /\ Current \in Assertions /\ killed = {}
  BY <1>1, PositionsAre, PlaybookType
  DEF DirectorInv, TypeOK, LoopsTypeOK, Shape, OutcomeIsSound, Here, Current
<1>3. Here' = Here /\ Here[1] = section /\ Here[2] = assertion /\ Current' = Current
  BY <1>1 DEF Here, Current
<1>4. ~Recorded(Here)
  BY <1>1, <1>2, <1>3, RecordedBefore, PlaybookType DEF DirectorInv
<1>5. Status(Here) = "pending"
  BY <1>1, <1>2, <1>4 DEF DirectorInv, SnapshotAgrees, Progress
<1>6. /\ snapshot \in [Positions -> AssertionSnapshots]
      /\ snapshot' \in [Positions -> AssertionSnapshots]
  <2>1. snapshot \in [Positions -> AssertionSnapshots]
    BY DEF DirectorInv, TypeOK, ResultsTypeOK
  <2>2. [snapshot[Here] EXCEPT !.status = "running"] \in AssertionSnapshots
    BY <1>2, <2>1 DEF AssertionSnapshots
  <2> QED
    BY <1>1, <2>1, <2>2
<1>7. /\ Status(Here)' = "running"
      /\ \A p \in Positions : p # Here => snapshot'[p] = snapshot[p] /\ Status(p)' = Status(p)
  <2>1. snapshot[Here] \in AssertionSnapshots
    BY <1>2, <1>6
  <2> QED
    BY <1>1, <1>2, <1>3, <1>6, <2>1 DEF Status, AssertionSnapshots
<1>8. ASSUME NEW status, status \notin {"pending", "running"}
      PROVE  Having(status)' = Having(status)
  <2>1. \A p \in Positions : Status(p)' = status <=> Status(p) = status
    BY <1>3, <1>5, <1>7, <1>8 DEF Status
  <2> QED
    BY <2>1, Zenon DEF Having
<1>9. TypeOK'
  <2>1. Commands' \in Nat
    <3>1. Commands' = [pre |-> Current.pre, main |-> Len(Current.cmds),
                       post |-> Current.post][phase']
      BY <1>3 DEF Commands
    <3> QED
      BY <1>1, <1>2, <3>1 DEF Assertions
  <2>2. cmd' <= Commands' + 1
    <3>1. \A n \in Nat : 1 <= n + 1
      OBVIOUS
    <3> QED
      BY <1>1, <2>1, <3>1, Zenon
  <2>3. LoopsTypeOK'
    BY <1>1, <1>2, <1>3, <2>2 DEF DirectorInv, TypeOK, LoopsTypeOK
  <2>4. ResultsTypeOK'
    BY <1>1, <1>2, <1>6 DEF DirectorInv, TypeOK, ResultsTypeOK
  <2> QED
    BY <1>1, <2>3, <2>4 DEF DirectorInv, TypeOK
<1>10. Shape'
  BY <1>1 DEF DirectorInv, Shape
<1>11. \A p \in Positions : Recorded(p)' = Recorded(p)
  BY <1>1 DEF Recorded
<1>12. Progress'
  BY <1>1, <1>2, <1>3, <1>7, <1>8 DEF DirectorInv, Progress
<1>13. SnapshotAgrees'
  BY <1>1, <1>2, <1>3, <1>4, <1>7, <1>11, <1>12 DEF DirectorInv, SnapshotAgrees, Progress
<1>14. TotalsAddUp' /\ FiniteVerdicts'
  <2>1. Having("passed")' = Having("passed") /\ Having("failed")' = Having("failed")
    BY <1>8
  <2>2. \A p \in Positions :
           HasVerdict(p)' => HasVerdict(p) /\ snapshot'[p] = snapshot[p] /\ Status(p)' = Status(p)
    BY <1>3, <1>7 DEF HasVerdict, Status
  <2> QED
    BY <1>1, <2>1, <2>2 DEF DirectorInv, TotalsAddUp, FiniteVerdicts
<1>15. TraceComplete' /\ OutcomeIsSound' /\ TaintIsLast'
  BY <1>1, <1>2, <1>7, <1>8
  DEF DirectorInv, TraceComplete, OutcomeIsSound, TaintIsLast, HasVerdict, Progress
<1> QED
  BY <1>5, <1>7, <1>9, <1>10, <1>12, <1>13, <1>14, <1>15
  DEF DirectorInv, VerdictsKept, HasVerdict, Status

-----------------------------------------------------------------------------
(* An assertion gets its verdict.                                          *)

TraceWith(e) == [trace EXCEPT ![section] = Append(@, e)]

\* The entry of the assertion at work is added at its place, and moves no other.
LEMMA EntryAppended ==
  ASSUME DirectorInv, pc \in {"command", "running"}, NEW e \in Entries
  PROVE  /\ TraceWith(e) \in Seq(Seq(Entries))
         /\ Len(TraceWith(e)) = section
         /\ Len(TraceWith(e)[section]) = assertion
         /\ TraceWith(e)[section][assertion] = e
         /\ \A s \in 1 .. section - 1 : TraceWith(e)[s] = trace[s]
         /\ \A a \in 1 .. assertion - 1 : TraceWith(e)[section][a] = trace[section][a]
<1>1. /\ trace \in Seq(Seq(Entries)) /\ Len(trace) = section
      /\ Len(trace[section]) = assertion - 1 /\ section \in Nat /\ section >= 1
      /\ assertion \in Nat /\ assertion >= 1
  BY PlaybookType DEF DirectorInv, TypeOK, LoopsTypeOK, ResultsTypeOK, Shape
<1>2. trace[section] \in Seq(Entries)
  BY <1>1, ElementOfSeq
<1>3. /\ Append(trace[section], e) \in Seq(Entries)
      /\ Len(Append(trace[section], e)) = assertion
      /\ Append(trace[section], e)[assertion] = e
      /\ \A a \in 1 .. assertion - 1 : Append(trace[section], e)[a] = trace[section][a]
  BY <1>1, <1>2
<1>4. TraceWith(e) \in Seq(Seq(Entries)) /\ Len(TraceWith(e)) = section
  BY <1>1, <1>3 DEF TraceWith
<1>5. /\ TraceWith(e)[section] = Append(trace[section], e)
      /\ \A s \in 1 .. section - 1 : TraceWith(e)[s] = trace[s]
  BY <1>1 DEF TraceWith
<1> QED
  BY <1>3, <1>4, <1>5

\* What is recorded before the assertion at work is recorded after it has been added,
\* and it is the only one added.
LEMMA OneMoreRecorded ==
  ASSUME DirectorInv, pc \in {"command", "running"}, NEW e \in Entries,
         NEW p \in Positions
  PROVE  /\ p[1] \in DOMAIN TraceWith(e) /\ p[2] \in DOMAIN TraceWith(e)[p[1]]
            <=> Recorded(p) \/ p = Here
         /\ p = Here => TraceWith(e)[p[1]][p[2]] = e
         /\ Recorded(p) => TraceWith(e)[p[1]][p[2]] = trace[p[1]][p[2]]
<1>1. /\ p = <<p[1], p[2]>> /\ p[1] \in 1 .. Len(Playbook)
      /\ p[2] \in 1 .. Len(Playbook[p[1]]) /\ Len(Playbook[p[1]]) \in Nat
      /\ Len(Playbook) \in Nat
  BY PositionsAre, PlaybookType
<1>2. /\ section \in 1 .. Len(Playbook) /\ assertion \in 1 .. Len(Playbook[section])
      /\ Len(Playbook[section]) \in Nat
  BY HereIsNew, PlaybookType
<1>3. /\ TraceWith(e) \in Seq(Seq(Entries))
      /\ Len(TraceWith(e)) = section /\ Len(TraceWith(e)[section]) = assertion
      /\ TraceWith(e)[section][assertion] = e
      /\ \A s \in 1 .. section - 1 : TraceWith(e)[s] = trace[s]
      /\ \A a \in 1 .. assertion - 1 : TraceWith(e)[section][a] = trace[section][a]
  BY EntryAppended
<1>4. Recorded(p) <=> p[1] < section \/ (p[1] = section /\ p[2] < assertion)
  BY RecordedBefore DEF DirectorInv
<1>5. DOMAIN TraceWith(e) = 1 .. section /\ DOMAIN TraceWith(e)[section] = 1 .. assertion
  <2>1. TraceWith(e)[section] \in Seq(Entries)
    BY <1>2, <1>3, ElementOfSeq
  <2> QED
    BY <1>3, <2>1
<1>6. p = Here <=> p[1] = section /\ p[2] = assertion
  BY <1>1 DEF Here
<1>7. CASE p[1] < section
  <2>1. TraceWith(e)[p[1]] = trace[p[1]] /\ p[1] \in DOMAIN TraceWith(e)
    <3>1. p[1] \in 1 .. section - 1 /\ p[1] \in 1 .. section
      BY <1>1, <1>2, <1>7
    <3> QED
      BY <1>3, <1>5, <3>1, Zenon
  <2>2. Recorded(p) /\ p # Here
    BY <1>1, <1>2, <1>4, <1>6, <1>7
  <2> QED
    BY <2>1, <2>2 DEF Recorded
<1>8. CASE p[1] = section
  BY <1>1, <1>2, <1>3, <1>4, <1>5, <1>6, <1>8
<1>9. CASE p[1] > section
  BY <1>1, <1>2, <1>4, <1>5, <1>6, <1>9
<1> QED
  BY <1>1, <1>2, <1>7, <1>8, <1>9

\* One verdict more is counted once.
LEMMA OneMoreVerdict ==
  ASSUME NEW S, NEW T, IsFiniteSet(S), NEW e, e \notin S, T = S \cup {e}
  PROVE  IsFiniteSet(T) /\ Cardinality(T) = Cardinality(S) + 1
  BY FS_AddElement

\* Giving a verdict keeps the invariant and the verdicts before it.
LEMMA CompleteAssertionKeeps == DirectorInv /\ CompleteAssertion => DirectorInv' /\ VerdictsKept
<1> SUFFICES ASSUME DirectorInv, CompleteAssertion PROVE DirectorInv' /\ VerdictsKept
  OBVIOUS
<1> DEFINE passed == score >= GetMinPassingScore(Current)
           entry == [status |-> IF passed THEN "passed" ELSE "failed", score |-> score]
<1>1. /\ pc = "command" /\ cmd > Commands /\ phase = "post"
      /\ totals' = TotalsWith(passed)
      /\ trace' = [trace EXCEPT ![section] = Append(@, entry)]
      /\ snapshot' = [snapshot EXCEPT ![Here] = entry]
      /\ told' = [told EXCEPT ![Here] = @ + 1]
      /\ assertion' = assertion + 1
      /\ pc' = "assertion"
      /\ UNCHANGED <<ctxDone, section, phase, cmd, score, outcome, active, killed>>
  BY DEF CompleteAssertion
<1>2. /\ Here \in Positions /\ Here[1] = section /\ Here[2] = assertion
      /\ section \in 1 .. Len(Playbook) /\ assertion \in 1 .. Len(Playbook[section])
      /\ Len(Playbook) \in Nat /\ Len(Playbook[section]) \in Nat /\ ~Recorded(Here)
  BY <1>1, HereIsNew, PlaybookType DEF Here
<1>3. entry \in Entries /\ entry \in AssertionSnapshots /\ entry.status \in {"passed", "failed"}
  <2>1. score \in Int
    BY DEF DirectorInv, TypeOK, LoopsTypeOK
  <2> QED
    BY <2>1 DEF Entries, AssertionSnapshots
<1> HIDE DEF entry
<1>4. /\ trace' \in Seq(Seq(Entries)) /\ Len(trace') = section /\ Len(trace'[section]) = assertion
      /\ \A s \in 1 .. section - 1 : trace'[s] = trace[s]
  BY <1>1, <1>3, EntryAppended DEF TraceWith
<1>5. \A p \in Positions :
         /\ Recorded(p)' <=> Recorded(p) \/ p = Here
         /\ p = Here => trace'[p[1]][p[2]] = entry
         /\ Recorded(p) => trace'[p[1]][p[2]] = trace[p[1]][p[2]]
  BY <1>1, <1>3, OneMoreRecorded DEF Recorded, TraceWith
<1>6. \A p \in Positions : /\ p = Here => snapshot'[p] = entry /\ told'[p] = told[p] + 1
                           /\ p # Here => snapshot'[p] = snapshot[p] /\ told'[p] = told[p]
  BY <1>1, <1>2 DEF DirectorInv, TypeOK, ResultsTypeOK
<1>7. TypeOK'
  <2>1. LoopsTypeOK'
    BY <1>1, <1>2 DEF DirectorInv, TypeOK, LoopsTypeOK
  <2>2. totals' \in [passed : Nat, failed : Nat]
    BY <1>1 DEF DirectorInv, TypeOK, ResultsTypeOK, TotalsWith
  <2>3. snapshot' \in [Positions -> AssertionSnapshots] /\ told' \in [Positions -> Nat]
    BY <1>1, <1>2, <1>3 DEF DirectorInv, TypeOK, ResultsTypeOK
  <2>4. ResultsTypeOK'
    BY <1>1, <1>4, <2>2, <2>3 DEF DirectorInv, TypeOK, ResultsTypeOK
  <2> QED
    BY <1>1, <2>1, <2>4 DEF DirectorInv, TypeOK
<1>8. Shape'
  BY <1>1, <1>2, <1>4 DEF DirectorInv, Shape
<1>9. \A p \in Positions : /\ p = Here => snapshot'[p].status = entry.status
                           /\ p # Here => snapshot'[p].status = snapshot[p].status
  BY <1>6
<1>10. SnapshotAgrees'
  <2>1. ASSUME NEW p \in Positions
        PROVE  /\ Recorded(p)' => told'[p] = 1 /\ snapshot'[p].status = trace'[p[1]][p[2]].status
               /\ ~Recorded(p)' => told'[p] = 0 /\ snapshot'[p].status \in {"pending", "running"}
               /\ snapshot'[p].status = "running" => p = active'
    <3>1. CASE p = Here
      BY <1>2, <1>3, <1>5, <1>6, <3>1 DEF DirectorInv, SnapshotAgrees
    <3>2. CASE p # Here
      BY <1>1, <1>5, <1>6, <3>2 DEF DirectorInv, SnapshotAgrees, Status
    <3> QED
      BY <3>1, <3>2
  <2> QED
    BY <1>1, <2>1 DEF SnapshotAgrees, Status
<1>11. \A status : status \notin {"passed", "failed"} /\ status # "running"
                     => Having(status)' \subseteq Having(status)
  BY <1>3, <1>9 DEF Having, Status
<1>12. Progress'
  <2>1. ASSUME NEW p \in Positions PROVE snapshot'[p].status # "running"
    BY <1>3, <1>9, <2>1 DEF DirectorInv, Progress, Status
  <2>2. \A p \in killed' : p[1] = section' /\ p[2] = assertion' - 1
    BY <1>1, <1>2 DEF DirectorInv, Progress
  <2> QED
    BY <1>1, <1>11, <2>1, <2>2 DEF DirectorInv, Progress, Status
<1>13. Here \notin Having("passed") /\ Here \notin Having("failed")
  BY <1>2 DEF DirectorInv, SnapshotAgrees, Having
<1>14. TotalsAddUp' /\ FiniteVerdicts'
  <2>1. \A p \in Positions :
           (HasVerdict(p) => (Status(p) = "passed"
                              <=> snapshot[p].score >= GetMinPassingScore(Playbook[p[1]][p[2]])))'
    BY <1>2, <1>3, <1>6 DEF DirectorInv, TotalsAddUp, HasVerdict, Status, Current, entry
  <2>2. totals \in [passed : Nat, failed : Nat]
    BY DEF DirectorInv, TypeOK, ResultsTypeOK
  <2>3. CASE passed
    <3>1. entry.status = "passed"
      BY <2>3 DEF entry
    <3>2. Having("passed")' = Having("passed") \cup {Here} /\ Having("failed")' = Having("failed")
      BY <1>2, <1>9, <1>13, <3>1 DEF Having, Status
    <3>3. totals'.passed = totals.passed + 1 /\ totals'.failed = totals.failed
      BY <1>1, <2>2, <2>3 DEF TotalsWith
    <3> QED
      BY <1>13, <2>1, <3>2, <3>3, OneMoreVerdict DEF DirectorInv, TotalsAddUp, FiniteVerdicts
  <2>4. CASE ~passed
    <3>1. entry.status = "failed"
      BY <2>4 DEF entry
    <3>2. Having("failed")' = Having("failed") \cup {Here} /\ Having("passed")' = Having("passed")
      BY <1>2, <1>9, <1>13, <3>1 DEF Having, Status
    <3>3. totals'.failed = totals.failed + 1 /\ totals'.passed = totals.passed
      BY <1>1, <2>2, <2>4 DEF TotalsWith
    <3> QED
      BY <1>13, <2>1, <3>2, <3>3, OneMoreVerdict DEF DirectorInv, TotalsAddUp, FiniteVerdicts
  <2> QED
    BY <2>3, <2>4
<1>15. OutcomeIsSound'
  <2>1. Having("cancelled")' = {} /\ outcome' = "none"
    BY <1>1, <1>11 DEF DirectorInv, Progress
  <2> QED
    BY <1>1, <2>1 DEF DirectorInv, OutcomeIsSound
<1>16. TaintIsLast'
  <2>1. ASSUME NEW p \in killed', NEW q \in Positions, After(q, p)
        PROVE  snapshot'[q].status \in {"pending", "cancelled"}
    <3>1. p = Here
      BY <1>1 DEF DirectorInv, Progress
    <3>2. q # Here
      BY <1>2, <2>1, <3>1 DEF After
    <3> QED
      BY <1>1, <1>9, <2>1, <3>1, <3>2, LaterIsPending DEF Status
  <2> QED
    BY <2>1 DEF TaintIsLast, Status, After
<1> QED
  BY <1>1, <1>6, <1>7, <1>8, <1>10, <1>12, <1>13, <1>14, <1>15, <1>16
  DEF DirectorInv, TraceComplete, VerdictsKept, HasVerdict, Having

-----------------------------------------------------------------------------
(* unwindRemaining takes over.                                             *)

InTrace(tr, p) == p[1] \in DOMAIN tr /\ p[2] \in DOMAIN tr[p[1]]

\* The trace tr holds what comes before the assertion <<s0, a0>>.
HoldsUpTo(tr, s0, a0) ==
    /\ s0 \in 1 .. Len(Playbook)
    /\ a0 \in 1 .. Len(Playbook[s0]) + 1
    /\ tr \in Seq(Seq(Entries))
    /\ \A s \in 1 .. s0 - 1 : Len(tr[s]) = Len(Playbook[s])
    /\ \/ Len(tr) = s0 - 1 /\ a0 = 1
       \/ Len(tr) = s0 /\ Len(tr[s0]) = a0 - 1

\* What it holds of the section s.
RowSoFar(tr, s) == IF s \in DOMAIN tr THEN tr[s] ELSE <<>>

\* The snapshot snap and the announcements n agree with it and with the verdicts given.
MayUnwind(tr, snap, n, s0, a0) ==
    /\ HoldsUpTo(tr, s0, a0)
    /\ snap \in [Positions -> AssertionSnapshots]
    /\ n \in [Positions -> Nat]
    /\ \A p \in Positions :
          /\ InTrace(tr, p) => n[p] = 1 /\ snap[p].status = tr[p[1]][p[2]].status
          /\ ~InTrace(tr, p) => n[p] = 0
          /\ HasVerdict(p) => InTrace(tr, p) /\ snap[p] = snapshot[p]
          /\ snap[p].status \in {"passed", "failed"} => HasVerdict(p)
          /\ snap[p].status = "cancelled" => p = <<s0, a0 - 1>>
    /\ \A p \in killed, q \in Positions : After(q, p) => q \in Remaining(s0, a0)

\* A cancelled assertion may be in the trace and in the snapshot.
LEMMA CancelledIsEntry == Cancelled \in Entries /\ Cancelled \in AssertionSnapshots
  BY DEF Cancelled, Entries, AssertionSnapshots

\* A row of the trace filled up with cancelled assertions.
Filled(row, len) == row \o [i \in 1 .. (len - Len(row)) |-> Cancelled]

\* A section filled up with cancelled assertions.
LEMMA FilledIs ==
  ASSUME NEW row \in Seq(Entries), NEW len \in Nat, Len(row) <= len
  PROVE  /\ Filled(row, len) \in Seq(Entries)
         /\ Len(Filled(row, len)) = len
         /\ \A i \in 1 .. Len(row) : Filled(row, len)[i] = row[i]
         /\ \A i \in 1 .. len : i > Len(row) => Filled(row, len)[i] = Cancelled
<1> DEFINE rest == [i \in 1 .. (len - Len(row)) |-> Cancelled]
<1>1. len - Len(row) \in Nat /\ Len(row) \in Nat
  OBVIOUS
<1>2. /\ rest \in Seq(Entries) /\ Len(rest) = len - Len(row)
      /\ \A i \in 1 .. (len - Len(row)) : rest[i] = Cancelled
  BY <1>1, CancelledIsEntry
<1>3. Filled(row, len) = row \o rest
  BY DEF Filled
<1> HIDE DEF rest
<1>4. row \o rest \in Seq(Entries) /\ Len(row \o rest) = len
  BY <1>1, <1>2
<1>5. ASSUME NEW i \in 1 .. len, i > Len(row)
      PROVE  (row \o rest)[i] = Cancelled
  <2>1. i - Len(row) \in 1 .. (len - Len(row))
    BY <1>1, <1>5
  <2>2. (row \o rest)[i] = rest[i - Len(row)]
    BY <1>1, <1>2, <1>5
  <2> QED
    BY <1>2, <2>1, <2>2
<1>6. \A i \in 1 .. Len(row) : (row \o rest)[i] = row[i]
  BY <1>1, <1>2
<1> QED
  BY <1>3, <1>4, <1>5, <1>6

\* What unwindRemaining makes of the trace: one entry for each assertion of the playbook,
\* those that were there and Cancelled for the others.
LEMMA UnwoundIs ==
  ASSUME NEW tr, NEW s0, NEW a0, HoldsUpTo(tr, s0, a0)
  PROVE  /\ Unwound(tr, s0, a0) \in Seq(Seq(Entries))
         /\ DOMAIN Unwound(tr, s0, a0) = DOMAIN Playbook
         /\ \A s \in DOMAIN Playbook : Len(Unwound(tr, s0, a0)[s]) = Len(Playbook[s])
         /\ \A p \in Positions :
               /\ p \in Remaining(s0, a0) <=> ~InTrace(tr, p)
               /\ p \in Remaining(s0, a0) => Unwound(tr, s0, a0)[p[1]][p[2]] = Cancelled
               /\ InTrace(tr, p) => Unwound(tr, s0, a0)[p[1]][p[2]] = tr[p[1]][p[2]]
<1> DEFINE U == Unwound(tr, s0, a0)
<1>1. /\ Len(Playbook) \in Nat /\ DOMAIN Playbook = 1 .. Len(Playbook)
      /\ s0 \in 1 .. Len(Playbook) /\ a0 \in 1 .. Len(Playbook[s0]) + 1
      /\ \A s \in 1 .. Len(Playbook) : Len(Playbook[s]) \in Nat
  BY PlaybookType DEF HoldsUpTo
<1>2. /\ tr \in Seq(Seq(Entries)) /\ DOMAIN tr = 1 .. Len(tr)
      /\ \A s \in DOMAIN tr : tr[s] \in Seq(Entries) /\ DOMAIN tr[s] = 1 .. Len(tr[s])
  BY DEF HoldsUpTo
<1>3. ASSUME NEW s \in 1 .. Len(Playbook)
      PROVE  /\ RowSoFar(tr, s) \in Seq(Entries)
             /\ s < s0 => Len(RowSoFar(tr, s)) = Len(Playbook[s])
             /\ s = s0 => Len(RowSoFar(tr, s)) = a0 - 1
             /\ s > s0 => Len(RowSoFar(tr, s)) = 0
  <2>1. <<>> \in Seq(Entries) /\ Len(<<>>) = 0
    OBVIOUS
  <2>2. ASSUME s \in DOMAIN tr
        PROVE  RowSoFar(tr, s) = tr[s] /\ tr[s] \in Seq(Entries)
    BY <1>2, <2>2 DEF RowSoFar
  <2>3. ASSUME s \notin DOMAIN tr
        PROVE  RowSoFar(tr, s) \in Seq(Entries) /\ Len(RowSoFar(tr, s)) = 0
    BY <2>1, <2>3 DEF RowSoFar
  <2>4. Len(tr) \in {s0 - 1, s0} /\ Len(tr) \in Nat
    BY <1>1 DEF HoldsUpTo
  <2>5. CASE s < s0
    <3>1. s \in DOMAIN tr /\ s \in 1 .. s0 - 1
      <4>1. s \in Nat /\ s >= 1 /\ s0 \in Nat /\ s <= Len(tr)
        BY <1>1, <2>4, <2>5
      <4>2. s \in 1 .. s0 - 1 /\ s \in 1 .. Len(tr)
        BY <2>4, <2>5, <4>1
      <4> QED
        BY <1>2, <4>2, Zenon
    <3> QED
      BY <1>1, <2>2, <2>5, <3>1 DEF HoldsUpTo
  <2>6. CASE s = s0
    <3>1. CASE Len(tr) = s0 - 1 /\ a0 = 1
      <4>1. s \notin DOMAIN tr
        BY <1>1, <1>2, <2>6, <3>1
      <4> QED
        BY <1>1, <2>3, <2>6, <3>1, <4>1
    <3>2. CASE Len(tr) = s0 /\ Len(tr[s0]) = a0 - 1
      <4>1. s \in DOMAIN tr
        BY <1>1, <1>2, <2>6, <3>2
      <4> QED
        BY <1>1, <2>2, <2>6, <3>2, <4>1
    <3> QED
      BY <3>1, <3>2 DEF HoldsUpTo
  <2>7. CASE s > s0
    <3>1. s \notin DOMAIN tr
      BY <1>1, <1>2, <2>4, <2>7
    <3> QED
      BY <1>1, <2>3, <2>7, <3>1
  <2> QED
    BY <1>1, <2>5, <2>6, <2>7
<1>4. ASSUME NEW s \in 1 .. Len(Playbook)
      PROVE  /\ s < s0 => U[s] = RowSoFar(tr, s)
             /\ ~(s < s0) => U[s] = Filled(RowSoFar(tr, s), Len(Playbook[s]))
  <2>1. /\ s < s0 => U[s] = RowSoFar(tr, s)
        /\ ~(s < s0) => U[s] = RowSoFar(tr, s) \o
              [i \in 1 .. (Len(Playbook[s]) + 1 - First(s, s0, a0)) |-> Cancelled]
    BY <1>1 DEF Unwound, RowSoFar
  <2>2. ASSUME ~(s < s0)
        PROVE  Len(Playbook[s]) + 1 - First(s, s0, a0) = Len(Playbook[s]) - Len(RowSoFar(tr, s))
    <3>1. CASE s = s0
      <4>1. First(s, s0, a0) = a0 /\ Len(RowSoFar(tr, s)) = a0 - 1 /\ a0 \in Int
        BY <1>1, <1>3, <3>1 DEF First
      <4> QED
        BY <1>1, <4>1
    <3>2. CASE s > s0
      <4>1. First(s, s0, a0) = 1 /\ Len(RowSoFar(tr, s)) = 0
        BY <1>1, <1>3, <3>2 DEF First
      <4> QED
        BY <1>1, <4>1
    <3> QED
      BY <1>1, <2>2, <3>1, <3>2
  <2> QED
    BY <2>1, <2>2, Zenon DEF Filled
<1>5. ASSUME NEW s \in 1 .. Len(Playbook)
      PROVE  /\ U[s] \in Seq(Entries) /\ Len(U[s]) = Len(Playbook[s])
             /\ \A a \in 1 .. Len(RowSoFar(tr, s)) : U[s][a] = RowSoFar(tr, s)[a]
             /\ \A a \in 1 .. Len(Playbook[s]) : a > Len(RowSoFar(tr, s)) => U[s][a] = Cancelled
  <2>1. Len(Playbook[s]) \in Nat /\ Len(RowSoFar(tr, s)) \in Nat
    BY <1>1, <1>3
  <2>2. CASE s < s0
    <3>1. U[s] = RowSoFar(tr, s) /\ Len(RowSoFar(tr, s)) = Len(Playbook[s])
      BY <1>3, <1>4, <2>2
    <3>2. \A a \in 1 .. Len(Playbook[s]) : ~(a > Len(Playbook[s]))
      BY <2>1
    <3> HIDE DEF U
    <3> QED
      BY <1>3, <3>1, <3>2
  <2>3. CASE ~(s < s0)
    <3>1. Len(RowSoFar(tr, s)) <= Len(Playbook[s])
      BY <1>1, <1>3, <2>1, <2>3
    <3>2. U[s] = Filled(RowSoFar(tr, s), Len(Playbook[s]))
      BY <1>4, <2>3
    <3>3. RowSoFar(tr, s) \in Seq(Entries)
      BY <1>3
    <3> DEFINE row == RowSoFar(tr, s)
               filled == Filled(row, Len(Playbook[s]))
    <3>4. /\ filled \in Seq(Entries)
          /\ Len(filled) = Len(Playbook[s])
          /\ \A i \in 1 .. Len(row) : filled[i] = row[i]
          /\ \A i \in 1 .. Len(Playbook[s]) : i > Len(row) => filled[i] = Cancelled
      <4> HIDE DEF row
      <4>1. row \in Seq(Entries) /\ Len(row) <= Len(Playbook[s])
        BY <3>1, <3>3 DEF row
      <4> QED
        BY <2>1, <4>1, FilledIs
    <3>5. U[s] = filled
      BY <3>2
    <3> HIDE DEF U, filled
    <3> QED
      BY <3>4, <3>5, Zenon
  <2> QED
    BY <2>2, <2>3
<1>6. U \in Seq(Seq(Entries)) /\ DOMAIN U = DOMAIN Playbook
  <2>1. DOMAIN U = 1 .. Len(Playbook)
    BY <1>1 DEF Unwound
  <2>2. U = [s \in 1 .. Len(Playbook) |-> U[s]]
    BY <1>1 DEF Unwound
  <2> HIDE DEF U
  <2> QED
    BY <1>1, <1>5, <2>1, <2>2
<1>7. ASSUME NEW p \in Positions
      PROVE  /\ p \in Remaining(s0, a0) <=> ~InTrace(tr, p)
             /\ InTrace(tr, p) <=> p[2] <= Len(RowSoFar(tr, p[1]))
             /\ InTrace(tr, p) => RowSoFar(tr, p[1]) = tr[p[1]]
  <2>1. /\ p[1] \in 1 .. Len(Playbook) /\ p[2] \in 1 .. Len(Playbook[p[1]])
        /\ Len(Playbook[p[1]]) \in Nat
    BY <1>1, PositionsAre
  <2>2. InTrace(tr, p) <=> p[2] <= Len(RowSoFar(tr, p[1]))
    <3>1. CASE p[1] \in DOMAIN tr
      BY <1>2, <2>1, <3>1 DEF InTrace, RowSoFar
    <3>2. CASE p[1] \notin DOMAIN tr
      <4>1. Len(RowSoFar(tr, p[1])) = 0
        BY <3>2 DEF RowSoFar
      <4> QED
        BY <2>1, <3>2, <4>1 DEF InTrace
    <3> QED
      BY <3>1, <3>2
  <2>3. p \in Remaining(s0, a0) <=> p[1] >= s0 /\ p[2] >= First(p[1], s0, a0)
    BY DEF Remaining
  <2>4. InTrace(tr, p) => RowSoFar(tr, p[1]) = tr[p[1]]
    BY DEF InTrace, RowSoFar
  <2>5. p \in Remaining(s0, a0) <=> p[2] > Len(RowSoFar(tr, p[1]))
    <3>1. Len(RowSoFar(tr, p[1])) \in Nat
      BY <1>3, <2>1
    <3>2. CASE p[1] < s0
      BY <1>1, <1>3, <2>1, <2>3, <3>1, <3>2
    <3>3. CASE p[1] = s0
      BY <1>1, <1>3, <2>1, <2>3, <3>1, <3>3 DEF First
    <3>4. CASE p[1] > s0
      BY <1>1, <1>3, <2>1, <2>3, <3>1, <3>4 DEF First
    <3> QED
      BY <1>1, <2>1, <3>2, <3>3, <3>4
  <2>6. Len(RowSoFar(tr, p[1])) \in Nat
    BY <1>3, <2>1
  <2> QED
    BY <2>1, <2>2, <2>4, <2>5, <2>6
<1>8. ASSUME NEW p \in Positions
      PROVE  /\ p \in Remaining(s0, a0) => U[p[1]][p[2]] = Cancelled
             /\ InTrace(tr, p) => U[p[1]][p[2]] = tr[p[1]][p[2]]
  <2>1. p[1] \in 1 .. Len(Playbook) /\ p[2] \in 1 .. Len(Playbook[p[1]])
    BY PositionsAre
  <2>2. Len(RowSoFar(tr, p[1])) \in Nat /\ p[2] \in Nat /\ p[2] >= 1
    BY <1>1, <1>3, <2>1
  <2> HIDE DEF U
  <2> QED
    BY <1>5, <1>7, <2>1, <2>2
<1> QED
  BY <1>1, <1>5, <1>6, <1>7, <1>8

\* What comes after a cancelled assertion is cancelled too.
LEMMA RemainingIsSuffix ==
  ASSUME NEW s0 \in Nat, NEW a0 \in Nat, NEW p \in Positions, NEW q \in Positions,
         After(q, p), p \in Remaining(s0, a0) \/ p = <<s0, a0 - 1>>
  PROVE  q \in Remaining(s0, a0)
<1>1. /\ p[1] \in Nat /\ p[2] \in Nat /\ q[1] \in Nat /\ q[2] \in Nat /\ q[2] >= 1
  BY PositionsAre, PlaybookType
<1>2. q[1] > p[1] \/ (q[1] = p[1] /\ q[2] > p[2])
  BY DEF After
<1>3. p[1] >= s0 /\ (p[1] = s0 => p[2] >= a0 - 1)
  BY <1>1 DEF Remaining, First
<1> QED
  BY <1>1, <1>2, <1>3 DEF Remaining, First

\* unwindRemaining keeps the invariant and every verdict, wherever it takes over.
LEMMA UnwindKeeps ==
  ASSUME DirectorInv, ctxDone, NEW tr, NEW snap, NEW n, NEW s0 \in Nat, NEW a0 \in Nat,
         MayUnwind(tr, snap, n, s0, a0), UnwindRemaining(tr, snap, n, s0, a0),
         UNCHANGED <<ctxDone, loopVars, totals, killed>>
  PROVE  DirectorInv' /\ VerdictsKept /\ NoneJudged
<1>1. /\ trace' = Unwound(tr, s0, a0) /\ outcome' = "cancelled" /\ active' = NoAssertion
      /\ pc' = "returned"
      /\ \A p \in Positions :
            /\ p \in Remaining(s0, a0) => snapshot'[p] = Cancelled /\ told'[p] = n[p] + 1
            /\ p \notin Remaining(s0, a0) => snapshot'[p] = snap[p] /\ told'[p] = n[p]
  BY DEF UnwindRemaining
<1>2. HoldsUpTo(tr, s0, a0)
  BY DEF MayUnwind
<1>3. /\ trace' \in Seq(Seq(Entries)) /\ TraceComplete'
      /\ \A p \in Positions :
            /\ p \in Remaining(s0, a0) <=> ~InTrace(tr, p)
            /\ p \in Remaining(s0, a0) => trace'[p[1]][p[2]] = Cancelled
            /\ InTrace(tr, p) => trace'[p[1]][p[2]] = tr[p[1]][p[2]]
  BY <1>1, <1>2, UnwoundIs DEF TraceComplete
<1>4. \A p \in Positions : Recorded(p)'
  BY <1>1, <1>3, PositionsAre, PlaybookType DEF TraceComplete, Recorded
<1>5. \A p \in Positions :
         /\ InTrace(tr, p) => n[p] = 1 /\ snap[p].status = tr[p[1]][p[2]].status
         /\ ~InTrace(tr, p) => n[p] = 0
         /\ HasVerdict(p) => InTrace(tr, p) /\ snap[p] = snapshot[p]
         /\ snap[p].status \in {"passed", "failed"} => HasVerdict(p)
         /\ snap[p].status = "cancelled" => p = <<s0, a0 - 1>>
  BY DEF MayUnwind
<1>6. Cancelled.status = "cancelled"
  BY DEF Cancelled
<1>7. \A p \in Positions : told'[p] = 1 /\ snapshot'[p].status = trace'[p[1]][p[2]].status
  <2>1. ASSUME NEW p \in Positions, p \in Remaining(s0, a0)
        PROVE  told'[p] = 1 /\ snapshot'[p].status = trace'[p[1]][p[2]].status
    <3>1. told'[p] = n[p] + 1 /\ n[p] = 0
      BY <1>1, <1>3, <1>5, <2>1
    <3>2. snapshot'[p] = Cancelled /\ trace'[p[1]][p[2]] = Cancelled
      BY <1>1, <1>3, <2>1
    <3> QED
      BY <3>1, <3>2
  <2>2. ASSUME NEW p \in Positions, p \notin Remaining(s0, a0)
        PROVE  told'[p] = 1 /\ snapshot'[p].status = trace'[p[1]][p[2]].status
    <3>1. InTrace(tr, p)
      BY <1>3, <2>2
    <3> QED
      BY <1>1, <1>3, <1>5, <2>2, <3>1
  <2> QED
    BY <2>1, <2>2
<1>8. \A p \in Positions : snapshot'[p].status \in {"passed", "failed", "cancelled"}
  <2>1. ASSUME NEW p \in Positions PROVE trace'[p[1]][p[2]] \in Entries
    <3>1. p[1] \in DOMAIN trace' /\ p[2] \in DOMAIN trace'[p[1]]
      BY <1>4 DEF Recorded
    <3>2. trace'[p[1]] \in Seq(Entries)
      BY <1>3, <3>1
    <3> QED
      BY <3>1, <3>2
  <2> QED
    BY <1>7, <2>1 DEF Entries
<1>9. TypeOK'
  <2>1. LoopsTypeOK'
    BY <1>1 DEF DirectorInv, TypeOK, LoopsTypeOK, loopVars
  <2>2. snapshot' \in [Positions -> AssertionSnapshots] /\ told' \in [Positions -> Nat]
    BY CancelledIsEntry DEF MayUnwind, UnwindRemaining
  <2>3. ResultsTypeOK'
    BY <1>1, <1>3, <2>2 DEF DirectorInv, TypeOK, ResultsTypeOK
  <2> QED
    BY <2>1, <2>3 DEF DirectorInv, TypeOK
<1>10. Shape' /\ Progress'
  BY <1>1, <1>8 DEF Shape, Progress, Status
<1>11. SnapshotAgrees'
  BY <1>1, <1>4, <1>7, <1>8 DEF SnapshotAgrees, Status
<1>12. \A p \in Positions :
          /\ (snapshot'[p].status \in {"passed", "failed"}) <=> HasVerdict(p)
          /\ HasVerdict(p) => snapshot'[p] = snapshot[p]
  <2>1. ASSUME NEW p \in Positions
        PROVE  /\ (snapshot'[p].status \in {"passed", "failed"}) <=> HasVerdict(p)
               /\ HasVerdict(p) => snapshot'[p] = snapshot[p]
    BY <1>1, <1>3, <1>5, <1>6 DEF HasVerdict, Status
  <2> QED
    BY <2>1
<1>13. TotalsAddUp' /\ FiniteVerdicts'
  <2>1. Having("passed")' = Having("passed") /\ Having("failed")' = Having("failed")
    BY <1>12 DEF Having, HasVerdict, Status
  <2> QED
    BY <1>12, <2>1 DEF DirectorInv, TotalsAddUp, FiniteVerdicts, HasVerdict, Status
<1>14. \A p \in Positions :
          snapshot'[p].status = "cancelled" => p \in Remaining(s0, a0) \/ p = <<s0, a0 - 1>>
  BY <1>1, <1>5
<1>15. \A q \in Positions : q \in Remaining(s0, a0) => snapshot'[q].status = "cancelled"
  BY <1>1, <1>6
<1>16. OutcomeIsSound'
  <2>1. ASSUME NEW p \in Having("cancelled")', NEW q \in Positions, After(q, p)
        PROVE  snapshot'[q].status = "cancelled"
    BY <1>14, <1>15, <2>1, RemainingIsSuffix DEF Having, Status
  <2> QED
    BY <1>1, <2>1 DEF OutcomeIsSound, After, Status
<1>17. TaintIsLast'
  <2>1. \A p \in killed, q \in Positions : After(q, p) => q \in Remaining(s0, a0)
    BY DEF MayUnwind
  <2> QED
    BY <1>15, <2>1 DEF TaintIsLast, After, Status
<1> QED
  BY <1>3, <1>9, <1>10, <1>11, <1>12, <1>13, <1>16, <1>17
  DEF DirectorInv, VerdictsKept, NoneJudged

\* Where no assertion is at work, the director may unwind from where it is.
LEMMA MayUnwindBetween ==
  ASSUME DirectorInv, NEW a0 \in Nat,
         \/ pc = "section" /\ section <= Len(Playbook) /\ a0 = 1
         \/ pc = "assertion" /\ a0 = assertion
  PROVE  MayUnwind(trace, snapshot, told, section, a0)
<1>1. /\ section \in 1 .. Len(Playbook) /\ Len(Playbook) \in Nat
      /\ Len(Playbook[section]) \in Nat /\ a0 >= 1 /\ a0 \in 1 .. Len(Playbook[section]) + 1
  BY PlaybookType DEF DirectorInv, TypeOK, LoopsTypeOK, Shape
<1>2. HoldsUpTo(trace, section, a0)
  BY <1>1 DEF DirectorInv, TypeOK, ResultsTypeOK, Shape, HoldsUpTo
<1>3. ASSUME NEW p \in Positions
      PROVE  /\ InTrace(trace, p) => told[p] = 1 /\ snapshot[p].status = trace[p[1]][p[2]].status
             /\ ~InTrace(trace, p) => told[p] = 0
             /\ HasVerdict(p) => InTrace(trace, p)
             /\ snapshot[p].status # "cancelled"
  BY DEF DirectorInv, SnapshotAgrees, Progress, Recorded, InTrace, Status, HasVerdict, Having
<1>4. ASSUME NEW p \in killed, NEW q \in Positions, After(q, p)
      PROVE  q \in Remaining(section, a0)
  <2>1. /\ p \in Positions /\ p[1] \in 1 .. Len(Playbook) /\ p[2] \in Nat
        /\ q[1] \in 1 .. Len(Playbook) /\ q[2] \in 1 .. Len(Playbook[q[1]])
        /\ Len(Playbook[q[1]]) \in Nat
    BY PositionsAre, PlaybookType DEF DirectorInv, TypeOK, ResultsTypeOK
  <2>2. q[1] > p[1] \/ (q[1] = p[1] /\ q[2] > p[2])
    BY <1>4 DEF After
  <2>3. CASE pc = "section" /\ a0 = 1
    <3>1. p[1] = section - 1 /\ p[2] = Len(Playbook[p[1]])
      BY <2>3 DEF DirectorInv, Progress
    <3>2. q[1] >= section /\ q[2] >= 1
      BY <1>1, <2>1, <2>2, <3>1
    <3> QED
      BY <2>3, <3>2 DEF Remaining, First
  <2>4. CASE pc = "assertion" /\ a0 = assertion
    <3>1. p[1] = section /\ p[2] = a0 - 1
      BY <2>4 DEF DirectorInv, Progress
    <3> QED
      BY <1>1, <2>1, <2>2, <3>1 DEF Remaining, First
  <2> QED
    BY <2>3, <2>4
<1>5. snapshot \in [Positions -> AssertionSnapshots] /\ told \in [Positions -> Nat]
  BY DEF DirectorInv, TypeOK, ResultsTypeOK
<1> QED
  BY <1>2, <1>3, <1>4, <1>5 DEF MayUnwind, HasVerdict, Status

\* A cancellation seen before a section keeps the invariant and every verdict.
LEMMA StopBeforeSectionKeeps ==
  DirectorInv /\ StopBeforeSection => DirectorInv' /\ VerdictsKept /\ NoneJudged
<1> SUFFICES ASSUME DirectorInv, StopBeforeSection
             PROVE  DirectorInv' /\ VerdictsKept /\ NoneJudged
  OBVIOUS
<1>1. /\ pc = "section" /\ section <= Len(Playbook) /\ ctxDone
      /\ UnwindRemaining(trace, snapshot, told, section, 1)
      /\ UNCHANGED <<ctxDone, loopVars, totals, killed>>
  BY DEF StopBeforeSection
<1>2. section \in Nat /\ 1 \in Nat
  BY PlaybookType DEF DirectorInv, TypeOK, LoopsTypeOK
<1>3. MayUnwind(trace, snapshot, told, section, 1)
  BY <1>1, <1>2, MayUnwindBetween
<1> QED
  BY <1>1, <1>2, <1>3, UnwindKeeps

\* A cancellation seen before an assertion keeps the invariant and every verdict.
LEMMA StopBeforeAssertionKeeps ==
  DirectorInv /\ StopBeforeAssertion => DirectorInv' /\ VerdictsKept /\ NoneJudged
<1> SUFFICES ASSUME DirectorInv, StopBeforeAssertion
             PROVE  DirectorInv' /\ VerdictsKept /\ NoneJudged
  OBVIOUS
<1>1. /\ pc = "assertion" /\ ctxDone
      /\ UnwindRemaining(trace, snapshot, told, section, assertion)
      /\ UNCHANGED <<ctxDone, loopVars, totals, killed>>
  BY DEF StopBeforeAssertion
<1>2. section \in Nat /\ assertion \in Nat
  BY PlaybookType DEF DirectorInv, TypeOK, LoopsTypeOK
<1>3. MayUnwind(trace, snapshot, told, section, assertion)
  BY <1>1, <1>2, MayUnwindBetween
<1> QED
  BY <1>1, <1>2, <1>3, UnwindKeeps

\* A cancellation seen before a command keeps the invariant and every verdict.
LEMMA CancelAssertionKeeps ==
  DirectorInv /\ CancelAssertion => DirectorInv' /\ VerdictsKept /\ NoneJudged
<1> SUFFICES ASSUME DirectorInv, CancelAssertion
             PROVE  DirectorInv' /\ VerdictsKept /\ NoneJudged
  OBVIOUS
<1> DEFINE tr == TraceWith(Cancelled)
           snap == [snapshot EXCEPT ![Here] = [status |-> "cancelled", score |-> score]]
           n == [told EXCEPT ![Here] = @ + 1]
<1>1. /\ pc = "command" /\ ctxDone
      /\ UnwindRemaining(tr, snap, n, section, assertion + 1)
      /\ UNCHANGED <<ctxDone, loopVars, totals, killed>>
  BY DEF CancelAssertion, TraceWith, AfterCancelledAssertion
<1>2. /\ Here \in Positions /\ section \in 1 .. Len(Playbook)
      /\ assertion \in 1 .. Len(Playbook[section]) /\ ~Recorded(Here)
      /\ Len(Playbook) \in Nat /\ Len(Playbook[section]) \in Nat
      /\ Here = <<section, assertion>>
  BY <1>1, HereIsNew, PlaybookType DEF Here
<1>3. /\ snapshot \in [Positions -> AssertionSnapshots] /\ told \in [Positions -> Nat]
      /\ score \in Int
  BY DEF DirectorInv, TypeOK, ResultsTypeOK, LoopsTypeOK
<1>4. /\ snap \in [Positions -> AssertionSnapshots] /\ n \in [Positions -> Nat]
      /\ snap[Here].status = "cancelled" /\ n[Here] = told[Here] + 1
      /\ \A p \in Positions : p # Here => snap[p] = snapshot[p] /\ n[p] = told[p]
  <2>1. [status |-> "cancelled", score |-> score] \in AssertionSnapshots
    BY <1>3 DEF AssertionSnapshots
  <2> QED
    BY <1>2, <1>3, <2>1
<1>5. HoldsUpTo(tr, section, assertion + 1)
  <2>1. /\ tr \in Seq(Seq(Entries)) /\ Len(tr) = section /\ Len(tr[section]) = assertion
        /\ \A s \in 1 .. section - 1 : tr[s] = trace[s]
    BY <1>1, EntryAppended, CancelledIsEntry
  <2>2. \A s \in 1 .. section - 1 : Len(trace[s]) = Len(Playbook[s])
    BY <1>1 DEF DirectorInv, Shape
  <2>3. \A s \in 1 .. section - 1 : Len(tr[s]) = Len(Playbook[s])
    BY <2>1, <2>2
  <2>4. assertion + 1 \in 1 .. Len(Playbook[section]) + 1 /\ (assertion + 1) - 1 = assertion
    BY <1>2
  <2> HIDE DEF tr, snap, n
  <2> QED
    BY <1>2, <2>1, <2>3, <2>4, Zenon DEF HoldsUpTo
<1>6. \A p \in Positions :
         /\ InTrace(tr, p) <=> Recorded(p) \/ p = Here
         /\ p = Here => tr[p[1]][p[2]] = Cancelled
         /\ Recorded(p) => tr[p[1]][p[2]] = trace[p[1]][p[2]]
  BY <1>1, OneMoreRecorded, CancelledIsEntry DEF InTrace
<1> HIDE DEF tr, snap, n
<1>7. ASSUME NEW p \in Positions
      PROVE  /\ InTrace(tr, p) => n[p] = 1 /\ snap[p].status = tr[p[1]][p[2]].status
             /\ ~InTrace(tr, p) => n[p] = 0
             /\ HasVerdict(p) => InTrace(tr, p) /\ snap[p] = snapshot[p]
             /\ snap[p].status \in {"passed", "failed"} => HasVerdict(p)
             /\ snap[p].status = "cancelled" => p = Here
  <2>1. /\ Recorded(p) => told[p] = 1 /\ snapshot[p].status = trace[p[1]][p[2]].status
        /\ ~Recorded(p) => told[p] = 0 /\ ~HasVerdict(p)
        /\ snapshot[p].status # "cancelled"
    BY <1>1 DEF DirectorInv, SnapshotAgrees, Progress, Status, HasVerdict, Having
  <2>2. CASE p = Here
    <3>1. n[p] = 1 /\ snap[p].status = "cancelled" /\ tr[p[1]][p[2]] = Cancelled
      BY <1>2, <1>4, <1>6, <2>1, <2>2
    <3> QED
      BY <1>2, <1>6, <2>1, <2>2, <3>1 DEF Cancelled
  <2>3. CASE p # Here
    BY <1>4, <1>6, <2>1, <2>3 DEF HasVerdict, Status
  <2> QED
    BY <2>2, <2>3
<1>8. ASSUME NEW p \in killed, NEW q \in Positions, After(q, p)
      PROVE  q \in Remaining(section, assertion + 1)
  <2>1. p = <<section, (assertion + 1) - 1>>
    BY <1>1, <1>2 DEF DirectorInv, Progress
  <2>2. section \in Nat /\ assertion + 1 \in Nat /\ p \in Positions
    BY <1>2 DEF DirectorInv, TypeOK, ResultsTypeOK
  <2> QED
    BY <1>8, <2>1, <2>2, RemainingIsSuffix
<1>9. MayUnwind(tr, snap, n, section, assertion + 1)
  <2>1. Here = <<section, (assertion + 1) - 1>>
    BY <1>2
  <2> QED
    BY <1>4, <1>5, <1>7, <1>8, <2>1 DEF MayUnwind
<1>10. section \in Nat /\ assertion + 1 \in Nat
  BY <1>2
<1> QED
  BY <1>1, <1>9, <1>10, UnwindKeeps

-----------------------------------------------------------------------------
(* The run ends, or is cancelled.                                          *)

\* Completing the run keeps the invariant.
LEMMA CompleteRunKeeps == DirectorInv /\ CompleteRun => DirectorInv'
<1> SUFFICES ASSUME DirectorInv, CompleteRun PROVE DirectorInv'
  OBVIOUS
<1>1. /\ pc = "section" /\ section > Len(Playbook) /\ outcome' = "complete"
      /\ active' = NoAssertion /\ pc' = "returned"
      /\ UNCHANGED <<ctxDone, loopVars, totals, trace, snapshot, told, killed>>
  BY DEF CompleteRun
<1>2. /\ section = Len(Playbook) + 1 /\ Len(Playbook) \in Nat /\ Len(trace) = Len(Playbook)
      /\ trace \in Seq(Seq(Entries))
      /\ \A s \in 1 .. Len(Playbook) : Len(trace[s]) = Len(Playbook[s])
  BY <1>1, PlaybookType DEF DirectorInv, TypeOK, LoopsTypeOK, ResultsTypeOK, Shape
<1>3. TraceComplete'
  BY <1>1, <1>2, PlaybookType DEF TraceComplete
<1>4. \A p \in Positions : Recorded(p)
  BY <1>1, <1>2, PositionsAre, PlaybookType, RecordedBefore DEF DirectorInv
<1>5. \A p \in Positions : Status(p)' = Status(p) /\ Recorded(p)' = Recorded(p)
  BY <1>1 DEF Status, Recorded
<1>6. \A status : Having(status)' = Having(status)
  BY <1>5 DEF Having
<1>7. \A p \in Positions : HasVerdict(p)
  <2>1. ASSUME NEW p \in Positions
        PROVE  Status(p) \in {"passed", "failed", "cancelled"}
    <3>1. trace[p[1]][p[2]] \in Entries
      BY <1>2, <1>4, ElementOfSeq DEF Recorded
    <3> QED
      BY <1>4, <3>1 DEF DirectorInv, SnapshotAgrees, Entries
  <2>2. Having("cancelled") = {}
    BY <1>1 DEF DirectorInv, Progress
  <2> QED
    BY <2>1, <2>2 DEF HasVerdict, Having
<1>8. TypeOK'
  BY <1>1 DEF DirectorInv, TypeOK, LoopsTypeOK, ResultsTypeOK, loopVars
<1>9. Shape' /\ Progress'
  BY <1>1, <1>5, <1>7 DEF Shape, Progress, HasVerdict
<1>10. SnapshotAgrees'
  BY <1>1, <1>4, <1>5, <1>7 DEF DirectorInv, SnapshotAgrees, HasVerdict
<1>11. TotalsAddUp' /\ FiniteVerdicts'
  BY <1>1, <1>5, <1>6 DEF DirectorInv, TotalsAddUp, FiniteVerdicts, HasVerdict
<1>12. OutcomeIsSound' /\ TaintIsLast'
  BY <1>1, <1>5, <1>6, <1>7 DEF DirectorInv, OutcomeIsSound, TaintIsLast, HasVerdict, Progress
<1> QED
  BY <1>3, <1>8, <1>9, <1>10, <1>11, <1>12 DEF DirectorInv

\* Nothing but the context changes, which is never restored.
LEMMA ContextKeeps ==
  ASSUME DirectorInv, UNCHANGED <<pc, loopVars, resultVars, killed>>,
         ctxDone' \in BOOLEAN, ctxDone => ctxDone'
  PROVE  DirectorInv'
<1>1. Here' = Here /\ Commands' = Commands
  BY DEF Here, Commands, Current, loopVars
<1>2. \A p \in Positions : Status(p)' = Status(p) /\ Recorded(p)' = Recorded(p)
  BY DEF Status, Recorded, resultVars
<1>3. \A status : Having(status)' = Having(status)
  BY <1>2 DEF Having
<1>4. TypeOK'
  BY <1>1 DEF DirectorInv, TypeOK, LoopsTypeOK, ResultsTypeOK, loopVars, resultVars
<1>5. Shape' /\ TraceComplete'
  BY DEF DirectorInv, Shape, TraceComplete, loopVars, resultVars
<1>6. SnapshotAgrees' /\ Progress'
  BY <1>1, <1>2, <1>3 DEF DirectorInv, SnapshotAgrees, Progress, loopVars, resultVars
<1>7. TotalsAddUp' /\ FiniteVerdicts'
  BY <1>2, <1>3 DEF DirectorInv, TotalsAddUp, FiniteVerdicts, HasVerdict, resultVars
<1>8. OutcomeIsSound' /\ TaintIsLast'
  BY <1>2, <1>3 DEF DirectorInv, OutcomeIsSound, TaintIsLast, HasVerdict, resultVars
<1> QED
  BY <1>4, <1>5, <1>6, <1>7, <1>8 DEF DirectorInv

\* The evaluation of a command's result is an integer.
LEMMA EvaluationIsInt ==
  ASSUME NEW matched \in BOOLEAN, NEW rule \in Verdicts, NEW exitZero \in BOOLEAN,
         NEW stdout \in Verdicts, NEW stderr \in Verdicts
  PROVE  Evaluation(matched, rule, exitZero, stdout, stderr) \in Int
  BY DEF Evaluation, Verdicts

\* DirectorInv is inductive, and every step keeps the verdicts.
LEMMA NextKeeps == DirectorInv /\ [Next]_vars => DirectorInv' /\ VerdictsKept
<1> SUFFICES ASSUME DirectorInv, [Next]_vars PROVE DirectorInv' /\ VerdictsKept
  OBVIOUS
<1>1. CASE StartAssertion \/ CompleteAssertion \/ StopBeforeSection \/ StopBeforeAssertion
           \/ CancelAssertion
  BY <1>1, StartAssertionKeeps, CompleteAssertionKeeps, StopBeforeSectionKeeps,
     StopBeforeAssertionKeeps, CancelAssertionKeeps
<1>2. CASE StartSection \/ EndSection \/ StartCommand \/ NextPhase \/ CompleteRun
  <2>1. DirectorInv'
    BY <1>2, StartSectionKeeps, EndSectionKeeps, StartCommandKeeps, NextPhaseKeeps,
       CompleteRunKeeps
  <2>2. UNCHANGED snapshot
    BY <1>2 DEF StartSection, EndSection, StartCommand, NextPhase, CompleteRun, resultVars
  <2> QED
    BY <2>1, <2>2 DEF VerdictsKept
<1>3. CASE SomeCommandReturns
  <2>1. DirectorInv'
    BY <1>3, CommandReturnsKeeps, EvaluationIsInt DEF SomeCommandReturns
  <2>2. UNCHANGED snapshot
    BY <1>3 DEF SomeCommandReturns, CommandReturns, resultVars
  <2> QED
    BY <2>1, <2>2 DEF VerdictsKept
<1>4. CASE CancelContext \/ UNCHANGED vars
  <2>1. DirectorInv'
    BY <1>4, ContextKeeps DEF CancelContext, DirectorInv, TypeOK, vars
  <2>2. UNCHANGED snapshot
    BY <1>4 DEF CancelContext, vars, resultVars
  <2> QED
    BY <2>1, <2>2 DEF VerdictsKept
<1> QED
  BY <1>1, <1>2, <1>3, <1>4 DEF Next, DirectorStep

\* The inductive invariant holds throughout every run.
LEMMA DirectorInvariant == Spec => []DirectorInv
  BY InitDirectorInv, NextKeeps, PTL DEF Spec

-----------------------------------------------------------------------------
(* The director is a run as DirectedRun describes it, and returns as       *)
(* RunResult says.                                                         *)

\* The assertion that the director works on is shown running.
HereRuns == pc \in {"command", "running"} => Status(Here) = "running"

\* Until the director returns, what is recorded has a verdict.
LEMMA RecordedIsJudged ==
  ASSUME DirectorInv, pc # "returned", NEW p \in Positions, Recorded(p)
  PROVE  HasVerdict(p)
<1>1. Status(p) = trace[p[1]][p[2]].status /\ trace[p[1]][p[2]] \in Entries
  <2>1. trace \in Seq(Seq(Entries)) /\ p[1] \in DOMAIN trace /\ p[2] \in DOMAIN trace[p[1]]
    BY DEF DirectorInv, TypeOK, ResultsTypeOK, Recorded
  <2>2. trace[p[1]] \in Seq(Entries)
    BY <2>1
  <2> QED
    BY <2>1, <2>2 DEF DirectorInv, SnapshotAgrees
<1>2. Status(p) # "cancelled"
  BY DEF DirectorInv, Progress, Having
<1> QED
  BY <1>1, <1>2 DEF Entries, HasVerdict

\* When an assertion is started, those before it are judged, and it is pending.
LEMMA StartedInOrder ==
  ASSUME DirectorInv, StartAssertion
  PROVE  /\ Here \in Positions
         /\ Status(Here) = "pending"
         /\ \A q \in Positions : After(Here, q) => HasVerdict(q)
         /\ \A p \in Positions : Status(p)' = IF p = Here THEN "running" ELSE Status(p)
<1>1. /\ pc = "assertion" /\ assertion <= Len(Playbook[section])
      /\ snapshot' = [snapshot EXCEPT ![Here].status = "running"]
  BY DEF StartAssertion
<1>2. /\ section \in 1 .. Len(Playbook) /\ assertion \in 1 .. Len(Playbook[section])
      /\ Here \in Positions /\ Here[1] = section /\ Here[2] = assertion
      /\ Len(Playbook) \in Nat /\ Len(Playbook[section]) \in Nat
  BY <1>1, PositionsAre, PlaybookType
  DEF DirectorInv, TypeOK, LoopsTypeOK, Shape, Here
<1>3. ~Recorded(Here)
  BY <1>1, <1>2, RecordedBefore DEF DirectorInv
<1>4. Status(Here) = "pending"
  BY <1>1, <1>2, <1>3 DEF DirectorInv, SnapshotAgrees, Progress
<1>5. ASSUME NEW q \in Positions, After(Here, q)
      PROVE  HasVerdict(q)
  <2>1. q[1] \in Nat /\ q[2] \in Nat
    BY PositionsAre, PlaybookType
  <2>2. Recorded(q)
    BY <1>1, <1>2, <1>5, <2>1, RecordedBefore DEF DirectorInv, After
  <2> QED
    BY <1>1, <2>2, RecordedIsJudged
<1>6. snapshot \in [Positions -> AssertionSnapshots]
  BY DEF DirectorInv, TypeOK, ResultsTypeOK
<1>7. \A p \in Positions : snapshot'[p].status = IF p = Here THEN "running" ELSE snapshot[p].status
  BY <1>1, <1>2, <1>6 DEF AssertionSnapshots
<1> QED
  BY <1>2, <1>4, <1>5, <1>7 DEF Status

\* HereRuns holds when the director starts, and no step disturbs it.
LEMMA HereRunsKept ==
  /\ Init => HereRuns
  /\ DirectorInv /\ HereRuns /\ [Next]_vars => HereRuns'
<1>1. Init => HereRuns
  BY DEF Init, HereRuns
<1>2. ASSUME DirectorInv, HereRuns, StartAssertion PROVE HereRuns'
  <2>1. Here' = Here
    BY <1>2 DEF StartAssertion, Here
  <2> QED
    BY <1>2, <2>1, StartedInOrder DEF HereRuns, Status
<1>3. ASSUME HereRuns, UNCHANGED <<section, assertion, snapshot>>,
             pc' \in {"command", "running"} => pc \in {"command", "running"}
      PROVE  HereRuns'
  BY <1>3 DEF HereRuns, Here, Status
<1>4. ASSUME CompleteAssertion \/ StopBeforeSection \/ StopBeforeAssertion \/ CancelAssertion
      PROVE  HereRuns'
  BY <1>4 DEF CompleteAssertion, StopBeforeSection, StopBeforeAssertion, CancelAssertion,
     UnwindRemaining, HereRuns
<1>5. ASSUME StartSection \/ EndSection \/ CompleteRun PROVE HereRuns'
  BY <1>5 DEF StartSection, EndSection, CompleteRun, HereRuns
<1>6. ASSUME HereRuns,
             StartCommand \/ NextPhase \/ SomeCommandReturns \/ CancelContext \/ UNCHANGED vars
      PROVE  HereRuns'
  <2>1. /\ UNCHANGED <<section, assertion, snapshot>>
        /\ pc' \in {"command", "running"} => pc \in {"command", "running"}
    BY <1>6 DEF StartCommand, NextPhase, SomeCommandReturns, CommandReturns, CancelContext,
       vars, loopVars, resultVars
  <2> QED
    BY <1>3, <1>6, <2>1
<1> QED
  BY <1>1, <1>2, <1>4, <1>5, <1>6 DEF Next, DirectorStep

\* What is shown of each assertion.
Shown == [p \in Positions |-> Status(p)]

\* A step that shows nothing new, and ends nothing, is none of a run.
LEMMA NothingShown ==
  ASSUME UNCHANGED <<ctxDone, snapshot, outcome>>
  PROVE  UNCHANGED Directed!directedVars
  BY DEF Directed!directedVars, Status

\* When the director unwinds, whatever has no verdict ends as cancelled.
LEMMA UnwindingGivesUp ==
  ASSUME DirectorInv, DirectorInv', VerdictsKept, NoneJudged, ctxDone, pc # "returned",
         pc' = "returned", outcome' = "cancelled", UNCHANGED ctxDone
  PROVE  Directed!GiveUp
<1>1. \A p \in Positions : Status(p) \in {"pending", "running", "passed", "failed"}
  <2>1. \A p \in Positions : snapshot[p] \in AssertionSnapshots
    BY DEF DirectorInv, TypeOK, ResultsTypeOK
  <2>2. \A p \in Positions : Status(p) # "cancelled"
    BY DEF DirectorInv, Progress, Having
  <2> QED
    BY <2>1, <2>2 DEF AssertionSnapshots, Status
<1>2. \A p \in Positions : snapshot'[p].status \in {"passed", "failed", "cancelled"}
  <2>1. \A p \in Positions : snapshot'[p] \in AssertionSnapshots
    BY DEF DirectorInv, TypeOK, ResultsTypeOK
  <2>2. \A p \in Positions : snapshot'[p].status # "running"
    BY DEF DirectorInv, Progress, Status
  <2>3. \A p \in Positions : snapshot'[p].status # "pending"
    <3>1. ASSUME NEW p \in Positions PROVE snapshot'[p].status # "pending"
      <4>1. /\ p[1] \in DOMAIN Playbook /\ p[2] \in DOMAIN Playbook[p[1]]
            /\ DOMAIN Playbook[p[1]] = 1 .. Len(Playbook[p[1]])
        BY PositionsAre, PlaybookType
      <4>2. /\ trace' \in Seq(Seq(Entries)) /\ DOMAIN trace' = DOMAIN Playbook
            /\ Len(trace'[p[1]]) = Len(Playbook[p[1]])
        BY <4>1 DEF DirectorInv, TypeOK, ResultsTypeOK, TraceComplete
      <4>3. trace'[p[1]] \in Seq(Entries)
        BY <4>1, <4>2
      <4>4. p[2] \in DOMAIN trace'[p[1]] /\ trace'[p[1]][p[2]] \in Entries
        BY <4>1, <4>2, <4>3
      <4>5. Recorded(p)'
        BY <4>1, <4>2, <4>4 DEF Recorded
      <4>6. snapshot'[p].status = trace'[p[1]][p[2]].status
        BY <4>5 DEF DirectorInv, SnapshotAgrees, Status
      <4> QED
        BY <4>4, <4>6 DEF Entries
    <3> QED
      BY <3>1
  <2> QED
    BY <2>1, <2>2, <2>3 DEF AssertionSnapshots
<1>3. outcome = "none"
  BY DEF DirectorInv, Progress
<1> DEFINE S == {p \in Positions : Status(p) \in {"pending", "running"}}
<1>4. Directed!Unended = S
  BY DEF Directed!Unended
<1>5. \A p \in Positions :
         snapshot'[p].status = IF p \in S THEN "cancelled" ELSE snapshot[p].status
  <2>1. ASSUME NEW p \in Positions, p \in S PROVE snapshot'[p].status = "cancelled"
    BY <1>2, <2>1 DEF NoneJudged, HasVerdict
  <2>2. ASSUME NEW p \in Positions, p \notin S PROVE snapshot'[p].status = snapshot[p].status
    <3>1. HasVerdict(p)
      BY <1>1, <2>2 DEF HasVerdict
    <3> QED
      BY <3>1 DEF VerdictsKept
  <2> QED
    BY <2>1, <2>2
<1>6. Shown' = [p \in Positions |-> IF p \in S THEN "cancelled" ELSE Shown[p]]
  BY <1>5 DEF Shown, Status
<1>7. S \subseteq S /\ \A a \in S : \A T : T \cap S \subseteq S
  OBVIOUS
<1> HIDE DEF S
<1> QED
  BY <1>3, <1>4, <1>6, <1>7 DEF Directed!GiveUp, Shown

\* Every step of the director is a step of a directed run, or none.
LEMMA NextDirected ==
  DirectorInv /\ HereRuns /\ [Next]_vars => [Directed!DirectedNext]_(Directed!directedVars)
<1> SUFFICES ASSUME DirectorInv, HereRuns, [Next]_vars
             PROVE  Directed!DirectedNext \/ UNCHANGED Directed!directedVars
  OBVIOUS
<1>1. DirectorInv' /\ VerdictsKept
  BY NextKeeps
<1>2. CASE StartAssertion
  <2>1. /\ ~ctxDone /\ UNCHANGED <<ctxDone, outcome>> /\ outcome = "none"
    BY <1>2 DEF StartAssertion, DirectorInv, Progress
  <2>2. /\ Here \in Positions /\ Shown[Here] = "pending"
        /\ \A q \in {q \in Positions : After(Here, q)} : Shown[q] \in Directed!Verdicts
        /\ Shown' = [Shown EXCEPT ![Here] = "running"]
    BY <1>2, StartedInOrder DEF Shown, HasVerdict, Directed!Verdicts
  <2>3. Directed!StartItem(Here)
    BY <2>1, <2>2 DEF Directed!StartItem, Shown
  <2> QED
    BY <2>2, <2>3 DEF Directed!DirectedNext
<1>3. CASE CompleteAssertion
  <2>1. pc = "command" /\ UNCHANGED <<ctxDone, outcome>> /\ outcome = "none"
    BY <1>3 DEF CompleteAssertion, DirectorInv, Progress
  <2>2. Here \in Positions /\ Shown[Here] = "running"
    BY <2>1, HereIsNew DEF HereRuns, Shown
  <2>3. PICK v \in {"passed", "failed"} : Shown' = [Shown EXCEPT ![Here] = v]
    <3>1. snapshot \in [Positions -> AssertionSnapshots]
      BY DEF DirectorInv, TypeOK, ResultsTypeOK
    <3>2. PICK passed \in BOOLEAN :
            snapshot' = [snapshot EXCEPT ![Here] =
                           [status |-> IF passed THEN "passed" ELSE "failed", score |-> score]]
      BY <1>3 DEF CompleteAssertion
    <3> DEFINE v == IF passed THEN "passed" ELSE "failed"
    <3>3. Shown' = [Shown EXCEPT ![Here] = v]
      BY <2>2, <3>1, <3>2 DEF Shown, Status
    <3>4. v \in {"passed", "failed"}
      OBVIOUS
    <3> HIDE DEF v
    <3> QED
      BY <3>3, <3>4
  <2>4. Directed!JudgeItem(Here)
    BY <2>1, <2>2, <2>3 DEF Directed!JudgeItem, Directed!Verdicts, Shown
  <2> QED
    BY <2>2, <2>4 DEF Directed!DirectedNext
<1>4. CASE StopBeforeSection \/ StopBeforeAssertion \/ CancelAssertion
  <2>1. NoneJudged
    BY <1>4, StopBeforeSectionKeeps, StopBeforeAssertionKeeps, CancelAssertionKeeps
  <2>2. /\ ctxDone /\ pc # "returned" /\ pc' = "returned" /\ outcome' = "cancelled"
        /\ UNCHANGED ctxDone
    BY <1>4 DEF StopBeforeSection, StopBeforeAssertion, CancelAssertion, UnwindRemaining
  <2> QED
    BY <1>1, <2>1, <2>2, UnwindingGivesUp DEF Directed!DirectedNext
<1>5. CASE CompleteRun
  <2>1. /\ outcome = "none" /\ outcome' = "complete" /\ UNCHANGED <<ctxDone, snapshot>>
    BY <1>5 DEF CompleteRun, DirectorInv, Progress
  <2>2. \A p \in Positions : Shown[p] \in {"passed", "failed"}
    BY <1>1, <2>1 DEF DirectorInv, OutcomeIsSound, HasVerdict, Status, Shown
  <2>3. Shown' = Shown
    BY <2>1 DEF Shown, Status
  <2>4. Directed!EndDirected
    BY <2>1, <2>2, <2>3
    DEF Directed!EndDirected, Directed!Unended, Directed!Verdicts, Shown
  <2> QED
    BY <2>4 DEF Directed!DirectedNext
<1>6. CASE CancelContext
  <2>1. ctxDone' = TRUE /\ UNCHANGED <<snapshot, outcome>>
    BY <1>6 DEF CancelContext, resultVars
  <2> QED
    BY <2>1 DEF Directed!Cancel, Directed!DirectedNext, Status
<1>7. CASE StartSection \/ EndSection \/ StartCommand \/ NextPhase \/ SomeCommandReturns
           \/ UNCHANGED vars
  <2>1. UNCHANGED <<ctxDone, snapshot, outcome>>
    BY <1>7 DEF StartSection, EndSection, StartCommand, NextPhase, SomeCommandReturns,
       CommandReturns, vars, resultVars
  <2> QED
    BY <2>1, NothingShown
<1> QED
  BY <1>2, <1>3, <1>4, <1>5, <1>6, <1>7 DEF Next, DirectorStep

\* Every step of the director returns what RunResult allows, or returns nothing.
LEMMA NextReturns ==
  DirectorInv /\ [Next]_vars
      => [Returning!Cancel \/ Returning!Return]_(Returning!resultVars)
<1> SUFFICES ASSUME DirectorInv, [Next]_vars
             PROVE  Returning!Cancel \/ Returning!Return \/ UNCHANGED Returning!resultVars
  OBVIOUS
<1>1. CASE StopBeforeSection \/ StopBeforeAssertion \/ CancelAssertion
  <2>1. /\ ctxDone /\ pc # "returned" /\ pc' = "returned" /\ outcome' = "cancelled"
        /\ UNCHANGED ctxDone
    BY <1>1 DEF StopBeforeSection, StopBeforeAssertion, CancelAssertion, UnwindRemaining
  <2>2. Result = "none" /\ Result' = "partial"
    BY <2>1 DEF Result
  <2> QED
    BY <2>1, <2>2 DEF Returning!Return, Returning!Results
<1>2. CASE CompleteRun
  <2>1. /\ pc # "returned" /\ pc' = "returned" /\ outcome' = "complete"
        /\ UNCHANGED <<ctxDone, killed>>
    BY <1>2 DEF CompleteRun
  <2>2. killed # {} => ctxDone
    BY DEF DirectorInv, OutcomeIsSound
  <2>3. ctxDone \in BOOLEAN
    BY DEF DirectorInv, TypeOK
  <2>4. Result = "none" /\ Result' = IF killed # {} THEN "tainted" ELSE "whole"
    BY <2>1 DEF Result
  <2> QED
    BY <2>1, <2>2, <2>3, <2>4 DEF Returning!Return, Returning!Results
<1>3. CASE CancelContext
  BY <1>3 DEF CancelContext, Returning!Cancel, Result, resultVars
<1>4. CASE UNCHANGED vars
  BY <1>4 DEF vars, resultVars, Returning!resultVars, Result
<1>5. CASE StartSection \/ EndSection \/ StartCommand \/ NextPhase \/ SomeCommandReturns
           \/ StartAssertion \/ CompleteAssertion
  <2>1. pc # "returned" /\ pc' # "returned" /\ UNCHANGED ctxDone
    BY <1>5 DEF StartSection, EndSection, StartCommand, NextPhase, SomeCommandReturns,
       CommandReturns, StartAssertion, CompleteAssertion
  <2> QED
    BY <2>1 DEF Returning!resultVars, Result
<1> QED
  BY <1>1, <1>2, <1>3, <1>4, <1>5 DEF Next, DirectorStep

-----------------------------------------------------------------------------
(* Theorems                                                                *)

\* The loops of RunWithObserver stay within the playbook.
THEOREM DirectorTypeCorrect == Spec => []TypeOK
<1>1. DirectorInv => TypeOK
  BY DEF DirectorInv
<1> QED
  BY <1>1, DirectorInvariant, PTL

\* For every playbook, and wherever a cancellation falls, the trace that
\* RunWithObserver returns holds each assertion of the playbook once.
THEOREM EveryAssertionIsReported == Spec => []TraceComplete
<1>1. DirectorInv => TraceComplete
  BY DEF DirectorInv
<1> QED
  BY <1>1, DirectorInvariant, PTL

\* The snapshot clients read never disagrees with the trace about a status.
THEOREM SnapshotTellsTheTrace == Spec => []SnapshotAgrees
<1>1. DirectorInv => SnapshotAgrees
  BY DEF DirectorInv
<1> QED
  BY <1>1, DirectorInvariant, PTL

\* What the server takes the outcome of a run to mean, it means.
THEOREM OutcomesAreSound == Spec => []OutcomeIsSound
<1>1. DirectorInv => OutcomeIsSound
  BY DEF DirectorInv
<1> QED
  BY <1>1, DirectorInvariant, PTL

\* A cancellation taints one verdict at most, and no later one.
THEOREM CancellationTaintsOneVerdict == Spec => []TaintIsLast
<1>1. DirectorInv => TaintIsLast
  BY DEF DirectorInv
<1> QED
  BY <1>1, DirectorInvariant, PTL

\* The totals of a report are the numbers of its verdicts.
THEOREM TotalsAreCounts == Spec => []TotalsAddUp
<1>1. DirectorInv => TotalsAddUp
  BY DEF DirectorInv
<1> QED
  BY <1>1, DirectorInvariant, PTL

\* No step, of a cancellation either, takes a verdict back.
THEOREM VerdictsAreFinal == Spec => VerdictsStand
<1>1. DirectorInv /\ [Next]_vars
      => [\A p \in Positions : HasVerdict(p) => snapshot'[p] = snapshot[p]]_vars
  BY NextKeeps DEF VerdictsKept
<1> QED
  BY <1>1, DirectorInvariant, PTL DEF Spec, VerdictsStand

\* For every playbook, what the snapshot shows of a run is a run that DirectedRun allows:
\* in the order of the playbook, nothing started once the context is done, every verdict
\* kept, and everything that has none cancelled.
THEOREM DirectorImplementsDirectedRun == Spec => ImplementsDirectedRun
<1>1. Init => Directed!DirectedInit
  BY DEF Init, Directed!DirectedInit, Status
<1>2. DirectorInv /\ HereRuns /\ [Next]_vars => HereRuns'
  BY HereRunsKept
<1>3. Init => HereRuns
  BY HereRunsKept
<1> QED
  BY <1>1, <1>2, <1>3, DirectorInvariant, NextDirected, PTL
  DEF Spec, ImplementsDirectedRun, Directed!DirectedSpec

\* The director returns to the server's run goroutine what that goroutine relies on: a
\* trace that is not whole only if the context was done when RunWithObserver returned.
THEOREM DirectorImplementsRunResult == Spec => ImplementsRunResult
<1>1. Init => Returning!ResultInit
  BY DEF Init, Returning!ResultInit, Result
<1> QED
  BY <1>1, DirectorInvariant, NextReturns, PTL DEF Spec, ImplementsRunResult, Returning!ResultSpec

\* Without a cancellation a run ends with a verdict on every assertion, in the trace as in
\* the snapshot: what the headless flow makes its report of.
THEOREM UncancelledRunsAreJudged ==
  Spec => [](pc = "returned" /\ ~ctxDone
                => /\ outcome = "complete"
                   /\ \A p \in Positions :
                         /\ Recorded(p)
                         /\ trace[p[1]][p[2]].status \in {"passed", "failed"})
<1> DEFINE Ended == pc = "returned" => outcome # "none"
<1> DEFINE Judged == pc = "returned" /\ ~ctxDone
                       => /\ outcome = "complete"
                          /\ \A p \in Positions :
                                /\ Recorded(p)
                                /\ trace[p[1]][p[2]].status \in {"passed", "failed"}
<1>1. Init => Ended
  BY DEF Init
<1>2. Ended /\ [Next]_vars => Ended'
  <2> SUFFICES ASSUME Ended, [Next]_vars PROVE Ended'
    OBVIOUS
  <2>1. CASE StopBeforeSection \/ StopBeforeAssertion \/ CancelAssertion
    BY <2>1 DEF StopBeforeSection, StopBeforeAssertion, CancelAssertion, UnwindRemaining
  <2>2. CASE CompleteRun
    BY <2>2 DEF CompleteRun
  <2>3. CASE StartSection \/ EndSection \/ StartCommand \/ NextPhase \/ SomeCommandReturns
             \/ StartAssertion \/ CompleteAssertion
    <3>1. pc' # "returned"
      BY <2>3 DEF StartSection, EndSection, StartCommand, NextPhase, SomeCommandReturns,
         CommandReturns, StartAssertion, CompleteAssertion
    <3> QED
      BY <3>1
  <2>4. CASE CancelContext \/ UNCHANGED vars
    BY <2>4 DEF CancelContext, vars, resultVars
  <2> QED
    BY <2>1, <2>2, <2>3, <2>4 DEF Next, DirectorStep
<1>3. DirectorInv /\ Ended => Judged
  <2> SUFFICES ASSUME DirectorInv, Ended, pc = "returned", ~ctxDone
               PROVE  /\ outcome = "complete"
                      /\ \A p \in Positions :
                            /\ Recorded(p)
                            /\ trace[p[1]][p[2]].status \in {"passed", "failed"}
    OBVIOUS
  <2>1. outcome = "complete"
    BY DEF DirectorInv, TypeOK, ResultsTypeOK, OutcomeIsSound
  <2>2. ASSUME NEW p \in Positions
        PROVE  Recorded(p) /\ trace[p[1]][p[2]].status \in {"passed", "failed"}
    <3>1. Recorded(p)
      <4>1. p[1] \in DOMAIN Playbook /\ p[2] \in DOMAIN Playbook[p[1]]
        BY DEF Positions
      <4>2. DOMAIN trace = DOMAIN Playbook /\ Len(trace[p[1]]) = Len(Playbook[p[1]])
        BY <4>1 DEF DirectorInv, TraceComplete
      <4>3. DOMAIN trace[p[1]] = DOMAIN Playbook[p[1]]
        BY <4>1, <4>2, PlaybookType DEF DirectorInv, TypeOK, ResultsTypeOK
      <4> QED
        BY <4>1, <4>2, <4>3 DEF Recorded
    <3>2. Status(p) = trace[p[1]][p[2]].status
      BY <3>1 DEF DirectorInv, SnapshotAgrees
    <3> QED
      BY <2>1, <3>1, <3>2 DEF DirectorInv, OutcomeIsSound, HasVerdict
  <2> QED
    BY <2>1, <2>2
<1> HIDE DEF Ended, Judged
<1>4. Spec => []Judged
  BY <1>1, <1>2, <1>3, DirectorInvariant, PTL DEF Spec
<1> QED
  BY <1>4 DEF Judged

=============================================================================
