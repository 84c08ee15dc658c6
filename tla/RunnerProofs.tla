---------------------------- MODULE RunnerProofs ----------------------------
(***************************************************************************)
(* Proofs about Runner, for every set of playbooks, streams and callers.   *)
(*                                                                         *)
(* The invariant has two parts.  ServerInv is about the end of the web     *)
(* server: where each caller of Shutdown stands, and what the streams owe  *)
(* it.  HeadlessInv says at each step of a run without the web server what *)
(* is known of the playbook, of its report and of the files.               *)
(***************************************************************************)
EXTENDS Runner, ValidationProofs, TLAPS

-----------------------------------------------------------------------------
(* The report of the director's verdicts.                                  *)

\* With distinct codes the entry of an assertion is its own verdict.
LEMMA EntryIsVerdict ==
    ASSUME NEW pb \in AllPlaybooks, DistinctCodes(pb),
           NEW passed \in [Positions(pb) -> BOOLEAN], NEW p \in Positions(pb)
    PROVE  GenerateReport(pb, passed).assertions[At(pb, p).code] = passed[p]
  <1> DEFINE codes == {At(pb, q).code : q \in Positions(pb)}
             coded(c) == {q \in Positions(pb) : At(pb, q).code = c}
             last(c) == CHOOSE q \in coded(c) : \A r \in coded(c) : r = q \/ Before(r, q)
             c == At(pb, p).code
  <1>1. coded(c) = {p}
    BY DEF DistinctCodes
  <1>2. last(c) = p
    <2> HIDE DEF coded
    <2>1. \A q \in {p} : q = p
      OBVIOUS
    <2> QED
      BY <1>1, <2>1, Zenon
  <1>3. c \in codes
    OBVIOUS
  <1>4. GenerateReport(pb, passed).assertions = [d \in codes |-> passed[last(d)]]
    BY DEF GenerateReport
  <1> HIDE DEF codes, last, c
  <1>5. GenerateReport(pb, passed).assertions[c] = passed[last(c)]
    BY <1>3, <1>4
  <1> QED
    BY <1>2, <1>5 DEF c

\* Sets of positions and of their codes have the same size.
LEMMA CodesOfPositions ==
    ASSUME NEW pb \in AllPlaybooks, DistinctCodes(pb), NEW S \in SUBSET Positions(pb)
    PROVE  Cardinality({At(pb, p).code : p \in S}) = Cardinality(S)
  <1> DEFINE T == {At(pb, p).code : p \in S}
             f == [p \in S |-> At(pb, p).code]
  <1>1. IsFiniteSet(S)
    BY PositionsFinite, FS_Subset
  <1>2. f \in [S -> T]
    OBVIOUS
  <1>3. \A p, q \in S : f[p] = f[q] => p = q
    BY DEF DistinctCodes
  <1>4. \A t \in T : \E p \in S : f[p] = t
    OBVIOUS
  <1>5. ExistsBijection(S, T)
    <2> HIDE DEF f, T
    <2>1. f \in Bijection(S, T)
      BY <1>2, <1>3, <1>4 DEF Bijection, Injection, Surjection, IsInjective
    <2> QED
      BY <2>1 DEF ExistsBijection
  <1> HIDE DEF T
  <1>6. Cardinality(T) = Cardinality(S)
    BY <1>1, <1>5, FS_Bijection
  <1> QED
    BY <1>6 DEF T

\* What is known of a report that accounts for a playbook.
Accounts(r, pb) ==
    /\ DOMAIN r.assertions = {At(pb, p).code : p \in Positions(pb)}
    /\ r.assertions \in [DOMAIN r.assertions -> BOOLEAN]
    /\ Cardinality(DOMAIN r.assertions) = Cardinality(Positions(pb))
    /\ \A v \in BOOLEAN :
           Cardinality({c \in DOMAIN r.assertions : r.assertions[c] = v})
               = IF v THEN r.passed ELSE r.failed

\* GenerateReport's reports are reports, and account for a playbook with distinct codes.
LEMMA ReportsAccount ==
    ASSUME NEW pb \in AllPlaybooks, DistinctCodes(pb),
           NEW passed \in [Positions(pb) -> BOOLEAN]
    PROVE  /\ GenerateReport(pb, passed) \in Reports
           /\ Accounts(GenerateReport(pb, passed), pb)
  <1> DEFINE r == GenerateReport(pb, passed)
             codes == {At(pb, p).code : p \in Positions(pb)}
             those(v) == {p \in Positions(pb) : passed[p] = v}
  <1>1. /\ DOMAIN r = {"assertions", "passed", "failed"}
        /\ DOMAIN r.assertions = codes
        /\ r.passed = Cardinality({p \in Positions(pb) : passed[p]})
        /\ r.failed = Cardinality({p \in Positions(pb) : ~passed[p]})
        /\ r = [assertions |-> r.assertions, passed |-> r.passed, failed |-> r.failed]
        /\ r.assertions = [c \in codes |-> r.assertions[c]]
    BY DEF GenerateReport
  <1>2. /\ {p \in Positions(pb) : passed[p]} = those(TRUE)
        /\ {p \in Positions(pb) : ~passed[p]} = those(FALSE)
    OBVIOUS
  <1>3. \A p \in Positions(pb) : r.assertions[At(pb, p).code] = passed[p]
    BY EntryIsVerdict
  <1>4. codes \subseteq Codes \cup {None}
    BY PositionType DEF Assertions
  <1> HIDE DEF r
  <1>5. \A c \in codes : r.assertions[c] \in BOOLEAN
    BY <1>3
  <1>6. r.assertions \in [codes -> BOOLEAN]
    <2> HIDE DEF codes
    <2> QED
      BY <1>1, <1>5
  <1>7. \A v \in BOOLEAN : Cardinality(those(v)) \in Nat
    BY PositionsFinite, FS_Subset, FS_CardinalityType
  <1>8. r \in Reports
    <2> HIDE DEF codes, those
    <2>1. r.passed \in Nat /\ r.failed \in Nat
      BY <1>1, <1>2, <1>7
    <2>2. r.assertions \in UNION {[C -> BOOLEAN] : C \in SUBSET (Codes \cup {None})}
      BY <1>4, <1>6
    <2> QED
      BY <1>1, <2>1, <2>2 DEF Reports
  <1>9. Cardinality(codes) = Cardinality(Positions(pb))
    BY CodesOfPositions
  <1>10. ASSUME NEW v \in BOOLEAN
         PROVE  Cardinality({c \in codes : r.assertions[c] = v})
                    = IF v THEN r.passed ELSE r.failed
    <2>1. {c \in codes : r.assertions[c] = v} = {At(pb, p).code : p \in those(v)}
      BY <1>3
    <2>2. Cardinality({At(pb, p).code : p \in those(v)}) = Cardinality(those(v))
      BY CodesOfPositions
    <2> HIDE DEF those, codes
    <2> QED
      BY <1>1, <1>2, <2>1, <2>2
  <1> QED
    <2> HIDE DEF codes
    <2>1. Accounts(r, pb)
      BY <1>1, <1>6, <1>9, <1>10 DEF Accounts, codes
    <2> QED
      BY <1>8, <2>1 DEF r

\* A report in which nothing failed has a true entry for every assertion.
LEMMA NothingFailed ==
    ASSUME NEW pb \in AllPlaybooks, NEW r, Accounts(r, pb), r.failed = 0
    PROVE  \A p \in Positions(pb) : r.assertions[At(pb, p).code]
  <1> DEFINE codes == {At(pb, p).code : p \in Positions(pb)}
             bad == {c \in codes : r.assertions[c] = FALSE}
  <1>1. Cardinality(bad) = 0
    BY DEF Accounts
  <1>2. IsFiniteSet(codes)
    <2> DEFINE f == [p \in Positions(pb) |-> At(pb, p).code]
    <2>1. f \in Surjection(Positions(pb), codes)
      BY DEF Surjection
    <2> QED
      BY <2>1, PositionsFinite, FS_Surjection
  <1>3. IsFiniteSet(bad)
    BY <1>2, FS_Subset
  <1>4. bad = {}
    <2> HIDE DEF bad
    <2> QED
      BY <1>1, <1>3, FS_EmptySet
  <1>5. r.assertions \in [codes -> BOOLEAN]
    BY DEF Accounts
  <1> QED
    BY <1>4, <1>5

-----------------------------------------------------------------------------
(* The end of the web server.                                              *)

\* Where a caller is that has passed shutdownOnce.
Closed == {"cancelling", "draining", "done"}

IdleOK == \A c \in Server!Callers : call[c] = "idle" => owed[c] = {} /\ handed[c] = {}

\* A stream that was handed a termination still owes the answer, or has written it.
HandedOK ==
    \A c \in Server!Callers : \A s \in handed[c] : s \in owed[c] \/ stream[s] = "told"

\* A caller that has not given up has no answer left to wait for.
WaitedOK ==
    \A c \in Server!Callers :
        call[c] \in {"closing"} \cup Closed /\ c \notin timedOut => owed[c] = {}

CloserOK ==
    /\ closer # None => call[closer] \in Closed
    /\ \A c \in Server!Callers : call[c] \in Closed => closer # None

CancelledOK ==
    \A c \in Server!Callers : call[c] \in {"draining", "done"} => run # "active"

ServerInv ==
    /\ Server!ServerTypeOK
    /\ IdleOK
    /\ HandedOK
    /\ WaitedOK
    /\ CloserOK
    /\ CancelledOK

\* Why the process of the web server has ended.
EndOK ==
    mode = "ui" /\ exit = 0 =>
        closer # None /\ (main = "stopping" => call[Main] = "done")

\* A step that leaves the server's state alone.
LEMMA ServerKept ==
    ASSUME ServerInv, UNCHANGED serverState
    PROVE  ServerInv'
  BY DEF ServerInv, serverState, Server!ServerTypeOK, IdleOK, HandedOK, WaitedOK, CloserOK,
         CancelledOK

\* The type of the server's state under a step.
LEMMA ServerTypeStep ==
    ASSUME Server!ServerTypeOK, Server!ServerNext
    PROVE  Server!ServerTypeOK'
  <1> USE DEF Server!ServerTypeOK, Server!Callers, Server!mainVars, Server!waitVars
  <1>1. CASE Server!StartServer \/ Server!SeeShutdown \/ Server!StartRun \/ Server!EndRun
    BY <1>1 DEF Server!StartServer, Server!SeeShutdown, Server!StartRun, Server!EndRun,
                Server!Exit
  <1>2. ASSUME NEW c \in Server!Callers, Server!BeginShutdown(c)
        PROVE  Server!ServerTypeOK'
    <2>1. PICK full \in SUBSET Server!Open :
             /\ inbox' = [s \in Streams |-> IF s \in Server!Open \ full
                                            THEN Append(inbox[s], c) ELSE inbox[s]]
             /\ owed' = [owed EXCEPT ![c] = Server!Open \ full]
             /\ handed' = [handed EXCEPT ![c] = Server!Open \ full]
      BY <1>2 DEF Server!BeginShutdown, Server!Broadcast
    <2>2. Server!Open \ full \in SUBSET Streams
      BY DEF Server!Open
    <2>3. \A s \in Streams : Append(inbox[s], c) \in Seq(Server!Callers)
      BY AppendProperties
    <2>4. inbox' \in [Streams -> Seq(Server!Callers)]
      BY <2>1, <2>3
    <2>5. owed' \in [Server!Callers -> SUBSET Streams]
      BY <2>1, <2>2
    <2>6. handed' \in [Server!Callers -> SUBSET Streams]
      BY <2>1, <2>2
    <2> QED
      BY <1>2, <2>4, <2>5, <2>6 DEF Server!BeginShutdown
  <1>3. ASSUME NEW c \in Server!Callers,
               \/ Server!EndWait(c)
               \/ Server!CloseShutdownChan(c)
               \/ Server!CancelRun(c)
               \/ Server!EndShutdown(c)
        PROVE  Server!ServerTypeOK'
    BY <1>3 DEF Server!EndWait, Server!CloseShutdownChan, Server!CancelRun,
                Server!EndShutdown, Server!Exit
  <1>4. ASSUME NEW s \in Streams, Server!Connect(s) \/ Server!LeaveStream(s)
        PROVE  Server!ServerTypeOK'
    <2>1. <<>> \in Seq(Server!Callers)
      OBVIOUS
    <2>2. inbox' \in [Streams -> Seq(Server!Callers)]
      BY <1>4, <2>1 DEF Server!Connect, Server!LeaveStream
    <2> QED
      BY <1>4, <2>2 DEF Server!Connect, Server!LeaveStream
  <1>5. ASSUME NEW s \in Streams, Server!WriteTermination(s)
        PROVE  Server!ServerTypeOK'
    <2>1. <<>> \in Seq(Server!Callers)
      OBVIOUS
    <2>2. inbox' \in [Streams -> Seq(Server!Callers)]
      BY <1>5, <2>1 DEF Server!WriteTermination
    <2>3. owed' \in [Server!Callers -> SUBSET Streams]
      BY <1>5 DEF Server!WriteTermination
    <2> QED
      BY <1>5, <2>2, <2>3 DEF Server!WriteTermination
  <1> QED
    BY <1>1, <1>2, <1>3, <1>4, <1>5 DEF Server!ServerNext

\* What is owed and answered under a step.
LEMMA AnswersStep ==
    ASSUME ServerInv, Server!ServerNext
    PROVE  (IdleOK /\ HandedOK /\ WaitedOK)'
  <1> USE DEF ServerInv, Server!ServerTypeOK, Server!Callers, Server!mainVars,
              Server!waitVars, IdleOK, HandedOK, WaitedOK, Closed
  <1>1. CASE Server!StartServer \/ Server!SeeShutdown \/ Server!StartRun \/ Server!EndRun
    BY <1>1 DEF Server!StartServer, Server!SeeShutdown, Server!StartRun, Server!EndRun
  <1>2. ASSUME NEW c \in Server!Callers, Server!BeginShutdown(c)
        PROVE  (IdleOK /\ HandedOK /\ WaitedOK)'
    BY <1>2 DEF Server!BeginShutdown, Server!Broadcast
  <1>3. ASSUME NEW c \in Server!Callers, Server!EndWait(c)
        PROVE  (IdleOK /\ HandedOK /\ WaitedOK)'
    BY <1>3 DEF Server!EndWait, Server!WaitOver
  <1>4. ASSUME NEW c \in Server!Callers,
               \/ Server!CloseShutdownChan(c)
               \/ Server!CancelRun(c)
               \/ Server!EndShutdown(c)
        PROVE  (IdleOK /\ HandedOK /\ WaitedOK)'
    BY <1>4 DEF Server!CloseShutdownChan, Server!CancelRun, Server!EndShutdown
  <1>5. ASSUME NEW s \in Streams, Server!Connect(s) \/ Server!LeaveStream(s)
        PROVE  (IdleOK /\ HandedOK /\ WaitedOK)'
    BY <1>5 DEF Server!Connect, Server!LeaveStream
  <1>6. ASSUME NEW s \in Streams, Server!WriteTermination(s)
        PROVE  (IdleOK /\ HandedOK /\ WaitedOK)'
    BY <1>6 DEF Server!WriteTermination
  <1> QED
    BY <1>1, <1>2, <1>3, <1>4, <1>5, <1>6 DEF Server!ServerNext

\* Where the callers are under a step.
LEMMA CallersStep ==
    ASSUME ServerInv, Server!ServerNext
    PROVE  (CloserOK /\ CancelledOK)'
  <1> USE DEF ServerInv, Server!ServerTypeOK, Server!Callers, Server!mainVars,
              Server!waitVars, CloserOK, CancelledOK, Closed
  <1>1. CASE Server!StartServer \/ Server!SeeShutdown \/ Server!StartRun \/ Server!EndRun
    BY <1>1 DEF Server!StartServer, Server!SeeShutdown, Server!StartRun, Server!EndRun
  <1>2. ASSUME NEW c \in Server!Callers, Server!BeginShutdown(c)
        PROVE  (CloserOK /\ CancelledOK)'
    BY <1>2 DEF Server!BeginShutdown
  <1>3. ASSUME NEW c \in Server!Callers, Server!EndWait(c)
        PROVE  (CloserOK /\ CancelledOK)'
    BY <1>3 DEF Server!EndWait
  <1>4. ASSUME NEW c \in Server!Callers, Server!CloseShutdownChan(c)
        PROVE  (CloserOK /\ CancelledOK)'
    BY <1>4, RunnerAssumption DEF Server!CloseShutdownChan
  <1>5. ASSUME NEW c \in Server!Callers, Server!CancelRun(c) \/ Server!EndShutdown(c)
        PROVE  (CloserOK /\ CancelledOK)'
    BY <1>5 DEF Server!CancelRun, Server!EndShutdown
  <1>6. ASSUME NEW s \in Streams,
               Server!Connect(s) \/ Server!LeaveStream(s) \/ Server!WriteTermination(s)
        PROVE  (CloserOK /\ CancelledOK)'
    BY <1>6 DEF Server!Connect, Server!LeaveStream, Server!WriteTermination
  <1> QED
    BY <1>1, <1>2, <1>3, <1>4, <1>5, <1>6 DEF Server!ServerNext

\* A step of the web server.
LEMMA ServerStep ==
    ASSUME ServerInv, EndOK, exit = None, WebServer
    PROVE  ServerInv' /\ EndOK'
  <1>1. Server!ServerNext /\ mode = "ui" /\ mode' = "ui"
    BY DEF WebServer
  <1>2. ServerInv'
    BY <1>1, ServerTypeStep, AnswersStep, CallersStep DEF ServerInv
  <1>3. EndOK'
    <2> USE DEF ServerInv, Server!ServerTypeOK, Server!Callers, Server!mainVars, EndOK,
                CloserOK, Closed
    <2>1. None # 0
      BY PlaybooksAssumption
    <2>2. CASE Server!StartServer \/ Server!SeeShutdown \/ Server!StartRun \/ Server!EndRun
      BY <2>1, <2>2 DEF Server!StartServer, Server!SeeShutdown, Server!StartRun,
                        Server!EndRun, Server!Exit
    <2>3. ASSUME NEW c \in Server!Callers, Server!EndShutdown(c)
          PROVE  EndOK'
      BY <2>1, <2>3 DEF Server!EndShutdown, Server!Exit
    <2>4. ASSUME NEW c \in Server!Callers,
                 \/ Server!BeginShutdown(c)
                 \/ Server!EndWait(c)
                 \/ Server!CloseShutdownChan(c)
                 \/ Server!CancelRun(c)
          PROVE  EndOK'
      BY <2>1, <2>4 DEF Server!BeginShutdown, Server!EndWait, Server!CloseShutdownChan,
                        Server!CancelRun
    <2>5. ASSUME NEW s \in Streams,
                 Server!Connect(s) \/ Server!LeaveStream(s) \/ Server!WriteTermination(s)
          PROVE  EndOK'
      BY <2>1, <2>5 DEF Server!Connect, Server!LeaveStream, Server!WriteTermination
    <2> QED
      BY <1>1, <2>2, <2>3, <2>4, <2>5 DEF Server!ServerNext
  <1> QED
    BY <1>2, <1>3

-----------------------------------------------------------------------------
(* A run without the web server.                                           *)

\* Where a script may still be named in a playbook that runs.
OnlyBeyondValidator(pb) ==
    \A r \in References(pb) :
        agent /\ r[2] \in {<<"preCmds", "gather">>, <<"postCmds", "gather">>}

\* What is known of a playbook that may run.
Runnable(pb) ==
    /\ pb \in AllPlaybooks
    /\ DistinctCodes(pb)
    /\ OnlyBeyondValidator(pb)

HeadlessTypeOK ==
    /\ agent \in BOOLEAN /\ folderFlag \in BOOLEAN /\ worker \in BOOLEAN /\ received \in BOOLEAN
    /\ mode \in {None, "worker", "preprocess", "schema", "ui", "headless", "none"}
    /\ step \in {"start", "load", "validate", "preprocess", "elevate", "run", "makeFolder",
                 "log", "md", "json", "submit", "finish", "returned"}
    /\ config \in AllPlaybooks \cup {None}
    /\ baked \in AllPlaybooks \cup {None}
    /\ files \in [{"log", "md", "json"} -> {"absent", "short", "whole"}]
    /\ exit \in {None, 0, 1, Killed}

Reporting == {"makeFolder", "log", "md", "json", "submit", "finish"}

\* What has been decided about the playbook by the time of each step.
ConfigOK ==
    /\ step = "start" <=> mode # "headless"
    /\ step = "validate" => config \in AllPlaybooks
    /\ step = "preprocess" => config \in AllPlaybooks /\ DistinctCodes(config) /\ ~agent
    /\ step \in {"elevate", "run"} => Runnable(config)

\* The result, once there is one, is the playbook's, and that playbook has not changed.
ResultOK ==
    /\ step \in {"start", "load", "validate", "preprocess", "elevate", "run"} => result = None
    /\ step \in Reporting => result # None
    /\ result # None =>
           /\ Runnable(config)
           /\ result \in Reports
           /\ Accounts(result, config)

\* The whole report is where it belongs, and nowhere else.
Delivered ==
    /\ received = (Destination(config) = "https")
    /\ \A k \in DOMAIN files : files[k] = IF received THEN "absent" ELSE "whole"

\* How much of the report has been delivered by the time of each step.
DeliveryOK ==
    /\ step \notin {"finish", "returned"} => received = FALSE
    /\ step \in {"makeFolder", "log", "md", "json"} => Destination(config) # "https"
    /\ step = "submit" => Destination(config) = "https"
    /\ step \notin {"log", "md", "json", "finish", "returned"} =>
           \A k \in DOMAIN files : files[k] = "absent"
    /\ step = "md" => files["log"] = "whole"
    /\ step = "json" => files["log"] = "whole" /\ files["md"] = "whole"
    /\ step = "finish" => Delivered

SuccessOK ==
    mode = "headless" /\ exit = 0 =>
        result # None /\ result.failed = 0 /\ Delivered /\ ~worker

BakedOK == baked # None => References(baked) = {} /\ Validate(baked, TRUE) = {}

HeadlessInv ==
    /\ HeadlessTypeOK
    /\ ConfigOK
    /\ ResultOK
    /\ DeliveryOK
    /\ SuccessOK
    /\ BakedOK

\* What the validator and the preprocessor leave is runnable.
LEMMA ValidatedIsRunnable ==
    ASSUME NEW pb \in AllPlaybooks, Validate(pb, agent) = {}, agent
    PROVE  Runnable(pb)
  <1>1. ASSUME agent = TRUE
        PROVE  Runnable(pb)
    <2>1. Validate(pb, TRUE) = {}
      BY <1>1
    <2>2. OnlyBeyondValidator(pb)
      BY <1>1, <2>1, AgentsRefuseScripts DEF OnlyBeyondValidator
    <2>3. DistinctCodes(pb)
      BY <2>1, ValidCodesAreDistinct
    <2> QED
      BY <2>2, <2>3 DEF Runnable
  <1> QED
    BY <1>1

LEMMA PreprocessedIsRunnable ==
    ASSUME NEW pb \in AllPlaybooks, DistinctCodes(pb)
    PROVE  Runnable(Preprocess(pb))
  <1>1. Preprocess(pb) \in AllPlaybooks
    BY PreprocessKeeps
  <1>2. DistinctCodes(Preprocess(pb))
    BY PreprocessKeepsCodes
  <1>3. OnlyBeyondValidator(Preprocess(pb))
    BY PreprocessInlines DEF OnlyBeyondValidator
  <1> QED
    BY <1>1, <1>2, <1>3 DEF Runnable

\* The values of the program are told apart.
LEMMA Distinct ==
    /\ None \notin AllPlaybooks
    /\ None \notin Reports
    /\ None # 0 /\ None # 1 /\ None # Killed
    /\ Killed # 0
  BY PlaybooksAssumption DEF Killed

\* A step that changes neither the run nor its playbook.
LEMMA HeadlessKept ==
    ASSUME HeadlessInv, UNCHANGED <<agent, headlessState, baked>>,
           \/ UNCHANGED mode /\ (UNCHANGED exit \/ mode # "headless"),
           exit' \in {None, 0, 1, Killed}
    PROVE  HeadlessInv'
  <1> USE DEF HeadlessInv, headlessState, reportVars
  <1>1. HeadlessTypeOK' /\ ConfigOK'
    BY DEF HeadlessTypeOK, ConfigOK, Runnable, OnlyBeyondValidator
  <1>2. ResultOK'
    BY DEF ResultOK, Runnable, OnlyBeyondValidator
  <1>3. DeliveryOK' /\ SuccessOK'
    BY DEF DeliveryOK, SuccessOK, Delivered, Destination
  <1>4. BakedOK'
    BY DEF BakedOK
  <1> QED
    BY <1>1, <1>2, <1>3, <1>4

\* The steps before the run.
LEMMA PrepareStep ==
    ASSUME HeadlessInv, mode = "headless", UNCHANGED <<mode, baked>>, exit = None,
           Load \/ ValidateConfig \/ PreprocessConfig \/ SetupElevation
    PROVE  HeadlessInv'
  <1> USE DEF HeadlessInv, reportVars, Return, Proceed
  <1>1. /\ result = None /\ result' = None
        /\ received = FALSE /\ UNCHANGED <<files, received, agent, folderFlag>>
        /\ \A k \in DOMAIN files : files[k] = "absent"
        /\ step' \in {"validate", "preprocess", "elevate", "run", "returned"}
        /\ exit' # 0
    BY Distinct DEF Load, ValidateConfig, PreprocessConfig, SetupElevation, ResultOK,
                    DeliveryOK
  <1>2. HeadlessTypeOK' /\ ConfigOK'
    <2>1. CASE Load
      BY <2>1, PlaybooksAssumption DEF Load, HeadlessTypeOK, ConfigOK
    <2>2. CASE ValidateConfig
      <3>1. config \in AllPlaybooks /\ UNCHANGED config
        BY <2>2 DEF ValidateConfig, ConfigOK
      <3>2. CASE Return(1)
        BY <2>2, <3>1, <3>2 DEF ValidateConfig, HeadlessTypeOK, ConfigOK
      <3>3. CASE /\ Validate(config, agent) = {}
                 /\ Proceed(IF agent THEN "elevate" ELSE "preprocess")
                 /\ UNCHANGED worker
        <4>1. DistinctCodes(config)
          BY <3>1, <3>3, ValidCodesAreDistinct
        <4>2. agent => Runnable(config)
          BY <3>1, <3>3, ValidatedIsRunnable
        <4>3. (Runnable(config))' <=> Runnable(config)
          BY <3>1, <3>3 DEF Runnable, OnlyBeyondValidator
        <4> QED
          BY <1>1, <3>1, <3>3, <4>1, <4>2, <4>3 DEF HeadlessTypeOK, ConfigOK
      <3> QED
        BY <2>2, <3>2, <3>3 DEF ValidateConfig
    <2>3. CASE PreprocessConfig
      <3>1. config \in AllPlaybooks /\ DistinctCodes(config) /\ ~agent
        BY <2>3 DEF PreprocessConfig, ConfigOK
      <3>2. CASE Return(1) /\ UNCHANGED config
        BY <1>1, <3>1, <3>2 DEF HeadlessTypeOK, ConfigOK
      <3>3. CASE config' = Preprocess(config) /\ Proceed("elevate") /\ UNCHANGED worker
        <4>1. Runnable(Preprocess(config))
          BY <3>1, PreprocessedIsRunnable
        <4>2. (Runnable(config))'
          BY <3>3, <4>1 DEF Runnable, OnlyBeyondValidator
        <4> QED
          BY <1>1, <3>3, <4>1, <4>2 DEF HeadlessTypeOK, ConfigOK, Runnable
      <3> QED
        BY <2>3, <3>2, <3>3 DEF PreprocessConfig
    <2>4. CASE SetupElevation
      <3>1. RequiresElevation(config) \in BOOLEAN
        BY DEF RequiresElevation
      <3>2. Runnable(config) /\ UNCHANGED config
        BY <2>4 DEF SetupElevation, ConfigOK
      <3>3. (Runnable(config))'
        BY <1>1, <3>2 DEF Runnable, OnlyBeyondValidator
      <3> QED
        BY <2>4, <3>1, <3>2, <3>3 DEF SetupElevation, HeadlessTypeOK, ConfigOK
    <2> QED
      BY <2>1, <2>2, <2>3, <2>4
  <1>3. ResultOK'
    BY <1>1 DEF ResultOK, Reporting
  <1>4. DeliveryOK'
    BY <1>1 DEF DeliveryOK
  <1>5. SuccessOK'
    BY <1>1 DEF SuccessOK
  <1>6. BakedOK'
    BY DEF BakedOK
  <1> QED
    BY <1>2, <1>3, <1>4, <1>5, <1>6

\* The run itself.
LEMMA RunStep ==
    ASSUME HeadlessInv, mode = "headless", UNCHANGED <<mode, baked>>, exit = None, RunDirector
    PROVE  HeadlessInv'
  <1> USE DEF HeadlessInv, reportVars, Proceed
  <1>1. PICK passed \in [Positions(config) -> BOOLEAN] :
            result' = GenerateReport(config, passed)
    BY DEF RunDirector
  <1>2. Runnable(config) /\ UNCHANGED <<config, agent, folderFlag, worker, files, received, exit>>
    BY DEF RunDirector, ConfigOK
  <1>3. (Runnable(config))'
    BY <1>2 DEF Runnable, OnlyBeyondValidator
  <1>4. result' \in Reports /\ Accounts(result', config)
    BY <1>1, <1>2, ReportsAccount DEF Runnable
  <1>5. step' \in {"submit", "makeFolder"}
    BY DEF RunDirector
  <1>6. HeadlessTypeOK' /\ ConfigOK'
    BY <1>2, <1>5 DEF HeadlessTypeOK, ConfigOK, Runnable
  <1>7. ResultOK'
    <2>1. (Accounts(result, config))'
      BY <1>2, <1>4 DEF Accounts
    <2>2. result' # None
      BY <1>4, Distinct
    <2> QED
      BY <1>3, <1>4, <1>5, <2>1, <2>2 DEF ResultOK
  <1>8. DeliveryOK'
    BY <1>2, <1>5 DEF DeliveryOK, Destination, RunDirector
  <1>9. SuccessOK' /\ BakedOK'
    BY <1>2, Distinct DEF SuccessOK, BakedOK
  <1> QED
    BY <1>6, <1>7, <1>8, <1>9

\* The steps after the run, and an interruption.
LEMMA ReportStep ==
    ASSUME HeadlessInv, mode = "headless", UNCHANGED <<mode, baked>>, exit = None,
           MakeFolder \/ (\E k \in 1..3 : WriteFile(k)) \/ Submit \/ Finish \/ Interrupt
    PROVE  HeadlessInv'
  <1> USE DEF HeadlessInv, reportVars, Return, Proceed, FileKinds, AfterFile
  <1>1. /\ UNCHANGED <<agent, folderFlag, config, result>>
        /\ step' \in {"log", "md", "json", "finish", "returned"} /\ step # "start"
        /\ step' # "returned" => step \in Reporting
        /\ HeadlessTypeOK'
    <2> USE DEF HeadlessTypeOK, Reporting
    <2>1. CASE MakeFolder
      BY <2>1 DEF MakeFolder
    <2>2. ASSUME NEW k \in 1..3, WriteFile(k)
          PROVE  /\ UNCHANGED <<agent, folderFlag, config, result>>
                 /\ step' \in {"log", "md", "json", "finish", "returned"} /\ step # "start"
                 /\ step' # "returned" => step \in Reporting
                 /\ HeadlessTypeOK'
      <3>1. files' \in [{"log", "md", "json"} -> {"absent", "short", "whole"}]
        BY <2>2 DEF WriteFile
      <3>2. /\ UNCHANGED <<agent, folderFlag, config, result, received>>
            /\ step \in {"log", "md", "json"}
            /\ step' \in {"md", "json", "finish", "returned"}
            /\ worker' \in {worker, FALSE}
            /\ exit' \in {exit, 1}
        <4>1. FileKinds[k] \in {"log", "md", "json"} /\ AfterFile(k) \in {"md", "json", "finish"}
          BY k = 1 \/ k = 2 \/ k = 3
        <4> HIDE DEF FileKinds, AfterFile
        <4> QED
          BY <2>2, <4>1 DEF WriteFile
      <3>3. worker' \in BOOLEAN /\ exit' \in {None, 0, 1, Killed}
        BY <3>2
      <3> QED
        BY <3>1, <3>2, <3>3
    <2>3. CASE Submit
      BY <2>3 DEF Submit
    <2>4. CASE Finish \/ Interrupt
      BY <2>4 DEF Finish, Interrupt
    <2> QED
      BY <2>1, <2>2, <2>3, <2>4
  <1>5. ConfigOK'
    BY <1>1 DEF ConfigOK
  <1>6. ResultOK'
    BY <1>1 DEF ResultOK, Runnable, OnlyBeyondValidator, Accounts, Reporting
  <1>7. DeliveryOK'
    <2> USE DEF DeliveryOK, Delivered, Destination, HeadlessTypeOK
    <2>1. CASE MakeFolder
      BY <2>1 DEF MakeFolder
    <2>2. ASSUME NEW k \in 1..3, WriteFile(k)
          PROVE  DeliveryOK'
      BY <2>2 DEF WriteFile
    <2>3. CASE Submit
      BY <2>3 DEF Submit
    <2>4. CASE Finish \/ Interrupt
      BY <2>4 DEF Finish, Interrupt
    <2> QED
      BY <2>1, <2>2, <2>3, <2>4
  <1>8. SuccessOK'
    <2> USE DEF SuccessOK
    <2>1. CASE Finish
      <3>1. result # None /\ Delivered
        BY <2>1 DEF Finish, ResultOK, Reporting, DeliveryOK
      <3>2. result.failed \in Nat
        BY <3>1 DEF ResultOK, Reports
      <3>3. exit' = 0 => result.failed = 0
        BY <2>1, <3>2 DEF Finish
      <3>4. Delivered' /\ ~worker'
        BY <2>1, <1>1, <3>1 DEF Finish, Delivered, Destination
      <3>5. result' # None
        BY <1>1, <3>1
      <3>6. exit' = 0 => result'.failed = 0
        BY <1>1, <3>3
      <3> QED
        BY <3>4, <3>5, <3>6
    <2>2. CASE MakeFolder \/ (\E k \in 1..3 : WriteFile(k)) \/ Submit \/ Interrupt
      BY <2>2, Distinct DEF MakeFolder, WriteFile, Submit, Interrupt
    <2> QED
      BY <2>1, <2>2
  <1>9. BakedOK'
    BY DEF BakedOK
  <1> QED
    BY <1>1, <1>5, <1>6, <1>7, <1>8, <1>9

\* The choice of what to do.
LEMMA ParseStep ==
    ASSUME HeadlessInv, exit = None, ParseArguments
    PROVE  HeadlessInv'
  <1> USE DEF HeadlessInv, reportVars
  <1>1. /\ UNCHANGED <<baked, agent, folderFlag, config, worker, result, files, received>>
        /\ mode' \in {"worker", "preprocess", "schema", "ui", "headless", "none"}
        /\ step' = IF mode' = "headless" THEN "load" ELSE step
        /\ exit' \in {None, 1}
    BY DEF ParseArguments, Mode, Arguments
  <1>2. mode = None /\ mode # "headless"
    BY RunnerAssumption DEF ParseArguments
  <1>3. HeadlessTypeOK'
    BY <1>1 DEF HeadlessTypeOK
  <1>4. ConfigOK' /\ ResultOK' /\ DeliveryOK'
    BY <1>1, <1>2 DEF ConfigOK, ResultOK, Reporting, DeliveryOK
  <1>5. exit' # 0
    BY <1>1, Distinct
  <1>6. SuccessOK' /\ BakedOK'
    BY <1>1, <1>5 DEF SuccessOK, BakedOK
  <1> QED
    BY <1>3, <1>4, <1>6

\* Baking.
LEMMA BakeStep ==
    ASSUME HeadlessInv, exit = None, BakeFile
    PROVE  HeadlessInv'
  <1> USE DEF HeadlessInv, headlessState, reportVars
  <1>1. /\ UNCHANGED <<mode, step, agent, folderFlag, config, worker, result, files, received>>
        /\ mode = "preprocess"
        /\ exit' \in {0, 1}
    BY DEF BakeFile
  <1>2. baked' \in AllPlaybooks \cup {None} /\ BakedOK'
    <2>1. CASE UNCHANGED baked
      BY <2>1 DEF BakedOK, HeadlessTypeOK
    <2>2. ASSUME NEW pb \in Playbooks, Validate(Preprocess(pb), FALSE) = {},
                 baked' = Preprocess(pb)
          PROVE  baked' \in AllPlaybooks \cup {None} /\ BakedOK'
      <3>1. pb \in AllPlaybooks
        BY PlaybooksAssumption
      <3>2. Preprocess(pb) \in AllPlaybooks /\ References(Preprocess(pb)) = {}
        BY <3>1, PreprocessKeeps, PreprocessInlines
      <3>3. Validate(Preprocess(pb), TRUE) = {}
        BY <2>2, <3>1, BakedIsAccepted
      <3> QED
        BY <2>2, <3>2, <3>3 DEF BakedOK
    <2> QED
      BY <2>1, <2>2 DEF BakeFile
  <1>3. HeadlessTypeOK'
    BY <1>1, <1>2 DEF HeadlessTypeOK
  <1>4. ConfigOK' /\ ResultOK'
    BY <1>1 DEF ConfigOK, ResultOK, Reporting
  <1>5. DeliveryOK' /\ SuccessOK'
    BY <1>1 DEF DeliveryOK, SuccessOK, Delivered, Destination
  <1> QED
    BY <1>2, <1>3, <1>4, <1>5

-----------------------------------------------------------------------------
(* The whole program.                                                      *)

Inv ==
    /\ ServerInv
    /\ EndOK
    /\ HeadlessInv

\* What the web server does with the exit code.
LEMMA ServerExitType ==
    ASSUME exit = None, WebServer
    PROVE  exit' \in {None, 0, 1}
  BY DEF WebServer, Server!ServerNext, Server!StartServer, Server!SeeShutdown,
         Server!BeginShutdown, Server!EndWait, Server!CloseShutdownChan, Server!CancelRun, Server!EndShutdown,
         Server!Connect, Server!WriteTermination, Server!LeaveStream, Server!StartRun,
         Server!EndRun, Server!Exit, Server!mainVars

\* The program starts with nothing decided.
LEMMA InitInv == Init => Inv
  <1> SUFFICES ASSUME Init
               PROVE  Inv
    OBVIOUS
  <1> USE DEF Init
  <1>1. ServerInv
    <2>1. <<>> \in Seq(Server!Callers)
      OBVIOUS
    <2>2. Server!ServerTypeOK
      BY <2>1 DEF Server!ServerInit, Server!ServerTypeOK, Server!Callers
    <2> QED
      BY <2>2, RunnerAssumption DEF ServerInv, IdleOK, HandedOK, WaitedOK, CloserOK,
             CancelledOK, Closed, Server!ServerInit, Server!Callers
  <1>2. EndOK
    BY Distinct DEF EndOK, HeadlessInit, Server!ServerInit
  <1>3. HeadlessTypeOK
    BY DEF HeadlessInit, HeadlessTypeOK
  <1>4. ConfigOK /\ ResultOK /\ DeliveryOK /\ SuccessOK /\ BakedOK
    <2>1. mode # "headless"
      BY RunnerAssumption
    <2> QED
      BY <2>1 DEF HeadlessInit, ConfigOK, ResultOK, Reporting, DeliveryOK, SuccessOK, BakedOK
  <1> QED
    BY <1>1, <1>2, <1>3, <1>4 DEF Inv, HeadlessInv

\* Every step of the program keeps the invariant.
LEMMA NextInv == Inv /\ [Next]_vars => Inv'
  <1> SUFFICES ASSUME Inv, [Next]_vars
               PROVE  Inv'
    OBVIOUS
  <1> USE DEF Inv
  <1>1. CASE UNCHANGED vars
    <2>1. ServerInv'
      BY <1>1, ServerKept DEF vars
    <2>2. HeadlessInv'
      BY <1>1, HeadlessKept DEF vars, HeadlessInv, HeadlessTypeOK
    <2> QED
      BY <1>1, <2>1, <2>2 DEF vars, serverState, EndOK
  <1>2. ASSUME exit = None, ParseArguments
        PROVE  Inv'
    <2>1. ServerInv'
      BY <1>2, ServerKept DEF ParseArguments
    <2>2. EndOK'
      BY <1>2, Distinct DEF ParseArguments, EndOK
    <2>3. HeadlessInv'
      BY <1>2, ParseStep
    <2> QED
      BY <2>1, <2>2, <2>3
  <1>3. ASSUME exit = None, NoPlaybook \/ RunOther
        PROVE  Inv'
    <2>1. ServerInv'
      BY <1>3, ServerKept DEF NoPlaybook, RunOther
    <2>2. EndOK'
      BY <1>3 DEF NoPlaybook, RunOther, EndOK
    <2>3. HeadlessInv'
      BY <1>3, HeadlessKept DEF NoPlaybook, RunOther
    <2> QED
      BY <2>1, <2>2, <2>3
  <1>4. ASSUME exit = None, BakeFile
        PROVE  Inv'
    <2>1. ServerInv'
      BY <1>4, ServerKept DEF BakeFile
    <2>2. EndOK'
      BY <1>4 DEF BakeFile, EndOK
    <2>3. HeadlessInv'
      BY <1>4, BakeStep
    <2> QED
      BY <2>1, <2>2, <2>3
  <1>5. ASSUME exit = None, HeadlessRun
        PROVE  Inv'
    <2>1. ServerInv'
      BY <1>5, ServerKept DEF HeadlessRun
    <2>2. EndOK'
      BY <1>5 DEF HeadlessRun, EndOK
    <2>3. HeadlessInv'
      BY <1>5, PrepareStep, RunStep, ReportStep DEF HeadlessRun, HeadlessNext
    <2> QED
      BY <2>1, <2>2, <2>3
  <1>6. ASSUME exit = None, WebServer
        PROVE  Inv'
    <2>1. exit' \in {None, 0, 1, Killed}
      BY <1>6, ServerExitType DEF HeadlessInv, HeadlessTypeOK
    <2>2. HeadlessInv'
      BY <1>6, <2>1, HeadlessKept DEF WebServer
    <2> QED
      BY <1>6, <2>2, ServerStep
  <1> QED
    BY <1>1, <1>2, <1>3, <1>4, <1>5, <1>6 DEF Next

\* The invariant holds of the program.
THEOREM InvInvariant == Spec => []Inv
  BY InitInv, NextInv, PTL DEF Spec

\* Each variable holds what it may.
THEOREM TypeInvariant == Spec => []TypeOK
  <1>1. Inv => TypeOK
    BY DEF Inv, ServerInv, HeadlessInv, HeadlessTypeOK, ResultOK, TypeOK
  <1> QED
    BY <1>1, InvInvariant, PTL

\* A report has one entry for each assertion of the playbook, and totals that count them.
THEOREM ReportsAccountForPlaybooks == Spec => []ReportAccounts
  <1>1. Inv => ReportAccounts
    BY DEF Inv, HeadlessInv, ResultOK, Accounts, ReportAccounts
  <1> QED
    BY <1>1, InvInvariant, PTL

\* An exit with 0 means that every assertion passed and the whole report was delivered.
THEOREM ExitZeroIsReported == Spec => []ExitZeroMeansReported
  <1>1. Inv => ExitZeroMeansReported
    <2> SUFFICES ASSUME Inv, mode = "headless", exit = 0
                 PROVE  /\ result # None
                        /\ result.failed = 0
                        /\ \A p \in Positions(config) : result.assertions[At(config, p).code]
                        /\ Delivered
                        /\ ~worker
      BY DEF ExitZeroMeansReported, Delivered
    <2>1. result # None /\ result.failed = 0 /\ Delivered /\ ~worker
      BY DEF Inv, HeadlessInv, SuccessOK
    <2>2. config \in AllPlaybooks /\ Accounts(result, config)
      BY <2>1 DEF Inv, HeadlessInv, ResultOK, Runnable
    <2> QED
      BY <2>1, <2>2, NothingFailed
  <1> QED
    BY <1>1, InvInvariant, PTL

\* What crobe-builder runs or bakes names no external script, and what it bakes crobe
\* accepts.
THEOREM ScriptsAreGone == Spec => []BuilderInlinesScripts
  <1>1. Inv => BuilderInlinesScripts
    BY DEF Inv, HeadlessInv, ResultOK, Runnable, OnlyBeyondValidator, BakedOK,
           BuilderInlinesScripts
  <1> QED
    BY <1>1, InvInvariant, PTL

\* How far the code falls short of NoScriptsRun: a script that a running playbook still
\* names is in crobe, in a gather specification of a pre or post command.
THEOREM OnlyGathersSlipThrough ==
    Spec => [](result # None =>
                 \A r \in References(config) :
                     agent /\ r[2] \in {<<"preCmds", "gather">>, <<"postCmds", "gather">>})
  <1>1. Inv => (result # None =>
                  \A r \in References(config) :
                      agent /\ r[2] \in {<<"preCmds", "gather">>, <<"postCmds", "gather">>})
    BY DEF Inv, HeadlessInv, ResultOK, Runnable, OnlyBeyondValidator
  <1> QED
    BY <1>1, InvInvariant, PTL

\* The web server ends in order: a stream that was handed the termination has written it
\* before shutdownChan is closed, unless the wait timed out, and no process ends before.
THEOREM ShutdownIsOrderly == Spec => []OrderlyShutdown
  <1>1. Inv => OrderlyShutdown
    <2> USE DEF Inv, ServerInv, Server!ServerTypeOK, Server!Callers, HandedOK, WaitedOK,
                CloserOK, CancelledOK, Closed, EndOK
    <2> SUFFICES ASSUME Inv
                 PROVE  OrderlyShutdown
      OBVIOUS
    <2>1. ASSUME closer # None, closer \notin timedOut
          PROVE  \A s \in handed[closer] : stream[s] = "told"
      BY <2>1
    <2>2. ASSUME mode = "ui", exit = 0
          PROVE  closer # None
      BY <2>2
    <2> QED
      BY <2>1, <2>2 DEF OrderlyShutdown
  <1> QED
    BY <1>1, InvInvariant, PTL

\* How far the code falls short of ShutdownHaltsRuns: a run that outlives the web server
\* outlives a shutdown by a request or by the idle timer, since on a signal the main
\* goroutine waits for Shutdown to return.
THEOREM SignalHaltsRuns ==
    Spec => [](mode = "ui" /\ exit = 0 /\ main = "stopping" => run # "active")
  <1>1. Inv => (mode = "ui" /\ exit = 0 /\ main = "stopping" => run # "active")
    BY DEF Inv, ServerInv, Server!ServerTypeOK, Server!Callers, HandedOK, WaitedOK,
           CloserOK, CancelledOK, Closed, EndOK
  <1> QED
    BY <1>1, InvInvariant, PTL

=============================================================================
