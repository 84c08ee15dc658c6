-------------------------- MODULE EventFeedProofs ---------------------------
(***************************************************************************)
(* Proofs about EventFeed: what the stream delivers is in order, and what  *)
(* the tab shows of finished verdicts is true, complete and kept, however  *)
(* events, snapshots and runs overlap.                                     *)
(***************************************************************************)
EXTENDS EventFeed, TLAPS

Active == {"callback", "broadcast", "note"}

\* Only the latest run has an active observer, and each run's callbacks come in order.
RunOrdered(r) ==
    /\ pc[r] \in Active => r = run /\ status \in Executing
    /\ pc[r] \in {"broadcast", "note"} => at[r] <= 2 * Assertions /\ r \notin unannounced
    /\ r \in unannounced => pc[r] = "callback" /\ at[r] = 0
    /\ r > run => pc[r] = "unused" /\ at[r] = 0
    /\ at[r] = 0 => result[r] = AllPending
    /\ \A c \in Codes : result[r][c] \in Finals =>
           2 * c < at[r] \/ (at[r] = 2 * c /\ pc[r] \in {"broadcast", "note"})

\* The event that a callback, or the commit, has prepared.
EventPrepared(r) ==
    /\ pc[r] \in {"broadcast", "announcing"} => event[r].run = r
    /\ pc[r] = "broadcast" =>
           IF event[r].type = "progress"
           THEN event[r].code \in Codes /\ event[r].status = result[r][event[r].code]
           ELSE event[r].status \in Executing
    /\ pc[r] = "announcing" => event[r].type = "state_change"
    /\ pc[r] = "note" => event[r].id <= lastEventID

RunsOK == \A r \in Runs : RunOrdered(r) /\ EventPrepared(r)

\* Between a run's start and its first callback the snapshot is still the run's before it.
SnapshotOK ==
    /\ snapshot.run = run /\ run \in Runs => snapshot.verdict = result[run]
    /\ snapshot.run # run => run \in Runs /\ at[run] = 0 /\ pc[run] = "callback"
    /\ snapshot.run # run \/ run = NoRun => snapshot.verdict = AllPending
    /\ snapshot.lastEventID <= lastEventID

Last == Len(buffer)

\* Every event in the buffer is numbered, and a progress event tells the result.
EventOK(e) ==
    /\ e.id <= lastEventID
    /\ e.type = "progress" =>
          /\ e.run \in Runs /\ e.run <= run /\ e.code \in Codes /\ e.status \in Verdicts
          /\ e.status \in Finals => result[e.run][e.code] = e.status
    /\ IsFinal(e) => e.run \in Runs /\ pc[e.run] = "done"

BufferOK ==
    /\ ~subscribed => buffer = <<>>
    /\ \A i \in 1..Last : EventOK(buffer[i])
    /\ StreamInOrder
    /\ FinalStateIsLast

\* What a snapshot under way, and the tab, know.
SyncOK ==
    /\ sync.snap.lastEventID <= lastEventID /\ tab.last <= lastEventID
    /\ \A c \in Codes : sync.snap.verdict[c] \in Finals
            => sync.snap.run \in Runs /\ sync.snap.verdict[c] = result[sync.snap.run][c]
    /\ sync.stage # "idle" => \A i \in 1..Last : buffer[i].id > tab.last

IsVerdict(e) == e.type = "progress" /\ e.status \in Finals
IsRunning(e) == e.type = "progress" /\ e.status \notin Finals

\* Where an id says that a verdict in the buffer is known, the verdict is there.
SkippedOK ==
    /\ sync.stage = "reply" /\ sync.snap.run = run => \A i \in 1..Last :
          IsVerdict(buffer[i]) /\ buffer[i].run = run /\ buffer[i].id <= sync.snap.lastEventID
            => sync.snap.verdict[buffer[i].code] = buffer[i].status
    /\ NothingSkipped

\* What an observer has broadcast it notes, in the snapshot, before its next callback.
NotedOK ==
    \A i \in 1..Last : buffer[i].type = "progress" /\ buffer[i].run = run =>
        /\ pc[run] \in {"callback", "broadcast"} => buffer[i].id <= snapshot.lastEventID
        /\ pc[run] = "note" => buffer[i].id <= event[run].id

\* Where a verdict is, the id says that the assertion's start is known.
SnapshotKnows(e) ==
    snapshot.run = e.run /\ snapshot.verdict[e.code] \in Finals => e.id <= snapshot.lastEventID
SyncKnows(e) ==
    sync.snap.run = e.run /\ sync.snap.verdict[e.code] \in Finals
        => e.id <= sync.snap.lastEventID
TabKnows(e) ==
    tab.shown.run = e.run /\ tab.shown.verdict[e.code] \in Finals => e.id <= tab.last

KnownOK ==
    \A i \in 1..Last : IsRunning(buffer[i]) =>
        SnapshotKnows(buffer[i]) /\ SyncKnows(buffer[i]) /\ TabKnows(buffer[i])

\* An assertion's verdict is not followed by its start.
StartsFirst ==
    \A i, j \in 1..Last :
        i < j /\ IsVerdict(buffer[i]) /\ IsRunning(buffer[j])
            => buffer[i].run # buffer[j].run \/ buffer[i].code # buffer[j].code

KeptOK == NotedOK /\ KnownOK /\ StartsFirst

Inv == /\ TypeOK /\ RunsOK /\ SnapshotOK /\ BufferOK
       /\ VerdictsAreTheRuns /\ SyncOK /\ SkippedOK /\ KeptOK

-----------------------------------------------------------------------------
(* Facts about the data.                                                   *)

VerdictMap == [Codes -> Verdicts]

\* The constants' bounds.
LEMMA Constants ==
    /\ MaxRuns \in Nat /\ Assertions \in Nat /\ MaxStreams \in Nat
    /\ Capacity \in Nat /\ Capacity > 0
    /\ Finals \subseteq Verdicts
    /\ "pending" \notin Finals /\ "running" \notin Finals
    /\ "pending" \in Verdicts /\ "running" \in Verdicts
  BY ConstantsAssumption DEF ConstantsAssumption, Finals, Verdicts

\* The number of a callback tells its assertion.
LEMMA CodeFacts ==
    ASSUME at \in [Runs -> 0..(2 * Assertions + 1)], NEW r \in Runs
    PROVE  /\ Starting(r) => Code(r) \in Codes /\ at[r] = 2 * Code(r) - 1
           /\ Completing(r) => Code(r) \in Codes /\ at[r] = 2 * Code(r)
           /\ Starting(r) => at[r] < 2 * Assertions
           /\ Completing(r) => at[r] <= 2 * Assertions
  BY Constants DEF Starting, Completing, Code, Codes

\* The fields of an event, and an event with another id.
LEMMA EventFields ==
    ASSUME NEW e \in Events
    PROVE  /\ e.id \in Nat /\ e.run \in 0..MaxRuns /\ e.code \in 0..Assertions
           /\ e.type \in {"state_change", "progress"} /\ e.status \in Statuses \cup Verdicts
  BY DEF Events

\* An event is numbered when it is broadcast.
LEMMA EventNumbered ==
    ASSUME NEW e \in Events, NEW n \in Nat
    PROVE  /\ [e EXCEPT !.id = n] \in Events
           /\ [e EXCEPT !.id = n].id = n /\ [e EXCEPT !.id = n].type = e.type
           /\ [e EXCEPT !.id = n].run = e.run /\ [e EXCEPT !.id = n].code = e.code
           /\ [e EXCEPT !.id = n].status = e.status
  BY DEF Events

\* A state change is an event.
LEMMA StateChangeEvent ==
    ASSUME NEW r \in 0..MaxRuns, NEW st \in Statuses
    PROVE  /\ StateChange(r, st) \in Events
           /\ StateChange(r, st).type = "state_change" /\ StateChange(r, st).run = r
           /\ StateChange(r, st).status = st
  BY Constants DEF StateChange, Events

\* So is an assertion's progress.
LEMMA ProgressEvent ==
    ASSUME NEW r \in Runs, NEW c \in Codes, NEW v \in Verdicts
    PROVE  /\ Progress(r, c, v) \in Events
           /\ Progress(r, c, v).type = "progress" /\ Progress(r, c, v).run = r
           /\ Progress(r, c, v).code = c /\ Progress(r, c, v).status = v
  BY Constants DEF Progress, Events, Runs, Codes

\* The maps from assertions to verdicts.
LEMMA VerdictMaps ==
    /\ AllPending \in VerdictMap
    /\ \A c \in Codes : AllPending[c] = "pending"
    /\ \A m \in VerdictMap, c \in Codes, v \in Verdicts :
          /\ [m EXCEPT ![c] = v] \in VerdictMap
          /\ [m EXCEPT ![c] = v][c] = v
          /\ \A d \in Codes : d # c => [m EXCEPT ![c] = v][d] = m[d]
  BY Constants DEF VerdictMap, AllPending

\* The fields of a snapshot.
LEMMA SnapshotFields ==
    ASSUME NEW s \in SnapshotType
    PROVE  /\ s.run \in 0..MaxRuns /\ s.verdict \in VerdictMap /\ s.lastEventID \in Nat
           /\ \A r \in 0..MaxRuns :
                 /\ [s EXCEPT !.run = r] \in SnapshotType
                 /\ [s EXCEPT !.run = r].run = r
                 /\ [s EXCEPT !.run = r].verdict = s.verdict
                 /\ [s EXCEPT !.run = r].lastEventID = s.lastEventID
           /\ \A m \in VerdictMap :
                 /\ [s EXCEPT !.verdict = m] \in SnapshotType
                 /\ [s EXCEPT !.verdict = m].run = s.run
                 /\ [s EXCEPT !.verdict = m].verdict = m
                 /\ [s EXCEPT !.verdict = m].lastEventID = s.lastEventID
           /\ \A n \in Nat :
                 /\ [s EXCEPT !.lastEventID = n] \in SnapshotType
                 /\ [s EXCEPT !.lastEventID = n].run = s.run
                 /\ [s EXCEPT !.lastEventID = n].verdict = s.verdict
                 /\ [s EXCEPT !.lastEventID = n].lastEventID = n
  BY DEF SnapshotType, VerdictMap

\* The first snapshot is one.
LEMMA FirstSnapshotFields ==
    /\ FirstSnapshot \in SnapshotType
    /\ FirstSnapshot.run = NoRun /\ FirstSnapshot.verdict = AllPending
    /\ FirstSnapshot.lastEventID = 0
  BY Constants, VerdictMaps DEF FirstSnapshot, SnapshotType, VerdictMap, NoRun

\* The execution that a tab shows.
LEMMA ShownFields ==
    ASSUME NEW s \in ShownType
    PROVE  s.run \in {NoExecution} \cup 0..MaxRuns /\ s.verdict \in VerdictMap
  BY DEF ShownType, VerdictMap

\* An execution of which nothing is known.
LEMMA FreshFields ==
    ASSUME NEW r \in {NoExecution} \cup 0..MaxRuns
    PROVE  Fresh(r) \in ShownType /\ Fresh(r).run = r /\ Fresh(r).verdict = AllPending
  BY VerdictMaps DEF Fresh, ShownType, VerdictMap

-----------------------------------------------------------------------------
(* The buffer.                                                             *)

\* An event of the buffer after a broadcast was there before, or is the one broadcast.
Old(i) == i \in 1..Len(buffer) /\ buffer'[i] = buffer[i]
New(i, e) ==
    /\ i = Len(buffer) + 1
    /\ buffer'[i].id = lastEventID + 1
    /\ buffer'[i].type = e.type /\ buffer'[i].run = e.run
    /\ buffer'[i].code = e.code /\ buffer'[i].status = e.status

\* What a broadcast does to the buffer.
LEMMA BroadcastEntries ==
    ASSUME TypeOK, NEW e \in Events, Broadcast(e)
    PROVE  /\ lastEventID' = lastEventID + 1 /\ lastEventID \in Nat
           /\ subscribed' = subscribed
           /\ buffer' \in Seq(Events) /\ Len(buffer') <= Capacity
           /\ ~subscribed => buffer' = buffer
           /\ \A i \in 1..Len(buffer') : Old(i) \/ New(i, e)
           /\ \A i, j \in 1..Len(buffer') : i < j => Old(i)
  <1> DEFINE n == [e EXCEPT !.id = lastEventID + 1]
  <1>0. buffer \in Seq(Events) /\ Len(buffer) <= Capacity /\ lastEventID \in Nat
    BY DEF TypeOK, BrokerTypeOK
  <1>1. /\ n \in Events /\ n.id = lastEventID + 1 /\ n.type = e.type /\ n.run = e.run
        /\ n.code = e.code /\ n.status = e.status
    BY <1>0, EventNumbered
  <1>2. lastEventID' = lastEventID + 1 /\ subscribed' = subscribed
    BY DEF Broadcast, NextID
  <1>3. buffer' = IF subscribed /\ HasRoom THEN Append(buffer, n) ELSE buffer
    BY DEF Broadcast, NextID
  <1> HIDE DEF n
  <1>5. CASE buffer' = buffer
    BY <1>0, <1>1, <1>2, <1>5 DEF Old
  <1>6. CASE buffer' = Append(buffer, n) /\ Len(buffer) < Capacity /\ subscribed
    <2>1. /\ buffer' \in Seq(Events) /\ Len(buffer') = Len(buffer) + 1
          /\ \A i \in 1..Len(buffer) : buffer'[i] = buffer[i]
          /\ buffer'[Len(buffer) + 1] = n
      BY <1>1, <1>0, <1>6
    <2>2. Len(buffer) \in Nat
      BY <1>0
    <2>3. \A i \in 1..Len(buffer') : Old(i) \/ New(i, e)
      BY <1>1, <2>1, <2>2 DEF Old, New
    <2>4. \A i, j \in 1..Len(buffer') : i < j => Old(i)
      BY <2>1, <2>2 DEF Old
    <2> QED BY <1>0, <1>2, <1>6, <2>1, <2>3, <2>4, Constants
  <1> QED BY <1>3, <1>5, <1>6 DEF HasRoom

\* What the tab's taking of an event leaves.
LEMMA TailEntries ==
    ASSUME NEW s \in Seq(Events), s # <<>>
    PROVE  /\ Head(s) \in Events /\ Head(s) = s[1] /\ 1 \in 1..Len(s)
           /\ Tail(s) \in Seq(Events) /\ Len(Tail(s)) = Len(s) - 1 /\ Len(s) \in Nat
           /\ \A i \in 1..Len(Tail(s)) : i + 1 \in 1..Len(s) /\ Tail(s)[i] = s[i + 1]
  OBVIOUS

-----------------------------------------------------------------------------
(* Steps that leave a part alone.                                          *)

LoopTypes == StateTypeOK /\ RunsTypeOK

\* What the types say of the numbers.
LEMMA Types ==
    ASSUME TypeOK
    PROVE  /\ run \in 0..MaxRuns /\ run \in Nat /\ lastEventID \in Nat
           /\ snapshot \in SnapshotType /\ status \in Statuses
           /\ at \in [Runs -> 0..(2 * Assertions + 1)]
           /\ result \in [Runs -> VerdictMap]
           /\ buffer \in Seq(Events) /\ Len(buffer) \in Nat
           /\ \A i \in 1..Len(buffer) : buffer[i] \in Events
           /\ \A r \in Runs : event[r] \in Events
           /\ tab.shown \in ShownType /\ tab.last \in Nat
           /\ sync.snap \in SnapshotType
  <1>1. run \in Nat
    BY Constants DEF TypeOK, StateTypeOK
  <1>2. /\ result \in [Runs -> VerdictMap] /\ at \in [Runs -> 0..(2 * Assertions + 1)]
        /\ \A r \in Runs : event[r] \in Events
    BY DEF TypeOK, RunsTypeOK, VerdictMap
  <1>3. buffer \in Seq(Events) /\ lastEventID \in Nat
    BY DEF TypeOK, BrokerTypeOK
  <1>4. Len(buffer) \in Nat /\ \A i \in 1..Len(buffer) : buffer[i] \in Events
    BY <1>3
  <1>5. tab.shown \in ShownType /\ tab.last \in Nat /\ sync.snap \in SnapshotType
    BY DEF TypeOK, TabTypeOK
  <1>6. run \in 0..MaxRuns /\ snapshot \in SnapshotType /\ status \in Statuses
    BY DEF TypeOK, StateTypeOK
  <1> QED BY <1>1, <1>2, <1>3, <1>4, <1>5, <1>6

\* The parts of TypeOK that a step leaves alone.
LEMMA SameTypes ==
    ASSUME TypeOK
    PROVE  /\ UNCHANGED stateVars => StateTypeOK'
           /\ UNCHANGED runVars => RunsTypeOK'
           /\ UNCHANGED brokerVars => BrokerTypeOK'
           /\ UNCHANGED tabVars => TabTypeOK'
  BY DEF TypeOK, StateTypeOK, RunsTypeOK, BrokerTypeOK, TabTypeOK, stateVars, runVars,
         brokerVars, tabVars

\* What no step does: undo a verdict, go back to an earlier run, or leave "done".
ResultsStand ==
    /\ run' \in Nat /\ run <= run'
    /\ \A r \in Runs :
          /\ pc[r] = "done" => pc'[r] = "done"
          /\ \A c \in Codes : result[r][c] \in Finals => result'[r][c] = result[r][c]

\* The buffer remains in order while nothing is broadcast.
LEMMA BufferStays ==
    ASSUME Inv, ResultsStand, UNCHANGED brokerVars
    PROVE  BufferOK'
  <1>1. ~subscribed' => buffer' = <<>>
    BY DEF Inv, BufferOK, brokerVars
  <1>2. StreamInOrder' /\ FinalStateIsLast'
    BY DEF Inv, BufferOK, brokerVars, StreamInOrder, FinalStateIsLast, IsFinal
  <1>3. ASSUME NEW i \in 1..Len(buffer)
        PROVE  EventOK(buffer[i])'
    <2>1. EventOK(buffer[i]) /\ buffer[i].run \in 0..MaxRuns /\ run \in Nat
      BY Types, EventFields DEF Inv, BufferOK, Last
    <2>2. buffer[i].run \in Nat
      BY <2>1, Constants
    <2> QED BY <2>1, <2>2 DEF EventOK, IsFinal, ResultsStand, brokerVars
  <1> QED BY <1>1, <1>2, <1>3 DEF BufferOK, Last, brokerVars

\* Nor does what the tab knows become false.
LEMMA TabStays ==
    ASSUME Inv, ResultsStand, UNCHANGED <<brokerVars, tabVars>>
    PROVE  VerdictsAreTheRuns' /\ SyncOK' /\ SkippedOK'
  <1>1. VerdictsAreTheRuns'
    BY DEF Inv, VerdictsAreTheRuns, ResultsStand, tabVars
  <1>2. SyncOK'
    BY DEF Inv, SyncOK, ResultsStand, tabVars, brokerVars, Last
  <1>3. run' # run => \A i \in 1..Len(buffer) : IsVerdict(buffer[i]) => buffer[i].run # run'
    <2> SUFFICES ASSUME run' # run, NEW i \in 1..Len(buffer), IsVerdict(buffer[i])
                 PROVE  buffer[i].run # run'
      OBVIOUS
    <2>1. buffer[i].run <= run /\ buffer[i].run \in Nat /\ run \in Nat
      BY Types, EventFields, Constants DEF Inv, BufferOK, EventOK, IsVerdict, Last
    <2> QED BY <2>1 DEF ResultsStand
  <1>4. SkippedOK'
    <2>1. CASE run' = run
      BY <2>1 DEF Inv, SkippedOK, NothingSkipped, IsDuplicate, IsVerdict, tabVars, brokerVars,
                  Last
    <2>2. CASE run' # run
      BY <2>2, <1>3 DEF SkippedOK, NothingSkipped, IsDuplicate, IsVerdict, tabVars,
                        brokerVars, Last
    <2> QED BY <2>1, <2>2
  <1> QED BY <1>1, <1>2, <1>4

\* While nothing is broadcast, the ids in the snapshot are all there is to look at.
LEMMA KeptStays ==
    ASSUME Inv, UNCHANGED <<brokerVars, tabVars>>, NotedOK',
           \A i \in 1..Len(buffer) : IsRunning(buffer[i]) => SnapshotKnows(buffer[i])'
    PROVE  KeptOK'
  <1>1. KnownOK'
    BY DEF Inv, KeptOK, KnownOK, SyncKnows, TabKnows, IsRunning, brokerVars, tabVars, Last
  <1>2. StartsFirst'
    BY DEF Inv, KeptOK, StartsFirst, IsRunning, IsVerdict, brokerVars, Last
  <1> QED BY <1>1, <1>2 DEF KeptOK

-----------------------------------------------------------------------------
(* The steps of runs that broadcast nothing.                               *)

\* A run starts only after the one before it has committed its outcome.
LEMMA StartRunKeeps ==
    ASSUME Inv, StartRun
    PROVE  Inv'
  <1>0. TypeOK /\ run + 1 \in Runs /\ run \in Nat /\ run + 1 \in 0..MaxRuns
    BY Types, Constants DEF Inv, StartRun, Runs
  <1>1. TypeOK'
    <2>1. StateTypeOK'
      <3>1. snapshot \in SnapshotType
        BY <1>0, Types
      <3>2. snapshot' \in SnapshotType
        BY <3>1, SnapshotFields, VerdictMaps DEF StartRun
      <3> QED BY <3>2, <1>0 DEF StateTypeOK, StartRun, Statuses, Executing
    <2>2. RunsTypeOK'
      BY <1>0 DEF TypeOK, RunsTypeOK, StartRun, CallbackPcs
    <2> QED BY <1>0, <2>1, <2>2, SameTypes DEF TypeOK, StartRun
  <1>2. RunsOK'
    <2> SUFFICES ASSUME NEW r \in Runs
                 PROVE  RunOrdered(r)' /\ EventPrepared(r)'
      BY DEF RunsOK
    <2>1. RunOrdered(r) /\ EventPrepared(r) /\ r \in Nat /\ pc \in [Runs -> CallbackPcs]
      BY <1>0, Constants DEF Inv, RunsOK, Runs, TypeOK, RunsTypeOK
    <2>2. pc[r] \notin Active
      BY <2>1 DEF StartRun, RunOrdered
    <2>3. RunOrdered(r)'
      BY <1>0, <2>1, <2>2 DEF RunOrdered, StartRun, Active, Executing
    <2>4. EventPrepared(r)'
      BY <1>0, <2>1, <2>2 DEF EventPrepared, StartRun, Active, Executing, brokerVars
    <2> QED BY <2>3, <2>4
  <1>3. SnapshotOK'
    <2>1. snapshot' = [snapshot EXCEPT !.verdict = AllPending] /\ snapshot \in SnapshotType
      BY <1>0, Types DEF StartRun
    <2>2. /\ snapshot'.run = snapshot.run /\ snapshot'.verdict = AllPending
          /\ snapshot'.lastEventID = snapshot.lastEventID
      BY <2>1, SnapshotFields, VerdictMaps
    <2>3. snapshot.run # run => pc[run] = "callback" /\ run \in Runs
      BY DEF Inv, SnapshotOK
    <2>4. snapshot.run = run
      BY <2>3 DEF Inv, RunsOK, RunOrdered, Active, StartRun
    <2>5. run' = run + 1 /\ at'[run + 1] = 0 /\ pc'[run + 1] = "callback"
      BY <1>0 DEF StartRun, Inv, RunsOK, RunOrdered, TypeOK, RunsTypeOK
    <2> QED BY <1>0, <2>2, <2>4, <2>5 DEF SnapshotOK, StartRun, brokerVars, Inv, NoRun
  <1>4. ResultsStand
    BY <1>0 DEF ResultsStand, StartRun, Inv, RunsOK, RunOrdered, TypeOK, RunsTypeOK
  <1>5. UNCHANGED <<brokerVars, tabVars>>
    BY DEF StartRun
  <1>6. KeptOK'
    <2>1. ASSUME NEW i \in 1..Len(buffer), buffer[i].type = "progress"
          PROVE  buffer[i].run # run + 1
      <3>1. buffer[i].run <= run
        BY <2>1 DEF Inv, BufferOK, EventOK, Last
      <3>2. buffer[i].run \in 0..MaxRuns
        BY <1>0, Types, EventFields
      <3> QED BY <1>0, <3>1, <3>2, Constants
    <2>2. NotedOK'
      BY <2>1 DEF NotedOK, StartRun, brokerVars, Last
    <2>3. ASSUME NEW i \in 1..Len(buffer), IsRunning(buffer[i])
          PROVE  SnapshotKnows(buffer[i])'
      <3>1. snapshot' = [snapshot EXCEPT !.verdict = AllPending] /\ snapshot \in SnapshotType
        BY <1>0, Types DEF StartRun
      <3>2. buffer[i].code \in Codes
        BY <2>3 DEF Inv, BufferOK, EventOK, IsRunning, Last
      <3> QED BY <3>1, <3>2, <1>5, SnapshotFields, VerdictMaps, Constants
              DEF SnapshotKnows, brokerVars
    <2> QED BY <1>5, <2>2, <2>3, KeptStays
  <1> QED BY <1>1, <1>2, <1>3, <1>4, <1>5, <1>6, BufferStays, TabStays DEF Inv

\* The first callback makes the snapshot the run's own.
LEMMA RunStartKeeps ==
    ASSUME Inv, NEW r \in Runs, Callback(r), OnRunStart(r)
    PROVE  Inv'
  <1>0. /\ TypeOK /\ r = run /\ r \in 0..MaxRuns /\ r \notin unannounced
        /\ at[r] = 0 /\ pc[r] = "callback" /\ result[r] = AllPending /\ status \in Executing
    BY Constants DEF Inv, Runs, RunsOK, RunOrdered, Active, Callback, OnRunStart, AtRunStart,
                     Launched
  <1>a. /\ event' = [event EXCEPT ![r] = StateChange(run, status)]
        /\ pc' = [pc EXCEPT ![r] = "broadcast"]
        /\ UNCHANGED <<at, result, status, run, unannounced, brokerVars, tabVars>>
    BY DEF Callback, OnRunStart
  <1>b. /\ StateChange(run, status) \in Events /\ StateChange(run, status).run = r
        /\ StateChange(run, status).type = "state_change"
        /\ StateChange(run, status).status \in Executing
    BY <1>0, Types, StateChangeEvent
  <1>c. /\ snapshot' \in SnapshotType /\ snapshot'.run = r
        /\ snapshot'.verdict = snapshot.verdict
        /\ snapshot'.lastEventID = snapshot.lastEventID
    BY <1>0, Types, SnapshotFields DEF OnRunStart, RunInSnapshot
  <1>d. event \in [Runs -> Events] /\ pc \in [Runs -> CallbackPcs]
    BY <1>0 DEF TypeOK, RunsTypeOK
  <1>1. TypeOK'
    <2>1. StateTypeOK'
      BY <1>0, <1>a, <1>c DEF TypeOK, StateTypeOK
    <2>2. RunsTypeOK'
      BY <1>0, <1>a, <1>b, <1>d DEF TypeOK, RunsTypeOK, Callback, CallbackPcs
    <2> QED BY <1>0, <1>a, <2>1, <2>2, SameTypes DEF TypeOK
  <1>2. RunsOK'
    <2> SUFFICES ASSUME NEW q \in Runs
                 PROVE  RunOrdered(q)' /\ EventPrepared(q)'
      BY DEF RunsOK
    <2>1. RunOrdered(q) /\ EventPrepared(q)
      BY DEF Inv, RunsOK
    <2>2. CASE q = r
      <3>1. RunOrdered(q)'
        BY <1>0, <1>a, <1>d, <2>1, <2>2, Constants, VerdictMaps DEF RunOrdered, Active
      <3>2. EventPrepared(q)'
        BY <1>0, <1>a, <1>b, <1>d, <2>2 DEF EventPrepared
      <3> QED BY <3>1, <3>2
    <2>3. CASE q # r
      BY <1>a, <1>d, <2>1, <2>3 DEF RunOrdered, EventPrepared, brokerVars
    <2> QED BY <2>2, <2>3
  <1>3. SnapshotOK'
    <2>1. snapshot.verdict = AllPending
      BY <1>0 DEF Inv, SnapshotOK
    <2> QED BY <1>0, <1>a, <1>c, <2>1 DEF SnapshotOK, Inv, brokerVars, NoRun
  <1>4. ResultsStand
    BY <1>0, <1>a, <1>d, Types DEF ResultsStand
  <1>6. KeptOK'
    <2>2. NotedOK'
      BY <1>0, <1>a, <1>c, <1>d DEF Inv, KeptOK, NotedOK, brokerVars, Last
    <2>3. ASSUME NEW i \in 1..Len(buffer), IsRunning(buffer[i])
          PROVE  SnapshotKnows(buffer[i])'
      <3>1. buffer[i].code \in Codes
        BY <2>3 DEF Inv, BufferOK, EventOK, IsRunning, Last
      <3>2. snapshot'.verdict = AllPending
        BY <1>0, <1>c DEF Inv, SnapshotOK
      <3> QED BY <3>1, <3>2, <1>a, VerdictMaps, Constants DEF SnapshotKnows, brokerVars
    <2> QED BY <1>a, <2>2, <2>3, KeptStays
  <1> QED BY <1>1, <1>2, <1>3, <1>4, <1>a, <1>6, BufferStays, TabStays DEF Inv

\* What the callbacks about an assertion c have in common: they set its verdict to v, in the
\* snapshot and in the results, and prepare the event that says so.
VerdictGiven(r, c, v) ==
    /\ pc' = [pc EXCEPT ![r] = "broadcast"]
    /\ snapshot' = [snapshot EXCEPT !.verdict = [@ EXCEPT ![c] = v]]
    /\ result' = [result EXCEPT ![r] = [@ EXCEPT ![c] = v]]
    /\ event' = [event EXCEPT ![r] = Progress(r, c, v)]
    /\ UNCHANGED <<status, run, unannounced, ctxDone, cancelPc, brokerVars, tabVars>>

\* An assertion that has no verdict yet may be given one, or be started.
LEMMA VerdictGivenKeeps ==
    ASSUME Inv, NEW r \in Runs, NEW c \in Codes, NEW v \in Finals \cup {"running"},
           VerdictGiven(r, c, v),
           pc[r] = "callback", r \notin unannounced,
           at[r] \in {2 * c - 1, 2 * c}, at' \in [Runs -> Nat],
           \A q \in Runs : q # r => at'[q] = at[q],
           v \in Finals => at'[r] = 2 * c, v = "running" => at'[r] = at[r]
    PROVE  Inv'
  <1>0. /\ TypeOK /\ r = run /\ r \in 0..MaxRuns /\ status \in Executing
        /\ c \in Nat /\ c > 0 /\ c <= Assertions /\ v \in Verdicts /\ r # 0
    BY Constants DEF Inv, Runs, RunsOK, RunOrdered, Active, Codes
  <1>b. /\ Progress(r, c, v) \in Events /\ Progress(r, c, v).run = r
        /\ Progress(r, c, v).type = "progress" /\ Progress(r, c, v).code = c
        /\ Progress(r, c, v).status = v
    BY <1>0, ProgressEvent
  <1>d. /\ event \in [Runs -> Events] /\ pc \in [Runs -> CallbackPcs]
        /\ result \in [Runs -> VerdictMap] /\ at \in [Runs -> Nat]
        /\ snapshot \in SnapshotType
    BY <1>0, Types, Constants DEF TypeOK, RunsTypeOK
  <1>e. snapshot.run = r /\ snapshot.verdict = result[r]
    <2>1. snapshot.run = run
      <3>1. at[run] # 0
        BY <1>0
      <3> QED BY <3>1 DEF Inv, SnapshotOK
    <2> QED BY <1>0, <2>1 DEF Inv, SnapshotOK
  <1> DEFINE m == [snapshot.verdict EXCEPT ![c] = v]
  <1>f. /\ m \in VerdictMap /\ m[c] = v /\ \A d \in Codes : d # c => m[d] = result[r][d]
    BY <1>0, <1>d, <1>e, VerdictMaps
  <1>g. snapshot' = [snapshot EXCEPT !.verdict = m] /\ result' = [result EXCEPT ![r] = m]
    BY <1>e DEF VerdictGiven
  <1> HIDE DEF m
  <1>c. /\ snapshot' \in SnapshotType /\ snapshot'.run = r /\ snapshot'.verdict = m
        /\ snapshot'.lastEventID = snapshot.lastEventID
    BY <1>d, <1>e, <1>f, <1>g, SnapshotFields
  <1>h. result[r][c] \notin Finals
    BY <1>0 DEF Inv, RunsOK, RunOrdered
  <1>1. TypeOK'
    <2>1. StateTypeOK'
      BY <1>0, <1>c DEF TypeOK, StateTypeOK, VerdictGiven
    <2>2. RunsTypeOK'
      <3>1. result' \in [Runs -> VerdictMap]
        BY <1>d, <1>f, <1>g
      <3>2. at' \in [Runs -> 0..(2 * Assertions + 1)]
        <4>1. at \in [Runs -> 0..(2 * Assertions + 1)]
          BY <1>0, Types
        <4>2. \A q \in Runs : at'[q] \in 0..(2 * Assertions + 1)
          BY <1>0, <4>1, Constants
        <4> QED BY <4>2
      <3>3. pc' \in [Runs -> CallbackPcs] /\ event' \in [Runs -> Events]
        BY <1>b, <1>d DEF VerdictGiven, CallbackPcs
      <3> QED BY <1>0, <3>1, <3>2, <3>3 DEF TypeOK, RunsTypeOK, VerdictGiven, VerdictMap
    <2> QED BY <1>0, <2>1, <2>2, SameTypes DEF TypeOK, VerdictGiven
  <1>2. RunsOK'
    <2> SUFFICES ASSUME NEW q \in Runs
                 PROVE  RunOrdered(q)' /\ EventPrepared(q)'
      BY DEF RunsOK
    <2>1. RunOrdered(q) /\ EventPrepared(q)
      BY DEF Inv, RunsOK
    <2>2. CASE q = r
      <3>1. RunOrdered(q)'
        <4>1. /\ pc'[r] = "broadcast" /\ result'[r] = m /\ run' = run /\ status' = status
              /\ unannounced' = unannounced
          BY <1>d, <1>g DEF VerdictGiven
        <4>2. at'[r] <= 2 * Assertions /\ at'[r] # 0 /\ at'[r] \in Nat
          BY <1>0, <1>d, Constants
        <4>3. ASSUME NEW d \in Codes, m[d] \in Finals
              PROVE  2 * d < at'[r] \/ at'[r] = 2 * d
          <5>1. CASE d = c
            BY <5>1, <4>3, <1>f, <1>0, Constants
          <5>2. CASE d # c
            <6>1. result[r][d] \in Finals
              BY <5>2, <4>3, <1>f
            <6>2. 2 * d < at[r]
              BY <6>1, <2>1, <2>2 DEF RunOrdered
            <6>3. at[r] <= at'[r] /\ at[r] \in Nat /\ d \in Nat
              BY <1>0, <1>d, Constants DEF Codes
            <6> QED BY <6>2, <6>3, <4>2
          <5> QED BY <5>1, <5>2
        <4> QED BY <1>0, <2>2, <4>1, <4>2, <4>3 DEF RunOrdered, Active
      <3>2. EventPrepared(q)'
        BY <1>b, <1>d, <1>f, <1>g, <2>2 DEF EventPrepared, VerdictGiven
      <3> QED BY <3>1, <3>2
    <2>3. CASE q # r
      BY <1>d, <1>g, <2>1, <2>3 DEF RunOrdered, EventPrepared, VerdictGiven, brokerVars
    <2> QED BY <2>2, <2>3
  <1>3. SnapshotOK'
    BY <1>0, <1>c, <1>d, <1>g DEF SnapshotOK, Inv, VerdictGiven, brokerVars, NoRun
  <1>4. ResultsStand
    <2>1. run' = run /\ run \in Nat
      BY <1>0, Types DEF VerdictGiven
    <2>2. ASSUME NEW q \in Runs, NEW d \in Codes, result[q][d] \in Finals
          PROVE  result'[q][d] = result[q][d]
      BY <2>2, <1>d, <1>f, <1>g, <1>h
    <2>3. ASSUME NEW q \in Runs, pc[q] = "done"
          PROVE  pc'[q] = "done"
      BY <2>3, <1>d DEF VerdictGiven
    <2> QED BY <2>1, <2>2, <2>3 DEF ResultsStand
  <1>5. UNCHANGED <<brokerVars, tabVars>>
    BY DEF VerdictGiven
  <1>6. KeptOK'
    <2>2. NotedOK'
      BY <1>0, <1>c, <1>d DEF Inv, KeptOK, NotedOK, brokerVars, Last, VerdictGiven
    <2>3. ASSUME NEW i \in 1..Len(buffer), IsRunning(buffer[i])
          PROVE  SnapshotKnows(buffer[i])'
      <3>0. /\ buffer[i].code \in Codes /\ buffer[i].type = "progress"
            /\ SnapshotKnows(buffer[i])
        BY <2>3 DEF Inv, BufferOK, EventOK, IsRunning, Last, KeptOK, KnownOK
      <3>1. buffer'[i] = buffer[i]
        BY <1>5 DEF brokerVars
      <3>2. buffer[i].run = r => buffer[i].id <= snapshot.lastEventID
        BY <1>0, <3>0 DEF Inv, KeptOK, NotedOK, Last
      <3> QED BY <3>0, <3>1, <3>2, <1>c DEF SnapshotKnows
    <2> QED BY <1>5, <2>2, <2>3, KeptStays
  <1> QED BY <1>1, <1>2, <1>3, <1>4, <1>5, <1>6, BufferStays, TabStays DEF Inv

\* An assertion starts.
LEMMA AssertionStartKeeps ==
    ASSUME Inv, NEW r \in Runs, Callback(r), OnAssertionStart(r)
    PROVE  Inv'
  <1>1. /\ pc[r] = "callback" /\ r \notin unannounced /\ Starting(r) /\ at' = at
        /\ VerdictGiven(r, Code(r), "running")
    BY DEF Callback, OnAssertionStart, VerdictGiven, Launched
  <1>2. at \in [Runs -> 0..(2 * Assertions + 1)] /\ at \in [Runs -> Nat]
    BY Types, Constants DEF Inv
  <1>3. Code(r) \in Codes /\ at[r] = 2 * Code(r) - 1
    BY <1>1, <1>2, CodeFacts
  <1>4. "running" \notin Finals
    BY Constants
  <1> HIDE DEF VerdictGiven
  <1> QED BY <1>1, <1>2, <1>3, <1>4, VerdictGivenKeeps

\* An assertion is completed, or cancelled before it starts.
LEMMA AssertionCompleteKeeps ==
    ASSUME Inv, NEW r \in Runs, NEW v \in Finals, Callback(r), OnAssertionComplete(r, v)
    PROVE  Inv'
  <1>1. /\ pc[r] = "callback" /\ r \notin unannounced /\ (Starting(r) \/ Completing(r))
        /\ at' = [at EXCEPT ![r] = 2 * Code(r)]
        /\ VerdictGiven(r, Code(r), v)
    BY DEF Callback, OnAssertionComplete, VerdictGiven, Launched, Reported
  <1>2. at \in [Runs -> 0..(2 * Assertions + 1)] /\ at \in [Runs -> Nat]
    BY Types, Constants DEF Inv
  <1>3. Code(r) \in Codes /\ at[r] \in {2 * Code(r) - 1, 2 * Code(r)} /\ Code(r) \in Nat
    BY <1>1, <1>2, CodeFacts, Constants DEF Codes
  <1>4. at' \in [Runs -> Nat] /\ at'[r] = 2 * Code(r) /\ \A q \in Runs : q # r => at'[q] = at[q]
    BY <1>1, <1>2, <1>3
  <1>5. v # "running" /\ v \in Finals \cup {"running"}
    BY Constants
  <1> HIDE DEF VerdictGiven
  <1> QED BY <1>1, <1>2, <1>3, <1>4, <1>5, VerdictGivenKeeps

\* Each callback of the observer.
LEMMA CallbackKeeps ==
    ASSUME Inv, NEW r \in Runs, Callback(r)
    PROVE  Inv'
  BY RunStartKeeps, AssertionStartKeeps, AssertionCompleteKeeps DEF Callback

\* The id is noted in the snapshot, which has had the verdict since the callback began.
LEMMA NoteEventIDKeeps ==
    ASSUME Inv, NEW r \in Runs, NoteEventID(r)
    PROVE  Inv'
  <1>0. /\ TypeOK /\ r = run /\ r \notin unannounced /\ pc[r] = "note"
        /\ at[r] \in Nat /\ at[r] <= 2 * Assertions /\ status \in Executing
        /\ event[r].id <= lastEventID /\ event[r].id \in Nat
    <2>1. TypeOK /\ at[r] \in Nat /\ event[r].id \in Nat
      BY Types, Constants, EventFields DEF Inv
    <2> QED BY <2>1 DEF Inv, RunsOK, RunOrdered, EventPrepared, Active, NoteEventID
  <1>a. /\ pc' = [pc EXCEPT ![r] = "callback"] /\ at' = [at EXCEPT ![r] = @ + 1]
        /\ UNCHANGED <<status, run, unannounced, event, ctxDone, result, cancelPc,
                       brokerVars, tabVars>>
    BY DEF NoteEventID
  <1>c. /\ snapshot' \in SnapshotType /\ snapshot'.run = snapshot.run
        /\ snapshot'.verdict = snapshot.verdict
        /\ snapshot'.lastEventID = event[r].id
    BY <1>0, Types, SnapshotFields DEF NoteEventID
  <1>d. /\ pc \in [Runs -> CallbackPcs] /\ at \in [Runs -> 0..(2 * Assertions + 1)]
        /\ at' \in [Runs -> 0..(2 * Assertions + 1)] /\ at'[r] = at[r] + 1
    BY <1>0, <1>a, Constants DEF TypeOK, RunsTypeOK
  <1>e. snapshot.run = run
    BY <1>0 DEF Inv, SnapshotOK
  <1>1. TypeOK'
    <2>1. StateTypeOK'
      BY <1>0, <1>a, <1>c DEF TypeOK, StateTypeOK
    <2>2. RunsTypeOK'
      BY <1>0, <1>a, <1>d DEF TypeOK, RunsTypeOK, CallbackPcs
    <2> QED BY <1>0, <1>a, <2>1, <2>2, SameTypes DEF TypeOK
  <1>2. RunsOK'
    <2> SUFFICES ASSUME NEW q \in Runs
                 PROVE  RunOrdered(q)' /\ EventPrepared(q)'
      BY DEF RunsOK
    <2>1. RunOrdered(q) /\ EventPrepared(q)
      BY DEF Inv, RunsOK
    <2>2. CASE q = r
      <3>1. ASSUME NEW c \in Codes, result[r][c] \in Finals
            PROVE  2 * c < at[r] + 1
        BY <1>0, <2>1, <2>2, <3>1, Constants DEF RunOrdered, Codes
      <3>2. /\ pc'[r] = "callback" /\ at'[r] = at[r] + 1 /\ result' = result
            /\ run' = run /\ status' = status /\ unannounced' = unannounced
        BY <1>a, <1>d
      <3>3. at'[r] # 0
        BY <1>0, <3>2
      <3>4. \A c \in Codes : result'[r][c] \in Finals => 2 * c < at'[r]
        BY <3>1, <3>2
      <3>5. ~(r > run)
        BY <1>0, Types, Constants
      <3>6. RunOrdered(q)'
        <4> HIDE DEF Codes
        <4> QED BY <1>0, <2>2, <3>2, <3>3, <3>4, <3>5 DEF RunOrdered, Active
      <3>7. EventPrepared(q)'
        BY <2>2, <3>2 DEF EventPrepared
      <3> QED BY <3>6, <3>7
    <2>3. CASE q # r
      BY <1>a, <1>d, <2>1, <2>3 DEF RunOrdered, EventPrepared, brokerVars
    <2> QED BY <2>2, <2>3
  <1>3. SnapshotOK'
    BY <1>0, <1>a, <1>c, <1>e DEF Inv, SnapshotOK, brokerVars
  <1>4. ResultsStand
    BY <1>0, <1>a, <1>d, Types DEF ResultsStand
  <1>5. UNCHANGED <<brokerVars, tabVars>>
    BY <1>a
  <1>6. KeptOK'
    <2>1. ASSUME NEW i \in 1..Len(buffer), buffer[i].type = "progress", buffer[i].run = run
          PROVE  buffer[i].id <= event[r].id
      BY <1>0, <2>1 DEF Inv, KeptOK, NotedOK, Last
    <2>2. NotedOK'
      BY <1>0, <1>a, <1>c, <1>d, <2>1 DEF NotedOK, brokerVars, Last
    <2>3. ASSUME NEW i \in 1..Len(buffer), IsRunning(buffer[i])
          PROVE  SnapshotKnows(buffer[i])'
      BY <1>a, <1>c, <1>e, <2>1, <2>3 DEF SnapshotKnows, brokerVars, IsRunning
    <2> QED BY <1>5, <2>2, <2>3, KeptStays
  <1> QED BY <1>1, <1>2, <1>3, <1>4, <1>5, <1>6, BufferStays, TabStays DEF Inv

\* Nothing that is known changes when neither verdicts nor sent events do.
LEMMA QuietKeeps ==
    ASSUME Inv, TypeOK', RunsOK',
           UNCHANGED <<run, snapshot, at, result, brokerVars, tabVars>>,
           \A r \in Runs : \/ pc'[r] = pc[r] /\ event'[r] = event[r]
                           \/ pc[r] = "callback" /\ pc'[r] = "announcing" /\ at[r] # 0
    PROVE  Inv'
  <1>1. SnapshotOK'
    BY DEF Inv, SnapshotOK, brokerVars
  <1>2. ResultsStand
    BY Types DEF ResultsStand, Inv
  <1>3. NotedOK'
    <2>1. ASSUME NEW i \in 1..Len(buffer), buffer[i].type = "progress", buffer[i].run = run
          PROVE  run \in Runs
      BY <2>1 DEF Inv, BufferOK, EventOK, Last
    <2> QED BY <2>1 DEF Inv, KeptOK, NotedOK, brokerVars, Last
  <1>4. KeptOK'
    <2>1. ASSUME NEW i \in 1..Len(buffer), IsRunning(buffer[i])
          PROVE  SnapshotKnows(buffer[i])'
      BY <2>1 DEF Inv, KeptOK, KnownOK, SnapshotKnows, Last, brokerVars
    <2> QED BY <1>3, <2>1, KeptStays
  <1>5. UNCHANGED brokerVars /\ UNCHANGED <<brokerVars, tabVars>>
    OBVIOUS
  <1> QED BY <1>1, <1>2, <1>4, <1>5, BufferStays, TabStays DEF Inv

\* The commit frees the run control for a next run.
LEMMA CommitKeeps ==
    ASSUME Inv, NEW r \in Runs, Commit(r)
    PROVE  Inv'
  <1>0. /\ TypeOK /\ r = run /\ r \in 0..MaxRuns /\ pc[r] = "callback" /\ Returned(r)
        /\ at[r] # 0
    BY Constants DEF Inv, Runs, RunsOK, RunOrdered, Active, Commit, Returned
  <1>a. /\ pc' = [pc EXCEPT ![r] = "announcing"] /\ status' \in Statuses
        /\ event' = [event EXCEPT ![r] = StateChange(run, status')]
        /\ UNCHANGED <<run, snapshot, unannounced, at, ctxDone, result, cancelPc,
                       brokerVars, tabVars>>
    BY DEF Commit, Statuses
  <1>b. /\ StateChange(run, status') \in Events /\ StateChange(run, status').run = r
        /\ StateChange(run, status').type = "state_change"
    BY <1>0, <1>a, StateChangeEvent
  <1>d. event \in [Runs -> Events] /\ pc \in [Runs -> CallbackPcs]
    BY <1>0 DEF TypeOK, RunsTypeOK
  <1>1. TypeOK'
    <2>1. StateTypeOK'
      BY <1>0, <1>a DEF TypeOK, StateTypeOK
    <2>2. RunsTypeOK'
      BY <1>0, <1>a, <1>b, <1>d DEF TypeOK, RunsTypeOK, CallbackPcs
    <2> QED BY <1>0, <1>a, <2>1, <2>2, SameTypes DEF TypeOK
  <1>2. RunsOK'
    <2> SUFFICES ASSUME NEW q \in Runs
                 PROVE  RunOrdered(q)' /\ EventPrepared(q)'
      BY DEF RunsOK
    <2>1. RunOrdered(q) /\ EventPrepared(q)
      BY DEF Inv, RunsOK
    <2>2. CASE q = r
      <3>1. RunOrdered(q)'
        <4>1. r \notin unannounced
          BY <1>0, <2>1, <2>2 DEF RunOrdered
        <4>2. ASSUME NEW c \in Codes, result[r][c] \in Finals
              PROVE  2 * c < at[r]
          BY <1>0, <2>1, <2>2, <4>2 DEF RunOrdered
        <4>3. pc'[r] = "announcing"
          BY <1>a, <1>d
        <4>4. ~(r > run)
          BY <1>0, Types, Constants
        <4> QED BY <1>0, <1>a, <2>2, <4>1, <4>2, <4>3, <4>4 DEF RunOrdered, Active
      <3>2. EventPrepared(q)'
        BY <1>0, <1>a, <1>b, <1>d, <2>2 DEF EventPrepared
      <3> QED BY <3>1, <3>2
    <2>3. CASE q # r
      <3>1. pc'[q] = pc[q] /\ event'[q] = event[q] /\ pc[q] \notin Active
        BY <1>0, <1>a, <1>d, <2>1, <2>3 DEF RunOrdered
      <3> QED BY <1>a, <2>1, <3>1 DEF RunOrdered, EventPrepared, brokerVars, Active
    <2> QED BY <2>2, <2>3
  <1>3. \A q \in Runs : \/ pc'[q] = pc[q] /\ event'[q] = event[q]
                        \/ pc[q] = "callback" /\ pc'[q] = "announcing" /\ at[q] # 0
    BY <1>0, <1>a, <1>d
  <1> QED BY <1>1, <1>2, <1>3, <1>a, QuietKeeps

\* A cancel request is remembered before it is announced.
LEMMA RequestCancelKeeps ==
    ASSUME Inv, RequestCancel
    PROVE  Inv'
  <1>1. TypeOK'
    <2>1. StateTypeOK'
      BY DEF Inv, TypeOK, StateTypeOK, RequestCancel, Statuses, Executing
    <2>2. RunsTypeOK'
      BY DEF Inv, TypeOK, RunsTypeOK, RequestCancel
    <2> QED BY <2>1, <2>2, SameTypes DEF Inv, TypeOK, RequestCancel
  <1>2. RunsOK'
    BY DEF Inv, RunsOK, RunOrdered, EventPrepared, RequestCancel, Executing, brokerVars
  <1> QED BY <1>1, <1>2, QuietKeeps DEF RequestCancel

\* The run's context is cancelled.
LEMMA CallCancelKeeps ==
    ASSUME Inv, NEW r \in Runs, CallCancel(r)
    PROVE  Inv'
  <1>1. TypeOK'
    <2>1. RunsTypeOK'
      BY DEF Inv, TypeOK, RunsTypeOK, CallCancel
    <2> QED BY <2>1, SameTypes DEF Inv, TypeOK, CallCancel
  <1>2. RunsOK'
    BY DEF Inv, RunsOK, RunOrdered, EventPrepared, CallCancel, stateVars, brokerVars
  <1>3. UNCHANGED <<run, snapshot, at, result, brokerVars, tabVars>> /\ UNCHANGED <<pc, event>>
    BY DEF CallCancel, stateVars
  <1> QED BY <1>1, <1>2, <1>3, QuietKeeps

-----------------------------------------------------------------------------
(* The steps that broadcast.                                               *)

\* Which event may be broadcast at which point of a run.
Sendable(e) ==
    /\ e.run \in Runs
    /\ e.type = "progress" => /\ e.run = run /\ e.code \in Codes
                              /\ e.status = result[run][e.code]
                              /\ pc[run] = "broadcast" /\ pc'[run] = "note"
    /\ IsFinal(e) => pc'[e.run] = "done"
    /\ pc[e.run] = "done" => e.type = "state_change" /\ e.status = "running.cancelling"

\* What a broadcast may do to the runs.
Moved(r) ==
    \/ pc'[r] = pc[r] /\ event'[r] = event[r]
    \/ pc[r] = "announcing" /\ pc'[r] = "done"
    \/ pc[r] = "broadcast" /\ pc'[r] = "note" /\ event'[r].id = lastEventID + 1

\* The events in the buffer, and a sendable one that is added.
LEMMA Entries ==
    ASSUME Inv, NEW e \in Events, Broadcast(e), Sendable(e), UNCHANGED <<run, result>>,
           \A r \in Runs : Moved(r), NEW i \in 1..Len(buffer')
    PROVE  /\ EventOK(buffer[i])'
           /\ Old(i) => /\ i \in 1..Len(buffer) /\ EventOK(buffer[i])
                        /\ buffer[i].id \in Nat /\ buffer'[i] = buffer[i]
  <1>1. lastEventID' = lastEventID + 1 /\ lastEventID \in Nat
    BY BroadcastEntries DEF Inv
  <1>2. ASSUME Old(i)
        PROVE  /\ i \in 1..Len(buffer) /\ EventOK(buffer[i])
               /\ buffer[i].id \in Nat /\ buffer'[i] = buffer[i]
    BY <1>2, Types, EventFields DEF Old, Inv, BufferOK, Last
  <1>3. ASSUME Old(i)
        PROVE  EventOK(buffer[i])'
    <2>1. buffer[i].id <= lastEventID'
      BY <1>1, <1>2, <1>3 DEF EventOK
    <2>2. \A r \in Runs : pc[r] = "done" => pc'[r] = "done"
      BY DEF Moved
    <2> QED BY <1>2, <1>3, <2>1, <2>2 DEF EventOK, IsFinal
  <1>4. ASSUME New(i, e)
        PROVE  EventOK(buffer[i])'
    <2>1. buffer'[i].id <= lastEventID'
      BY <1>1, <1>4 DEF New
    <2>2. run <= run /\ result \in [Runs -> VerdictMap]
      BY Types DEF Inv
    <2>3. e.type = "progress" => e.status \in Verdicts
      BY <2>2 DEF Sendable, VerdictMap
    <2> QED BY <1>4, <2>1, <2>2, <2>3 DEF New, EventOK, IsFinal, Sendable
  <1>5. Old(i) \/ New(i, e)
    BY BroadcastEntries DEF Inv
  <1> QED BY <1>2, <1>3, <1>4, <1>5

\* What is broadcast comes last, with an id that nobody knows, and is in its place there.
LEMMA BroadcastKeeps ==
    ASSUME Inv, TypeOK', RunsOK', SnapshotOK', NEW e \in Events, Broadcast(e), Sendable(e),
           UNCHANGED <<run, snapshot, result, tabVars>>, \A r \in Runs : Moved(r)
    PROVE  Inv'
  <1>0. /\ TypeOK /\ lastEventID' = lastEventID + 1 /\ lastEventID \in Nat
        /\ subscribed' = subscribed /\ (~subscribed => buffer' = buffer)
        /\ \A i \in 1..Len(buffer') : Old(i) \/ New(i, e)
        /\ \A i, j \in 1..Len(buffer') : i < j => Old(i)
    BY BroadcastEntries DEF Inv
  <1>1. \A i \in 1..Len(buffer') :
            /\ EventOK(buffer[i])'
            /\ Old(i) => /\ i \in 1..Len(buffer) /\ EventOK(buffer[i])
                         /\ buffer[i].id \in Nat /\ buffer'[i] = buffer[i]
    BY Entries
  <1>2. /\ tab.last \in Nat /\ sync.snap.lastEventID \in Nat /\ snapshot.lastEventID \in Nat
        /\ tab.last <= lastEventID /\ sync.snap.lastEventID <= lastEventID
        /\ snapshot.lastEventID <= lastEventID
    BY <1>0, Types, SnapshotFields DEF Inv, SyncOK, SnapshotOK
  <1>3. StreamInOrder'
    <2> SUFFICES ASSUME NEW i \in 1..Len(buffer'), NEW j \in 1..Len(buffer'), i < j
                 PROVE  buffer'[i].id < buffer'[j].id
      BY DEF StreamInOrder
    <2>1. Old(i)
      BY <1>0
    <2>2. CASE Old(j)
      BY <1>1, <2>1, <2>2 DEF Inv, BufferOK, StreamInOrder
    <2>3. CASE New(j, e)
      <3>1. buffer'[i].id <= lastEventID /\ buffer'[i].id \in Nat
        BY <1>1, <2>1 DEF EventOK
      <3> QED BY <1>0, <2>3, <3>1 DEF New
    <2> QED BY <1>0, <2>2, <2>3
  <1>4. FinalStateIsLast'
    <2> SUFFICES ASSUME NEW i \in 1..Len(buffer'), NEW j \in 1..Len(buffer'), i < j,
                        IsFinal(buffer'[i]), buffer'[j].run = buffer'[i].run
                 PROVE  /\ buffer'[j].type = "state_change"
                        /\ buffer'[j].status = "running.cancelling"
      BY DEF FinalStateIsLast, IsFinal
    <2>1. Old(i)
      BY <1>0
    <2>2. CASE Old(j)
      BY <1>1, <2>1, <2>2 DEF Inv, BufferOK, FinalStateIsLast
    <2>3. CASE New(j, e)
      <3>1. pc[buffer'[i].run] = "done"
        BY <1>1, <2>1 DEF EventOK
      <3> QED BY <2>3, <3>1 DEF New, Sendable
    <2> QED BY <1>0, <2>2, <2>3
  <1>5. BufferOK'
    <2>1. ~subscribed' => buffer' = <<>>
      BY <1>0 DEF Inv, BufferOK
    <2> QED BY <1>1, <1>3, <1>4, <2>1 DEF BufferOK, Last
  <1>6. VerdictsAreTheRuns'
    BY DEF Inv, VerdictsAreTheRuns, tabVars
  <1>7. SyncOK'
    <2>1. sync.snap.lastEventID <= lastEventID' /\ tab.last <= lastEventID'
      BY <1>0, <1>2
    <2>2. ASSUME sync.stage # "idle", NEW i \in 1..Len(buffer')
          PROVE  buffer'[i].id > tab.last
      <3>1. CASE Old(i)
        BY <1>1, <2>2, <3>1 DEF Inv, SyncOK, Last
      <3>2. CASE New(i, e)
        BY <1>0, <1>2, <3>2 DEF New
      <3> QED BY <1>0, <3>1, <3>2
    <2> QED BY <2>1, <2>2 DEF Inv, SyncOK, tabVars, Last
  <1>8. SkippedOK'
    <2>1. ASSUME sync.stage = "reply", sync.snap.run = run, NEW i \in 1..Len(buffer'),
                 IsVerdict(buffer'[i]), buffer'[i].run = run,
                 buffer'[i].id <= sync.snap.lastEventID
          PROVE  sync.snap.verdict[buffer'[i].code] = buffer'[i].status
      <3>1. Old(i)
        BY <1>0, <1>2, <2>1 DEF New
      <3> QED BY <1>1, <2>1, <3>1 DEF Inv, SkippedOK, Last
    <2>2. NothingSkipped'
      <3> SUFFICES ASSUME NEW i \in 1..Len(buffer'), buffer'[i].id <= tab.last,
                          buffer'[i].type = "progress", buffer'[i].status \in Finals,
                          buffer'[i].run = run, buffer'[i].run = tab.shown.run
                   PROVE  tab.shown.verdict[buffer'[i].code] = buffer'[i].status
        BY DEF NothingSkipped, IsDuplicate, tabVars
      <3>1. Old(i)
        BY <1>0, <1>2 DEF New
      <3> QED BY <1>1, <3>1 DEF Inv, SkippedOK, NothingSkipped, IsDuplicate
    <2> QED BY <2>1, <2>2 DEF SkippedOK, IsVerdict, tabVars, Last
  <1>9. KeptOK'
    <2>1. NotedOK'
      <3> SUFFICES ASSUME NEW i \in 1..Len(buffer'), buffer'[i].type = "progress",
                          buffer'[i].run = run
                   PROVE  /\ pc'[run] \in {"callback", "broadcast"}
                                => buffer'[i].id <= snapshot.lastEventID
                          /\ pc'[run] = "note" => buffer'[i].id <= event'[run].id
        BY DEF NotedOK, Last
      <3>1. run \in Runs /\ buffer'[i].id <= lastEventID'
        BY <1>1 DEF EventOK
      <3>2. Moved(run)
        BY <3>1
      <3>3. CASE New(i, e)
        <4>1. e.type = "progress"
          BY <3>3 DEF New
        <4>2. pc[run] = "broadcast" /\ pc'[run] = "note"
          BY <4>1 DEF Sendable
        <4>3. event'[run].id = lastEventID + 1 /\ buffer'[i].id = lastEventID + 1
          BY <3>2, <3>3, <4>2 DEF Moved, New
        <4> QED BY <1>0, <4>2, <4>3
      <3>4. CASE Old(i)
        <4>1. buffer[i].type = "progress" /\ buffer[i].run = run /\ i \in 1..Len(buffer)
          BY <1>1, <3>4
        <4>2. /\ pc[run] \in {"callback", "broadcast"} => buffer[i].id <= snapshot.lastEventID
              /\ pc[run] = "note" => buffer[i].id <= event[run].id
          BY <4>1 DEF Inv, KeptOK, NotedOK, Last
        <4>3. buffer[i].id <= lastEventID + 1 /\ buffer'[i] = buffer[i]
          BY <1>0, <1>1, <3>1, <3>4
        <4> QED BY <3>2, <4>2, <4>3 DEF Moved
      <3> QED BY <1>0, <3>3, <3>4
    <2>2. ASSUME NEW i \in 1..Len(buffer'), IsRunning(buffer'[i])
          PROVE  (SnapshotKnows(buffer[i]) /\ SyncKnows(buffer[i]) /\ TabKnows(buffer[i]))'
      <3>1. CASE Old(i)
        <4>1. i \in 1..Len(buffer) /\ buffer'[i] = buffer[i] /\ IsRunning(buffer[i])
          BY <1>1, <2>2, <3>1
        <4> QED BY <4>1 DEF Inv, KeptOK, KnownOK, Last, SnapshotKnows, SyncKnows, TabKnows, tabVars
      <3>2. CASE New(i, e)
        <4>1. /\ buffer'[i].run = run /\ run \in Runs /\ buffer'[i].code \in Codes
              /\ result[run][buffer'[i].code] \notin Finals
          BY <2>2, <3>2 DEF New, IsRunning, Sendable
        <4> DEFINE c == buffer'[i].code
        <4>2. snapshot.run = run => snapshot.verdict[c] \notin Finals
          BY <4>1 DEF Inv, SnapshotOK
        <4>3. sync.snap.run = run => sync.snap.verdict[c] \notin Finals
          BY <4>1 DEF Inv, SyncOK
        <4>4. tab.shown.run = run => tab.shown.verdict[c] \notin Finals
          BY <4>1 DEF Inv, VerdictsAreTheRuns
        <4> QED BY <4>1, <4>2, <4>3, <4>4 DEF SnapshotKnows, SyncKnows, TabKnows, tabVars
      <3> QED BY <1>0, <3>1, <3>2
    <2>3. StartsFirst'
      <3> SUFFICES ASSUME NEW i \in 1..Len(buffer'), NEW j \in 1..Len(buffer'), i < j,
                          IsVerdict(buffer'[i]), IsRunning(buffer'[j]),
                          buffer'[i].run = buffer'[j].run, buffer'[i].code = buffer'[j].code
                   PROVE  FALSE
        BY DEF StartsFirst, Last, IsVerdict, IsRunning
      <3>1. Old(i)
        BY <1>0
      <3>2. CASE Old(j)
        BY <1>1, <3>1, <3>2 DEF Inv, KeptOK, StartsFirst, Last
      <3>3. CASE New(j, e)
        <4>1. result[buffer'[i].run][buffer'[i].code] \in Finals
          BY <1>1, <3>1 DEF EventOK, IsVerdict
        <4>2. /\ buffer'[j].run = run /\ result[run][buffer'[j].code] \notin Finals
          BY <3>3 DEF New, IsRunning, Sendable
        <4> QED BY <4>1, <4>2
      <3> QED BY <1>0, <3>2, <3>3
    <2> QED BY <2>1, <2>2, <2>3 DEF KeptOK, KnownOK, Last, IsRunning
  <1> QED BY <1>5, <1>6, <1>7, <1>8, <1>9 DEF Inv

\* What a broadcast leaves: the types of the broker, the snapshot, and the runs that are
\* not concerned.
LEMMA BroadcastLeaves ==
    ASSUME Inv, NEW e \in Events, Broadcast(e),
           UNCHANGED <<status, run, snapshot, at, result>>, unannounced' \subseteq unannounced,
           pc[run] = "callback" => pc'[run] = "callback"
    PROVE  /\ BrokerTypeOK'
           /\ SnapshotOK'
           /\ \A r \in Runs : UNCHANGED <<pc[r], event[r]>> =>
                  RunOrdered(r)' /\ EventPrepared(r)'
  <1>1. lastEventID' = lastEventID + 1 /\ lastEventID \in Nat /\ BrokerTypeOK'
    BY BroadcastEntries DEF Inv, TypeOK, BrokerTypeOK
  <1>2. SnapshotOK'
    <2>1. snapshot.lastEventID <= lastEventID'
      BY <1>1, Types, SnapshotFields DEF Inv, SnapshotOK
    <2> QED BY <2>1 DEF Inv, SnapshotOK
  <1>3. ASSUME NEW r \in Runs, UNCHANGED <<pc[r], event[r]>>
        PROVE  RunOrdered(r)' /\ EventPrepared(r)'
    <2>1. RunOrdered(r) /\ EventPrepared(r) /\ event[r].id \in Nat
      BY Types, EventFields DEF Inv, RunsOK
    <2>2. RunOrdered(r)'
      BY <1>3, <2>1 DEF RunOrdered
    <2>3. event[r].id <= lastEventID => event[r].id <= lastEventID'
      BY <1>1, <2>1
    <2> QED BY <1>3, <2>1, <2>2, <2>3 DEF EventPrepared
  <1> QED BY <1>1, <1>2, <1>3

\* The run is announced before its goroutine exists.
LEMMA AnnounceStartKeeps ==
    ASSUME Inv, NEW r \in Runs, AnnounceStart(r)
    PROVE  Inv'
  <1>0. TypeOK /\ r = run /\ pc[r] = "callback" /\ r \in 0..MaxRuns
    BY Types, Constants DEF Inv, Runs, RunsOK, RunOrdered, Active, AnnounceStart
  <1> DEFINE e == StateChange(r, "running")
  <1>1. /\ e \in Events /\ e.run = r /\ e.type = "state_change" /\ e.status = "running"
    BY <1>0, StateChangeEvent DEF Statuses, Executing
  <1>2. Broadcast(e)
    BY DEF AnnounceStart
  <1> HIDE DEF e
  <1>3. /\ unannounced' = unannounced \ {r}
        /\ UNCHANGED <<status, run, snapshot, at, pc, event, ctxDone, result, cancelPc,
                       tabVars>>
    BY DEF AnnounceStart, stateVars
  <1>4. BrokerTypeOK' /\ SnapshotOK' /\ RunsOK'
    BY <1>1, <1>2, <1>3, BroadcastLeaves DEF RunsOK
  <1>5. TypeOK'
    <2>1. RunsTypeOK'
      BY <1>0, <1>3 DEF TypeOK, RunsTypeOK
    <2> QED BY <1>0, <1>3, <1>4, <2>1, SameTypes DEF TypeOK, stateVars
  <1>6. Sendable(e) /\ \A q \in Runs : Moved(q)
    BY <1>0, <1>1, <1>3 DEF Sendable, Moved, IsFinal, Executing
  <1> QED BY <1>1, <1>2, <1>3, <1>4, <1>5, <1>6, BroadcastKeeps

\* A request to cancel is announced, whatever has become of the run meanwhile.
LEMMA AnnounceCancelKeeps ==
    ASSUME Inv, NEW r \in Runs, AnnounceCancel(r)
    PROVE  Inv'
  <1>0. TypeOK /\ r \in 0..MaxRuns
    BY Constants DEF Inv, Runs
  <1> DEFINE e == StateChange(r, "running.cancelling")
  <1>1. /\ e \in Events /\ e.run = r /\ e.type = "state_change"
        /\ e.status = "running.cancelling"
    BY <1>0, StateChangeEvent DEF Statuses, Executing
  <1>2. Broadcast(e)
    BY DEF AnnounceCancel
  <1> HIDE DEF e
  <1>3. /\ cancelPc' = [cancelPc EXCEPT ![r] = "announced"]
        /\ UNCHANGED <<status, run, snapshot, unannounced, at, pc, event, ctxDone, result,
                       tabVars>>
    BY DEF AnnounceCancel, stateVars
  <1>4. BrokerTypeOK' /\ SnapshotOK' /\ RunsOK'
    BY <1>1, <1>2, <1>3, BroadcastLeaves DEF RunsOK
  <1>5. TypeOK'
    <2>1. RunsTypeOK'
      BY <1>0, <1>3 DEF TypeOK, RunsTypeOK
    <2> QED BY <1>0, <1>3, <1>4, <2>1, SameTypes DEF TypeOK, stateVars
  <1>6. Sendable(e) /\ \A q \in Runs : Moved(q)
    BY <1>0, <1>1, <1>3 DEF Sendable, Moved, IsFinal, Executing
  <1> QED BY <1>1, <1>2, <1>3, <1>4, <1>5, <1>6, BroadcastKeeps

\* The observer broadcasts what it has written to the snapshot.
LEMMA BroadcastEventKeeps ==
    ASSUME Inv, NEW r \in Runs, BroadcastEvent(r)
    PROVE  Inv'
  <1>0. /\ TypeOK /\ r = run /\ pc[r] = "broadcast" /\ RunOrdered(r) /\ EventPrepared(r)
        /\ pc \in [Runs -> CallbackPcs] /\ event \in [Runs -> Events] /\ event[r] \in Events
    BY DEF Inv, RunsOK, RunOrdered, Active, BroadcastEvent, TypeOK, RunsTypeOK
  <1>1. Broadcast(event[r])
    BY DEF BroadcastEvent
  <1>2. lastEventID' = lastEventID + 1 /\ lastEventID \in Nat
    BY <1>0, <1>1, BroadcastEntries
  <1> DEFINE e == [event[r] EXCEPT !.id = lastEventID + 1]
  <1>3. e \in Events /\ e.id = lastEventID + 1
    BY <1>0, <1>2, EventNumbered
  <1>4. /\ pc' = [pc EXCEPT ![r] = "note"] /\ event' = [event EXCEPT ![r] = e]
        /\ UNCHANGED <<status, run, snapshot, unannounced, at, ctxDone, result, cancelPc,
                       tabVars>>
    BY DEF BroadcastEvent, stateVars, NextID
  <1> HIDE DEF e
  <1>5. BrokerTypeOK' /\ SnapshotOK'
    BY <1>0, <1>1, <1>4, BroadcastLeaves
  <1>6. RunsOK'
    <2> SUFFICES ASSUME NEW q \in Runs
                 PROVE  RunOrdered(q)' /\ EventPrepared(q)'
      BY DEF RunsOK
    <2>1. CASE q = r
      <3>1. pc'[r] = "note" /\ event'[r].id <= lastEventID'
        BY <1>0, <1>2, <1>3, <1>4
      <3> QED BY <1>0, <1>4, <2>1, <3>1 DEF RunOrdered, EventPrepared, Active
    <2>2. CASE q # r
      <3>1. UNCHANGED <<pc[q], event[q]>>
        BY <1>0, <1>4, <2>2
      <3> QED BY <1>0, <1>1, <1>4, <3>1, BroadcastLeaves
    <2> QED BY <2>1, <2>2
  <1>7. TypeOK'
    <2>1. RunsTypeOK'
      BY <1>0, <1>3, <1>4 DEF TypeOK, RunsTypeOK, CallbackPcs
    <2> QED BY <1>0, <1>4, <1>5, <2>1, SameTypes DEF TypeOK, stateVars
  <1>8. Sendable(event[r])
    <2>1. event[r].type \in {"state_change", "progress"}
      BY <1>0, EventFields
    <2> QED BY <1>0, <1>4, <2>1 DEF Sendable, EventPrepared, IsFinal
  <1>9. \A q \in Runs : Moved(q)
    BY <1>0, <1>3, <1>4 DEF Moved
  <1> QED BY <1>0, <1>1, <1>4, <1>5, <1>6, <1>7, <1>8, <1>9, BroadcastKeeps

\* The outcome is announced once the run is committed; no callback is left.
LEMMA AnnounceKeeps ==
    ASSUME Inv, NEW r \in Runs, Announce(r)
    PROVE  Inv'
  <1>0. /\ TypeOK /\ pc[r] = "announcing" /\ RunOrdered(r) /\ EventPrepared(r)
        /\ pc \in [Runs -> CallbackPcs] /\ event[r] \in Events
    BY DEF Inv, RunsOK, Announce, TypeOK, RunsTypeOK
  <1>1. Broadcast(event[r])
    BY DEF Announce
  <1>2. /\ pc' = [pc EXCEPT ![r] = "done"]
        /\ UNCHANGED <<status, run, snapshot, unannounced, at, event, ctxDone, result,
                       cancelPc, tabVars>>
    BY DEF Announce, stateVars
  <1>3. pc[run] = "callback" => pc'[run] = "callback"
    BY <1>0, <1>2
  <1>5. BrokerTypeOK' /\ SnapshotOK'
    BY <1>0, <1>1, <1>2, <1>3, BroadcastLeaves
  <1>6. RunsOK'
    <2> SUFFICES ASSUME NEW q \in Runs
                 PROVE  RunOrdered(q)' /\ EventPrepared(q)'
      BY DEF RunsOK
    <2>1. CASE q = r
      <3>1. pc'[r] = "done"
        BY <1>0, <1>2
      <3> QED BY <1>0, <1>2, <2>1, <3>1 DEF RunOrdered, EventPrepared, Active
    <2>2. CASE q # r
      <3>1. UNCHANGED <<pc[q], event[q]>>
        BY <1>0, <1>2, <2>2
      <3> QED BY <1>0, <1>1, <1>2, <1>3, <3>1, BroadcastLeaves
    <2> QED BY <2>1, <2>2
  <1>7. TypeOK'
    <2>1. RunsTypeOK'
      BY <1>0, <1>2 DEF TypeOK, RunsTypeOK, CallbackPcs
    <2> QED BY <1>0, <1>2, <1>5, <2>1, SameTypes DEF TypeOK, stateVars
  <1>8. Sendable(event[r]) /\ \A q \in Runs : Moved(q)
    BY <1>0, <1>2 DEF Sendable, EventPrepared, Moved
  <1> QED BY <1>0, <1>1, <1>2, <1>5, <1>6, <1>7, <1>8, BroadcastKeeps

-----------------------------------------------------------------------------
(* The steps of the tab.                                                   *)

TabType == [shown : ShownType, last : Nat]

\* The fields of a tab's state.
LEMMA TabFields ==
    ASSUME NEW t \in TabType
    PROVE  /\ t.shown \in ShownType /\ t.last \in Nat
           /\ \A s \in ShownType : /\ [t EXCEPT !.shown = s] \in TabType
                                   /\ [t EXCEPT !.shown = s].shown = s
                                   /\ [t EXCEPT !.shown = s].last = t.last
           /\ \A n \in Nat : /\ [t EXCEPT !.last = n] \in TabType
                             /\ [t EXCEPT !.last = n].shown = t.shown
                             /\ [t EXCEPT !.last = n].last = n
           /\ \A s \in ShownType, n \in Nat :
                 /\ [t EXCEPT !.shown = s, !.last = n] \in TabType
                 /\ [t EXCEPT !.shown = s, !.last = n].shown = s
                 /\ [t EXCEPT !.shown = s, !.last = n].last = n
  BY DEF TabType

\* The stages of a synchronisation.
LEMMA SyncFields ==
    /\ NoSync.stage = "idle" /\ NoSync.snap = FirstSnapshot
    /\ StartSync.stage = "state" /\ StartSync.snap = FirstSnapshot
    /\ NoSync \in [stage : SyncStages, snap : SnapshotType]
    /\ StartSync \in [stage : SyncStages, snap : SnapshotType]
  BY FirstSnapshotFields DEF NoSync, StartSync, SyncStages

\* What a step of the tab leaves alone.
LEMMA TabLeaves ==
    ASSUME Inv, UNCHANGED <<stateVars, runVars, lastEventID>>
    PROVE  /\ StateTypeOK' /\ RunsTypeOK' /\ RunsOK' /\ SnapshotOK'
           /\ UNCHANGED <<subscribed, buffer>> =>
                 BrokerTypeOK' /\ BufferOK' /\ NotedOK' /\ StartsFirst'
  <1>1. StateTypeOK' /\ RunsTypeOK'
    BY SameTypes DEF Inv
  <1>2. RunsOK'
    BY DEF Inv, RunsOK, RunOrdered, EventPrepared, stateVars, runVars
  <1>3. SnapshotOK'
    BY DEF Inv, SnapshotOK, stateVars, runVars
  <1>4. ASSUME UNCHANGED <<subscribed, buffer>>
        PROVE  BrokerTypeOK' /\ BufferOK' /\ NotedOK' /\ StartsFirst'
    <2>1. BrokerTypeOK'
      BY <1>4 DEF Inv, TypeOK, BrokerTypeOK
    <2>2. BufferOK'
      BY <1>4 DEF Inv, BufferOK, EventOK, StreamInOrder, FinalStateIsLast, IsFinal, Last,
                  stateVars, runVars
    <2>3. NotedOK' /\ StartsFirst'
      BY <1>4 DEF Inv, KeptOK, NotedOK, StartsFirst, IsVerdict, IsRunning, Last, stateVars,
                  runVars
    <2> QED BY <2>1, <2>2, <2>3
  <1> QED BY <1>1, <1>2, <1>3, <1>4

\* With nothing in the buffer there is nothing to be out of order.
LEMMA NothingBuffered ==
    ASSUME buffer' = <<>>
    PROVE  BufferOK' /\ NotedOK' /\ StartsFirst' /\ KnownOK' /\ NothingSkipped'
  <1>1. Len(buffer') = 0
    OBVIOUS
  <1> QED BY <1>1 DEF BufferOK, NotedOK, StartsFirst, KnownOK, NothingSkipped, StreamInOrder,
                      FinalStateIsLast, Last

\* A stream is opened.
LEMMA OpenStreamKeeps ==
    ASSUME Inv, OpenStream
    PROVE  Inv'
  <1>0. /\ TypeOK /\ buffer = <<>> /\ buffer' = <<>> /\ opened' \in 0..MaxStreams
        /\ UNCHANGED <<stateVars, runVars, lastEventID, tab>>
    BY Constants DEF Inv, BufferOK, OpenStream, TypeOK, TabTypeOK
  <1>1. /\ sync' = sync \/ sync' = StartSync
        /\ sync' \in [stage : SyncStages, snap : SnapshotType]
    BY <1>0, SyncFields DEF OpenStream, TypeOK, TabTypeOK
  <1>2. TypeOK'
    <2>1. BrokerTypeOK'
      BY <1>0 DEF TypeOK, BrokerTypeOK, OpenStream
    <2>2. TabTypeOK'
      BY <1>0, <1>1 DEF TypeOK, TabTypeOK
    <2> QED BY <1>0, <2>1, <2>2, TabLeaves DEF TypeOK
  <1>3. VerdictsAreTheRuns'
    BY <1>0 DEF Inv, VerdictsAreTheRuns, runVars
  <1>4. SyncOK'
    <2>1. CASE sync' = sync
      BY <1>0, <2>1 DEF Inv, SyncOK, Last, runVars
    <2>2. CASE sync' = StartSync
      BY <1>0, <2>2, Types, SyncFields, FirstSnapshotFields, VerdictMaps, Constants
         DEF Inv, SyncOK, Last, runVars
    <2> QED BY <1>1, <2>1, <2>2
  <1>5. SkippedOK' /\ KeptOK'
    BY <1>0, NothingBuffered DEF SkippedOK, KeptOK, Last
  <1> QED BY <1>0, <1>2, <1>3, <1>4, <1>5, TabLeaves, NothingBuffered DEF Inv

\* A stream is lost, with all that it held.
LEMMA LoseStreamKeeps ==
    ASSUME Inv, LoseStream
    PROVE  Inv'
  <1>0. /\ TypeOK /\ buffer' = <<>> /\ subscribed' = FALSE
        /\ UNCHANGED <<stateVars, runVars, lastEventID, tabVars>>
    BY DEF Inv, LoseStream
  <1>1. TypeOK'
    <2>1. BrokerTypeOK'
      <3>1. <<>> \in Seq(Events) /\ Len(<<>>) <= Capacity
        BY Constants
      <3> QED BY <1>0, <3>1 DEF TypeOK, BrokerTypeOK
    <2> QED BY <1>0, <2>1, TabLeaves, SameTypes DEF TypeOK
  <1>2. VerdictsAreTheRuns' /\ SyncOK'
    BY <1>0 DEF Inv, VerdictsAreTheRuns, SyncOK, Last, runVars, tabVars
  <1>3. SkippedOK' /\ KeptOK'
    BY <1>0, NothingBuffered DEF SkippedOK, KeptOK, Last
  <1> QED BY <1>0, <1>1, <1>2, <1>3, TabLeaves, NothingBuffered DEF Inv

\* Without a run under way the tab drops what it showed.
LEMMA TakeStateKeeps ==
    ASSUME Inv, TakeState
    PROVE  Inv'
  <1>0. /\ TypeOK /\ sync.stage = "state" /\ UNCHANGED <<stateVars, runVars, brokerVars, opened>>
        /\ tab \in TabType /\ sync \in [stage : SyncStages, snap : SnapshotType]
    BY DEF Inv, TakeState, TypeOK, TabTypeOK, TabType
  <1>1. CASE sync' = [sync EXCEPT !.stage = "snapshot"] /\ tab' = tab
    <2>1. /\ sync'.stage = "snapshot" /\ sync'.snap = sync.snap
          /\ sync' \in [stage : SyncStages, snap : SnapshotType]
      BY <1>0, <1>1 DEF SyncStages
    <2>2. TypeOK'
      BY <1>0, <1>1, <2>1, TabLeaves DEF TypeOK, TabTypeOK, brokerVars
    <2>3. VerdictsAreTheRuns' /\ SyncOK' /\ SkippedOK' /\ KnownOK'
      <3>1. VerdictsAreTheRuns'
        BY <1>0, <1>1 DEF Inv, VerdictsAreTheRuns, runVars
      <3>2. SyncOK'
        BY <1>0, <1>1, <2>1 DEF Inv, SyncOK, Last, runVars, brokerVars
      <3>3. SkippedOK'
        BY <1>0, <1>1, <2>1 DEF Inv, SkippedOK, NothingSkipped, IsDuplicate, Last, stateVars,
                                brokerVars
      <3>4. KnownOK'
        BY <1>0, <1>1, <2>1 DEF Inv, KeptOK, KnownOK, SnapshotKnows, SyncKnows, TabKnows, Last,
                                IsRunning, stateVars, brokerVars
      <3> QED BY <3>1, <3>2, <3>3, <3>4
    <2> QED BY <1>0, <2>2, <2>3, TabLeaves DEF Inv, KeptOK, brokerVars
  <1>2. CASE sync' = NoSync /\ tab' = [tab EXCEPT !.shown = Fresh(NoExecution)]
    <2>1. /\ tab' \in TabType /\ tab'.last = tab.last /\ tab'.shown.run = NoExecution
          /\ \A c \in Codes : tab'.shown.verdict[c] \notin Finals
      <3>1. /\ Fresh(NoExecution) \in ShownType /\ Fresh(NoExecution).run = NoExecution
            /\ Fresh(NoExecution).verdict = AllPending
        BY FreshFields
      <3>2. tab' \in TabType /\ tab'.last = tab.last /\ tab'.shown = Fresh(NoExecution)
        BY <1>0, <1>2, <3>1, TabFields
      <3> QED BY <3>1, <3>2, VerdictMaps, Constants
    <2>2. /\ sync'.stage = "idle" /\ \A c \in Codes : sync'.snap.verdict[c] \notin Finals
          /\ sync'.snap.lastEventID = 0 /\ sync' \in [stage : SyncStages, snap : SnapshotType]
      BY <1>2, SyncFields, FirstSnapshotFields, VerdictMaps, Constants
    <2>3. TypeOK'
      BY <1>0, <2>1, <2>2, TabLeaves DEF TypeOK, TabTypeOK, TabType, brokerVars
    <2>4. VerdictsAreTheRuns'
      BY <2>1 DEF VerdictsAreTheRuns
    <2>5. SyncOK'
      <3>1. 0 <= lastEventID /\ tab.last <= lastEventID
        BY <1>0, Types DEF Inv, SyncOK
      <3> QED BY <1>0, <2>1, <2>2, <3>1 DEF SyncOK, brokerVars
    <2>6. SkippedOK'
      <3>1. run # NoExecution
        BY <1>0, Types DEF NoExecution
      <3> QED BY <1>0, <2>1, <2>2, <3>1 DEF SkippedOK, NothingSkipped, stateVars
    <2>7. KnownOK'
      <3> SUFFICES ASSUME NEW i \in 1..Len(buffer), IsRunning(buffer[i])
                   PROVE  (SnapshotKnows(buffer[i]) /\ SyncKnows(buffer[i])
                           /\ TabKnows(buffer[i]))'
        BY <1>0 DEF KnownOK, Last, IsRunning, brokerVars
      <3>1. buffer[i].code \in Codes /\ SnapshotKnows(buffer[i])
        BY DEF Inv, BufferOK, EventOK, IsRunning, KeptOK, KnownOK, Last
      <3> QED BY <1>0, <2>1, <2>2, <3>1
              DEF SnapshotKnows, SyncKnows, TabKnows, stateVars, brokerVars
    <2> QED BY <1>0, <2>3, <2>4, <2>5, <2>6, <2>7, TabLeaves DEF Inv, KeptOK, brokerVars
  <1> QED BY <1>1, <1>2 DEF TakeState

\* A synchronisation that fails is forgotten.
LEMMA FailSyncKeeps ==
    ASSUME Inv, FailSync
    PROVE  Inv'
  <1>0. /\ TypeOK /\ tab' = tab /\ sync' = NoSync
        /\ UNCHANGED <<stateVars, runVars, brokerVars, opened>>
        /\ sync'.stage = "idle" /\ \A c \in Codes : sync'.snap.verdict[c] \notin Finals
        /\ sync'.snap.lastEventID = 0 /\ sync' \in [stage : SyncStages, snap : SnapshotType]
    BY SyncFields, FirstSnapshotFields, VerdictMaps, Constants DEF Inv, FailSync
  <1>1. TypeOK'
    BY <1>0, TabLeaves DEF TypeOK, TabTypeOK, brokerVars
  <1>2. VerdictsAreTheRuns'
    BY <1>0 DEF Inv, VerdictsAreTheRuns, runVars
  <1>3. SyncOK'
    <2>1. 0 <= lastEventID /\ tab.last <= lastEventID
      BY <1>0, Types DEF Inv, SyncOK
    <2> QED BY <1>0, <2>1 DEF SyncOK, brokerVars
  <1>4. SkippedOK'
    BY <1>0 DEF Inv, SkippedOK, NothingSkipped, IsDuplicate, stateVars, brokerVars
  <1>5. KnownOK'
    <2> SUFFICES ASSUME NEW i \in 1..Len(buffer), IsRunning(buffer[i])
                 PROVE  (SnapshotKnows(buffer[i]) /\ SyncKnows(buffer[i])
                         /\ TabKnows(buffer[i]))'
      BY <1>0 DEF KnownOK, Last, IsRunning, brokerVars
    <2>1. buffer[i].code \in Codes /\ SnapshotKnows(buffer[i]) /\ TabKnows(buffer[i])
      BY DEF Inv, BufferOK, EventOK, IsRunning, KeptOK, KnownOK, Last
    <2> QED BY <1>0, <2>1 DEF SnapshotKnows, SyncKnows, TabKnows, stateVars, brokerVars
  <1> QED BY <1>0, <1>1, <1>2, <1>3, <1>4, <1>5, TabLeaves DEF Inv, KeptOK, brokerVars

\* The server answers with the snapshot of this moment.
LEMMA AnswerSnapshotKeeps ==
    ASSUME Inv, AnswerSnapshot
    PROVE  Inv'
  <1>0. /\ TypeOK /\ snapshot \in SnapshotType /\ sync \in [stage : SyncStages, snap : SnapshotType]
        /\ UNCHANGED <<stateVars, runVars, brokerVars, tab, opened>>
        /\ sync' = [sync EXCEPT !.stage = "reply", !.snap = snapshot]
    BY Types DEF Inv, AnswerSnapshot, TypeOK, TabTypeOK
  <1>1. /\ sync'.stage = "reply" /\ sync'.snap = snapshot /\ sync.stage = "snapshot"
        /\ sync' \in [stage : SyncStages, snap : SnapshotType]
    BY <1>0 DEF SyncStages, AnswerSnapshot
  <1>2. ASSUME NEW c \in Codes, snapshot.verdict[c] \in Finals
        PROVE  /\ snapshot.run \in Runs /\ snapshot.run = run
               /\ snapshot.verdict[c] = result[snapshot.run][c]
    <2>1. snapshot.verdict # AllPending
      BY <1>2, VerdictMaps, Constants
    <2>2. snapshot.run = run /\ run # NoRun
      BY <2>1 DEF Inv, SnapshotOK
    <2>3. run \in Runs
      BY <1>0, <2>2, Types, Constants DEF Runs, NoRun
    <2> QED BY <2>2, <2>3 DEF Inv, SnapshotOK
  <1>3. TypeOK'
    BY <1>0, <1>1, TabLeaves DEF TypeOK, TabTypeOK, brokerVars
  <1>4. VerdictsAreTheRuns'
    BY <1>0 DEF Inv, VerdictsAreTheRuns, runVars
  <1>5. SyncOK'
    <2>1. snapshot.lastEventID <= lastEventID
      BY DEF Inv, SnapshotOK
    <2> QED BY <1>0, <1>1, <1>2, <2>1 DEF Inv, SyncOK, Last, runVars, brokerVars
  <1>6. SkippedOK'
    <2>1. ASSUME snapshot.run = run, NEW i \in 1..Len(buffer), IsVerdict(buffer[i]),
                 buffer[i].run = run
          PROVE  snapshot.verdict[buffer[i].code] = buffer[i].status
      BY <2>1 DEF Inv, BufferOK, EventOK, IsVerdict, Last, SnapshotOK
    <2> QED BY <1>0, <1>1, <2>1 DEF Inv, SkippedOK, NothingSkipped, IsDuplicate, Last,
                                    IsVerdict, stateVars, brokerVars
  <1>7. KnownOK'
    BY <1>0, <1>1 DEF Inv, KeptOK, KnownOK, SnapshotKnows, SyncKnows, TabKnows, Last,
                      IsRunning, stateVars, brokerVars
  <1> QED BY <1>0, <1>3, <1>4, <1>5, <1>6, <1>7, TabLeaves DEF Inv, KeptOK, brokerVars

\* The tab keeps its verdict of assertion c rather than take the snapshot's.
Kept(t, s, c) ==
    t.shown.run = s.run /\ t.shown.verdict[c] \in Finals /\ s.verdict[c] \notin Finals

\* What the tab shows after it has merged a snapshot into its execution.
LEMMA Reconciled ==
    ASSUME NEW t \in TabType, NEW s \in SnapshotType
    PROVE  /\ ReconcileExecution(t, s) \in TabType
           /\ ReconcileExecution(t, s).shown.run = s.run
           /\ ReconcileExecution(t, s).last = Raise(t.last, s.lastEventID)
           /\ \A c \in Codes : ReconcileExecution(t, s).shown.verdict[c] =
                 IF Kept(t, s, c) THEN t.shown.verdict[c] ELSE s.verdict[c]
  <1>1. /\ s.run \in 0..MaxRuns /\ s.verdict \in VerdictMap /\ s.lastEventID \in Nat
        /\ t.shown.verdict \in VerdictMap /\ t.last \in Nat
    BY SnapshotFields, TabFields, ShownFields
  <1> DEFINE v == IF t.shown.run # s.run THEN s.verdict
                  ELSE [c \in Codes |-> Merge(t.shown.verdict[c], s.verdict[c])]
  <1> DEFINE n == [run |-> s.run, verdict |-> v]
  <1>2. /\ v \in VerdictMap
        /\ \A c \in Codes : v[c] = IF Kept(t, s, c) THEN t.shown.verdict[c] ELSE s.verdict[c]
    BY <1>1 DEF VerdictMap, Merge, Kept
  <1>3. n \in ShownType /\ n.run = s.run /\ n.verdict = v
    BY <1>1, <1>2 DEF ShownType, VerdictMap
  <1> DEFINE l == Raise(t.last, s.lastEventID)
  <1>4. l \in Nat
    BY <1>1 DEF Raise
  <1>5. ReconcileExecution(t, s) = [t EXCEPT !.shown = n, !.last = l]
    BY DEF ReconcileExecution
  <1> HIDE DEF v, n, l
  <1>6. /\ [t EXCEPT !.shown = n, !.last = l] \in TabType
        /\ [t EXCEPT !.shown = n, !.last = l].shown = n
        /\ [t EXCEPT !.shown = n, !.last = l].last = l
    BY <1>3, <1>4 DEF TabType
  <1> QED BY <1>2, <1>3, <1>5, <1>6 DEF l

\* A snapshot, old or new, is merged into what the tab shows.
LEMMA TakeSnapshotKeeps ==
    ASSUME Inv, TakeSnapshot
    PROVE  /\ Inv'
           /\ tab'.shown.run = tab.shown.run => \A c \in Codes :
                 tab.shown.verdict[c] \in Finals
                    => tab'.shown.verdict[c] = tab.shown.verdict[c]
  <1> DEFINE s == sync.snap
  <1>0. /\ TypeOK /\ tab \in TabType /\ s \in SnapshotType /\ sync.stage = "reply"
        /\ UNCHANGED <<stateVars, runVars, brokerVars, opened>>
        /\ tab' = ReconcileExecution(tab, s) /\ sync' = NoSync
    BY Types DEF Inv, TakeSnapshot, TypeOK, TabTypeOK, TabType
  <1>1. /\ tab' \in TabType /\ tab'.shown.run = s.run
        /\ tab'.last = Raise(tab.last, s.lastEventID)
        /\ \A c \in Codes : tab'.shown.verdict[c]
                = IF Kept(tab, s, c) THEN tab.shown.verdict[c] ELSE s.verdict[c]
    BY <1>0, Reconciled
  <1>2. /\ tab.last <= tab'.last /\ s.lastEventID <= tab'.last
        /\ tab'.last = tab.last \/ tab'.last = s.lastEventID
        /\ tab.last \in Nat /\ s.lastEventID \in Nat
        /\ tab.last <= lastEventID /\ s.lastEventID <= lastEventID
    <2>1. tab.last \in Nat /\ s.lastEventID \in Nat
      BY <1>0, TabFields, SnapshotFields
    <2> QED BY <1>1, <2>1 DEF Raise, Inv, SyncOK
  <1>3. /\ sync'.stage = "idle" /\ \A c \in Codes : sync'.snap.verdict[c] \notin Finals
        /\ sync'.snap.lastEventID = 0 /\ sync' \in [stage : SyncStages, snap : SnapshotType]
    BY <1>0, SyncFields, FirstSnapshotFields, VerdictMaps, Constants
  <1>4. \A c \in Codes : s.verdict[c] \in Finals
            => s.run \in Runs /\ s.verdict[c] = result[s.run][c]
    BY DEF Inv, SyncOK
  <1>5. \A c \in Codes : tab.shown.verdict[c] \in Finals
            => tab.shown.run \in Runs /\ tab.shown.verdict[c] = result[tab.shown.run][c]
    BY DEF Inv, VerdictsAreTheRuns
  <1> HIDE DEF s
  <1>6. tab'.shown.run = tab.shown.run => \A c \in Codes :
            tab.shown.verdict[c] \in Finals => tab'.shown.verdict[c] = tab.shown.verdict[c]
    BY <1>1, <1>4, <1>5 DEF Kept
  <1>7. TypeOK'
    BY <1>0, <1>1, <1>3, TabLeaves DEF TypeOK, TabTypeOK, TabType, brokerVars
  <1>8. VerdictsAreTheRuns'
    BY <1>0, <1>1, <1>4, <1>5 DEF VerdictsAreTheRuns, runVars, Kept
  <1>9. SyncOK'
    <2>1. 0 <= lastEventID /\ tab'.last <= lastEventID
      BY <1>0, <1>2, Types
    <2> QED BY <1>0, <1>3, <2>1 DEF SyncOK, brokerVars
  <1>10. SkippedOK'
    <2> SUFFICES ASSUME NEW i \in 1..Len(buffer), buffer[i].id <= tab'.last,
                        IsVerdict(buffer[i]), buffer[i].run = run, buffer[i].run = tab'.shown.run
                 PROVE  tab'.shown.verdict[buffer[i].code] = buffer[i].status
      BY <1>0, <1>3 DEF SkippedOK, NothingSkipped, IsDuplicate, IsVerdict, stateVars, brokerVars
    <2>1. buffer[i].id > tab.last /\ buffer[i].id \in Nat /\ buffer[i].code \in Codes
      BY <1>0, Types, EventFields DEF Inv, SyncOK, Last, BufferOK, EventOK, IsVerdict
    <2>2. buffer[i].id <= s.lastEventID /\ s.run = run
      BY <1>1, <1>2, <2>1
    <2>3. s.verdict[buffer[i].code] = buffer[i].status
      BY <1>0, <2>2 DEF Inv, SkippedOK, Last, s
    <2> QED BY <1>1, <2>1, <2>3 DEF IsVerdict, Kept
  <1>11. KnownOK'
    <2> SUFFICES ASSUME NEW i \in 1..Len(buffer), IsRunning(buffer[i])
                 PROVE  (SnapshotKnows(buffer[i]) /\ SyncKnows(buffer[i])
                         /\ TabKnows(buffer[i]))'
      BY <1>0 DEF KnownOK, Last, IsRunning, brokerVars
    <2>1. /\ buffer[i].code \in Codes /\ SnapshotKnows(buffer[i]) /\ TabKnows(buffer[i])
          /\ SyncKnows(buffer[i]) /\ buffer[i].id \in Nat
      BY <1>0, Types, EventFields DEF Inv, BufferOK, EventOK, IsRunning, KeptOK, KnownOK, Last
    <2>2. SnapshotKnows(buffer[i])' /\ SyncKnows(buffer[i])'
      BY <1>0, <1>3, <2>1 DEF SnapshotKnows, SyncKnows, stateVars, brokerVars
    <2>3. ASSUME tab'.shown.run = buffer[i].run, tab'.shown.verdict[buffer[i].code] \in Finals
          PROVE  buffer[i].id <= tab'.last
      <3>0. tab.last \in Nat /\ s.lastEventID \in Nat /\ tab'.last \in Nat
        BY <1>0, <1>1, TabFields, SnapshotFields
      <3>1. CASE ~Kept(tab, s, buffer[i].code)
        <4>1. buffer[i].id <= s.lastEventID
          BY <1>1, <2>1, <2>3, <3>1 DEF SyncKnows, s
        <4> QED BY <1>2, <2>1, <3>0, <4>1
      <3>2. CASE Kept(tab, s, buffer[i].code)
        <4>1. buffer[i].id <= tab.last
          BY <1>1, <2>1, <2>3, <3>2 DEF TabKnows, Kept
        <4> QED BY <1>2, <2>1, <3>0, <4>1
      <3> QED BY <3>1, <3>2
    <2> QED BY <1>0, <2>2, <2>3 DEF TabKnows, brokerVars
  <1> QED BY <1>0, <1>6, <1>7, <1>8, <1>9, <1>10, <1>11, TabLeaves DEF Inv, KeptOK, brokerVars

\* What the tab shows of assertion c when it takes in what concerns run r.
ShownFor(t, r, c) == IF t.shown.run = r THEN t.shown.verdict[c] ELSE "pending"

\* A change of the state starts the execution shown afresh if it is of another run.
Refreshed(t, u, e) ==
    \/ u.shown = t.shown
    \/ /\ t.shown.run # e.run /\ u.shown.run = e.run
       /\ \A c \in Codes : u.shown.verdict[c] = "pending"

\* An assertion's progress is shown in the run that it belongs to.
Progressed(t, u, e) ==
    /\ u.shown.run = e.run
    /\ \A c \in Codes : u.shown.verdict[c] =
           IF c = e.code THEN e.status ELSE ShownFor(t, e.run, c)

\* What the tab makes of an event that it does not drop.
LEMMA Received ==
    ASSUME NEW t \in TabType, NEW e \in Events, ~IsDuplicate(t, e),
           e.type = "progress" => e.run \in Runs /\ e.code \in Codes /\ e.status \in Verdicts
    PROVE  /\ Receive(t, e) \in TabType /\ Receive(t, e).last = e.id
           /\ e.type = "state_change" => Refreshed(t, Receive(t, e), e)
           /\ e.type = "progress" => Progressed(t, Receive(t, e), e)
  <1> DEFINE u == [t EXCEPT !.last = e.id]
  <1>0. /\ e.id \in Nat /\ e.run \in 0..MaxRuns /\ t.shown \in ShownType
        /\ e.type \in {"state_change", "progress"} /\ e.run \in {NoExecution} \cup 0..MaxRuns
    BY EventFields, TabFields
  <1>1. u \in TabType /\ u.last = e.id /\ u.shown = t.shown
    BY <1>0, TabFields
  <1>2. Receive(t, e) = IF e.type = "state_change" THEN HandleStateChange(u, e.status, e.run)
                        ELSE HandleAssertionProgress(u, e)
    BY DEF Receive
  <1> HIDE DEF u
  <1> DEFINE f == FreshUnless(t.shown, e.run)
  <1>3. /\ f \in ShownType /\ f.run = e.run
        /\ t.shown.run = e.run => f = t.shown
        /\ \A c \in Codes : f.verdict[c] = ShownFor(t, e.run, c)
    BY <1>0, FreshFields, VerdictMaps DEF FreshUnless, ShownFor
  <1>4. FreshUnless(u.shown, e.run) = f
    BY <1>1
  <1> HIDE DEF f
  <1>5. CASE e.type = "state_change"
    <2>1. CASE Receive(t, e) = u
      BY <1>1, <1>5, <2>1 DEF Refreshed
    <2>2. CASE Receive(t, e) = [u EXCEPT !.shown = f]
      <3>1. /\ Receive(t, e) \in TabType /\ Receive(t, e).last = e.id
            /\ Receive(t, e).shown = f
        BY <1>1, <1>3, <2>2 DEF TabType
      <3> QED BY <1>3, <1>5, <3>1 DEF Refreshed, ShownFor
    <2> QED BY <1>2, <1>4, <1>5, <2>1, <2>2 DEF HandleStateChange
  <1>6. CASE e.type = "progress"
    <2> DEFINE g == [f EXCEPT !.verdict[e.code] = e.status]
    <2>1. Receive(t, e) = [u EXCEPT !.shown = g]
      BY <1>2, <1>4, <1>6 DEF HandleAssertionProgress
    <2>2. /\ g \in ShownType /\ g.run = e.run
          /\ \A c \in Codes : g.verdict[c] = IF c = e.code THEN e.status ELSE f.verdict[c]
      BY <1>3, <1>6 DEF ShownType
    <2> HIDE DEF g
    <2>3. /\ Receive(t, e) \in TabType /\ Receive(t, e).last = e.id
          /\ Receive(t, e).shown = g
      BY <1>1, <2>1, <2>2 DEF TabType
    <2> QED BY <1>3, <1>6, <2>2, <2>3 DEF Progressed
  <1> QED BY <1>0, <1>5, <1>6

\* What is left of the buffer when its first event is taken.
LEMMA TailLeaves ==
    ASSUME Inv, buffer # <<>>, buffer' = Tail(buffer),
           UNCHANGED <<stateVars, runVars, lastEventID, subscribed>>
    PROVE  /\ BrokerTypeOK' /\ BufferOK' /\ NotedOK' /\ StartsFirst'
           /\ EventOK(Head(buffer)) /\ Head(buffer) \in Events /\ 1 \in 1..Len(buffer)
           /\ Head(buffer) = buffer[1]
           /\ \A i \in 1..Len(buffer') :
                 /\ i + 1 \in 1..Len(buffer) /\ 1 < i + 1 /\ buffer'[i] = buffer[i + 1]
                 /\ EventOK(buffer[i + 1]) /\ buffer[i + 1].id \in Nat
                 /\ Head(buffer).id < buffer[i + 1].id
  <1>0. /\ buffer \in Seq(Events) /\ Len(buffer) \in Nat /\ Len(buffer) <= Capacity
        /\ \A i \in 1..Len(buffer) : buffer[i] \in Events /\ EventOK(buffer[i])
    BY Types DEF Inv, TypeOK, BrokerTypeOK, BufferOK, Last
  <1>1. /\ Head(buffer) \in Events /\ Head(buffer) = buffer[1] /\ 1 \in 1..Len(buffer)
        /\ buffer' \in Seq(Events) /\ Len(buffer') = Len(buffer) - 1
        /\ \A i \in 1..Len(buffer') : i + 1 \in 1..Len(buffer) /\ buffer'[i] = buffer[i + 1]
    BY <1>0, TailEntries
  <1>2. \A i \in 1..Len(buffer') :
            /\ i + 1 \in 1..Len(buffer) /\ 1 < i + 1 /\ buffer'[i] = buffer[i + 1]
            /\ EventOK(buffer[i + 1]) /\ buffer[i + 1].id \in Nat
            /\ Head(buffer).id < buffer[i + 1].id
    <2> SUFFICES ASSUME NEW i \in 1..Len(buffer')
                 PROVE  /\ 1 < i + 1 /\ EventOK(buffer[i + 1]) /\ buffer[i + 1].id \in Nat
                        /\ buffer[1].id < buffer[i + 1].id
      BY <1>1
    <2>1. i + 1 \in 1..Len(buffer) /\ 1 < i + 1
      BY <1>0, <1>1
    <2>2. buffer[1].id < buffer[i + 1].id
      BY <1>1, <2>1 DEF Inv, BufferOK, StreamInOrder
    <2> QED BY <1>0, <2>1, <2>2, EventFields
  <1>3. \A i, j \in 1..Len(buffer') : i < j =>
            /\ i + 1 \in 1..Len(buffer) /\ j + 1 \in 1..Len(buffer) /\ i + 1 < j + 1
            /\ buffer'[i] = buffer[i + 1] /\ buffer'[j] = buffer[j + 1]
    BY <1>0, <1>1
  <1>4. BrokerTypeOK'
    <2>1. Len(buffer') <= Capacity
      BY <1>0, <1>1, Constants
    <2> QED BY <1>1, <2>1 DEF Inv, TypeOK, BrokerTypeOK
  <1>5. BufferOK'
    <2>1. ~subscribed' => buffer' = <<>>
      BY DEF Inv, BufferOK
    <2>2. \A i \in 1..Len(buffer') : EventOK(buffer[i])'
      BY <1>2 DEF EventOK, IsFinal, stateVars, runVars
    <2>3. StreamInOrder' /\ FinalStateIsLast'
      BY <1>3 DEF Inv, BufferOK, StreamInOrder, FinalStateIsLast, IsFinal
    <2> QED BY <2>1, <2>2, <2>3 DEF BufferOK, Last
  <1>6. NotedOK'
    BY <1>2 DEF Inv, KeptOK, NotedOK, Last, stateVars, runVars
  <1>7. StartsFirst'
    BY <1>3 DEF Inv, KeptOK, StartsFirst, IsVerdict, IsRunning, Last
  <1> QED BY <1>0, <1>1, <1>2, <1>4, <1>5, <1>6, <1>7

\* The tab takes in the next event of its stream.
LEMMA ServeKeeps ==
    ASSUME Inv, Serve
    PROVE  /\ Inv'
           /\ tab'.shown.run = tab.shown.run => \A c \in Codes :
                 tab.shown.verdict[c] \in Finals
                    => tab'.shown.verdict[c] = tab.shown.verdict[c]
  <1> DEFINE e == Head(buffer)
  <1>0. /\ TypeOK /\ tab \in TabType /\ buffer # <<>> /\ buffer' = Tail(buffer)
        /\ UNCHANGED <<stateVars, runVars, lastEventID, subscribed, opened, sync>>
        /\ tab' = Receive(tab, e)
    BY DEF Inv, Serve, TypeOK, TabTypeOK, TabType
  <1>1. /\ BrokerTypeOK' /\ BufferOK' /\ NotedOK' /\ StartsFirst'
        /\ EventOK(e) /\ e \in Events /\ e = buffer[1] /\ 1 \in 1..Len(buffer)
        /\ \A i \in 1..Len(buffer') :
                 /\ i + 1 \in 1..Len(buffer) /\ 1 < i + 1 /\ buffer'[i] = buffer[i + 1]
                 /\ EventOK(buffer[i + 1]) /\ buffer[i + 1].id \in Nat
                 /\ e.id < buffer[i + 1].id
    BY <1>0, TailLeaves
  <1> HIDE DEF e
  <1>2. /\ e.id \in Nat /\ tab.last \in Nat /\ e.type \in {"state_change", "progress"}
        /\ e.id <= lastEventID /\ tab.last <= lastEventID
    BY <1>0, <1>1, EventFields, TabFields DEF EventOK, Inv, SyncOK
  <1>3. \A c \in Codes : tab.shown.verdict[c] \in Finals
            => tab.shown.run \in Runs /\ tab.shown.verdict[c] = result[tab.shown.run][c]
    BY DEF Inv, VerdictsAreTheRuns
  <1>4. \/ IsDuplicate(tab, e) /\ tab' = tab
        \/ /\ tab.last < e.id /\ tab' \in TabType /\ tab'.last = e.id
           /\ e.type = "state_change" => Refreshed(tab, tab', e)
           /\ e.type = "progress" => Progressed(tab, tab', e)
    <2>1. CASE IsDuplicate(tab, e)
      BY <1>0, <2>1 DEF Receive
    <2>2. CASE ~IsDuplicate(tab, e)
      <3>1. tab.last < e.id
        BY <1>2, <2>2 DEF IsDuplicate
      <3>2. e.type = "progress" => e.run \in Runs /\ e.code \in Codes /\ e.status \in Verdicts
        BY <1>1 DEF EventOK
      <3> QED BY <1>0, <1>1, <2>2, <3>1, <3>2, Received
    <2> QED BY <2>1, <2>2
  <1>5. tab' \in TabType /\ tab'.last <= lastEventID /\ tab'.last \in Nat
    BY <1>0, <1>2, <1>4
  <1>6. TypeOK'
    BY <1>0, <1>1, <1>5, TabLeaves DEF TypeOK, TabTypeOK, TabType
  <1>7. VerdictsAreTheRuns'
    <2> SUFFICES ASSUME NEW c \in Codes, tab'.shown.verdict[c] \in Finals
                 PROVE  /\ tab'.shown.run \in Runs
                        /\ tab'.shown.verdict[c] = result[tab'.shown.run][c]
      BY <1>0 DEF VerdictsAreTheRuns, runVars
    <2>1. CASE tab'.shown = tab.shown
      BY <1>3, <2>1
    <2>2. CASE e.type = "progress" /\ Progressed(tab, tab', e)
      <3>1. CASE c = e.code
        BY <1>1, <2>2, <3>1 DEF Progressed, EventOK
      <3>2. CASE c # e.code
        BY <1>3, <2>2, <3>2, Constants DEF Progressed, ShownFor
      <3> QED BY <3>1, <3>2
    <2>3. CASE Refreshed(tab, tab', e)
      BY <1>3, <2>3, Constants DEF Refreshed
    <2> QED BY <1>2, <1>4, <2>1, <2>2, <2>3
  <1>8. SyncOK'
    <2>1. ASSUME sync.stage # "idle", NEW i \in 1..Len(buffer')
          PROVE  buffer'[i].id > tab'.last
      <3>1. buffer[i + 1].id > tab.last /\ buffer'[i] = buffer[i + 1]
        BY <1>1, <2>1 DEF Inv, SyncOK, Last
      <3>2. e.id < buffer[i + 1].id /\ buffer[i + 1].id \in Nat
        BY <1>1
      <3> QED BY <1>2, <1>4, <3>1, <3>2
    <2> QED BY <1>0, <1>5, <2>1 DEF Inv, SyncOK, Last, runVars
  <1>9. SkippedOK'
    <2>1. ASSUME sync.stage = "reply", sync.snap.run = run, NEW i \in 1..Len(buffer'),
                 IsVerdict(buffer'[i]), buffer'[i].run = run,
                 buffer'[i].id <= sync.snap.lastEventID
          PROVE  sync.snap.verdict[buffer'[i].code] = buffer'[i].status
      BY <1>1, <2>1 DEF Inv, SkippedOK, Last
    <2>2. ASSUME NEW i \in 1..Len(buffer'), buffer'[i].id <= tab'.last,
                 IsVerdict(buffer'[i]), buffer'[i].run = run, buffer'[i].run = tab'.shown.run
          PROVE  tab'.shown.verdict[buffer'[i].code] = buffer'[i].status
      <3>1. /\ i + 1 \in 1..Len(buffer) /\ buffer'[i] = buffer[i + 1]
            /\ e.id < buffer[i + 1].id /\ buffer[i + 1].id \in Nat
        BY <1>1
      <3>2. tab' = tab
        BY <1>2, <1>4, <2>2, <3>1
      <3> QED BY <2>2, <3>1, <3>2 DEF Inv, SkippedOK, NothingSkipped, IsDuplicate, IsVerdict
    <2> QED BY <1>0, <2>1, <2>2
            DEF SkippedOK, NothingSkipped, IsDuplicate, IsVerdict, Last, stateVars
  <1>10. KnownOK'
    <2> SUFFICES ASSUME NEW i \in 1..Len(buffer'), IsRunning(buffer'[i])
                 PROVE  (SnapshotKnows(buffer[i]) /\ SyncKnows(buffer[i])
                         /\ TabKnows(buffer[i]))'
      BY DEF KnownOK, Last, IsRunning
    <2> DEFINE b == buffer[i + 1]
    <2>1. /\ i + 1 \in 1..Len(buffer) /\ buffer'[i] = b /\ 1 < i + 1
          /\ e.id < b.id /\ b.id \in Nat /\ EventOK(b) /\ IsRunning(b)
      BY <1>1
    <2>2. SnapshotKnows(b) /\ SyncKnows(b) /\ TabKnows(b)
      BY <2>1 DEF Inv, KeptOK, KnownOK, Last
    <2>3. IsVerdict(e) => e.run # b.run \/ e.code # b.code
      BY <1>1, <2>1 DEF Inv, KeptOK, StartsFirst, Last
    <2> HIDE DEF b
    <2>4. SnapshotKnows(buffer[i])' /\ SyncKnows(buffer[i])'
      BY <1>0, <2>1, <2>2 DEF SnapshotKnows, SyncKnows, stateVars
    <2>5. ASSUME tab'.shown.run = b.run, tab'.shown.verdict[b.code] \in Finals
          PROVE  b.id <= tab'.last
      <3>0. b.code \in Codes
        BY <2>1 DEF EventOK, IsRunning
      <3>1. CASE tab' = tab
        BY <2>2, <2>5, <3>1 DEF TabKnows
      <3>2. CASE tab.last < e.id
        <4>1. ~(tab.shown.run = b.run /\ tab.shown.verdict[b.code] \in Finals)
          BY <1>2, <2>1, <2>2, <3>2 DEF TabKnows
        <4>2. CASE tab'.shown = tab.shown
          BY <2>5, <4>1, <4>2
        <4>3. CASE Refreshed(tab, tab', e)
          BY <2>5, <3>0, <4>1, <4>3, Constants DEF Refreshed
        <4>4. CASE e.type = "progress" /\ Progressed(tab, tab', e)
          <5>1. CASE b.code = e.code
            BY <2>3, <2>5, <3>0, <4>4, <5>1 DEF Progressed, IsVerdict
          <5>2. CASE b.code # e.code
            BY <2>5, <3>0, <4>1, <4>4, <5>2, Constants DEF Progressed, ShownFor
          <5> QED BY <5>1, <5>2
        <4> QED BY <1>2, <1>4, <4>2, <4>3, <4>4
      <3> QED BY <1>4, <3>1, <3>2
    <2> QED BY <2>1, <2>4, <2>5 DEF TabKnows
  <1>11. ASSUME tab'.shown.run = tab.shown.run, NEW c \in Codes,
                tab.shown.verdict[c] \in Finals
         PROVE  tab'.shown.verdict[c] = tab.shown.verdict[c]
    <2>1. CASE tab'.shown = tab.shown
      BY <2>1
    <2>2. CASE Refreshed(tab, tab', e)
      BY <1>11, <2>2 DEF Refreshed
    <2>3. CASE tab.last < e.id /\ e.type = "progress" /\ Progressed(tab, tab', e)
      <3>0. e.run = tab.shown.run
        BY <1>11, <2>3 DEF Progressed
      <3>1. CASE c # e.code
        BY <1>11, <2>3, <3>0, <3>1 DEF Progressed, ShownFor
      <3>2. CASE c = e.code /\ e.status \in Finals
        BY <1>1, <1>3, <1>11, <2>3, <3>0, <3>2 DEF Progressed, EventOK
      <3>3. CASE c = e.code /\ e.status \notin Finals
        <4>1. TabKnows(e)
          BY <1>1, <2>3, <3>3 DEF Inv, KeptOK, KnownOK, Last, IsRunning
        <4>2. e.id <= tab.last
          BY <1>11, <3>0, <3>3, <4>1 DEF TabKnows
        <4> QED BY <1>2, <2>3, <4>2
      <3> QED BY <3>1, <3>2, <3>3
    <2> QED BY <1>2, <1>4, <2>1, <2>2, <2>3
  <1> QED BY <1>0, <1>1, <1>6, <1>7, <1>8, <1>9, <1>10, <1>11, TabLeaves DEF Inv, KeptOK

-----------------------------------------------------------------------------
(* The invariant.                                                          *)

\* It holds before anything has happened.
LEMMA InitInv == Init => Inv
  <1> SUFFICES ASSUME Init PROVE Inv
    OBVIOUS
  <1>1. /\ FirstSnapshot \in SnapshotType /\ FirstSnapshot.verdict = AllPending
        /\ FirstSnapshot.run = NoRun /\ FirstSnapshot.lastEventID = 0
        /\ AllPending \in VerdictMap /\ \A c \in Codes : AllPending[c] \notin Finals
    BY FirstSnapshotFields, VerdictMaps, Constants
  <1>2. /\ Fresh(NoExecution) \in ShownType /\ Fresh(NoExecution).verdict = AllPending
        /\ tab.shown = Fresh(NoExecution) /\ tab.last = 0 /\ tab \in TabType
    <2>1. Fresh(NoExecution) \in ShownType /\ Fresh(NoExecution).verdict = AllPending
      BY FreshFields
    <2> QED BY <2>1 DEF Init, TabType
  <1>3. buffer = <<>> /\ Len(buffer) = 0 /\ buffer \in Seq(Events) /\ 0 <= Capacity
    BY Constants DEF Init
  <1>4. StateChange(NoRun, "loaded") \in Events
    <2>1. NoRun \in 0..MaxRuns /\ "loaded" \in Statuses
      BY Constants DEF NoRun, Statuses
    <2> QED BY <2>1, StateChangeEvent
  <1>5. TypeOK
    <2>1. StateTypeOK
      BY <1>1, Constants DEF Init, StateTypeOK, Statuses, NoRun
    <2>2. RunsTypeOK
      BY <1>1, <1>4, Constants DEF Init, RunsTypeOK, CallbackPcs, VerdictMap
    <2>3. BrokerTypeOK
      BY <1>3 DEF Init, BrokerTypeOK
    <2>4. TabTypeOK
      BY <1>2, SyncFields, Constants DEF Init, TabTypeOK, TabType
    <2> QED BY <2>1, <2>2, <2>3, <2>4 DEF TypeOK
  <1>6. RunsOK
    <2> SUFFICES ASSUME NEW r \in Runs
                 PROVE  RunOrdered(r) /\ EventPrepared(r)
      BY DEF RunsOK
    <2>1. /\ pc[r] = "unused" /\ at[r] = 0 /\ result[r] = AllPending /\ unannounced = {}
      BY DEF Init
    <2> QED BY <1>1, <2>1 DEF RunOrdered, EventPrepared, Active
  <1>7. SnapshotOK
    BY <1>1 DEF Init, SnapshotOK, NoRun, Runs
  <1>8. BufferOK /\ NotedOK /\ StartsFirst /\ KnownOK /\ NothingSkipped
    BY <1>3 DEF BufferOK, NotedOK, StartsFirst, KnownOK, NothingSkipped, StreamInOrder,
                FinalStateIsLast, Last
  <1>9. VerdictsAreTheRuns
    BY <1>1, <1>2 DEF VerdictsAreTheRuns
  <1>10. SyncOK /\ SkippedOK
    BY <1>1, <1>2, <1>3, <1>8, SyncFields DEF Init, SyncOK, SkippedOK, Last
  <1> QED BY <1>5, <1>6, <1>7, <1>8, <1>9, <1>10 DEF Inv, KeptOK

\* What VerdictKept says of one step.
KeepsVerdicts ==
    tab'.shown.run = tab.shown.run => \A c \in Codes :
        tab.shown.verdict[c] \in Finals => tab'.shown.verdict[c] = tab.shown.verdict[c]

\* Where the tab drops what it showed, there was nothing to keep.
LEMMA TakeStateKeepsVerdicts ==
    ASSUME Inv, TakeState
    PROVE  KeepsVerdicts
  <1>1. tab \in TabType
    BY DEF Inv, TypeOK, TabTypeOK, TabType
  <1>2. CASE tab' = tab
    BY <1>2 DEF KeepsVerdicts
  <1>3. CASE tab' = [tab EXCEPT !.shown = Fresh(NoExecution)]
    <2>1. tab'.shown.run = NoExecution
      <3>1. Fresh(NoExecution) \in ShownType /\ Fresh(NoExecution).run = NoExecution
        BY FreshFields
      <3> QED BY <1>1, <1>3, <3>1, TabFields
    <2>2. NoExecution \notin Runs
      BY Constants DEF NoExecution, Runs
    <2> QED BY <2>1, <2>2 DEF KeepsVerdicts, Inv, VerdictsAreTheRuns
  <1> QED BY <1>2, <1>3 DEF TakeState

\* Every step keeps the invariant, and the finished verdicts.
LEMMA NextInv ==
    ASSUME Inv, [Next]_vars
    PROVE  Inv' /\ KeepsVerdicts
  <1>1. ASSUME StartRun
        PROVE  Inv' /\ KeepsVerdicts
    BY <1>1, StartRunKeeps DEF StartRun, KeepsVerdicts, tabVars
  <1>2. ASSUME RequestCancel
        PROVE  Inv' /\ KeepsVerdicts
    BY <1>2, RequestCancelKeeps DEF RequestCancel, KeepsVerdicts, tabVars
  <1>3. ASSUME NEW r \in Runs, RunNext(r)
        PROVE  Inv' /\ KeepsVerdicts
    <2>1. UNCHANGED tabVars
      BY <1>3 DEF RunNext, AnnounceStart, Callback, BroadcastEvent, NoteEventID, Commit,
                  Announce
    <2>2. Inv'
      BY <1>3, AnnounceStartKeeps, CallbackKeeps, BroadcastEventKeeps, NoteEventIDKeeps,
         CommitKeeps, AnnounceKeeps DEF RunNext
    <2> QED BY <2>1, <2>2 DEF KeepsVerdicts, tabVars
  <1>4. ASSUME NEW r \in Runs, CancelNext(r)
        PROVE  Inv' /\ KeepsVerdicts
    BY <1>4, AnnounceCancelKeeps, CallCancelKeeps
       DEF CancelNext, AnnounceCancel, CallCancel, KeepsVerdicts, tabVars
  <1>5. ASSUME TabNext
        PROVE  Inv' /\ KeepsVerdicts
    <2>1. CASE OpenStream
      BY <2>1, OpenStreamKeeps DEF OpenStream, KeepsVerdicts
    <2>2. CASE Serve
      BY <2>2, ServeKeeps DEF KeepsVerdicts
    <2>3. CASE LoseStream
      BY <2>3, LoseStreamKeeps DEF LoseStream, KeepsVerdicts, tabVars
    <2>4. CASE TakeState
      BY <2>4, TakeStateKeeps, TakeStateKeepsVerdicts
    <2>5. CASE AnswerSnapshot
      BY <2>5, AnswerSnapshotKeeps DEF AnswerSnapshot, KeepsVerdicts
    <2>6. CASE TakeSnapshot
      BY <2>6, TakeSnapshotKeeps DEF KeepsVerdicts
    <2>7. CASE FailSync
      BY <2>7, FailSyncKeeps DEF FailSync, KeepsVerdicts
    <2> QED BY <1>5, <2>1, <2>2, <2>3, <2>4, <2>5, <2>6, <2>7 DEF TabNext, SyncNext
  <1>6. ASSUME UNCHANGED vars
        PROVE  Inv' /\ KeepsVerdicts
    <2>1. UNCHANGED <<stateVars, runVars, brokerVars, tabVars>>
      BY <1>6 DEF vars
    <2>2. TypeOK'
      BY <2>1, SameTypes DEF Inv, TypeOK
    <2>3. RunsOK'
      BY <2>1 DEF Inv, RunsOK, RunOrdered, EventPrepared, stateVars, runVars, brokerVars
    <2>4. /\ UNCHANGED <<run, snapshot, at, result, brokerVars, tabVars>>
          /\ UNCHANGED <<pc, event>>
      BY <2>1 DEF stateVars, runVars
    <2>5. Inv'
      BY <2>2, <2>3, <2>4, QuietKeeps
    <2> QED BY <2>1, <2>5 DEF KeepsVerdicts, tabVars
  <1> QED BY <1>1, <1>2, <1>3, <1>4, <1>5, <1>6 DEF Next

\* The invariant holds always.
LEMMA SpecInv == Spec => []Inv
  <1>1. Inv /\ [Next]_vars => Inv'
    BY NextInv
  <1> QED BY InitInv, <1>1, PTL DEF Spec

-----------------------------------------------------------------------------
(* A run is a directed run: what its callbacks have come to.               *)

\* The run r has completed the assertion c, or started it and no more.
Ended(r, c) == at[r] > 2 * c \/ (at[r] = 2 * c /\ pc[r] \in {"broadcast", "note"})
Begun(r, c) == \/ at[r] = 2 * c /\ pc[r] = "callback"
               \/ at[r] = 2 * c - 1 /\ pc[r] \in {"broadcast", "note"}

ResultOK(r, c) ==
    /\ Ended(r, c) => result[r][c] \in Finals
    /\ Begun(r, c) => result[r][c] = "running"
    /\ ~Ended(r, c) /\ ~Begun(r, c) => result[r][c] = "pending"
    /\ result[r][c] = "cancelled" => r \in ctxDone

ResultsOK == \A r \in Runs, c \in Codes : ResultOK(r, c)

\* A step that does not concern how far the run r has come.
SamePlace(r) ==
    /\ result'[r] = result[r] /\ at'[r] = at[r]
    /\ \A c \in Codes : (Ended(r, c)' <=> Ended(r, c)) /\ (Begun(r, c)' <=> Begun(r, c))

\* The types that the following lemmas use.
LEMMA RunTypes ==
    ASSUME Inv
    PROVE  /\ at \in [Runs -> 0..(2 * Assertions + 1)]
           /\ pc \in [Runs -> CallbackPcs]
           /\ result \in [Runs -> VerdictMap]
           /\ \A r \in Runs : at[r] \in Nat
           /\ Codes \subseteq Nat \ {0}
           /\ Assertions \in Nat
  BY Constants, Types DEF Inv, TypeOK, RunsTypeOK, Codes

\* A step moves the run r by a callback, by the end of one, by a cancellation, or not.
LEMMA StepOfRun ==
    ASSUME Inv, [Next]_vars, NEW r \in Runs
    PROVE  \/ SamePlace(r) /\ UNCHANGED ctxDone
           \/ SamePlace(r) /\ \E q \in Runs : CallCancel(q)
           \/ Callback(r)
           \/ NoteEventID(r)
  <1>1. CASE UNCHANGED <<at, result, pc>>
    <2>1. SamePlace(r)
      BY <1>1 DEF SamePlace, Ended, Begun
    <2>2. UNCHANGED ctxDone \/ \E q \in Runs : CallCancel(q)
      BY <1>1 DEF Next, RequestCancel, TabNext, SyncNext, OpenStream, Serve, LoseStream,
         TakeState, AnswerSnapshot, TakeSnapshot, FailSync, StartRun, RunNext, CancelNext, Callback,
         AnnounceCancel, AnnounceStart, BroadcastEvent, NoteEventID, Commit, Announce,
         vars, runVars
    <2> QED BY <2>1, <2>2
  <1>2. CASE StartRun
    <2>1. /\ UNCHANGED <<at, result, ctxDone>> /\ run + 1 \in Runs /\ run \in Nat
          /\ pc' = [pc EXCEPT ![run + 1] = "callback"]
      <3>1. run \in Nat /\ run < MaxRuns
        BY <1>2, Types DEF StartRun, Inv
      <3> QED BY <1>2, <3>1, Constants DEF StartRun, Runs
    <2>2. pc[run + 1] = "unused" /\ at[run + 1] = 0
      BY <2>1 DEF Inv, RunsOK, RunOrdered
    <2>3. pc'[r] = pc[r] \/ (at[r] = 0 /\ at'[r] = 0)
      BY <2>1, <2>2, RunTypes
    <2>4. SamePlace(r)
      BY <2>1, <2>3, RunTypes DEF SamePlace, Ended, Begun
    <2> QED BY <2>1, <2>4
  <1>3. ASSUME NEW q \in Runs, Callback(q) \/ NoteEventID(q), q # r
        PROVE  SamePlace(r) /\ UNCHANGED ctxDone
    <2>1. at'[r] = at[r] /\ pc'[r] = pc[r] /\ result'[r] = result[r] /\ UNCHANGED ctxDone
      BY <1>3, RunTypes DEF Callback, NoteEventID, OnRunStart, OnAssertionStart,
         OnAssertionComplete
    <2> QED BY <2>1 DEF SamePlace, Ended, Begun
  <1>4. ASSUME NEW q \in Runs, BroadcastEvent(q) \/ Commit(q) \/ Announce(q)
        PROVE  SamePlace(r) /\ UNCHANGED ctxDone
    <2>1. UNCHANGED <<at, result, ctxDone>>
      BY <1>4 DEF BroadcastEvent, Commit, Announce
    <2>2. \/ pc'[r] = pc[r]
          \/ pc[r] = "broadcast" /\ pc'[r] = "note"
          \/ pc[r] = "callback" /\ pc'[r] = "announcing" /\ Returned(r)
          \/ pc[r] = "announcing" /\ pc'[r] = "done"
      BY <1>4, RunTypes DEF BroadcastEvent, Commit, Announce
    <2>3. ASSUME NEW c \in Codes
          PROVE  (Ended(r, c)' <=> Ended(r, c)) /\ (Begun(r, c)' <=> Begun(r, c))
      <3>1. c \in Nat /\ c <= Assertions /\ at[r] \in Nat /\ at'[r] = at[r]
        BY <2>1, RunTypes DEF Codes
      <3>2. CASE Returned(r) /\ pc[r] = "callback" /\ pc'[r] = "announcing"
        <4>1. at[r] > 2 * c
          BY <3>1, <3>2, RunTypes DEF Returned
        <4> QED BY <3>1, <4>1 DEF Ended, Begun
      <3> QED BY <2>2, <3>1, <3>2 DEF Ended, Begun
    <2> QED BY <2>1, <2>3 DEF SamePlace
  <1>5. ASSUME NEW q \in Runs, AnnounceStart(q) \/ CancelNext(q)
        PROVE  UNCHANGED <<at, result, pc>>
    BY <1>5 DEF AnnounceStart, CancelNext, AnnounceCancel, CallCancel
  <1>6. CASE RequestCancel \/ TabNext \/ UNCHANGED vars
    <2>1. UNCHANGED <<at, result, pc>>
      BY <1>6 DEF RequestCancel, TabNext, SyncNext, OpenStream, Serve, LoseStream, TakeState,
         AnswerSnapshot, TakeSnapshot, FailSync, vars, runVars
    <2> QED BY <2>1, <1>1
  <1> QED BY <1>1, <1>2, <1>3, <1>4, <1>5, <1>6 DEF Next, RunNext

\* The run r is at the callback of the assertion k, and starts it or completes it with v.
StartsHere(r, k) ==
    /\ at[r] = 2 * k - 1 /\ at'[r] = at[r] /\ r \notin ctxDone
    /\ result'[r] = [result[r] EXCEPT ![k] = "running"]
CompletesHere(r, k, v) ==
    /\ at'[r] = 2 * k
    /\ at[r] = 2 * k \/ (at[r] = 2 * k - 1 /\ v = "cancelled")
    /\ v = "cancelled" => r \in ctxDone
    /\ result'[r] = [result[r] EXCEPT ![k] = v]

\* A callback of the run r: what it was called for and what it leaves.
LEMMA CallbackOfRun ==
    ASSUME Inv, NEW r \in Runs, Callback(r)
    PROVE  /\ pc[r] = "callback" /\ pc'[r] = "broadcast" /\ UNCHANGED ctxDone
           /\ \/ at[r] = 0 /\ at'[r] = 0 /\ result'[r] = result[r]
              \/ \E k \in Codes : StartsHere(r, k)
              \/ \E k \in Codes, v \in Finals : CompletesHere(r, k, v)
  <1>1. pc[r] = "callback" /\ pc'[r] = "broadcast" /\ UNCHANGED ctxDone
    BY RunTypes DEF Callback
  <1>2. CASE OnRunStart(r)
    BY <1>1, <1>2 DEF OnRunStart, AtRunStart
  <1>3. CASE OnAssertionStart(r)
    <2>1. Code(r) \in Codes /\ at[r] = 2 * Code(r) - 1
      BY <1>3, CodeFacts, RunTypes DEF OnAssertionStart
    <2>2. at' = at /\ r \notin ctxDone /\ result' = [result EXCEPT ![r][Code(r)] = "running"]
      BY <1>3 DEF OnAssertionStart
    <2>3. result'[r] = [result[r] EXCEPT ![Code(r)] = "running"]
      BY <2>2, RunTypes
    <2>4. StartsHere(r, Code(r))
      BY <2>1, <2>2, <2>3 DEF StartsHere
    <2> QED BY <1>1, <2>1, <2>4
  <1>4. ASSUME NEW v \in Finals, OnAssertionComplete(r, v)
        PROVE  \E k \in Codes : CompletesHere(r, k, v)
    <2>1. /\ Code(r) \in Codes
          /\ at[r] = 2 * Code(r) \/ (at[r] = 2 * Code(r) - 1 /\ v = "cancelled")
          /\ v = "cancelled" => r \in ctxDone
      BY <1>4, CodeFacts, RunTypes DEF OnAssertionComplete
    <2>2. /\ at' = [at EXCEPT ![r] = 2 * Code(r)]
          /\ result' = [result EXCEPT ![r][Code(r)] = v]
      BY <1>4 DEF OnAssertionComplete
    <2>3. at'[r] = 2 * Code(r) /\ result'[r] = [result[r] EXCEPT ![Code(r)] = v]
      BY <2>2, RunTypes
    <2>4. CompletesHere(r, Code(r), v)
      BY <2>1, <2>3 DEF CompletesHere
    <2> QED BY <2>1, <2>4
  <1>5. CASE \E v \in Finals : OnAssertionComplete(r, v)
    <2>1. PICK v \in Finals : OnAssertionComplete(r, v)
      BY <1>5
    <2> QED BY <1>1, <1>4, <2>1
  <1>6. OnRunStart(r) \/ OnAssertionStart(r) \/ \E v \in Finals : OnAssertionComplete(r, v)
    BY DEF Callback
  <1> QED BY <1>2, <1>3, <1>5, <1>6

\* The end of a callback of the run r.
LEMMA NoteOfRun ==
    ASSUME Inv, NEW r \in Runs, NoteEventID(r)
    PROVE  /\ pc[r] = "note" /\ pc'[r] = "callback" /\ at'[r] = at[r] + 1
           /\ at[r] <= 2 * Assertions
           /\ UNCHANGED <<ctxDone, result>>
  BY RunTypes DEF NoteEventID, Inv, RunsOK, RunOrdered

\* The results keep up with the callbacks.
LEMMA ResultsOKKept ==
    ASSUME Inv, ResultsOK, [Next]_vars
    PROVE  ResultsOK'
  <1> SUFFICES ASSUME NEW r \in Runs, NEW c \in Codes PROVE ResultOK(r, c)'
    BY DEF ResultsOK
  <1>1. /\ ResultOK(r, c) /\ c \in Nat \ {0} /\ at[r] \in Nat
        /\ result[r] \in [Codes -> Verdicts]
    BY RunTypes DEF ResultsOK, VerdictMap
  <1>2. CASE SamePlace(r) /\ (UNCHANGED ctxDone \/ \E q \in Runs : CallCancel(q))
    <2>1. r \in ctxDone => r \in ctxDone'
      BY <1>2 DEF CallCancel
    <2>2. result'[r] = result[r] /\ (Ended(r, c)' <=> Ended(r, c))
          /\ (Begun(r, c)' <=> Begun(r, c))
      BY <1>2 DEF SamePlace
    <2> QED BY <1>1, <2>1, <2>2 DEF ResultOK
  <1>3. CASE Callback(r)
    <2>1. pc[r] = "callback" /\ pc'[r] = "broadcast" /\ UNCHANGED ctxDone
      BY <1>3, CallbackOfRun
    <2>2. CASE at[r] = 0 /\ at'[r] = 0 /\ result'[r] = result[r]
      <3>1. ~Ended(r, c) /\ ~Begun(r, c) /\ ~Ended(r, c)' /\ ~Begun(r, c)'
        BY <1>1, <2>2 DEF Ended, Begun
      <3> QED BY <1>1, <2>1, <2>2, <3>1 DEF ResultOK
    <2>3. ASSUME NEW k \in Codes, StartsHere(r, k)
          PROVE  ResultOK(r, c)'
      <3>1. k \in Nat
        BY RunTypes
      <3>2. CASE c = k
        <4>1. ~Ended(r, c)' /\ Begun(r, c)'
          BY <1>1, <2>1, <2>3, <3>1, <3>2 DEF StartsHere, Ended, Begun
        <4>2. result'[r][c] = "running"
          BY <1>1, <2>3, <3>2 DEF StartsHere
        <4> QED BY <4>1, <4>2 DEF ResultOK
      <3>3. CASE c # k
        <4>1. (Ended(r, c)' <=> Ended(r, c)) /\ (Begun(r, c)' <=> Begun(r, c))
          BY <1>1, <2>1, <2>3, <3>1, <3>3 DEF StartsHere, Ended, Begun
        <4>2. result'[r][c] = result[r][c]
          BY <1>1, <2>3, <3>3 DEF StartsHere
        <4> QED BY <1>1, <2>1, <4>1, <4>2 DEF ResultOK
      <3> QED BY <3>2, <3>3
    <2>4. ASSUME NEW k \in Codes, NEW v \in Finals, CompletesHere(r, k, v)
          PROVE  ResultOK(r, c)'
      <3>1. k \in Nat
        BY RunTypes
      <3>2. CASE c = k
        <4>1. Ended(r, c)' /\ ~Begun(r, c)'
          BY <1>1, <2>1, <2>4, <3>1, <3>2 DEF CompletesHere, Ended, Begun
        <4>2. result'[r][c] = v
          BY <1>1, <2>4, <3>2 DEF CompletesHere
        <4> QED BY <2>1, <2>4, <4>1, <4>2 DEF CompletesHere, ResultOK
      <3>3. CASE c # k
        <4>1. (Ended(r, c)' <=> Ended(r, c)) /\ (Begun(r, c)' <=> Begun(r, c))
          BY <1>1, <2>1, <2>4, <3>1, <3>3 DEF CompletesHere, Ended, Begun
        <4>2. result'[r][c] = result[r][c]
          BY <1>1, <2>4, <3>3 DEF CompletesHere
        <4> QED BY <1>1, <2>1, <4>1, <4>2 DEF ResultOK
      <3> QED BY <3>2, <3>3
    <2> QED BY <1>3, <2>2, <2>3, <2>4, CallbackOfRun
  <1>4. CASE NoteEventID(r)
    <2>1. /\ pc[r] = "note" /\ pc'[r] = "callback" /\ at'[r] = at[r] + 1
          /\ UNCHANGED <<ctxDone, result>>
      BY <1>4, NoteOfRun
    <2>2. (Ended(r, c)' <=> Ended(r, c)) /\ (Begun(r, c)' <=> Begun(r, c))
      BY <1>1, <2>1 DEF Ended, Begun
    <2> QED BY <1>1, <2>1, <2>2 DEF ResultOK
  <1> QED BY <1>2, <1>3, <1>4, StepOfRun

\* A run does not change its mind about an assertion.
LEMMA ResultStands ==
    ASSUME Inv, [Next]_vars, NEW r \in Runs, NEW c \in Codes, result[r][c] \in Finals
    PROVE  result'[r][c] = result[r][c]
  <1>1. /\ 2 * c < at[r] \/ (at[r] = 2 * c /\ pc[r] \in {"broadcast", "note"})
        /\ c \in Nat \ {0} /\ at[r] \in Nat /\ result[r] \in [Codes -> Verdicts]
    BY RunTypes DEF Inv, RunsOK, RunOrdered, VerdictMap
  <1>2. CASE SamePlace(r) \/ NoteEventID(r)
    BY <1>2, NoteOfRun DEF SamePlace
  <1>3. CASE Callback(r)
    <2>1. pc[r] = "callback"
      BY <1>3, CallbackOfRun
    <2>2. CASE result'[r] = result[r]
      BY <2>2
    <2>3. ASSUME NEW k \in Codes, StartsHere(r, k)
          PROVE  result'[r][c] = result[r][c]
      <3>1. k # c
        BY <1>1, <2>1, <2>3, RunTypes DEF StartsHere
      <3> QED BY <1>1, <2>3, <3>1 DEF StartsHere
    <2>4. ASSUME NEW k \in Codes, NEW v \in Finals, CompletesHere(r, k, v)
          PROVE  result'[r][c] = result[r][c]
      <3>1. k # c
        BY <1>1, <2>1, <2>4, RunTypes DEF CompletesHere
      <3> QED BY <1>1, <2>4, <3>1 DEF CompletesHere
    <2> QED BY <1>3, <2>2, <2>3, <2>4, CallbackOfRun
  <1> QED BY <1>2, <1>3, StepOfRun

\* No run has started, and no assertion has a result.
LEMMA InitResultsOK == Init => ResultsOK
  <1> SUFFICES ASSUME Init, NEW r \in Runs, NEW c \in Codes PROVE ResultOK(r, c)
    BY DEF ResultsOK
  <1>1. at[r] = 0 /\ pc[r] = "unused" /\ result[r][c] = "pending"
    BY DEF Init, AllPending
  <1>2. ~Ended(r, c) /\ ~Begun(r, c)
    BY <1>1, Constants DEF Ended, Begun, Codes
  <1> QED BY <1>1, <1>2, Constants DEF ResultOK

\* The assertions that have not ended, as DirectedRun counts them.
LEMMA UnendedFacts ==
    ASSUME Inv, ResultsOK, NEW r \in Runs, NEW c \in Codes
    PROVE  /\ result[r][c] \in Verdicts
           /\ (c \in Directed(r)!Unended) <=> ~Ended(r, c)
           /\ Ended(r, c) /\ r \notin ctxDone => result[r][c] \in Outcomes
  <1>1. ResultOK(r, c) /\ result[r][c] \in Verdicts
    BY RunTypes DEF ResultsOK, VerdictMap
  <1>2. (c \in Directed(r)!Unended) <=> result[r][c] \in {"pending", "running"}
    BY DEF Directed!Unended
  <1> QED BY <1>1, <1>2, Constants DEF ResultOK, Finals

\* Every step is, for the run r, a step of a directed run, or none.
LEMMA NextRunDirected ==
    ASSUME Inv, ResultsOK, [Next]_vars, NEW r \in Runs
    PROVE  Directed(r)!DirectedNext \/ UNCHANGED Directed(r)!directedVars
  <1>0. at[r] \in Nat /\ Assertions \in Nat /\ result[r] \in [Codes -> Verdicts]
    BY RunTypes DEF VerdictMap
  <1>1. CASE SamePlace(r) /\ (UNCHANGED ctxDone \/ \E q \in Runs : CallCancel(q))
    <2>1. at'[r] = at[r] /\ result'[r] = result[r]
      BY <1>1 DEF SamePlace
    <2>2. CASE r \in ctxDone'
      <3>1. Directed(r)!Cancel
        BY <2>1, <2>2 DEF Returned, Directed!Cancel
      <3> QED BY <3>1 DEF Directed!DirectedNext
    <2>3. CASE r \notin ctxDone'
      <3>1. r \notin ctxDone
        BY <1>1, <2>3 DEF CallCancel
      <3> QED BY <2>1, <2>3, <3>1 DEF Returned, Directed!directedVars
    <2> QED BY <2>2, <2>3
  <1>2. CASE Callback(r)
    <2>1. pc[r] = "callback" /\ pc'[r] = "broadcast" /\ UNCHANGED ctxDone
      BY <1>2, CallbackOfRun
    <2>2. CASE at[r] = 0 /\ at'[r] = 0 /\ result'[r] = result[r]
      BY <2>1, <2>2 DEF Returned, Directed!directedVars
    <2>3. ASSUME NEW k \in Codes, StartsHere(r, k)
          PROVE  Directed(r)!StartItem(k)
      <3>1. k \in Nat /\ k <= Assertions
        BY RunTypes DEF Codes
      <3>2. ~Returned(r) /\ ~Returned(r)'
        BY <2>3, <3>1, RunTypes DEF StartsHere, Returned
      <3>3. result[r][k] = "pending"
        <4>1. ~Ended(r, k) /\ ~Begun(r, k)
          BY <2>1, <2>3, <3>1 DEF StartsHere, Ended, Begun
        <4> QED BY <4>1 DEF ResultsOK, ResultOK
      <3>4. ASSUME NEW b \in 1..(k - 1) PROVE result[r][b] \in {"passed", "failed"}
        <4>1. b \in Codes /\ Ended(r, b)
          <5>1. b \in Nat /\ b < k /\ b <= Assertions /\ b >= 1
            BY <1>0, <3>1
          <5> QED BY <1>0, <2>3, <3>1, <5>1 DEF StartsHere, Ended, Codes
        <4> QED BY <2>3, <4>1, UnendedFacts, ConstantsAssumption
                DEF StartsHere, ConstantsAssumption
      <3> QED BY <2>1, <2>3, <3>2, <3>3, <3>4
              DEF StartsHere, Directed!StartItem, Directed!Verdicts
    <2>4. ASSUME NEW k \in Codes, NEW v \in Finals, CompletesHere(r, k, v)
          PROVE  Directed(r)!JudgeItem(k) \/ Directed(r)!GiveUp
      <3>1. k \in Nat /\ k <= Assertions /\ k > 0
        BY RunTypes DEF Codes
      <3>2. ~Returned(r) /\ ~Returned(r)'
        BY <2>4, <3>1, RunTypes DEF CompletesHere, Returned
      <3>3. CASE v # "cancelled"
        <4>1. v \in {"passed", "failed"}
          BY <3>3, ConstantsAssumption DEF ConstantsAssumption, Finals
        <4>2. Begun(r, k)
          BY <2>1, <2>4, <3>3 DEF CompletesHere, Begun
        <4>3. result[r][k] = "running"
          BY <4>2 DEF ResultsOK, ResultOK
        <4> QED BY <2>1, <2>4, <3>2, <4>1, <4>3
                DEF CompletesHere, Directed!JudgeItem, Directed!Verdicts
      <3>4. CASE v = "cancelled"
        <4>1. ~Ended(r, k)
          BY <2>1, <2>4, <3>1 DEF CompletesHere, Ended
        <4>2. k \in Directed(r)!Unended
          BY <4>1, UnendedFacts
        <4>3. ASSUME NEW b \in 1..(k - 1) PROVE b \notin Directed(r)!Unended
          <5>1. b \in Codes /\ Ended(r, b)
            <6>1. b \in Nat /\ b < k /\ b <= Assertions /\ b >= 1
              BY <1>0, <3>1
            <6>2. at[r] > 2 * b
              BY <1>0, <2>4, <3>1, <6>1 DEF CompletesHere
            <6> QED BY <1>0, <6>1, <6>2 DEF Ended, Codes
          <5> QED BY <5>1, UnendedFacts
        <4>4. result'[r] = [a \in Codes |-> IF a \in {k} THEN "cancelled" ELSE result[r][a]]
          BY <1>0, <2>4, <3>4 DEF CompletesHere
        <4>5. {k} \in SUBSET Directed(r)!Unended
          BY <4>2
        <4>6. \A a \in {k} :
                  [c \in Codes |-> 1..(c - 1)][a] \cap Directed(r)!Unended \subseteq {k}
          BY <4>3
        <4>7. r \in ctxDone /\ (r \in ctxDone' <=> r \in ctxDone)
          BY <2>1, <2>4, <3>4 DEF CompletesHere
        <4> QED BY <3>2, <4>4, <4>5, <4>6, <4>7 DEF Directed!GiveUp
      <3> QED BY <3>3, <3>4
    <2> QED BY <1>2, <2>2, <2>3, <2>4, CallbackOfRun DEF Directed!DirectedNext
  <1>3. CASE NoteEventID(r)
    <2>1. /\ at'[r] = at[r] + 1 /\ at[r] <= 2 * Assertions /\ UNCHANGED <<ctxDone, result>>
          /\ pc[r] = "note"
      BY <1>3, NoteOfRun
    <2>2. ~Returned(r)
      BY <1>0, <2>1 DEF Returned
    <2>3. CASE at[r] = 2 * Assertions
      <3>1. Returned(r)'
        BY <2>1, <2>3 DEF Returned
      <3>2. ASSUME NEW c \in Codes PROVE Ended(r, c)
        <4>1. c \in Nat /\ c <= Assertions
          BY RunTypes DEF Codes
        <4> QED BY <1>0, <2>1, <2>3, <4>1 DEF Ended
      <3>3. ASSUME NEW c \in Codes
            PROVE  /\ c \notin Directed(r)!Unended
                   /\ (result[r][c] \in Outcomes) <=> (result[r][c] \in {"passed", "failed"})
        <4>1. result[r][c] \in Finals
          BY <3>2 DEF ResultsOK, ResultOK
        <4> QED BY <3>2, <4>1, UnendedFacts, ConstantsAssumption
                DEF ConstantsAssumption, Finals
      <3>4. Directed(r)!Unended = {}
        BY <3>3 DEF Directed!Unended
      <3>5. Directed(r)!EndDirected
        BY <2>1, <2>2, <3>1, <3>3, <3>4 DEF Directed!EndDirected, Directed!Verdicts
      <3> QED BY <3>5 DEF Directed!DirectedNext
    <2>4. CASE at[r] # 2 * Assertions
      <3>1. ~Returned(r)'
        BY <1>0, <2>1, <2>4 DEF Returned
      <3> QED BY <2>1, <2>2, <3>1 DEF Directed!directedVars
    <2> QED BY <2>3, <2>4
  <1> QED BY <1>1, <1>2, <1>3, StepOfRun

-----------------------------------------------------------------------------
(* The theorems.                                                           *)

\* No subscriber's buffer exceeds its capacity, and every variable has its type.
THEOREM FeedTypeCorrect == Spec => []TypeOK
  <1>1. Inv => TypeOK
    BY DEF Inv
  <1> QED BY SpecInv, <1>1, PTL

\* The stream delivers events in the order in which they were numbered.
THEOREM StreamsAreInOrder == Spec => []StreamInOrder
  <1>1. Inv => StreamInOrder
    BY DEF Inv, BufferOK
  <1> QED BY SpecInv, <1>1, PTL

\* Only the announcement of a cancel request follows a run's final state on a stream.
THEOREM FinalStateComesLast == Spec => []FinalStateIsLast
  <1>1. Inv => FinalStateIsLast
    BY DEF Inv, BufferOK
  <1> QED BY SpecInv, <1>1, PTL

\* The tab shows no finished verdict that the run has not reached.
THEOREM ShownVerdictsAreTrue == Spec => []VerdictsAreTheRuns
  <1>1. Inv => VerdictsAreTheRuns
    BY DEF Inv
  <1> QED BY SpecInv, <1>1, PTL

\* The tab drops no verdict of the latest run that it does not show.
THEOREM DroppedVerdictsAreShown == Spec => []NothingSkipped
  <1>1. Inv => NothingSkipped
    BY DEF Inv, SkippedOK
  <1> QED BY SpecInv, <1>1, PTL

\* The tab keeps a finished verdict while it shows the verdict's run.
THEOREM ShownVerdictsStay == Spec => VerdictKept
  <1>1. Inv /\ [Next]_vars => KeepsVerdicts
    BY NextInv
  <1>2. Spec => [][KeepsVerdicts]_vars
    BY SpecInv, <1>1, PTL DEF Spec
  <1> QED BY <1>2 DEF VerdictKept, KeepsVerdicts

\* Every run of the feed is a directed run, whatever the other runs, the tab and the
\* requests to cancel do: the callbacks assumed here are those the director makes.
THEOREM FeedRunsAreDirected == Spec => RunsAreDirected
  <1>1. ASSUME NEW r \in Runs PROVE Spec => Directed(r)!DirectedSpec
    <2>1. Init => Directed(r)!DirectedInit
      <3> SUFFICES ASSUME Init PROVE Directed(r)!DirectedInit
        OBVIOUS
      <3>1. at[r] = 0 /\ result[r] = AllPending /\ r \notin ctxDone
        BY DEF Init
      <3>2. ~Returned(r)
        BY <3>1, Constants DEF Returned
      <3> QED BY <3>1, <3>2 DEF Directed!DirectedInit, AllPending
    <2>2. Inv /\ ResultsOK /\ [Next]_vars
            => [Directed(r)!DirectedNext]_(Directed(r)!directedVars)
      BY NextRunDirected
    <2>3. Inv /\ ResultsOK /\ [Next]_vars => ResultsOK'
      BY ResultsOKKept
    <2> QED BY <2>1, <2>2, <2>3, InitResultsOK, SpecInv, PTL DEF Spec, Directed!DirectedSpec
  <1> QED BY <1>1 DEF RunsAreDirected

\* Whatever the tab shows of an assertion of a run as finished, it never shows as finished
\* otherwise: not after a lost stream, nor from a snapshot that comes late, nor when it has
\* shown another run in between.
THEOREM ShownVerdictsNeverDiffer ==
    Spec => \A r \in Runs, c \in Codes, v \in Finals :
              [](tab.shown.run = r /\ tab.shown.verdict[c] = v
                   => [](tab.shown.run = r /\ tab.shown.verdict[c] \in Finals
                           => tab.shown.verdict[c] = v))
  <1>1. ASSUME NEW r \in Runs, NEW c \in Codes, NEW v \in Finals
        PROVE  Spec => [](tab.shown.run = r /\ tab.shown.verdict[c] = v
                            => [](tab.shown.run = r /\ tab.shown.verdict[c] \in Finals
                                    => tab.shown.verdict[c] = v))
    <2> DEFINE Reached == result[r][c] = v
    <2>1. Inv /\ tab.shown.run = r /\ tab.shown.verdict[c] = v => Reached
      BY DEF Inv, VerdictsAreTheRuns
    <2>2. Inv /\ Reached /\ [Next]_vars => Reached'
      BY ResultStands
    <2>3. Inv /\ Reached
            => (tab.shown.run = r /\ tab.shown.verdict[c] \in Finals
                  => tab.shown.verdict[c] = v)
      BY DEF Inv, VerdictsAreTheRuns
    <2> HIDE DEF Reached
    <2> QED BY <2>1, <2>2, <2>3, SpecInv, PTL DEF Spec
  <1> QED BY <1>1
=============================================================================
