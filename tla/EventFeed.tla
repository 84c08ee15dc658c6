----------------------------- MODULE EventFeed ------------------------------
(***************************************************************************)
(* How a browser tab learns what a run does: the observer that writes the  *)
(* execution snapshot and broadcasts progress (internal/server/            *)
(* handlers_execution.go), the broker with its bounded subscriber buffers  *)
(* and the event streams (events.go), and the tab itself, which consumes   *)
(* the stream, drops events it believes to know, and reconciles itself     *)
(* with the snapshot when it starts and when it reconnects (webui:         *)
(* events.ts, appState.svelte.ts).                                         *)
(*                                                                         *)
(* One action stands for one critical section of the state manager or of   *)
(* the broker, or for one event or answer that the tab, a single thread,   *)
(* takes in.  An observer callback is three of them: it writes the         *)
(* snapshot, broadcasts, and notes the id of its event in the snapshot.    *)
(*                                                                         *)
(* The playbook is loaded, requires no elevation and stays loaded; loads,  *)
(* submissions and elevation are RunControl's subject.  Log lines and      *)
(* everything a tab shows besides its status and its verdicts are left     *)
(* out.  A verdict is the progress of an assertion.                        *)
(*                                                                         *)
(* A definition whose name starts with Faulty is the definition after it   *)
(* with a plausible mistake, which no specification uses.                  *)
(***************************************************************************)
EXTENDS Integers, Sequences

CONSTANTS
    MaxRuns,    \* bound on the runs started; they are numbered from 1
    Assertions, \* the number of assertions of the playbook
    Outcomes,   \* the verdicts an assertion may get that is not cancelled
    Cancellable, \* bound on the cancel requests: the runs that may get one
    MaxStreams, \* bound on the event streams the tab opens
    Capacity    \* of a subscriber's buffer: 128 in the code

ASSUME ConstantsAssumption ==
    /\ MaxRuns \in Nat /\ Assertions \in Nat /\ MaxStreams \in Nat
    /\ Capacity \in Nat \ {0}
    /\ Outcomes \subseteq {"passed", "failed"}

Runs == 1..MaxRuns
Codes == 1..Assertions

NoExecution == -1  \* the tab's execution is null
NoRun == 0         \* the empty run id

Executing == {"running", "running.cancelling"}
Statuses == {"loaded", "completed"} \cup Executing
Finals == Outcomes \cup {"cancelled"}
Verdicts == {"pending", "running"} \cup Finals
AllPending == [c \in Codes |-> "pending"]

VARIABLES
    \* StateManager
    status,      \* the lifecycle status
    run,         \* activeRunID
    snapshot,    \* [run, verdict, lastEventID]: the execution snapshot
    \* the goroutine and observer of each run
    unannounced, \* the runs handleRun has yet to announce, and then to launch
    at,          \* its next callback: 0 is OnRunStart, then two per assertion
    pc,          \* where it is in that callback
    event,       \* the event it is about to broadcast, then the one it has broadcast
    ctxDone,     \* the runs whose context is cancelled
    result,      \* the verdicts the director has reached, run by run
    cancelPc,    \* the cancel request of each run
    \* EventBroker and the stream handlers
    lastEventID,
    subscribed,  \* does a handler serve the tab's stream?
    buffer,      \* the events it, and the connection, still hold
    \* the tab
    tab,         \* [shown, last]: execution and last event id
    opened,      \* how many streams it has opened
    sync         \* its fullSync in progress and the answer under way

runVars == <<unannounced, at, pc, event, ctxDone, result, cancelPc>>
stateVars == <<status, run, snapshot>>
brokerVars == <<lastEventID, subscribed, buffer>>
tabVars == <<tab, opened, sync>>
vars == <<stateVars, runVars, brokerVars, tabVars>>

Events == [id : Nat, type : {"state_change", "progress"},
           run : 0..MaxRuns, code : 0..Assertions, status : Statuses \cup Verdicts]

StateChange(r, st) ==
    [id |-> 0, type |-> "state_change", run |-> r, code |-> 0, status |-> st]
Progress(r, c, v) ==
    [id |-> 0, type |-> "progress", run |-> r, code |-> c, status |-> v]

-----------------------------------------------------------------------------
(* EventBroker.                                                            *)

FaultyNextID == lastEventID
NextID == lastEventID + 1

FaultyHasRoom == Len(buffer) <= Capacity
HasRoom == Len(buffer) < Capacity

\* Broadcast: one critical section of the broker.  A full buffer loses the event.
Broadcast(e) ==
    /\ lastEventID' = NextID
    /\ buffer' = IF subscribed /\ HasRoom
                 THEN Append(buffer, [e EXCEPT !.id = NextID]) ELSE buffer
    /\ UNCHANGED subscribed

-----------------------------------------------------------------------------
(* handleRun, handleCancel and the run's goroutine.                        *)

FaultyLaunched(r) == TRUE

\* handleRun broadcasts the new state before it launches the goroutine.
Launched(r) == r \notin unannounced

StartRun ==
    /\ status \notin Executing
    /\ run < MaxRuns
    /\ run' = run + 1
    /\ status' = "running"
    /\ snapshot' = [snapshot EXCEPT !.verdict = AllPending]
    /\ pc' = [pc EXCEPT ![run + 1] = "callback"]
    /\ unannounced' = unannounced \cup {run + 1}
    /\ UNCHANGED <<at, event, ctxDone, result, cancelPc, brokerVars, tabVars>>

AnnounceStart(r) ==
    /\ r \in unannounced
    /\ unannounced' = unannounced \ {r}
    /\ Broadcast(StateChange(r, "running"))
    /\ UNCHANGED <<stateVars, at, pc, event, ctxDone, result, cancelPc, tabVars>>

\* The director's callbacks, in order, and what follows them.
AtRunStart(r) == at[r] = 0
Starting(r) == at[r] % 2 = 1 /\ at[r] < 2 * Assertions
Completing(r) == at[r] % 2 = 0 /\ at[r] \in 1..(2 * Assertions)
Returned(r) == at[r] = 2 * Assertions + 1
Code(r) == (at[r] + 1) \div 2

FaultyRunInSnapshot(r) == snapshot.run
RunInSnapshot(r) == r

\* The first critical section of a callback, and the event it leads to: where the run
\* starts the state is read again for it.
OnRunStart(r) ==
    /\ AtRunStart(r)
    /\ snapshot' = [snapshot EXCEPT !.run = RunInSnapshot(r)]
    /\ event' = [event EXCEPT ![r] = StateChange(run, status)]
    /\ UNCHANGED <<at, result>>

OnAssertionStart(r) ==
    /\ Starting(r)
    /\ r \notin ctxDone
    /\ snapshot' = [snapshot EXCEPT !.verdict[Code(r)] = "running"]
    /\ result' = [result EXCEPT ![r][Code(r)] = "running"]
    /\ event' = [event EXCEPT ![r] = Progress(r, Code(r), "running")]
    /\ UNCHANGED at

FaultyReported(r, v) == snapshot.verdict
Reported(r, v) == [snapshot.verdict EXCEPT ![Code(r)] = v]

\* An assertion that a cancellation keeps from starting is completed right away.
OnAssertionComplete(r, v) ==
    /\ \/ Completing(r) /\ (v = "cancelled" => r \in ctxDone)
       \/ Starting(r) /\ r \in ctxDone /\ v = "cancelled"
    /\ at' = [at EXCEPT ![r] = 2 * Code(r)]
    /\ snapshot' = [snapshot EXCEPT !.verdict = Reported(r, v)]
    /\ result' = [result EXCEPT ![r][Code(r)] = v]
    /\ event' = [event EXCEPT ![r] = Progress(r, Code(r), v)]

Callback(r) ==
    /\ pc[r] = "callback"
    /\ Launched(r)
    /\ \/ OnRunStart(r)
       \/ OnAssertionStart(r)
       \/ \E v \in Finals : OnAssertionComplete(r, v)
    /\ pc' = [pc EXCEPT ![r] = "broadcast"]
    /\ UNCHANGED <<status, run, unannounced, ctxDone, cancelPc, brokerVars, tabVars>>

BroadcastEvent(r) ==
    /\ pc[r] = "broadcast"
    /\ pc' = [pc EXCEPT ![r] = "note"]
    /\ event' = [event EXCEPT ![r].id = NextID]
    /\ Broadcast(event[r])
    /\ UNCHANGED <<stateVars, unannounced, at, ctxDone, result, cancelPc, tabVars>>

NoteEventID(r) ==
    /\ pc[r] = "note"
    /\ pc' = [pc EXCEPT ![r] = "callback"]
    /\ at' = [at EXCEPT ![r] = @ + 1]
    /\ snapshot' = [snapshot EXCEPT !.lastEventID = event[r].id]
    /\ UNCHANGED <<status, run, unannounced, event, ctxDone, result, cancelPc, brokerVars,
                   tabVars>>

\* The commit of the outcome, and its broadcast once the lock is released.
Commit(r) ==
    /\ pc[r] = "callback"
    /\ Returned(r)
    /\ status' = IF r \in ctxDone THEN "loaded" ELSE "completed"
    /\ pc' = [pc EXCEPT ![r] = "announcing"]
    /\ event' = [event EXCEPT ![r] = StateChange(run, status')]
    /\ UNCHANGED <<run, snapshot, unannounced, at, ctxDone, result, cancelPc, brokerVars,
                   tabVars>>

Announce(r) ==
    /\ pc[r] = "announcing"
    /\ pc' = [pc EXCEPT ![r] = "done"]
    /\ Broadcast(event[r])
    /\ UNCHANGED <<stateVars, unannounced, at, event, ctxDone, result, cancelPc, tabVars>>

\* handleCancel captures the state and the run's cancel function under the lock, then
\* broadcasts, then calls the function.
RequestCancel ==
    /\ status = "running" /\ run \in Cancellable
    /\ status' = "running.cancelling"
    /\ cancelPc' = [cancelPc EXCEPT ![run] = "captured"]
    /\ UNCHANGED <<run, snapshot, unannounced, at, pc, event, ctxDone, result, brokerVars,
                   tabVars>>

AnnounceCancel(r) ==
    /\ cancelPc[r] = "captured"
    /\ cancelPc' = [cancelPc EXCEPT ![r] = "announced"]
    /\ Broadcast(StateChange(r, "running.cancelling"))
    /\ UNCHANGED <<stateVars, unannounced, at, pc, event, ctxDone, result, tabVars>>

CallCancel(r) ==
    /\ cancelPc[r] = "announced"
    /\ cancelPc' = [cancelPc EXCEPT ![r] = "called"]
    /\ ctxDone' = ctxDone \cup {r}
    /\ UNCHANGED <<stateVars, unannounced, at, pc, event, result, brokerVars, tabVars>>

-----------------------------------------------------------------------------
(* The tab's handlers, as functions of its state.                          *)

Fresh(r) == [run |-> r, verdict |-> AllPending]
FreshUnless(shown, r) == IF shown.run = r THEN shown ELSE Fresh(r)
Raise(last, id) == IF id > last THEN id ELSE last

HandleStateChange(t, st, r) ==
    IF st \in Executing THEN [t EXCEPT !.shown = FreshUnless(t.shown, r)] ELSE t

\* An event of a run that is not shown replaces the execution shown.
HandleAssertionProgress(t, e) ==
    LET shown == FreshUnless(t.shown, e.run)
    IN [t EXCEPT !.shown = [shown EXCEPT !.verdict[e.code] = e.status]]

FaultyIsDuplicate(t, e) == FALSE

\* EventStreamManager drops what is not newer than its last event id.
IsDuplicate(t, e) == e.id <= t.last

Receive(t, e) ==
    LET u == [t EXCEPT !.last = e.id] IN
    IF IsDuplicate(t, e) THEN t
    ELSE IF e.type = "state_change" THEN HandleStateChange(u, e.status, e.run)
    ELSE HandleAssertionProgress(u, e)

\* A finished verdict is not overwritten with one that is not.
Merge(old, new) == IF old \in Finals /\ new \notin Finals THEN old ELSE new

ReconcileExecution(t, snap) ==
    LET verdict == IF t.shown.run # snap.run THEN snap.verdict
                   ELSE [c \in Codes |-> Merge(t.shown.verdict[c], snap.verdict[c])]
    IN [t EXCEPT !.shown = [run |-> snap.run, verdict |-> verdict],
                 !.last = Raise(t.last, snap.lastEventID)]

-----------------------------------------------------------------------------
(* The tab and its event streams.                                          *)

FirstSnapshot == [run |-> NoRun, verdict |-> AllPending, lastEventID |-> 0]

NoSync == [stage |-> "idle", snap |-> FirstSnapshot]
StartSync == [stage |-> "state", snap |-> FirstSnapshot]

\* handleEvents subscribes.  Opening again, after a failure, starts a fullSync.  The code
\* starts it even while an earlier one has answers outstanding; here the earlier one must
\* have ended, by its answers or by FailSync, so no two of them are merged out of order.
OpenStream ==
    /\ ~subscribed
    /\ opened < MaxStreams
    /\ opened' = opened + 1
    /\ subscribed' = TRUE
    /\ IF opened = 0 THEN UNCHANGED sync
       ELSE /\ sync.stage = "idle"
            /\ sync' = StartSync
    /\ UNCHANGED <<stateVars, runVars, lastEventID, buffer, tab>>

\* The handler writes an event and the tab receives it.
Serve ==
    /\ subscribed /\ buffer # <<>>
    /\ buffer' = Tail(buffer)
    /\ tab' = Receive(tab, Head(buffer))
    /\ UNCHANGED <<stateVars, runVars, lastEventID, subscribed, opened, sync>>

\* The connection fails, at the latest by the server's WriteTimeout: the handler
\* unsubscribes, and what it still held never reaches the tab.
LoseStream ==
    /\ subscribed
    /\ subscribed' = FALSE
    /\ buffer' = <<>>
    /\ UNCHANGED <<stateVars, runVars, lastEventID, tabVars>>

\* fullSync: the state and the playbook have arrived.  The status, which the tab shows and
\* is not modelled, decides whether the snapshot is needed.
TakeState ==
    /\ sync.stage = "state"
    /\ \/ /\ sync' = NoSync
          /\ tab' = [tab EXCEPT !.shown = Fresh(NoExecution)]
       \/ /\ sync' = [sync EXCEPT !.stage = "snapshot"]
          /\ UNCHANGED tab
    /\ UNCHANGED <<stateVars, runVars, brokerVars, opened>>

AnswerSnapshot ==
    /\ sync.stage = "snapshot"
    /\ sync' = [sync EXCEPT !.stage = "reply", !.snap = snapshot]
    /\ UNCHANGED <<stateVars, runVars, brokerVars, tab, opened>>

TakeSnapshot ==
    /\ sync.stage = "reply"
    /\ sync' = NoSync
    /\ tab' = ReconcileExecution(tab, sync.snap)
    /\ UNCHANGED <<stateVars, runVars, brokerVars, opened>>

\* A request of fullSync fails or its answer is lost: what the tab shows stays.
FailSync ==
    /\ sync.stage # "idle"
    /\ sync' = NoSync
    /\ UNCHANGED <<stateVars, runVars, brokerVars, tab, opened>>

-----------------------------------------------------------------------------
\* init opens the stream and starts a fullSync at once, without waiting for the stream.
Init ==
    /\ status = "loaded" /\ run = NoRun /\ snapshot = FirstSnapshot
    /\ unannounced = {}
    /\ at = [r \in Runs |-> 0]
    /\ pc = [r \in Runs |-> "unused"]
    /\ event = [r \in Runs |-> StateChange(NoRun, "loaded")]
    /\ ctxDone = {}
    /\ result = [r \in Runs |-> AllPending]
    /\ cancelPc = [r \in Runs |-> "none"]
    /\ lastEventID = 0
    /\ subscribed = FALSE
    /\ buffer = <<>>
    /\ tab = [shown |-> Fresh(NoExecution), last |-> 0]
    /\ opened = 0
    /\ sync = StartSync

RunNext(r) == AnnounceStart(r) \/ Callback(r) \/ BroadcastEvent(r) \/ NoteEventID(r)
              \/ Commit(r) \/ Announce(r)
CancelNext(r) == AnnounceCancel(r) \/ CallCancel(r)
SyncNext == TakeState \/ AnswerSnapshot \/ TakeSnapshot \/ FailSync
TabNext == OpenStream \/ Serve \/ LoseStream \/ SyncNext

Next ==
    \/ StartRun \/ RequestCancel \/ TabNext
    \/ \E r \in Runs : RunNext(r) \/ CancelNext(r)

Spec == Init /\ [][Next]_vars

-----------------------------------------------------------------------------
(* Properties.                                                             *)

SnapshotType == [run : 0..MaxRuns, verdict : [Codes -> Verdicts], lastEventID : Nat]
ShownType == [run : {NoExecution} \cup 0..MaxRuns, verdict : [Codes -> Verdicts]]
CallbackPcs == {"unused", "callback", "broadcast", "note", "announcing", "done"}
SyncStages == {"idle", "state", "snapshot", "reply"}

StateTypeOK == status \in Statuses /\ run \in 0..MaxRuns /\ snapshot \in SnapshotType
RunsTypeOK ==
    /\ unannounced \subseteq Runs
    /\ at \in [Runs -> 0..(2 * Assertions + 1)]
    /\ pc \in [Runs -> CallbackPcs]
    /\ event \in [Runs -> Events]
    /\ ctxDone \subseteq Runs
    /\ result \in [Runs -> [Codes -> Verdicts]]
    /\ cancelPc \in [Runs -> {"none", "captured", "announced", "called"}]
BrokerTypeOK ==
    /\ lastEventID \in Nat
    /\ subscribed \in BOOLEAN
    /\ buffer \in Seq(Events) /\ Len(buffer) <= Capacity
TabTypeOK ==
    /\ tab \in [shown : ShownType, last : Nat]
    /\ opened \in 0..MaxStreams
    /\ sync \in [stage : SyncStages, snap : SnapshotType]

\* Every variable has its type, and no subscriber holds more events than its channel has
\* room for (Broadcast's select with a default).
TypeOK == StateTypeOK /\ RunsTypeOK /\ BrokerTypeOK /\ TabTypeOK

\* A stream delivers its events in the order of their ids, and without a repeated id,
\* whichever goroutines broadcast them and whatever a full buffer lost (Broadcast and
\* BroadcastTermination number an event and hand it over in one critical section).
StreamInOrder ==
    \A i, j \in 1..Len(buffer) :
        i < j => buffer[i].id < buffer[j].id

IsFinal(e) == e.type = "state_change" /\ e.status \notin Executing
IsStart(e) == e.type = "state_change" /\ e.status = "running"

\* On a stream, the final state of a run comes after all of that run's progress and of its
\* earlier states, its start included; only the announcement of a cancel request, which
\* handleCancel makes without the lock, may still follow.
FinalStateIsLast ==
    \A i, j \in 1..Len(buffer) :
        i < j /\ IsFinal(buffer[i]) /\ buffer[j].run = buffer[i].run
            => /\ buffer[j].type = "state_change"
               /\ buffer[j].status = "running.cancelling"

\* A finished verdict that the tab shows, from an event or from a snapshot, early or late,
\* is the one the director reached, in the run that it is shown for.
VerdictsAreTheRuns ==
    \A c \in Codes :
        tab.shown.verdict[c] \in Finals
            => /\ tab.shown.run \in Runs
               /\ tab.shown.verdict[c] = result[tab.shown.run][c]

\* Nothing is lost by dropping an event as a duplicate: a finished verdict of the latest
\* run that the tab is going to drop from its stream is one that it shows already, since
\* an observer writes the snapshot before it broadcasts and notes the id after.
NothingSkipped ==
    \A i \in 1..Len(buffer) :
        LET e == buffer[i] IN
        /\ IsDuplicate(tab, e)
        /\ e.type = "progress" /\ e.status \in Finals
        /\ e.run = run /\ e.run = tab.shown.run
        => tab.shown.verdict[e.code] = e.status

\* A finished verdict stays as long as its run is shown, whatever arrives late: an event
\* that the snapshot has already accounted for, or a snapshot older than the events.
VerdictKept ==
    [][tab'.shown.run = tab.shown.run =>
        \A c \in Codes : tab.shown.verdict[c] \in Finals
            => tab'.shown.verdict[c] = tab.shown.verdict[c]]_vars

-----------------------------------------------------------------------------
(* What a run promises, as an abstract specification.                      *)
Directed(r) == INSTANCE DirectedRun WITH
    Items <- Codes,
    Earlier <- [c \in Codes |-> 1..(c - 1)],
    cancelled <- r \in ctxDone,
    verdict <- result[r],
    outcome <- IF ~Returned(r) THEN "none"
               ELSE IF \A c \in Codes : result[r][c] \in Outcomes THEN "complete"
               ELSE "cancelled"

\* The callbacks that are modelled here are those of a directed run, for every run and
\* however the runs overlap: what the director was shown to do (RunWithObserver).
RunsAreDirected == \A r \in Runs : Directed(r)!DirectedSpec

=============================================================================
