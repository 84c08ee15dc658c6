----------------------------- MODULE Lifecycle -----------------------------
(***************************************************************************)
(* The LifecycleManager, which shuts an unused web server down: a startup  *)
(* grace period, a count of the event-stream clients, and idle countdowns  *)
(* (internal/server/lifecycle.go), with the parts of the server that call  *)
(* it: handleEvents, the ends of runs and submissions, and Shutdown.       *)
(*                                                                         *)
(* One action is one critical section of LifecycleManager.mu.  A timer     *)
(* that has fired runs its callback in a goroutine of its own, which may   *)
(* wait for the mutex while other calls take it: Stop does not recall it.  *)
(*                                                                         *)
(* Of the state manager only what GetStatus tells is kept, whether the     *)
(* status is busy; RunControl says how it comes about.                     *)
(*                                                                         *)
(* A definition whose name starts with Faulty is the definition after it   *)
(* with a plausible mistake, which no specification uses.                  *)
(***************************************************************************)
EXTENDS Naturals, FiniteSets

CONSTANTS
    Streams,      \* event-stream requests that may be open together
    Activities,   \* runs and submissions that may overlap
    Timers,       \* idle timers that may be pending together
    NoTimer,      \* Go's nil
    AutoShutdown  \* FALSE when DisableAutoShutdown is configured

ASSUME LifecycleAssumption ==
    /\ IsFiniteSet(Streams)
    /\ NoTimer \notin Timers
    /\ AutoShutdown \in BOOLEAN

VARIABLES
    stream,        \* each event-stream request: "away", "open" or "counted"
    activeClients,
    activity,      \* "none", "busy", or "ended": published, but still to notify
    busy,          \* what isExecutionActiveLocked reads from the state manager
    grace,         \* the grace timer: "armed", "fired", "stopped", or "over"
    timer,         \* each idle timer: "free", "armed" or "fired"
    idleTimer,     \* the timer that lm.idleTimer holds, or NoTimer
    stopped,
    closing,       \* Shutdown: "no", "called", "closed" (shutdownChan) or "done"
    outdated       \* history: the timers that were pending when a client connected

lmVars == <<activeClients, grace, timer, idleTimer, stopped>>
vars == <<stream, activity, busy, lmVars, closing, outdated>>

\* time.AfterFunc(inactivityTimeout, onIdleTimeoutExpired), kept in lm.idleTimer.
\* The number of Timers bounds the callbacks that may be pending at once.
StartCountdown(timers) ==
    \E t \in Timers :
        /\ timers[t] = "free"
        /\ timer' = [timers EXCEPT ![t] = "armed"]
        /\ idleTimer' = t
        /\ outdated' = outdated \ {t}

\* idleTimer.Stop(): a timer that has already fired still runs its callback.
TimersAfterStop ==
    [t \in Timers |-> IF t = idleTimer /\ timer[t] = "armed" THEN "free" ELSE timer[t]]

MayCountDown == ~busy /\ ~stopped /\ AutoShutdown

\* What the end of the grace period and the end of an activity do.
EnsureCountdown(graceExpired) ==
    IF activeClients = 0 /\ graceExpired /\ MayCountDown /\ idleTimer = NoTimer
    THEN StartCountdown(timer)
    ELSE UNCHANGED <<timer, idleTimer, outdated>>

-----------------------------------------------------------------------------
(* handleEvents                                                            *)

OpenStream(c) ==
    /\ stream[c] = "away"
    /\ stream' = [stream EXCEPT ![c] = "open"]
    /\ UNCHANGED <<activity, busy, lmVars, closing, outdated>>

OnClientConnect(c) ==
    /\ stream[c] = "open"
    /\ stream' = [stream EXCEPT ![c] = "counted"]
    /\ activeClients' = activeClients + 1
    /\ timer' = TimersAfterStop
    /\ idleTimer' = NoTimer
    /\ outdated' = {t \in Timers : TimersAfterStop[t] # "free"}
    /\ UNCHANGED <<activity, busy, grace, stopped, closing>>

FaultyClientsAfterDisconnect == activeClients

ClientsAfterDisconnect == IF activeClients = 0 THEN 0 ELSE activeClients - 1

\* The request's context ends, its server closes, or a termination event was sent.
OnClientDisconnect(c) ==
    /\ stream[c] = "counted"
    /\ stream' = [stream EXCEPT ![c] = "away"]
    /\ activeClients' = ClientsAfterDisconnect
    /\ IF ClientsAfterDisconnect = 0 /\ grace = "over" /\ MayCountDown
       THEN StartCountdown(TimersAfterStop)
       ELSE UNCHANGED <<timer, idleTimer, outdated>>
    /\ UNCHANGED <<activity, busy, grace, stopped, closing>>

-----------------------------------------------------------------------------
(* Runs and submissions, as the lifecycle manager sees them.               *)

Begin(a) ==
    /\ activity[a] = "none"
    /\ ~busy
    /\ activity' = [activity EXCEPT ![a] = "busy"]
    /\ busy' = TRUE
    /\ UNCHANGED <<stream, lmVars, closing, outdated>>

\* A load that was let through before the activity began resets the status.
LateLoad ==
    /\ busy
    /\ busy' = FALSE
    /\ UNCHANGED <<stream, activity, lmVars, closing, outdated>>

\* The activity publishes its outcome, whatever the status has become by then.
End(a) ==
    /\ activity[a] = "busy"
    /\ activity' = [activity EXCEPT ![a] = "ended"]
    /\ busy' = FALSE
    /\ UNCHANGED <<stream, lmVars, closing, outdated>>

OnExecutionStateChange(a) ==
    /\ activity[a] = "ended"
    /\ activity' = [activity EXCEPT ![a] = "none"]
    /\ EnsureCountdown(grace = "over")
    /\ UNCHANGED <<stream, activeClients, busy, grace, stopped, closing>>

-----------------------------------------------------------------------------
(* Timers and shutdown.                                                    *)

GraceTimerFires ==
    /\ grace = "armed"
    /\ grace' = "fired"
    /\ UNCHANGED <<stream, activeClients, activity, busy, timer, idleTimer, stopped, closing,
                   outdated>>

FaultyOnGracePeriodExpired ==
    /\ grace = "fired"
    /\ grace' = "over"
    /\ EnsureCountdown(grace = "over")
    /\ UNCHANGED <<stream, activeClients, activity, busy, stopped, closing>>

OnGracePeriodExpired ==
    /\ grace = "fired"
    /\ grace' = "over"
    /\ EnsureCountdown(TRUE)
    /\ UNCHANGED <<stream, activeClients, activity, busy, stopped, closing>>

IdleTimerFires(t) ==
    /\ timer[t] = "armed"
    /\ timer' = [timer EXCEPT ![t] = "fired"]
    /\ UNCHANGED <<stream, activeClients, activity, busy, grace, idleTimer, stopped, closing,
                   outdated>>

FaultyIdleTimerAfterExpiry == idleTimer

\* The callback forgets the timer on record, which may be a later one than its own.
IdleTimerAfterExpiry == NoTimer

OnIdleTimeoutExpired(t) ==
    /\ timer[t] = "fired"
    /\ timer' = [timer EXCEPT ![t] = "free"]
    /\ idleTimer' = IdleTimerAfterExpiry
    /\ closing' = IF activeClients = 0 /\ MayCountDown /\ closing = "no" THEN "called" ELSE closing
    /\ UNCHANGED <<stream, activeClients, activity, busy, grace, stopped, outdated>>

\* POST /api/shutdown, or an interrupt signal.
RequestShutdown ==
    /\ closing = "no"
    /\ closing' = "called"
    /\ UNCHANGED <<stream, activity, busy, lmVars, outdated>>

\* Shutdown: the termination broadcast ends within a second, then the channel closes.
CloseShutdownChan ==
    /\ closing = "called"
    /\ closing' = "closed"
    /\ UNCHANGED <<stream, activity, busy, lmVars, outdated>>

StopLifecycle ==
    /\ closing = "closed"
    /\ closing' = "done"
    /\ stopped' = TRUE
    /\ grace' = IF grace = "armed" THEN "stopped" ELSE grace
    /\ timer' = TimersAfterStop
    /\ idleTimer' = NoTimer
    /\ UNCHANGED <<stream, activeClients, activity, busy, outdated>>

Init ==
    /\ stream = [c \in Streams |-> "away"]
    /\ activeClients = 0
    /\ activity = [a \in Activities |-> "none"]
    /\ busy = FALSE
    /\ grace = IF AutoShutdown THEN "armed" ELSE "over"
    /\ timer = [t \in Timers |-> "free"]
    /\ idleTimer = NoTimer
    /\ stopped = FALSE
    /\ closing = "no"
    /\ outdated = {}

Next ==
    \/ \E c \in Streams : OpenStream(c) \/ OnClientConnect(c) \/ OnClientDisconnect(c)
    \/ \E a \in Activities : Begin(a) \/ End(a) \/ OnExecutionStateChange(a)
    \/ LateLoad
    \/ GraceTimerFires
    \/ OnGracePeriodExpired
    \/ \E t \in Timers : IdleTimerFires(t) \/ OnIdleTimeoutExpired(t)
    \/ RequestShutdown
    \/ CloseShutdownChan
    \/ StopLifecycle

\* Timers fire, their callbacks get the mutex, and what has ended notifies.  Clients
\* and activities may do as they please.
Fairness ==
    /\ WF_vars(GraceTimerFires) /\ WF_vars(OnGracePeriodExpired)
    /\ \A t \in Timers : WF_vars(IdleTimerFires(t)) /\ WF_vars(OnIdleTimeoutExpired(t))
    /\ \A a \in Activities : WF_vars(OnExecutionStateChange(a))

Spec == Init /\ [][Next]_vars
FairSpec == Spec /\ Fairness

-----------------------------------------------------------------------------
(* Properties                                                              *)

Counted == {c \in Streams : stream[c] = "counted"}

\* Type invariant; the client count is that of the streams that are counted.
TypeOK ==
    /\ stream \in [Streams -> {"away", "open", "counted"}]
    /\ activeClients = Cardinality(Counted)
    /\ activity \in [Activities -> {"none", "busy", "ended"}]
    /\ busy \in BOOLEAN /\ stopped \in BOOLEAN
    /\ grace \in {"armed", "fired", "stopped", "over"}
    /\ timer \in [Timers -> {"free", "armed", "fired"}]
    /\ idleTimer \in Timers \cup {NoTimer}
    /\ closing \in {"no", "called", "closed", "done"}
    /\ outdated \subseteq Timers

\* Nothing that uses the server: no client counted, no activity left to notify.
NoUse ==
    /\ \A c \in Streams : stream[c] # "counted"
    /\ \A a \in Activities : activity[a] = "none"

\* The countdown is never lost: once the grace period is over, a server that nothing
\* uses has a timer pending, whichever callback, disconnect or end of a run came last.
CountdownNotLost ==
    AutoShutdown /\ grace = "over" /\ NoUse /\ closing = "no"
        => \E t \in Timers : timer[t] # "free"

\* IsIdleTimerRunning does not lie: the timer on record is one that is still pending.
RecordedTimerIsPending == idleTimer # NoTimer => timer[idleTimer] # "free"

\* A server that nothing uses from some point on is shut down.
UnusedServerShutsDown == <>[]NoUse /\ AutoShutdown => <>(closing # "no")

\* "expected idle timer to be cancelled on client connect": no countdown that was
\* pending when a client connected shuts the server down afterwards.
ConnectCancelsCountdown ==
    [][\A t \in Timers : OnIdleTimeoutExpired(t) /\ t \in outdated => closing' = closing]_vars

-----------------------------------------------------------------------------
\* The behaviours in which no client connects while an expired timer's callback waits
\* for the mutex.  What sets them apart from Spec is the one place where a client and
\* a callback race.
PromptNext ==
    /\ Next
    /\ (\E c \in Streams : OnClientConnect(c)) => \A t \in Timers : timer[t] # "fired"

PromptSpec == Init /\ [][PromptNext]_vars

\* What PromptSpec adds to CountdownInv: one timer is pending at a time, the one on
\* record, and none while a client is counted; only Stop leaves a callback behind.
PromptInv ==
    /\ \A t \in Timers :
         timer[t] # "free" => t = idleTimer \/ (stopped /\ timer[t] = "fired")
    /\ activeClients # 0 \/ stopped => idleTimer = NoTimer
    /\ outdated = {}

\* The inductive invariant behind CountdownNotLost.
CountdownInv ==
    /\ TypeOK
    /\ RecordedTimerIsPending
    /\ busy => \E a \in Activities : activity[a] = "busy"
    /\ stopped => closing # "no"
    /\ grace = "stopped" => closing # "no"
    /\ CountdownNotLost
=============================================================================
