-------------------------- MODULE LifecycleProofs --------------------------
(* Proofs about Lifecycle, for any number of streams, activities and       *)
(* timers.                                                                 *)
EXTENDS Lifecycle, FiniteSetTheorems, TLAPS

\* The streams that are counted are finitely many, and none when the count is 0.
LEMMA CountedFinite ==
  ASSUME TypeOK
  PROVE  /\ IsFiniteSet(Counted)
         /\ activeClients \in Nat
         /\ activeClients = 0 <=> Counted = {}
<1>1. IsFiniteSet(Counted)
  BY LifecycleAssumption, FS_Subset DEF Counted
<1> QED
  BY <1>1, FS_CardinalityType, FS_EmptySet DEF TypeOK

\* Starting a countdown leaves a timer pending, and it is the one on record.
LEMMA CountdownStarts ==
  ASSUME NEW timers \in [Timers -> {"free", "armed", "fired"}], StartCountdown(timers),
         outdated \subseteq Timers
  PROVE  /\ timer' \in [Timers -> {"free", "armed", "fired"}]
         /\ idleTimer' \in Timers
         /\ timer'[idleTimer'] # "free"
         /\ outdated' \subseteq Timers
  BY DEF StartCountdown

\* What EnsureCountdown does to the timers.
LEMMA CountdownEnsured ==
  ASSUME TypeOK, RecordedTimerIsPending, NEW g \in BOOLEAN, EnsureCountdown(g)
  PROVE  /\ timer' \in [Timers -> {"free", "armed", "fired"}]
         /\ idleTimer' \in Timers \cup {NoTimer}
         /\ outdated' \subseteq Timers
         /\ RecordedTimerIsPending'
         /\ activeClients = 0 /\ g /\ MayCountDown => \E t \in Timers : timer'[t] # "free"
<1>1. CASE activeClients = 0 /\ g /\ MayCountDown /\ idleTimer = NoTimer
  <2>1. StartCountdown(timer)
    BY <1>1 DEF EnsureCountdown
  <2> QED
    BY <2>1, CountdownStarts DEF TypeOK, RecordedTimerIsPending
<1>2. CASE ~(activeClients = 0 /\ g /\ MayCountDown /\ idleTimer = NoTimer)
  <2>1. UNCHANGED <<timer, idleTimer, outdated>>
    BY <1>2 DEF EnsureCountdown
  <2> QED
    BY <1>2, <2>1 DEF TypeOK, RecordedTimerIsPending
<1> QED
  BY <1>1, <1>2

\* Nothing counts down at the start.
LEMMA InitCountdownInv == Init => CountdownInv
<1> SUFFICES ASSUME Init PROVE CountdownInv
  OBVIOUS
<1>1. Counted = {}
  BY DEF Init, Counted
<1>2. TypeOK
  BY <1>1, FS_EmptySet, LifecycleAssumption DEF Init, TypeOK
<1>3. CountdownNotLost
  BY LifecycleAssumption DEF Init, CountdownNotLost
<1> QED
  BY <1>2, <1>3, LifecycleAssumption DEF Init, CountdownInv, RecordedTimerIsPending

\* A client's connecting or leaving loses no countdown.
LEMMA StreamStepKeepsCountdown ==
  ASSUME CountdownInv, NEW c \in Streams,
         OpenStream(c) \/ OnClientConnect(c) \/ OnClientDisconnect(c)
  PROVE  CountdownInv'
<1> USE LifecycleAssumption
    DEF CountdownInv, TypeOK, RecordedTimerIsPending, CountdownNotLost, NoUse
<1>1. CASE OpenStream(c)
  <2>1. Counted' = Counted
    BY <1>1 DEF OpenStream, Counted
  <2> QED
    BY <1>1, <2>1 DEF OpenStream, lmVars
<1>2. CASE OnClientConnect(c)
  <2>1. Counted' = Counted \cup {c} /\ c \notin Counted
    BY <1>2 DEF OnClientConnect, Counted
  <2>2. activeClients' = Cardinality(Counted')
    BY <1>2, <2>1, CountedFinite, FS_AddElement DEF OnClientConnect
  <2>3. timer' \in [Timers -> {"free", "armed", "fired"}]
    BY <1>2 DEF OnClientConnect, TimersAfterStop
  <2>4. ~NoUse'
    BY <1>2 DEF OnClientConnect
  <2> QED
    BY <1>2, <2>2, <2>3, <2>4 DEF OnClientConnect
<1>3. CASE OnClientDisconnect(c)
  <2>1. Counted' = Counted \ {c} /\ c \in Counted
    BY <1>3 DEF OnClientDisconnect, Counted
  <2>2. /\ activeClients # 0
        /\ activeClients' = Cardinality(Counted')
        /\ activeClients' = ClientsAfterDisconnect
    BY <1>3, <2>1, CountedFinite, FS_RemoveElement
    DEF OnClientDisconnect, ClientsAfterDisconnect
  <2>3. NoUse' => ClientsAfterDisconnect = 0
    <3>1. NoUse' => Counted' = {}
      BY DEF Counted
    <3> QED
      BY <2>2, <3>1, FS_EmptySet
  <2>4. CASE ClientsAfterDisconnect = 0 /\ grace = "over" /\ MayCountDown
    <3>1. StartCountdown(TimersAfterStop)
      BY <1>3, <2>4 DEF OnClientDisconnect
    <3>2. TimersAfterStop \in [Timers -> {"free", "armed", "fired"}]
      BY DEF TimersAfterStop
    <3>3. /\ timer' \in [Timers -> {"free", "armed", "fired"}]
          /\ idleTimer' \in Timers
          /\ timer'[idleTimer'] # "free"
          /\ outdated' \subseteq Timers
      BY <3>1, <3>2, CountdownStarts
    <3> QED
      BY <1>3, <2>2, <3>3 DEF OnClientDisconnect
  <2>5. CASE ~(ClientsAfterDisconnect = 0 /\ grace = "over" /\ MayCountDown)
    BY <1>3, <2>2, <2>3, <2>5 DEF OnClientDisconnect, MayCountDown
  <2> QED
    BY <2>4, <2>5
<1> QED
  BY <1>1, <1>2, <1>3

\* CountdownInv is inductive.
LEMMA NextCountdownInv == CountdownInv /\ [Next]_vars => CountdownInv'
<1> SUFFICES ASSUME CountdownInv, [Next]_vars PROVE CountdownInv'
  OBVIOUS
<1> USE LifecycleAssumption
    DEF CountdownInv, TypeOK, RecordedTimerIsPending, CountdownNotLost, NoUse, lmVars
<1>1. CASE \E c \in Streams : OpenStream(c) \/ OnClientConnect(c) \/ OnClientDisconnect(c)
  BY <1>1, StreamStepKeepsCountdown
<1>2. ASSUME UNCHANGED stream PROVE Counted' = Counted
  BY <1>2 DEF Counted
<1>3. CASE \E a \in Activities : Begin(a) \/ End(a)
  <2>1. ~NoUse' /\ busy' \in BOOLEAN
    BY <1>3 DEF Begin, End
  <2>2. busy' => \E b \in Activities : activity'[b] = "busy"
    BY <1>3 DEF Begin, End
  <2>3. activity' \in [Activities -> {"none", "busy", "ended"}]
    BY <1>3 DEF Begin, End
  <2> QED
    BY <1>2, <1>3, <2>1, <2>2, <2>3 DEF Begin, End
<1>4. CASE \E a \in Activities : OnExecutionStateChange(a)
  <2> PICK a \in Activities : OnExecutionStateChange(a)
    BY <1>4
  <2>1. /\ timer' \in [Timers -> {"free", "armed", "fired"}]
        /\ idleTimer' \in Timers \cup {NoTimer}
        /\ outdated' \subseteq Timers
        /\ RecordedTimerIsPending'
        /\ activeClients = 0 /\ grace = "over" /\ MayCountDown
             => \E t \in Timers : timer'[t] # "free"
    BY CountdownEnsured DEF OnExecutionStateChange
  <2>2. busy' => \E b \in Activities : activity'[b] = "busy"
    BY DEF OnExecutionStateChange
  <2>3. NoUse' => activeClients = 0 /\ ~busy
    BY <2>2, CountedFinite DEF OnExecutionStateChange, Counted
  <2>4. CountdownNotLost'
    BY <2>1, <2>3 DEF OnExecutionStateChange, MayCountDown
  <2> QED
    BY <1>2, <2>1, <2>2, <2>4 DEF OnExecutionStateChange
<1>5. CASE OnGracePeriodExpired
  <2>1. /\ timer' \in [Timers -> {"free", "armed", "fired"}]
        /\ idleTimer' \in Timers \cup {NoTimer}
        /\ outdated' \subseteq Timers
        /\ RecordedTimerIsPending'
        /\ activeClients = 0 /\ MayCountDown => \E t \in Timers : timer'[t] # "free"
    BY <1>5, CountdownEnsured DEF OnGracePeriodExpired
  <2>2. NoUse => activeClients = 0 /\ ~busy
    BY CountedFinite DEF Counted
  <2>3. CountdownNotLost'
    BY <1>5, <2>1, <2>2 DEF OnGracePeriodExpired, MayCountDown
  <2> QED
    BY <1>2, <1>5, <2>1, <2>3 DEF OnGracePeriodExpired
<1>6. CASE \E t \in Timers : IdleTimerFires(t)
  BY <1>2, <1>6 DEF IdleTimerFires
<1>7. CASE \E t \in Timers : OnIdleTimeoutExpired(t)
  <2> PICK t \in Timers : OnIdleTimeoutExpired(t)
    BY <1>7
  <2>1. NoUse => activeClients = 0 /\ ~busy
    BY CountedFinite DEF Counted
  <2>2. NoUse /\ AutoShutdown /\ closing = "no" => closing' = "called"
    BY <2>1 DEF OnIdleTimeoutExpired, MayCountDown
  <2> QED
    BY <1>2, <2>2 DEF OnIdleTimeoutExpired, IdleTimerAfterExpiry
<1>8. CASE RequestShutdown \/ CloseShutdownChan \/ GraceTimerFires
  BY <1>2, <1>8 DEF RequestShutdown, CloseShutdownChan, GraceTimerFires
<1>11. CASE LateLoad
  <2>1. ~NoUse
    BY <1>11 DEF LateLoad
  <2>2. busy' \in BOOLEAN /\ ~busy'
    BY <1>11 DEF LateLoad
  <2> QED
    BY <1>2, <1>11, <2>1, <2>2 DEF LateLoad
<1>9. CASE StopLifecycle
  <2>1. timer' \in [Timers -> {"free", "armed", "fired"}]
    BY <1>9 DEF StopLifecycle, TimersAfterStop
  <2> QED
    BY <1>2, <1>9, <2>1 DEF StopLifecycle
<1>10. CASE UNCHANGED vars
  BY <1>2, <1>10 DEF vars
<1> QED
  BY <1>1, <1>3, <1>4, <1>5, <1>6, <1>7, <1>8, <1>9, <1>10, <1>11 DEF Next

\* The inductive invariant behind the countdown, about every critical section of LifecycleManager.
LEMMA CountdownInvariant == Spec => []CountdownInv
  BY InitCountdownInv, NextCountdownInv, PTL DEF Spec

\* Types are kept, and the client count is exact: it never needs its clamp at zero.
THEOREM LifecycleTypeCorrect == Spec => []TypeOK
<1>1. CountdownInv => TypeOK
  BY DEF CountdownInv
<1> QED
  BY <1>1, CountdownInvariant, PTL

\* A server that nothing uses always has a countdown pending once its grace period is
\* over.
THEOREM CountdownIsNeverLost == Spec => []CountdownNotLost
<1>1. CountdownInv => CountdownNotLost
  BY DEF CountdownInv
<1> QED
  BY <1>1, CountdownInvariant, PTL

\* The idle timer on record is pending.
THEOREM RecordedTimersPend == Spec => []RecordedTimerIsPending
<1>1. CountdownInv => RecordedTimerIsPending
  BY DEF CountdownInv
<1> QED
  BY <1>1, CountdownInvariant, PTL

-----------------------------------------------------------------------------
(* What connecting clients cancel, when no callback waits for the mutex.   *)

\* A timer started while none is pending is the only one pending, and the one on record.
LEMMA OneCountdownStarts ==
  ASSUME NEW timers \in [Timers -> {"free", "armed", "fired"}], StartCountdown(timers),
         \A t \in Timers : timers[t] = "free",
         outdated = {}
  PROVE  /\ \A t \in Timers : timer'[t] # "free" => t = idleTimer'
         /\ outdated' = {}
  BY DEF StartCountdown

\* EnsureCountdown starts a timer only when there is none, and no client.
LEMMA EnsureKeepsPrompt ==
  ASSUME CountdownInv, PromptInv, NEW g \in BOOLEAN, EnsureCountdown(g),
         UNCHANGED <<activeClients, stopped>>
  PROVE  PromptInv'
<1>1. CASE activeClients = 0 /\ g /\ MayCountDown /\ idleTimer = NoTimer
  <2>1. StartCountdown(timer) /\ ~stopped
    BY <1>1 DEF EnsureCountdown, MayCountDown
  <2>2. \A t \in Timers : timer[t] = "free"
    BY <1>1, <2>1, LifecycleAssumption DEF PromptInv
  <2>3. timer \in [Timers -> {"free", "armed", "fired"}]
    BY DEF CountdownInv, TypeOK
  <2>4. /\ \A t \in Timers : timer'[t] # "free" => t = idleTimer'
        /\ outdated' = {}
    BY <2>1, <2>2, <2>3, OneCountdownStarts DEF PromptInv
  <2> QED
    BY <1>1, <2>1, <2>4 DEF PromptInv
<1>2. CASE ~(activeClients = 0 /\ g /\ MayCountDown /\ idleTimer = NoTimer)
  <2>1. UNCHANGED <<timer, idleTimer, outdated>>
    BY <1>2 DEF EnsureCountdown
  <2> QED
    BY <2>1 DEF PromptInv
<1> QED
  BY <1>1, <1>2

\* A connect that meets no callback leaves no timer pending; the last disconnect starts one.
LEMMA StreamStepKeepsPrompt ==
  ASSUME CountdownInv, PromptInv, NEW c \in Streams,
         OpenStream(c) \/ OnClientConnect(c) \/ OnClientDisconnect(c),
         OnClientConnect(c) => \A t \in Timers : timer[t] # "fired"
  PROVE  PromptInv'
<1>1. CASE OpenStream(c)
  BY <1>1 DEF OpenStream, lmVars, PromptInv
<1>2. CASE OnClientConnect(c)
  <2>1. \A t \in Timers : TimersAfterStop[t] = "free"
    BY <1>2 DEF TimersAfterStop, PromptInv, CountdownInv, TypeOK
  <2> QED
    BY <1>2, <2>1 DEF OnClientConnect, PromptInv
<1>3. CASE OnClientDisconnect(c)
  <2>1. activeClients # 0
    BY <1>3, CountedFinite DEF OnClientDisconnect, Counted, CountdownInv
  <2>2. idleTimer = NoTimer
    BY <2>1 DEF PromptInv
  <2>3. CASE ClientsAfterDisconnect = 0 /\ grace = "over" /\ MayCountDown
    <3>1. StartCountdown(TimersAfterStop) /\ ~stopped /\ UNCHANGED stopped
      BY <1>3, <2>3 DEF OnClientDisconnect, MayCountDown
    <3>2. \A t \in Timers : TimersAfterStop[t] = "free"
      BY <2>2, <3>1, LifecycleAssumption DEF TimersAfterStop, PromptInv
    <3>3. TimersAfterStop \in [Timers -> {"free", "armed", "fired"}]
      BY DEF TimersAfterStop, CountdownInv, TypeOK
    <3>4. /\ \A t \in Timers : timer'[t] # "free" => t = idleTimer'
          /\ outdated' = {}
      BY <3>1, <3>2, <3>3, OneCountdownStarts DEF PromptInv
    <3>5. activeClients' = 0
      BY <1>3, <2>3 DEF OnClientDisconnect
    <3> QED
      BY <3>1, <3>4, <3>5 DEF PromptInv
  <2>4. CASE ~(ClientsAfterDisconnect = 0 /\ grace = "over" /\ MayCountDown)
    <3>1. UNCHANGED <<timer, idleTimer, outdated, stopped>>
      BY <1>3, <2>4 DEF OnClientDisconnect
    <3> QED
      BY <2>2, <3>1 DEF PromptInv
  <2> QED
    BY <2>3, <2>4
<1> QED
  BY <1>1, <1>2, <1>3

\* PromptInv is inductive on the steps of PromptSpec.
LEMMA NextPromptInv == CountdownInv /\ PromptInv /\ [PromptNext]_vars => PromptInv'
<1> SUFFICES ASSUME CountdownInv, PromptInv, [PromptNext]_vars PROVE PromptInv'
  OBVIOUS
<1>1. CASE \E c \in Streams : OpenStream(c) \/ OnClientConnect(c) \/ OnClientDisconnect(c)
  <2>1. CASE PromptNext
    BY <1>1, <2>1, StreamStepKeepsPrompt DEF PromptNext
  <2>2. CASE UNCHANGED vars
    BY <2>2 DEF vars, lmVars, PromptInv
  <2> QED
    BY <2>1, <2>2
<1>2. CASE \E a \in Activities : OnExecutionStateChange(a)
  <2>1. EnsureCountdown(grace = "over") /\ UNCHANGED <<activeClients, stopped>>
    BY <1>2 DEF OnExecutionStateChange
  <2> QED
    BY <2>1, EnsureKeepsPrompt
<1>3. CASE OnGracePeriodExpired
  <2>1. EnsureCountdown(TRUE) /\ UNCHANGED <<activeClients, stopped>>
    BY <1>3 DEF OnGracePeriodExpired
  <2> QED
    BY <2>1, EnsureKeepsPrompt
<1>4. CASE \E t \in Timers : IdleTimerFires(t)
  BY <1>4 DEF IdleTimerFires, PromptInv, CountdownInv, TypeOK
<1>5. CASE \E t \in Timers : OnIdleTimeoutExpired(t)
  BY <1>5, LifecycleAssumption
  DEF OnIdleTimeoutExpired, IdleTimerAfterExpiry, PromptInv, CountdownInv, TypeOK
<1>6. CASE StopLifecycle
  <2>1. \A t \in Timers : TimersAfterStop[t] # "free" => TimersAfterStop[t] = "fired"
    BY DEF TimersAfterStop, PromptInv, CountdownInv, TypeOK
  <2> QED
    BY <1>6, <2>1 DEF StopLifecycle, PromptInv
<1>7. CASE UNCHANGED <<activeClients, timer, idleTimer, stopped, outdated>>
  BY <1>7 DEF PromptInv
<1> QED
  BY <1>1, <1>2, <1>3, <1>4, <1>5, <1>6, <1>7
  DEF PromptNext, Next, Begin, End, LateLoad, GraceTimerFires, RequestShutdown,
      CloseShutdownChan, vars, lmVars

\* "expected idle timer to be cancelled on client connect" (lifecycle_test.go) is true of
\* every connect that does not meet a callback waiting for the mutex: it leaves no timer
\* pending.  A client that races an expired timer is the only way to the shutdown that
\* the violation of ConnectCancelsCountdown shows.
THEOREM PromptConnectsCancel == PromptSpec => ConnectCancelsCountdown
<1>1. Init => PromptInv
  BY DEF Init, PromptInv
<1>2. PromptSpec => Spec
  <2>1. [PromptNext]_vars => [Next]_vars
    BY DEF PromptNext
  <2> QED
    BY <2>1, PTL DEF PromptSpec, Spec
<1>3. PromptInv
        => [\A t \in Timers : OnIdleTimeoutExpired(t) /\ t \in outdated => closing' = closing]_vars
  BY DEF PromptInv
<1> QED
  BY <1>1, <1>2, <1>3, NextPromptInv, CountdownInvariant, PTL
  DEF PromptSpec, ConnectCancelsCountdown
=============================================================================
