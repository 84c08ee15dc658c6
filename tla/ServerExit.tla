----------------------------- MODULE ServerExit -----------------------------
(***************************************************************************)
(* How the web server's process ends: the main goroutine, which waits for  *)
(* a signal or for shutdownChan (internal/runner/runner.go), the calls of  *)
(* Shutdown, by the main goroutine or by TriggerShutdown (server.go), and  *)
(* the termination broadcast, which each of them makes and waits for, with *)
(* the event streams that answer it (events.go).                           *)
(*                                                                         *)
(* Of a stream's events only terminations are kept; that other events may  *)
(* fill its buffer is a choice.  The timers that trigger a shutdown are    *)
(* Lifecycle's, and what a run is RunControl's.                            *)
(*                                                                         *)
(* A definition whose name starts with Faulty is the definition after it   *)
(* with a plausible mistake, which no specification uses.                  *)
(***************************************************************************)
EXTENDS Naturals, Sequences, FiniteSets

CONSTANTS
    Streams,   \* event-stream requests, each of which opens once
    Triggers,  \* calls of TriggerShutdown: POST /api/shutdown, or a timer
    Main,      \* the main goroutine, which calls Shutdown on a signal
    None       \* no exit code

VARIABLES
    main,      \* "starting", "serving", or "stopping": it calls Shutdown
    call,      \* where each call of Shutdown is
    stream,    \* each stream: "away", "open", "told" (termination written) or "left"
    inbox,     \* the callers whose terminations wait in a stream's buffer
    owed,      \* the streams that a caller's WaitGroup still counts
    handed,    \* history: the streams that a caller has handed its termination
    timedOut,  \* history: the callers whose wait ended by its timeout
    closer,    \* the caller that closed shutdownChan, or None while it is open
    run,       \* "none", "active", "cancelled", "over" or, begun after a cancellation, "late"
    exit       \* the exit code of the process, or None

Callers == Triggers \cup {Main}

mainVars == <<main, exit>>
waitVars == <<inbox, owed, handed, timedOut>>
serverVars == <<main, call, stream, waitVars, closer, run, exit>>

Open == {s \in Streams : stream[s] = "open"}

-----------------------------------------------------------------------------
(* The main goroutine.                                                     *)

Exit(code) == exit' = code /\ UNCHANGED main

\* NewServer, the preload and Start.
StartServer ==
    /\ main = "starting"
    /\ \/ main' = "serving" /\ UNCHANGED exit
       \/ Exit(1)
    /\ UNCHANGED <<call, stream, waitVars, closer, run>>

\* The case <-srv.ShutdownChan(): it does not wait for the Shutdown that closed it.
SeeShutdown ==
    /\ main = "serving"
    /\ closer # None
    /\ Exit(0)
    /\ UNCHANGED <<call, stream, waitVars, closer, run>>

-----------------------------------------------------------------------------
(* Shutdown.                                                               *)

FaultyBroadcast(c) ==
    \E full \in SUBSET Open :
        /\ inbox' = [s \in Streams |->
                        IF s \in Open \ full THEN Append(inbox[s], c) ELSE inbox[s]]
        /\ owed' = [owed EXCEPT ![c] = {}]
        /\ handed' = [handed EXCEPT ![c] = Open \ full]

\* BroadcastTermination: a subscriber whose buffer is full counts as done.
Broadcast(c) ==
    \E full \in SUBSET Open :
        /\ inbox' = [s \in Streams |->
                        IF s \in Open \ full THEN Append(inbox[s], c) ELSE inbox[s]]
        /\ owed' = [owed EXCEPT ![c] = Open \ full]
        /\ handed' = [handed EXCEPT ![c] = Open \ full]

BeginShutdown(c) ==
    /\ main = "serving" \/ (main = "stopping" /\ c # Main)
    /\ call[c] = "idle"
    /\ Broadcast(c)
    /\ call' = [call EXCEPT ![c] = "waiting"]
    /\ main' = IF c = Main THEN "stopping" ELSE main
    /\ UNCHANGED <<stream, timedOut, closer, run, exit>>

FaultyWaitOver(c, byTimeout) == owed[c] = {} /\ ~byTimeout

\* Either case of the select that ends the wait.
WaitOver(c, byTimeout) == byTimeout \/ owed[c] = {}

EndWait(c) ==
    /\ call[c] = "waiting"
    /\ \E byTimeout \in BOOLEAN :
          /\ WaitOver(c, byTimeout)
          /\ timedOut' = IF byTimeout THEN timedOut \cup {c} ELSE timedOut
    /\ call' = [call EXCEPT ![c] = "closing"]
    /\ UNCHANGED <<mainVars, stream, inbox, owed, handed, closer, run>>

\* shutdownOnce, and lifecycle.Stop.
CloseShutdownChan(c) ==
    /\ call[c] = "closing"
    /\ closer' = IF closer = None THEN c ELSE closer
    /\ call' = [call EXCEPT ![c] = "cancelling"]
    /\ UNCHANGED <<mainVars, stream, waitVars, run>>

CancelRun(c) ==
    /\ call[c] = "cancelling"
    /\ run' = IF run \in {"active", "late"} THEN "cancelled" ELSE run
    /\ call' = [call EXCEPT ![c] = "draining"]
    /\ UNCHANGED <<mainVars, stream, waitVars, closer>>

\* httpServer.Shutdown, which waits for the handlers, or for its five seconds.  After it
\* the main goroutine returns from Run.
EndShutdown(c) ==
    /\ call[c] = "draining"
    /\ call' = [call EXCEPT ![c] = "done"]
    /\ IF c = Main THEN Exit(0) ELSE UNCHANGED mainVars
    /\ UNCHANGED <<stream, waitVars, closer, run>>

-----------------------------------------------------------------------------
(* The streams, and a run.                                                 *)

\* A handler may still be at work when a Shutdown has given up waiting for it.
Serving == main # "starting"

Connect(s) ==
    /\ Serving
    /\ stream[s] = "away"
    /\ stream' = [stream EXCEPT ![s] = "open"]
    /\ UNCHANGED <<mainVars, call, waitVars, closer, run>>

\* The handler reports back to the caller of the termination that it has written, and
\* returns: a second one in its buffer is never answered.
Acknowledged(s) == {Head(inbox[s])}

WriteTermination(s) ==
    /\ stream[s] = "open"
    /\ inbox[s] # <<>>
    /\ owed' = [c \in Callers |->
                   IF c \in Acknowledged(s) THEN owed[c] \ {s} ELSE owed[c]]
    /\ stream' = [stream EXCEPT ![s] = "told"]
    /\ inbox' = [inbox EXCEPT ![s] = <<>>]
    /\ UNCHANGED <<mainVars, call, handed, timedOut, closer, run>>

\* The client goes away, or the handler sees shutdownChan closed.  Neither reports back.
LeaveStream(s) ==
    /\ stream[s] = "open"
    /\ stream' = [stream EXCEPT ![s] = "left"]
    /\ inbox' = [inbox EXCEPT ![s] = <<>>]
    /\ UNCHANGED <<mainVars, call, owed, handed, timedOut, closer, run>>

StartRun ==
    /\ Serving
    /\ run = "none"
    /\ run' = IF \E c \in Callers : call[c] \in {"draining", "done"} THEN "late" ELSE "active"
    /\ UNCHANGED <<mainVars, call, stream, waitVars, closer>>

EndRun ==
    /\ run \in {"active", "late", "cancelled"}
    /\ run' = "over"
    /\ UNCHANGED <<mainVars, call, stream, waitVars, closer>>

ServerInit ==
    /\ main = "starting"
    /\ call = [c \in Callers |-> "idle"]
    /\ stream = [s \in Streams |-> "away"]
    /\ inbox = [s \in Streams |-> <<>>]
    /\ owed = [c \in Callers |-> {}]
    /\ handed = [c \in Callers |-> {}]
    /\ timedOut = {}
    /\ closer = None
    /\ run = "none"
    /\ exit = None

ServerNext ==
    \/ StartServer
    \/ SeeShutdown
    \/ \E c \in Callers :
           \/ BeginShutdown(c)
           \/ EndWait(c)
           \/ CloseShutdownChan(c)
           \/ CancelRun(c)
           \/ EndShutdown(c)
    \/ \E s \in Streams :
           \/ Connect(s)
           \/ WriteTermination(s)
           \/ LeaveStream(s)
    \/ StartRun
    \/ EndRun

-----------------------------------------------------------------------------
(* What the variables hold: a part of the TypeOK of Runner.                *)

ServerTypeOK ==
    /\ main \in {"starting", "serving", "stopping"}
    /\ call \in [Callers ->
                   {"idle", "waiting", "closing", "cancelling", "draining", "done"}]
    /\ stream \in [Streams -> {"away", "open", "told", "left"}]
    /\ inbox \in [Streams -> Seq(Callers)]
    /\ owed \in [Callers -> SUBSET Streams]
    /\ handed \in [Callers -> SUBSET Streams]
    /\ timedOut \subseteq Callers
    /\ closer \in Callers \cup {None}
    /\ run \in {"none", "active", "cancelled", "over", "late"}

=============================================================================
