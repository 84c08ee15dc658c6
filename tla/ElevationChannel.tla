-------------------------- MODULE ElevationChannel --------------------------
(***************************************************************************)
(* The connection between the probe and its privileged worker process      *)
(* (internal/elevation: Client.Run and Close in client.go, RunWorker in    *)
(* worker.go).  It begins when the worker has connected; how a run comes   *)
(* by its client, and how runs share one, is RunControl's subject.         *)
(*                                                                         *)
(* A request is one call of Client.Run, named by the id that it sends.  A  *)
(* cancelled call returns at once, but its goroutine goes on reading the   *)
(* client's decoder, and the worker goes on executing its command.  A      *)
(* json.Decoder must not be used by two goroutines at once: from then on   *)
(* a read may return any answer sent so far, or fail.                      *)
(*                                                                         *)
(* Ping, which no code but a test calls, and messages that the client      *)
(* never sends are left out.  What a command does and answers is not told  *)
(* apart.                                                                  *)
(*                                                                         *)
(* A definition whose name starts with Faulty is the definition after it   *)
(* with a plausible mistake, which no specification uses.                  *)
(***************************************************************************)
EXTENDS Naturals, Sequences, FiniteSets

CONSTANTS
    Requests, \* the ids of the requests
    Shutdown, \* the message that Close sends
    Nothing,  \* the content of an empty channel
    Failure   \* what a decoder delivers that could not decode

ASSUME ChannelAssumption ==
    /\ Shutdown \notin Requests
    /\ Nothing \notin Requests
    /\ Failure \notin Requests
    /\ Nothing # Failure

VARIABLES
    \* the client
    call,      \* where each call of Run is, and how it returned
    ctxDone,   \* the requests whose context is done
    reading,   \* the requests whose goroutine is in decoder.Decode
    decoded,   \* the channel from that goroutine to its call
    raced,     \* have two goroutines been in Decode together?
    broken,    \* the decoder's error, which stays
    close,     \* Close: "open", then "waiting" for the process, then "closed"
    \* the connection
    toWorker,  \* messages not yet taken by the worker's loop
    toClient,  \* answers not yet decoded
    sent,      \* all answers ever sent
    \* the worker process
    worker,    \* "serving" or "ended"
    command    \* the command of each request

clientVars == <<call, ctxDone, reading, decoded, raced, broken, close>>
wireVars == <<toWorker, toClient, sent>>
workerVars == <<worker, command>>
vars == <<clientVars, wireVars, workerVars>>

Closed == close # "open"

Init ==
    /\ call = [r \in Requests |-> "unused"]
    /\ ctxDone = {} /\ reading = {}
    /\ decoded = [r \in Requests |-> Nothing]
    /\ raced = FALSE /\ broken = FALSE
    /\ close = "open"
    /\ toWorker = <<>> /\ toClient = <<>> /\ sent = {}
    /\ worker = "serving"
    /\ command = [r \in Requests |-> "none"]

-----------------------------------------------------------------------------
(* Client.Run.                                                             *)

\* The caller's context is done, before the call or during it.
CancelContext(r) ==
    /\ r \notin ctxDone
    /\ ctxDone' = ctxDone \cup {r}
    /\ UNCHANGED <<call, reading, decoded, raced, broken, close, wireVars, workerVars>>

\* The checks made under the client's lock.
MaySend(r) == ~Closed /\ r \notin ctxDone

Refuse(r) ==
    /\ call[r] = "unused"
    /\ Closed \/ r \in ctxDone
    /\ call' = [call EXCEPT ![r] = "refused"]
    /\ UNCHANGED <<ctxDone, reading, decoded, raced, broken, close, wireVars, workerVars>>

\* The request is encoded under the lock, and a goroutine launched to read the answer.
Send(r) ==
    /\ call[r] = "unused"
    /\ MaySend(r)
    /\ worker = "serving"
    /\ call' = [call EXCEPT ![r] = "waiting"]
    /\ toWorker' = Append(toWorker, r)
    /\ reading' = reading \cup {r}
    /\ raced' = (raced \/ reading # {})
    /\ UNCHANGED <<ctxDone, decoded, broken, close, toClient, sent, workerVars>>

\* Encoding fails when the worker is gone.
SendFails(r) ==
    /\ call[r] = "unused"
    /\ MaySend(r)
    /\ worker = "ended"
    /\ call' = [call EXCEPT ![r] = "failed"]
    /\ UNCHANGED <<ctxDone, reading, decoded, raced, broken, close, wireVars, workerVars>>

FaultyReadersWithout(r) == reading
ReadersWithout(r) == reading \ {r}

\* One goroutine's Decode returns what is next on the connection, ...
Decode(r) ==
    /\ r \in reading
    /\ ~raced /\ ~broken /\ toClient # <<>>
    /\ decoded' = [decoded EXCEPT ![r] = Head(toClient)]
    /\ toClient' = Tail(toClient)
    /\ reading' = ReadersWithout(r)
    /\ UNCHANGED <<call, ctxDone, raced, broken, close, toWorker, sent, workerVars>>

\* ... after two of them have shared the decoder anything, ...
DecodeAny(r) ==
    /\ r \in reading
    /\ raced
    /\ \E a \in sent \cup {Failure} : decoded' = [decoded EXCEPT ![r] = a]
    /\ reading' = ReadersWithout(r)
    /\ UNCHANGED <<call, ctxDone, raced, broken, close, wireVars, workerVars>>

FaultyAtEnd == Closed
AtEnd == Closed \/ (worker = "ended" /\ toClient = <<>>)

\* ... and an error when the connection is closed or has ended.
DecodeFails(r) ==
    /\ r \in reading
    /\ AtEnd \/ broken
    /\ decoded' = [decoded EXCEPT ![r] = Failure]
    /\ broken' = TRUE
    /\ reading' = ReadersWithout(r)
    /\ UNCHANGED <<call, ctxDone, raced, close, wireVars, workerVars>>

FaultyAccepts(r, a) == a # Failure
Accepts(r, a) == a = r

Return(r) ==
    /\ call[r] = "waiting"
    /\ decoded[r] # Nothing
    /\ call' = [call EXCEPT ![r] = IF Accepts(r, decoded[r]) THEN "answered"
                                   ELSE IF decoded[r] = Failure THEN "failed"
                                   ELSE "mismatched"]
    /\ UNCHANGED <<ctxDone, reading, decoded, raced, broken, close, wireVars, workerVars>>

FaultyReadersAfter(r) == ReadersWithout(r)

\* The goroutine that reads is left behind.
ReadersAfter(r) == reading

ReturnCancelled(r) ==
    /\ call[r] = "waiting"
    /\ r \in ctxDone
    /\ call' = [call EXCEPT ![r] = "cancelled"]
    /\ reading' = ReadersAfter(r)
    /\ UNCHANGED <<ctxDone, decoded, raced, broken, close, wireVars, workerVars>>

-----------------------------------------------------------------------------
(* Client.Close.                                                           *)

\* The shutdown message is sent and the connection closed.  A connection closed with
\* unread answers is reset, and the message may then be lost.
Close ==
    /\ close = "open"
    /\ close' = "waiting"
    /\ \/ toWorker' = Append(toWorker, Shutdown)
       \/ toClient # <<>> /\ UNCHANGED toWorker
       \/ worker = "ended" /\ UNCHANGED toWorker
    /\ UNCHANGED <<call, ctxDone, reading, decoded, raced, broken, toClient, sent,
                   workerVars>>

\* proc.Wait.
CloseReturns ==
    /\ close = "waiting" /\ worker = "ended"
    /\ close' = "closed"
    /\ UNCHANGED <<call, ctxDone, reading, decoded, raced, broken, wireVars, workerVars>>

-----------------------------------------------------------------------------
(* RunWorker.                                                              *)

\* The loop returns without waiting for the goroutines of the commands, and the process
\* exits: a command under way is killed in time, or is left running.
End ==
    /\ worker' = "ended"
    /\ \E killed \in SUBSET {r \in Requests : command[r] = "running"} :
           command' = [r \in Requests |->
                         IF command[r] # "running" THEN command[r]
                         ELSE IF r \in killed THEN "killed" ELSE "orphaned"]

\* Each request is executed in a goroutine of its own.
TakeRequest ==
    /\ worker = "serving"
    /\ toWorker # <<>> /\ Head(toWorker) # Shutdown
    /\ command' = [command EXCEPT ![Head(toWorker)] = "running"]
    /\ toWorker' = Tail(toWorker)
    /\ UNCHANGED <<worker, toClient, sent, clientVars>>

TakeShutdown ==
    /\ worker = "serving"
    /\ toWorker # <<>> /\ Head(toWorker) = Shutdown
    /\ toWorker' = Tail(toWorker)
    /\ End
    /\ UNCHANGED <<toClient, sent, clientVars>>

FaultySeesEnd == FALSE
SeesEnd == Closed

\* Decoding fails: the connection has ended, or was reset before all was read.
TakeError ==
    /\ worker = "serving"
    /\ SeesEnd
    /\ toWorker = <<>> \/ toClient # <<>>
    /\ End
    /\ UNCHANGED <<wireVars, clientVars>>

\* A command ends, with a result or with an error, and the answer is sent.
Answer(r) ==
    /\ worker = "serving"
    /\ command[r] = "running"
    /\ command' = [command EXCEPT ![r] = "finished"]
    /\ toClient' = Append(toClient, r)
    /\ sent' = sent \cup {r}
    /\ UNCHANGED <<worker, toWorker, clientVars>>

\* The process is killed, or crashes.
Die ==
    /\ worker = "serving"
    /\ End
    /\ UNCHANGED <<wireVars, clientVars>>

-----------------------------------------------------------------------------
Reader(r) == Decode(r) \/ DecodeAny(r) \/ DecodeFails(r)
Caller(r) == Refuse(r) \/ Send(r) \/ SendFails(r) \/ Return(r) \/ ReturnCancelled(r)
WorkerLoop == TakeRequest \/ TakeShutdown \/ TakeError

Next ==
    \/ \E r \in Requests : CancelContext(r) \/ Caller(r) \/ Reader(r) \/ Answer(r)
    \/ Close \/ CloseReturns \/ WorkerLoop \/ Die

Spec == Init /\ [][Next]_vars

\* The goroutines run on.  Nothing is assumed of commands: Answer is not fair.
Fairness ==
    /\ WF_vars(WorkerLoop)
    /\ \A r \in Requests : WF_vars(Reader(r)) /\ WF_vars(Return(r) \/ ReturnCancelled(r))

FairSpec == Spec /\ Fairness

-----------------------------------------------------------------------------
(* Properties.                                                             *)

Returns == {"answered", "failed", "mismatched", "cancelled", "refused"}

\* Every variable has its type, and no goroutine is left in Decode that has delivered.
TypeOK ==
    /\ call \in [Requests -> {"unused", "waiting"} \cup Returns]
    /\ ctxDone \subseteq Requests
    /\ reading \subseteq {r \in Requests : decoded[r] = Nothing}
    /\ decoded \in [Requests -> Requests \cup {Nothing, Failure}]
    /\ raced \in BOOLEAN /\ broken \in BOOLEAN
    /\ close \in {"open", "waiting", "closed"}
    /\ toWorker \in Seq(Requests \cup {Shutdown})
    /\ toClient \in Seq(Requests)
    /\ sent \subseteq Requests
    /\ worker \in {"serving", "ended"}
    /\ command \in [Requests -> {"none", "running", "finished", "killed", "orphaned"}]

\* A call that returns a result returns the result of its own command, and that command ran
\* to its end: it was neither killed with the worker nor left behind by it, whoever else
\* used the client, cancelled or closed it meanwhile.
AnswerMeansExecuted ==
    \A r \in Requests : call[r] = "answered" => command[r] = "finished"

\* An answer reaches another call than its own only after two goroutines have shared the
\* decoder: a call that was cancelled and left alone does not spoil the next one once its
\* answer has been read.
MismatchMeansRace == \A r \in Requests : call[r] = "mismatched" => raced

\* A call does not wait for ever on a worker that has ended, on a client that has been
\* closed or once its context is done.
CallsReturn ==
    \A r \in Requests :
        (call[r] = "waiting" /\ (Closed \/ worker = "ended" \/ r \in ctxDone))
            ~> (call[r] # "waiting")

\* The worker does not outlive its client, even if the shutdown message is lost, and so
\* Close returns.
WorkerEnds == Closed ~> (worker = "ended")

-----------------------------------------------------------------------------
(* What the worker promises, as an abstract specification.                 *)
CallSeen(r) ==
    CASE call[r] = "waiting" -> "issued"
      [] call[r] = "refused" -> "rejected"
      [] call[r] \in {"failed", "mismatched", "cancelled"} -> "unanswered"
      [] OTHER -> call[r]

CommandSeen(r) == IF command[r] \in {"killed", "orphaned"} THEN "abandoned" ELSE command[r]

Remote == INSTANCE RemoteExecution WITH
    call <- [r \in Requests |-> CallSeen(r)],
    command <- [r \in Requests |-> CommandSeen(r)],
    alive <- worker = "serving"

\* Whatever is cancelled, closed, mixed up or killed, a command is started at most once and
\* only if its call was let through, and a call that returns an answer returns it after its
\* own command has ended (Client.Run, RunWorker).
ImplementsRemoteExecution == Remote!RemoteSpec

=============================================================================
