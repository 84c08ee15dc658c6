----------------------- MODULE ElevationChannelProofs -----------------------
(***************************************************************************)
(* Proofs about ElevationChannel: type correctness, that an answer is of   *)
(* an executed command, and that answers are only mixed up after a race.   *)
(***************************************************************************)
EXTENDS ElevationChannel, TLAPS

\* A request that has not been made has left no trace.
Unsent ==
    \A r \in Requests : call[r] = "unused" => decoded[r] = Nothing /\ r \notin reading
                                              /\ command[r] = "none"

\* Requests under way are distinct, and have not begun.
QueueOK ==
    \A i \in 1..Len(toWorker) : toWorker[i] # Shutdown =>
        /\ command[toWorker[i]] = "none"
        /\ call[toWorker[i]] # "unused"
        /\ \A j \in 1..Len(toWorker) : toWorker[j] = toWorker[i] => i = j

\* Answers under way are distinct.
AnswersOK ==
    \A i \in 1..Len(toClient) :
        /\ toClient[i] \in sent
        /\ \A j \in 1..Len(toClient) : toClient[j] = toClient[i] => i = j

SentOK == \A r \in sent : command[r] = "finished"

\* What a call has got was sent, and what it returned it had got.
DecodedOK ==
    \A r \in Requests : /\ decoded[r] \in sent \cup {Nothing, Failure}
                        /\ call[r] = "answered" => decoded[r] = r

\* As long as no two goroutines have met in Decode there is one at most, everything under
\* way is for it, and what has been read was for its reader.
Alone ==
    ~raced =>
        /\ \A q, r \in reading : q = r
        /\ \A r \in Requests : decoded[r] \in {Nothing, Failure, r} /\ call[r] # "mismatched"
        /\ ~broken =>
              /\ \A i \in 1..Len(toWorker) : toWorker[i] # Shutdown => toWorker[i] \in reading
              /\ \A i \in 1..Len(toClient) : toClient[i] \in reading
              /\ \A r \in Requests : command[r] = "running" => r \in reading

Inv == TypeOK /\ Unsent /\ QueueOK /\ AnswersOK /\ SentOK /\ DecodedOK /\ Alone

-----------------------------------------------------------------------------
\* What appending a message does to the entries of a channel.
LEMMA AppendEntries ==
    ASSUME NEW S, NEW s \in Seq(S), NEW e \in S
    PROVE  /\ Append(s, e) \in Seq(S)
           /\ Len(Append(s, e)) = Len(s) + 1
           /\ \A i \in 1..Len(s) : Append(s, e)[i] = s[i]
           /\ Append(s, e)[Len(s) + 1] = e
  OBVIOUS

\* A context that is done changes nothing else.
LEMMA CancelContextKeeps ==
    ASSUME Inv, NEW r \in Requests, CancelContext(r)
    PROVE  Inv'
  <1>1. TypeOK'
    BY DEF Inv, TypeOK, CancelContext, wireVars, workerVars
  <1>2. Unsent' /\ SentOK' /\ DecodedOK'
    BY DEF Inv, CancelContext, wireVars, workerVars, Unsent, SentOK, DecodedOK
  <1>3. QueueOK' /\ AnswersOK'
    BY DEF Inv, CancelContext, wireVars, workerVars, QueueOK, AnswersOK
  <1>4. Alone'
    BY DEF Inv, CancelContext, wireVars, workerVars, Alone
  <1> QED BY <1>1, <1>2, <1>3, <1>4 DEF Inv

\* A refused request goes nowhere.
LEMMA RefuseKeeps ==
    ASSUME Inv, NEW r \in Requests, Refuse(r)
    PROVE  Inv'
  <1>1. TypeOK'
    BY DEF Inv, TypeOK, Refuse, wireVars, workerVars, Returns
  <1>2. Unsent' /\ SentOK' /\ DecodedOK'
    BY DEF Inv, Refuse, wireVars, workerVars, Unsent, SentOK, DecodedOK
  <1>3. QueueOK' /\ AnswersOK'
    BY DEF Inv, Refuse, wireVars, workerVars, QueueOK, AnswersOK
  <1>4. Alone'
    BY DEF Inv, Refuse, wireVars, workerVars, Alone
  <1> QED BY <1>1, <1>2, <1>3, <1>4 DEF Inv

\* A new request is not under way yet, and if its goroutine is alone, nothing else is either.
LEMMA SendKeeps ==
    ASSUME Inv, NEW r \in Requests, Send(r)
    PROVE  Inv'
  <1>1. TypeOK'
    BY DEF Inv, TypeOK, Send, workerVars, Unsent
  <1>2. Unsent' /\ SentOK' /\ DecodedOK'
    BY DEF Inv, TypeOK, Send, workerVars, Unsent, SentOK, DecodedOK
  <1>3. QueueOK' /\ AnswersOK'
    BY DEF Inv, TypeOK, Send, MaySend, workerVars, Unsent, QueueOK, AnswersOK
  <1>4. Alone'
    <2> SUFFICES ASSUME ~raced'
                 PROVE  Alone'
      BY DEF Alone
    <2>1. ~raced /\ reading = {} /\ reading' = {r}
      BY DEF Send, Inv, TypeOK
    <2>2. \A q \in Requests : decoded'[q] \in {Nothing, Failure, q} /\ call'[q] # "mismatched"
      BY <2>1 DEF Send, Inv, TypeOK, Alone
    <2>3. /\ toWorker' = Append(toWorker, r)
          /\ r \in Requests \cup {Shutdown}
          /\ toWorker \in Seq(Requests \cup {Shutdown})
      BY DEF Send, Inv, TypeOK
    <2>4. ~broken => \A i \in 1..Len(toWorker') : toWorker'[i] # Shutdown => toWorker'[i] = r
      BY <2>1, <2>3, AppendEntries DEF Inv, Alone
    <2>5. ~broken => /\ \A i \in 1..Len(toClient') : toClient'[i] = r
                     /\ \A q \in Requests : command'[q] = "running" => q = r
      BY <2>1 DEF Send, Inv, Alone, workerVars
    <2> QED BY <2>1, <2>2, <2>4, <2>5 DEF Alone, Send
  <1> QED BY <1>1, <1>2, <1>3, <1>4 DEF Inv

\* A request that could not be encoded goes nowhere.
LEMMA SendFailsKeeps ==
    ASSUME Inv, NEW r \in Requests, SendFails(r)
    PROVE  Inv'
  <1>1. TypeOK'
    BY DEF Inv, TypeOK, SendFails, wireVars, workerVars, Returns
  <1>2. Unsent' /\ SentOK' /\ DecodedOK'
    BY DEF Inv, SendFails, wireVars, workerVars, Unsent, SentOK, DecodedOK
  <1>3. QueueOK' /\ AnswersOK'
    BY DEF Inv, SendFails, wireVars, workerVars, QueueOK, AnswersOK
  <1>4. Alone'
    BY DEF Inv, SendFails, wireVars, workerVars, Alone
  <1> QED BY <1>1, <1>2, <1>3, <1>4 DEF Inv

\* A call returns what it has got.
LEMMA ReturnKeeps ==
    ASSUME Inv, NEW r \in Requests, Return(r)
    PROVE  Inv'
  <1>1. TypeOK'
    BY DEF Inv, TypeOK, Return, wireVars, workerVars, Returns
  <1>2. Unsent' /\ SentOK' /\ DecodedOK'
    BY DEF Inv, Return, Accepts, wireVars, workerVars, Unsent, SentOK, DecodedOK
  <1>3. QueueOK' /\ AnswersOK'
    BY DEF Inv, Return, wireVars, workerVars, QueueOK, AnswersOK
  <1>4. Alone'
    BY DEF Inv, Return, Accepts, wireVars, workerVars, Alone
  <1> QED BY <1>1, <1>2, <1>3, <1>4 DEF Inv

\* A cancelled call leaves its goroutine where it is.
LEMMA ReturnCancelledKeeps ==
    ASSUME Inv, NEW r \in Requests, ReturnCancelled(r)
    PROVE  Inv'
  <1>1. TypeOK'
    BY DEF Inv, TypeOK, ReturnCancelled, ReadersAfter, wireVars, workerVars, Returns
  <1>2. Unsent' /\ SentOK' /\ DecodedOK'
    BY DEF Inv, ReturnCancelled, ReadersAfter, wireVars, workerVars, Unsent, SentOK,
           DecodedOK
  <1>3. QueueOK' /\ AnswersOK'
    BY DEF Inv, ReturnCancelled, wireVars, workerVars, QueueOK, AnswersOK
  <1>4. Alone'
    BY DEF Inv, ReturnCancelled, ReadersAfter, wireVars, workerVars, Alone
  <1> QED BY <1>1, <1>2, <1>3, <1>4 DEF Inv

\* The only goroutine in Decode reads the only answer under way: nothing is left.
LEMMA DecodeKeeps ==
    ASSUME Inv, NEW r \in Requests, Decode(r)
    PROVE  Inv'
  <1>1. TypeOK'
    BY DEF Inv, TypeOK, Decode, ReadersWithout, workerVars
  <1>2. Unsent' /\ SentOK' /\ DecodedOK'
    BY ChannelAssumption DEF Inv, TypeOK, Decode, ReadersWithout, workerVars, Unsent,
                             SentOK, DecodedOK, AnswersOK
  <1>3. QueueOK' /\ AnswersOK'
    BY DEF Inv, Decode, workerVars, QueueOK, AnswersOK
  <1>4. Alone'
    BY DEF Inv, Decode, ReadersWithout, workerVars, SentOK, QueueOK, AnswersOK, Alone
  <1> QED BY <1>1, <1>2, <1>3, <1>4 DEF Inv

\* After a race, what is read was sent nevertheless.
LEMMA DecodeAnyKeeps ==
    ASSUME Inv, NEW r \in Requests, DecodeAny(r)
    PROVE  Inv'
  <1>1. TypeOK'
    BY DEF Inv, TypeOK, DecodeAny, ReadersWithout, wireVars, workerVars
  <1>2. Unsent' /\ SentOK' /\ DecodedOK'
    BY ChannelAssumption DEF Inv, TypeOK, DecodeAny, ReadersWithout, wireVars, workerVars,
                             Unsent, SentOK, DecodedOK
  <1>3. QueueOK' /\ AnswersOK'
    BY DEF Inv, DecodeAny, ReadersWithout, wireVars, workerVars, QueueOK, AnswersOK
  <1>4. Alone'
    BY DEF Inv, DecodeAny, ReadersWithout, wireVars, workerVars, Alone
  <1> QED BY <1>1, <1>2, <1>3, <1>4 DEF Inv

\* A failed Decode delivers no answer.
LEMMA DecodeFailsKeeps ==
    ASSUME Inv, NEW r \in Requests, DecodeFails(r)
    PROVE  Inv'
  <1>1. TypeOK'
    BY DEF Inv, DecodeFails, ReadersWithout, wireVars, workerVars, TypeOK
  <1>2. Unsent' /\ SentOK' /\ DecodedOK'
    BY ChannelAssumption DEF Inv, TypeOK, DecodeFails, ReadersWithout, wireVars, workerVars,
                             Unsent, SentOK, DecodedOK
  <1>3. QueueOK' /\ AnswersOK'
    BY DEF Inv, DecodeFails, ReadersWithout, wireVars, workerVars, QueueOK, AnswersOK
  <1>4. Alone'
    BY DEF Inv, DecodeFails, ReadersWithout, wireVars, workerVars, Alone
  <1> QED BY <1>1, <1>2, <1>3, <1>4 DEF Inv

\* A command that ends sends its first and only answer.
LEMMA AnswerKeeps ==
    ASSUME Inv, NEW r \in Requests, Answer(r)
    PROVE  Inv'
  <1>1. TypeOK'
    BY DEF Inv, Answer, clientVars, TypeOK
  <1>2. Unsent' /\ SentOK' /\ DecodedOK'
    BY DEF Inv, TypeOK, Answer, clientVars, Unsent, SentOK, DecodedOK
  <1>3. QueueOK' /\ AnswersOK'
    BY ChannelAssumption DEF Inv, TypeOK, SentOK, Answer, clientVars, QueueOK, AnswersOK
  <1>4. Alone'
    BY DEF Inv, Answer, clientVars, Alone
  <1> QED BY <1>1, <1>2, <1>3, <1>4 DEF Inv

\* The shutdown message is no request.
LEMMA CloseKeeps ==
    ASSUME Inv, Close
    PROVE  Inv'
  <1>1. TypeOK'
    <2>1. Append(toWorker, Shutdown) \in Seq(Requests \cup {Shutdown})
      BY AppendEntries DEF Inv, TypeOK
    <2>2. toWorker' \in Seq(Requests \cup {Shutdown})
      BY <2>1 DEF Inv, TypeOK, Close
    <2>3. close' \in {"open", "waiting", "closed"}
      BY DEF Close
    <2> QED BY <2>2, <2>3 DEF Inv, TypeOK, Close, workerVars
  <1>2. Unsent' /\ SentOK' /\ DecodedOK'
    BY DEF Inv, Close, workerVars, Unsent, SentOK, DecodedOK
  <1>3. QueueOK' /\ AnswersOK'
    BY DEF Inv, Close, workerVars, QueueOK, AnswersOK
  <1>4. Alone'
    BY DEF Inv, Close, workerVars, Alone
  <1> QED BY <1>1, <1>2, <1>3, <1>4 DEF Inv

\* The end of Close.
LEMMA CloseReturnsKeeps ==
    ASSUME Inv, CloseReturns
    PROVE  Inv'
  <1>1. TypeOK'
    BY DEF Inv, CloseReturns, wireVars, workerVars, TypeOK
  <1>2. Unsent' /\ SentOK' /\ DecodedOK'
    BY DEF Inv, CloseReturns, wireVars, workerVars, Unsent, SentOK, DecodedOK
  <1>3. QueueOK' /\ AnswersOK'
    BY DEF Inv, CloseReturns, wireVars, workerVars, QueueOK, AnswersOK
  <1>4. Alone'
    BY DEF Inv, CloseReturns, wireVars, workerVars, Alone
  <1> QED BY <1>1, <1>2, <1>3, <1>4 DEF Inv

\* The worker takes a request that has not begun, and no other of its id follows.
LEMMA TakeRequestKeeps ==
    ASSUME Inv, TakeRequest
    PROVE  Inv'
  <1>1. TypeOK'
    BY DEF Inv, TakeRequest, clientVars, TypeOK
  <1>2. Unsent' /\ SentOK' /\ DecodedOK'
    BY ChannelAssumption DEF Inv, TypeOK, QueueOK, TakeRequest, clientVars, Unsent, SentOK,
                             DecodedOK
  <1>3. QueueOK' /\ AnswersOK'
    BY DEF Inv, TakeRequest, clientVars, QueueOK, AnswersOK
  <1>4. Alone'
    BY DEF Inv, TakeRequest, clientVars, Alone
  <1> QED BY <1>1, <1>2, <1>3, <1>4 DEF Inv

\* The worker ends on the shutdown message; no finished command is undone.
LEMMA TakeShutdownKeeps ==
    ASSUME Inv, TakeShutdown
    PROVE  Inv'
  <1>1. TypeOK'
    BY DEF Inv, TakeShutdown, End, clientVars, TypeOK
  <1>2. Unsent' /\ SentOK' /\ DecodedOK'
    BY DEF Inv, TypeOK, TakeShutdown, End, clientVars, Unsent, SentOK, DecodedOK
  <1>3. QueueOK' /\ AnswersOK'
    BY DEF Inv, TypeOK, TakeShutdown, End, clientVars, QueueOK, AnswersOK
  <1>4. Alone'
    BY DEF Inv, TakeShutdown, End, clientVars, Alone
  <1> QED BY <1>1, <1>2, <1>3, <1>4 DEF Inv

\* The worker ends at the end of the connection.
LEMMA TakeErrorKeeps ==
    ASSUME Inv, TakeError
    PROVE  Inv'
  <1>1. TypeOK'
    BY DEF Inv, TakeError, End, clientVars, wireVars, TypeOK
  <1>2. Unsent' /\ SentOK' /\ DecodedOK'
    BY DEF Inv, TypeOK, TakeError, End, clientVars, wireVars, Unsent, SentOK, DecodedOK
  <1>3. QueueOK' /\ AnswersOK'
    BY DEF Inv, TypeOK, TakeError, End, clientVars, wireVars, QueueOK, AnswersOK
  <1>4. Alone'
    BY DEF Inv, TakeError, End, clientVars, wireVars, Alone
  <1> QED BY <1>1, <1>2, <1>3, <1>4 DEF Inv

\* The worker ends at any time.
LEMMA DieKeeps ==
    ASSUME Inv, Die
    PROVE  Inv'
  <1>1. TypeOK'
    BY DEF Inv, Die, End, clientVars, wireVars, TypeOK
  <1>2. Unsent' /\ SentOK' /\ DecodedOK'
    BY DEF Inv, TypeOK, Die, End, clientVars, wireVars, Unsent, SentOK, DecodedOK
  <1>3. QueueOK' /\ AnswersOK'
    BY DEF Inv, TypeOK, Die, End, clientVars, wireVars, QueueOK, AnswersOK
  <1>4. Alone'
    BY DEF Inv, Die, End, clientVars, wireVars, Alone
  <1> QED BY <1>1, <1>2, <1>3, <1>4 DEF Inv

-----------------------------------------------------------------------------
\* The invariant holds at first.
LEMMA InitInv == Init => Inv
  <1> SUFFICES ASSUME Init
               PROVE  Inv
    OBVIOUS
  <1>1. TypeOK
    <2>1. toWorker \in Seq(Requests \cup {Shutdown}) /\ toClient \in Seq(Requests)
      BY DEF Init
    <2> QED BY <2>1 DEF Init, TypeOK
  <1> QED
    BY <1>1 DEF Init, Inv, Unsent, QueueOK, AnswersOK, SentOK, DecodedOK, Alone

\* Every step preserves the invariant.
LEMMA NextInv == Inv /\ [Next]_vars => Inv'
  <1> SUFFICES ASSUME Inv, [Next]_vars
               PROVE  Inv'
    OBVIOUS
  <1>1. ASSUME NEW r \in Requests, CancelContext(r) \/ Caller(r) \/ Reader(r) \/ Answer(r)
        PROVE  Inv'
    BY <1>1, CancelContextKeeps, RefuseKeeps, SendKeeps, SendFailsKeeps, ReturnKeeps,
       ReturnCancelledKeeps, DecodeKeeps, DecodeAnyKeeps, DecodeFailsKeeps, AnswerKeeps
    DEF Caller, Reader
  <1>2. ASSUME Close \/ CloseReturns \/ WorkerLoop \/ Die
        PROVE  Inv'
    BY <1>2, CloseKeeps, CloseReturnsKeeps, TakeRequestKeeps, TakeShutdownKeeps,
       TakeErrorKeeps, DieKeeps
    DEF WorkerLoop
  <1>3. ASSUME UNCHANGED vars
        PROVE  Inv'
    BY <1>3 DEF vars, clientVars, wireVars, workerVars, Inv, TypeOK, Unsent, QueueOK,
                AnswersOK, SentOK, DecodedOK, Alone
  <1> QED BY <1>1, <1>2, <1>3 DEF Next

\* The invariant holds throughout.
LEMMA ChannelInv == Spec => []Inv
  <1> QED BY InitInv, NextInv, PTL DEF Spec

\* TypeOK: for any requests, however they are cancelled and whatever dies.
THEOREM ChannelTypeCorrect == Spec => []TypeOK
  <1>1. Inv => TypeOK
    BY DEF Inv
  <1> QED BY <1>1, ChannelInv, PTL

\* AnswerMeansExecuted (Client.Run, RunWorker): what a call returns as its answer is the
\* answer to its own command, which ran to its end.
THEOREM AnswersAreOfExecuted == Spec => []AnswerMeansExecuted
  <1>1. Inv => AnswerMeansExecuted
    BY ChannelAssumption DEF Inv, DecodedOK, SentOK, AnswerMeansExecuted
  <1> QED BY <1>1, ChannelInv, PTL

\* MismatchMeansRace (Client.Run): without two goroutines in Decode no answer goes astray.
THEOREM OnlyRacesMixUp == Spec => []MismatchMeansRace
  <1>1. Inv => MismatchMeansRace
    BY DEF Inv, Alone, MismatchMeansRace
  <1> QED BY <1>1, ChannelInv, PTL

-----------------------------------------------------------------------------
(* The channel keeps what RemoteExecution promises.                        *)

\* What is on its way to the worker was let through.
LetThrough ==
    \A i \in 1..Len(toWorker) :
        toWorker[i] # Shutdown => call[toWorker[i]] \notin {"unused", "refused"}

\* The abstract view of the calls, and of the commands.
Calls == [r \in Requests |-> CallSeen(r)]
Deeds == [r \in Requests |-> CommandSeen(r)]

\* Only a request that was let through gets on its way.
LEMMA LetThroughKept ==
    ASSUME Inv, LetThrough, [Next]_vars
    PROVE  LetThrough'
  <1>1. /\ toWorker \in Seq(Requests \cup {Shutdown})
        /\ call \in [Requests -> {"unused", "waiting"} \cup Returns]
        /\ \A i \in 1..Len(toWorker) : toWorker[i] \in Requests \cup {Shutdown}
    BY DEF Inv, TypeOK
  <1>2. ASSUME UNCHANGED toWorker, NEW r \in Requests, NEW c, c # "unused",
               call' = [call EXCEPT ![r] = c], c = "refused" => call[r] = "unused"
        PROVE  LetThrough'
    BY <1>1, <1>2 DEF LetThrough
  <1>3. CASE \E r \in Requests : Refuse(r) \/ SendFails(r) \/ Return(r) \/ ReturnCancelled(r)
    BY <1>2, <1>3 DEF Refuse, SendFails, Return, ReturnCancelled, wireVars
  <1>4. ASSUME NEW r \in Requests, Send(r)
        PROVE  LetThrough'
    <2>1. /\ toWorker' = Append(toWorker, r)
          /\ call' = [call EXCEPT ![r] = "waiting"] /\ call'[r] = "waiting"
      BY <1>1, <1>4 DEF Send
    <2>2. ASSUME NEW i \in 1..Len(toWorker'), toWorker'[i] # Shutdown
          PROVE  call'[toWorker'[i]] \notin {"unused", "refused"}
      <3>1. CASE toWorker'[i] = r
        BY <2>1, <3>1
      <3>2. CASE toWorker'[i] # r
        <4>1. i \in 1..Len(toWorker) /\ toWorker'[i] = toWorker[i]
          BY <1>1, <2>1, <3>2, AppendEntries
        <4>2. call'[toWorker[i]] = call[toWorker[i]]
          BY <1>1, <2>1, <2>2, <3>2, <4>1
        <4> QED BY <2>2, <4>1, <4>2 DEF LetThrough
      <3> QED BY <3>1, <3>2
    <2> QED BY <2>2 DEF LetThrough
  <1>5. CASE Close
    <2>1. UNCHANGED call /\ (UNCHANGED toWorker \/ toWorker' = Append(toWorker, Shutdown))
      BY <1>5 DEF Close
    <2> QED BY <1>1, <2>1 DEF LetThrough
  <1>6. CASE TakeRequest \/ TakeShutdown
    <2>1. UNCHANGED call /\ toWorker # <<>> /\ toWorker' = Tail(toWorker)
      BY <1>6 DEF TakeRequest, TakeShutdown, clientVars
    <2> QED BY <1>1, <2>1 DEF LetThrough
  <1>7. CASE UNCHANGED <<call, toWorker>>
    BY <1>7 DEF LetThrough
  <1>8. ASSUME NEW r \in Requests, CancelContext(r) \/ Reader(r) \/ Answer(r)
        PROVE  UNCHANGED <<call, toWorker>>
    BY <1>8 DEF CancelContext, Reader, Decode, DecodeAny, DecodeFails, Answer, wireVars,
                clientVars
  <1>9. CASE CloseReturns \/ TakeError \/ Die \/ UNCHANGED vars
    BY <1>7, <1>9 DEF CloseReturns, TakeError, Die, vars, wireVars, clientVars
  <1> QED BY <1>3, <1>4, <1>5, <1>6, <1>7, <1>8, <1>9 DEF Next, Caller, WorkerLoop

\* What a change of one call, or of one command, shows of it.
LEMMA SeenChanges ==
    ASSUME TypeOK, NEW r \in Requests, NEW x
    PROVE  /\ UNCHANGED call => UNCHANGED Calls
           /\ UNCHANGED command => UNCHANGED Deeds
           /\ call' = [call EXCEPT ![r] = x] => Calls' = [Calls EXCEPT ![r] = CallSeen(r)']
           /\ command' = [command EXCEPT ![r] = x]
                => Deeds' = [Deeds EXCEPT ![r] = CommandSeen(r)']
  BY DEF TypeOK, Calls, Deeds, CallSeen, CommandSeen

\* What a step of a call shows of it.
LEMMA CallerRefines ==
    ASSUME Inv, NEW r \in Requests, Caller(r)
    PROVE  Remote!Issue(r) \/ Remote!Reject(r) \/ Remote!Answer(r) \/ Remote!GoWithout(r)
  <1>1. TypeOK /\ UNCHANGED Deeds /\ UNCHANGED worker
    BY SeenChanges DEF Inv, Caller, Refuse, Send, SendFails, Return, ReturnCancelled,
                       workerVars
  <1>2. ASSUME NEW x, call' = [call EXCEPT ![r] = x]
        PROVE  call'[r] = x /\ Calls' = [Calls EXCEPT ![r] = CallSeen(r)']
    BY <1>1, <1>2, SeenChanges DEF TypeOK
  <1>3. Calls[r] = CallSeen(r) /\ Deeds[r] = CommandSeen(r)
    BY DEF Calls, Deeds
  <1>4. CASE Refuse(r)
    <2>1. call[r] = "unused" /\ call' = [call EXCEPT ![r] = "refused"]
      BY <1>4 DEF Refuse
    <2>2. Calls[r] = "unused" /\ Calls' = [Calls EXCEPT ![r] = "rejected"]
      BY <1>2, <1>3, <2>1 DEF CallSeen
    <2> QED BY <1>1, <2>2 DEF Remote!Reject, Calls, Deeds
  <1>5. CASE Send(r)
    <2>1. call[r] = "unused" /\ call' = [call EXCEPT ![r] = "waiting"]
      BY <1>5 DEF Send
    <2>2. Calls[r] = "unused" /\ Calls' = [Calls EXCEPT ![r] = "issued"]
      BY <1>2, <1>3, <2>1 DEF CallSeen
    <2> QED BY <1>1, <2>2 DEF Remote!Issue, Calls, Deeds
  <1>6. CASE SendFails(r)
    <2>1. call[r] = "unused" /\ call' = [call EXCEPT ![r] = "failed"] /\ worker # "serving"
      BY <1>6 DEF SendFails
    <2>2. Calls[r] = "unused" /\ Calls' = [Calls EXCEPT ![r] = "unanswered"]
      BY <1>2, <1>3, <2>1 DEF CallSeen
    <2> QED BY <1>1, <2>1, <2>2 DEF Remote!GoWithout, Calls, Deeds
  <1>7. CASE ReturnCancelled(r)
    <2>1. call[r] = "waiting" /\ call' = [call EXCEPT ![r] = "cancelled"]
      BY <1>7 DEF ReturnCancelled
    <2>2. Calls[r] = "issued" /\ Calls' = [Calls EXCEPT ![r] = "unanswered"]
      BY <1>2, <1>3, <2>1 DEF CallSeen
    <2> QED BY <1>1, <2>2 DEF Remote!GoWithout, Calls, Deeds
  <1>8. CASE Return(r)
    <2>1. call[r] = "waiting" /\ Calls[r] = "issued"
      BY <1>3, <1>8 DEF Return, CallSeen
    <2>2. CASE decoded[r] = r
      <3>1. call' = [call EXCEPT ![r] = "answered"]
        BY <1>8, <2>2 DEF Return, Accepts
      <3>2. Calls' = [Calls EXCEPT ![r] = "answered"]
        BY <1>2, <3>1 DEF CallSeen
      <3>3. command[r] = "finished"
        BY <2>2, ChannelAssumption DEF Inv, DecodedOK, SentOK
      <3>4. Deeds[r] = "finished"
        BY <1>3, <3>3 DEF CommandSeen
      <3> QED BY <1>1, <2>1, <3>2, <3>4 DEF Remote!Answer, Calls, Deeds
    <2>3. CASE decoded[r] # r
      <3>1. PICK x \in {"failed", "mismatched"} : call' = [call EXCEPT ![r] = x]
        BY <1>8, <2>3 DEF Return, Accepts
      <3>2. Calls' = [Calls EXCEPT ![r] = "unanswered"]
        BY <1>2, <3>1 DEF CallSeen
      <3> QED BY <1>1, <2>1, <3>2 DEF Remote!GoWithout, Calls, Deeds
    <2> QED BY <2>2, <2>3
  <1> QED BY <1>4, <1>5, <1>6, <1>7, <1>8 DEF Caller

\* The worker starts and ends commands as RemoteExecution does.
LEMMA WorkerRefines ==
    ASSUME Inv, LetThrough
    PROVE  /\ TakeRequest => \E r \in Requests : Remote!Begin(r)
           /\ \A r \in Requests : Answer(r) => Remote!Finish(r)
           /\ TakeShutdown \/ TakeError \/ Die => Remote!EndWorker
  <1>1. TypeOK /\ \A r \in Requests : Calls[r] = CallSeen(r) /\ Deeds[r] = CommandSeen(r)
    BY DEF Inv, Calls, Deeds
  <1>2. ASSUME TakeRequest
        PROVE  \E r \in Requests : Remote!Begin(r)
    <2>1. /\ Len(toWorker) \in Nat /\ toWorker # <<>> /\ Head(toWorker) = toWorker[1]
          /\ Head(toWorker) \in Requests /\ 1 \in 1..Len(toWorker)
          /\ toWorker[1] # Shutdown
      BY <1>1, <1>2 DEF TakeRequest, TypeOK
    <2>2. PICK r \in Requests : r = toWorker[1]
      BY <2>1
    <2>3. command[r] = "none" /\ call[r] \notin {"unused", "refused"}
      BY <2>1, <2>2 DEF Inv, QueueOK, LetThrough
    <2>4. /\ command' = [command EXCEPT ![r] = "running"]
          /\ worker = "serving" /\ UNCHANGED <<worker, call>>
      BY <1>2, <2>1, <2>2 DEF TakeRequest, clientVars
    <2>5. command'[r] = "running" /\ Deeds' = [Deeds EXCEPT ![r] = CommandSeen(r)']
      BY <1>1, <2>4, SeenChanges DEF TypeOK
    <2>6. Deeds[r] = "none" /\ Deeds' = [Deeds EXCEPT ![r] = "running"]
      BY <1>1, <2>3, <2>5 DEF CommandSeen
    <2>7. Calls[r] \notin {"unused", "rejected"} /\ UNCHANGED Calls
      <3>1. call[r] \in {"waiting"} \cup (Returns \ {"refused"})
        BY <1>1, <2>3 DEF TypeOK
      <3>2. CallSeen(r) \in {"issued", "unanswered", "answered"}
        BY <3>1 DEF CallSeen, Returns
      <3> QED BY <1>1, <2>4, <3>2, SeenChanges
    <2>8. Remote!Begin(r)
      BY <2>4, <2>6, <2>7 DEF Remote!Begin, Calls, Deeds
    <2> QED BY <2>8
  <1>3. ASSUME NEW r \in Requests, Answer(r)
        PROVE  Remote!Finish(r)
    <2>1. /\ command[r] = "running" /\ command' = [command EXCEPT ![r] = "finished"]
          /\ worker = "serving" /\ UNCHANGED <<worker, call>>
      BY <1>3 DEF Answer, clientVars
    <2>2. command'[r] = "finished" /\ Deeds' = [Deeds EXCEPT ![r] = CommandSeen(r)']
      BY <1>1, <2>1, SeenChanges DEF TypeOK
    <2>3. Deeds[r] = "running" /\ Deeds' = [Deeds EXCEPT ![r] = "finished"]
      BY <1>1, <2>1, <2>2 DEF CommandSeen
    <2> QED BY <1>1, <2>1, <2>3, SeenChanges DEF Remote!Finish, Calls, Deeds
  <1>4. ASSUME TakeShutdown \/ TakeError \/ Die
        PROVE  Remote!EndWorker
    <2>1. worker = "serving" /\ worker' = "ended" /\ UNCHANGED call /\ End
      BY <1>4 DEF TakeShutdown, TakeError, Die, End, clientVars
    <2>2. ASSUME NEW r \in Requests
          PROVE  Deeds'[r] = IF Deeds[r] = "running" THEN "abandoned" ELSE Deeds[r]
      <3>1. \/ command[r] = "running" /\ command'[r] \in {"killed", "orphaned"}
            \/ command[r] # "running" /\ command'[r] = command[r]
        BY <2>1 DEF End
      <3> QED BY <3>1 DEF Deeds, CommandSeen
    <2>3. UNCHANGED Calls
      BY <1>1, <2>1 DEF Calls, CallSeen
    <2>4. Deeds' = [r \in Requests |-> IF Deeds[r] = "running" THEN "abandoned"
                                       ELSE Deeds[r]]
      BY <2>2 DEF Deeds
    <2> QED BY <2>1, <2>3, <2>4 DEF Remote!EndWorker, Calls, Deeds
  <1> QED BY <1>2, <1>3, <1>4

\* Every step of the channel is one of RemoteExecution, or shows nothing of itself.
LEMMA NextRefines ==
    Inv /\ LetThrough /\ [Next]_vars => [Remote!RemoteNext]_Remote!remoteVars
  <1> SUFFICES ASSUME Inv, LetThrough, [Next]_vars
               PROVE  Remote!RemoteNext \/ UNCHANGED Remote!remoteVars
    OBVIOUS
  <1>1. CASE \E r \in Requests : Caller(r)
    BY <1>1, CallerRefines DEF Remote!RemoteNext
  <1>2. CASE \E r \in Requests : Answer(r)
    BY <1>2, WorkerRefines DEF Remote!RemoteNext
  <1>3. CASE WorkerLoop \/ Die
    BY <1>3, WorkerRefines DEF Remote!RemoteNext, WorkerLoop
  <1>4. CASE UNCHANGED <<call, command, worker>>
    BY <1>4 DEF Remote!remoteVars, CallSeen, CommandSeen
  <1>5. CASE \/ \E r \in Requests : CancelContext(r) \/ Reader(r)
             \/ Close \/ CloseReturns \/ UNCHANGED vars
    BY <1>4, <1>5 DEF CancelContext, Reader, Decode, DecodeAny, DecodeFails, Close,
                      CloseReturns, vars, clientVars, workerVars
  <1> QED BY <1>1, <1>2, <1>3, <1>5 DEF Next

\* The client and the worker together are a remote execution: at most once, never for a
\* call that was refused, and with honest answers, although calls are cancelled, answers are
\* read by the wrong goroutine, the connection is closed and the worker dies.
THEOREM ChannelImplementsRemoteExecution == Spec => ImplementsRemoteExecution
  <1>1. Init => Remote!RemoteInit
    BY DEF Init, Remote!RemoteInit, CallSeen, CommandSeen
  <1>2. Init => LetThrough
    BY DEF Init, LetThrough
  <1>3. Inv /\ LetThrough /\ [Next]_vars => LetThrough'
    BY LetThroughKept
  <1> QED BY <1>1, <1>2, <1>3, ChannelInv, NextRefines, PTL
          DEF Spec, ImplementsRemoteExecution, Remote!RemoteSpec

=============================================================================
