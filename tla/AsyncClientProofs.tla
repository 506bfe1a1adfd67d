------------------------- MODULE AsyncClientProofs -------------------------
(***************************************************************************)
(* Safety of the asynchronous client: its types and control for every set  *)
(* of tasks, the stream of bytes for one task or for the use that the      *)
(* documentation allows, and that a single task sees the synchronous one.  *)
(***************************************************************************)
EXTENDS AsyncClient, StreamLemmas

Frame   == [type : {"Data", "Ping", "Pong", "Close"}, tag : Nat]
Message == [type : Arriving \cup {"Close"}, tag : Nat]
Results == {"ok", "err", "Data", "Close"}
Loops   == Reasons \cup {"recv"}

Functions ==
  {"write", "send", "flush", "tryFlush", "recv", "close", "closeNoAck", "closeSync"}

Queues == sent \in Seq(Message) /\ net \in Seq(Message) /\ rbuf \in Seq(Message)

Bytes ==
  /\ written \in Seq(Frame) /\ wbuf \in Seq(Nat) /\ wire \in Seq(Nat)
  /\ connected \in BOOLEAN /\ sendFailed \in BOOLEAN
  /\ overwritten \in [Task -> BOOLEAN]

Tasks ==
  /\ call \in [Task -> Functions \cup {"none"}]
  /\ pc \in [Task -> Loops \cup {"idle"}]
  /\ result \in [Task -> Results \cup {"none"}]
  /\ awaiting \in [Task -> {"none", "send", "receive"}]
  /\ span \in [Task -> Seq(Nat)]

\* Which functions run which loop.
LoopOfCall(t) ==
  /\ pc[t] = "send" => call[t] \in {"send", "flush"}
  /\ pc[t] \in {"recv", "pong", "reply", "violation"} => call[t] \in {"recv", "close"}
  /\ pc[t] \in {"close", "closeNoAck"} => call[t] = pc[t]

\* A task is idle, or has the processor, or waits for the transport.
Turn(t) ==
  /\ call[t] \in Uses[t] \cup {"none"}
  /\ LoopOfCall(t)
  /\ pc[t] # "idle" => result[t] = "none"
  /\ pc[t] # "idle" /\ awaiting[t] = "none" /\ fault = "none" => running = t
  /\ awaiting[t] = "send" => pc[t] \in Reasons /\ span[t] # << >>
  /\ awaiting[t] = "receive" => pc[t] = "recv"

\* Who has the processor is in a loop, with a transport.
Processor ==
  /\ running \in Task \cup {"nobody"}
  /\ running # "nobody" =>
       connected /\ awaiting[running] = "none" /\ pc[running] # "idle"

Control == Processor /\ \A t \in Task : Turn(t)

-----------------------------------------------------------------------------
(* The shape of a step *)

\* A step of t leaves the other tasks' variables alone.
OnlyOwn(t) ==
  /\ Tasks'
  /\ \A u \in Task \ {t} :
       /\ call'[u] = call[u] /\ pc'[u] = pc[u] /\ result'[u] = result[u]
       /\ awaiting'[u] = awaiting[u] /\ span'[u] = span[u]

\* Its call returns,
Returned(t) ==
  /\ fault' = "none" /\ running' = "nobody"
  /\ pc'[t] = "idle" /\ awaiting'[t] = "none" /\ result'[t] \in Results
  /\ call'[t] \in Uses[t]

\* goes on in one of the loops,
GoesOn(t) ==
  /\ fault' = "none" /\ running' = t /\ connected'
  /\ pc'[t] \in Loops /\ awaiting'[t] = "none" /\ result'[t] = "none"
  /\ call'[t] \in Uses[t] /\ LoopOfCall(t)'

\* is suspended in the transport,
Waits(t) ==
  /\ fault' = "none" /\ running' = "nobody"
  /\ pc'[t] = pc[t] /\ result'[t] = result[t] /\ call'[t] = call[t]
  /\ pc[t] # "idle"
  /\ \/ awaiting'[t] = "send" /\ pc[t] \in Reasons /\ span'[t] # << >>
     \/ awaiting'[t] = "receive" /\ pc[t] = "recv"

\* or brings the program down.
Crashes(t) ==
  /\ fault' # "none" /\ running' = "nobody"
  /\ pc'[t] = pc[t] /\ result'[t] = result[t] /\ call'[t] = call[t]
  /\ pc[t] # "idle" /\ awaiting'[t] = "none"

Shape(t) ==
  /\ fault = "none" /\ running \in {t, "nobody"}
  /\ OnlyOwn(t)
  /\ Returned(t) \/ GoesOn(t) \/ Waits(t) \/ Crashes(t)

\* A step of such a shape keeps the control.
LEMMA ShapeKeepsControl ==
  ASSUME Control, NEW t \in Task, Shape(t)
  PROVE  Control'
<1>0. "nobody" \notin Task
  BY AsyncAssumption
<1>1. ASSUME NEW u \in Task \ {t}
      PROVE  Turn(u)'
  <2>1. Turn(u) /\ running # u /\ fault = "none"
    BY <1>0 DEF Control, Shape
  <2>2. pc[u] = "idle" \/ awaiting[u] # "none"
    BY <2>1 DEF Turn
  <2>3. /\ call'[u] = call[u] /\ pc'[u] = pc[u] /\ result'[u] = result[u]
        /\ awaiting'[u] = awaiting[u] /\ span'[u] = span[u]
    BY DEF Shape, OnlyOwn
  <2> QED BY <2>1, <2>2, <2>3 DEF Turn, LoopOfCall
<1>2. Turn(t)'
  <2>1. Turn(t)
    BY DEF Control
  <2>2. CASE Returned(t)
    BY <2>2 DEF Turn, Returned, LoopOfCall
  <2>3. CASE GoesOn(t)
    BY <2>3 DEF Turn, GoesOn
  <2>4. CASE Waits(t)
    BY <2>1, <2>4 DEF Turn, Waits, LoopOfCall, Reasons
  <2>5. CASE Crashes(t)
    BY <2>1, <2>5 DEF Turn, Crashes, LoopOfCall
  <2> QED BY <2>2, <2>3, <2>4, <2>5 DEF Shape
<1>3. Processor'
  <2>1. CASE GoesOn(t)
    BY <2>1 DEF Processor, GoesOn, Loops, Reasons
  <2>2. CASE Returned(t) \/ Waits(t) \/ Crashes(t)
    BY <2>2 DEF Processor, Returned, Waits, Crashes
  <2> QED BY <2>1, <2>2 DEF Shape
<1> QED BY <1>1, <1>2, <1>3 DEF Control

\* The same from what an action says.  It leaves call alone or starts a
\* function of t's, and likewise awaiting and span.
Own(t) ==
  /\ fault = "none" /\ running \in {t, "nobody"}
  /\ \/ call' = call /\ call[t] # "none"
     \/ \E function \in Uses[t] : call' = [call EXCEPT ![t] = function]
  /\ \/ awaiting' = awaiting
     \/ \E function \in {"none", "send", "receive"} :
          awaiting' = [awaiting EXCEPT ![t] = function]
  /\ span' = span \/ \E bytes \in Seq(Nat) : span' = [span EXCEPT ![t] = bytes]

LEMMA OwnVariables ==
  ASSUME Tasks, Control, NEW t \in Task, Own(t)
  PROVE  /\ call' \in [Task -> Functions \cup {"none"}] /\ call'[t] \in Uses[t]
         /\ awaiting' \in [Task -> {"none", "send", "receive"}]
         /\ span' \in [Task -> Seq(Nat)]
         /\ \A u \in Task \ {t} :
              call'[u] = call[u] /\ awaiting'[u] = awaiting[u] /\ span'[u] = span[u]
<1>1. Uses[t] \subseteq Functions /\ call[t] \in Uses[t] \cup {"none"}
  BY AsyncAssumption DEF Functions, Control, Turn
<1>2. /\ call' \in [Task -> Functions \cup {"none"}] /\ call'[t] \in Uses[t]
      /\ \A u \in Task \ {t} : call'[u] = call[u]
  BY <1>1 DEF Tasks, Own
<1>3. /\ awaiting' \in [Task -> {"none", "send", "receive"}]
      /\ \A u \in Task \ {t} : awaiting'[u] = awaiting[u]
  BY DEF Tasks, Own
<1>4. /\ span' \in [Task -> Seq(Nat)]
      /\ \A u \in Task \ {t} : span'[u] = span[u]
  <2>1. CASE span' = span
    BY <2>1 DEF Tasks
  <2>2. ASSUME NEW bytes \in Seq(Nat), span' = [span EXCEPT ![t] = bytes]
        PROVE  <1>4!1 /\ <1>4!2
    BY <2>2 DEF Tasks
  <2> QED BY <2>1, <2>2 DEF Own
<1> QED BY <1>2, <1>3, <1>4

LEMMA FinishShape ==
  ASSUME Tasks, Control, NEW t \in Task, Own(t), NEW value \in Results,
         Finish(t, value), awaiting'[t] = "none", fault' = fault
  PROVE  Shape(t) /\ Returned(t)
<1>1. /\ pc' \in [Task -> Loops \cup {"idle"}] /\ pc'[t] = "idle"
      /\ result' \in [Task -> Results \cup {"none"}] /\ result'[t] = value
      /\ \A u \in Task \ {t} : pc'[u] = pc[u] /\ result'[u] = result[u]
  BY DEF Tasks, Finish
<1>2. OnlyOwn(t)
  BY <1>1, OwnVariables DEF OnlyOwn, Tasks
<1>3. Returned(t)
  BY <1>1, OwnVariables DEF Returned, Finish, Own
<1> QED BY <1>2, <1>3 DEF Shape, Own

LEMMA GotoShape ==
  ASSUME Tasks, Control, NEW t \in Task, Own(t), NEW label \in Loops,
         Goto(t, label), awaiting'[t] = "none", fault' = fault, connected',
         /\ label = "send" => call'[t] \in {"send", "flush"}
         /\ label \in {"recv", "pong", "reply", "violation"} =>
              call'[t] \in {"recv", "close"}
         /\ label \in {"close", "closeNoAck"} => call'[t] = label
  PROVE  Shape(t) /\ GoesOn(t) /\ pc'[t] = label
<1>1. /\ pc' \in [Task -> Loops \cup {"idle"}] /\ pc'[t] = label
      /\ result' \in [Task -> Results \cup {"none"}] /\ result'[t] = "none"
      /\ \A u \in Task \ {t} : pc'[u] = pc[u] /\ result'[u] = result[u]
  BY DEF Tasks, Goto
<1>2. OnlyOwn(t)
  BY <1>1, OwnVariables DEF OnlyOwn, Tasks
<1>3. GoesOn(t)
  BY <1>1, OwnVariables DEF GoesOn, Goto, Own, LoopOfCall
<1> QED BY <1>1, <1>2, <1>3 DEF Shape, Own

\* A step that leaves the loop where it is.
LEMMA StayShape ==
  ASSUME Tasks, Control, NEW t \in Task, Own(t), UNCHANGED <<call, pc, result>>,
         pc[t] # "idle",
         \/ /\ awaiting'[t] = "none" /\ running' = t
            /\ fault' = "none" /\ connected'
         \/ /\ running' = "nobody" /\ fault' = "none"
            /\ \/ awaiting'[t] = "send" /\ pc[t] \in Reasons /\ span'[t] # << >>
               \/ awaiting'[t] = "receive" /\ pc[t] = "recv"
         \/ awaiting'[t] = "none" /\ running' = "nobody" /\ fault' # "none"
  PROVE  Shape(t)
<1>1. OnlyOwn(t)
  BY OwnVariables DEF OnlyOwn, Tasks
<1>2. pc[t] \in Loops /\ result[t] = "none" /\ LoopOfCall(t)
  BY DEF Tasks, Control, Turn
<1>3. call'[t] \in Uses[t]
  BY OwnVariables
<1>4. GoesOn(t) \/ Waits(t) \/ Crashes(t)
  BY <1>2, <1>3 DEF GoesOn, Waits, Crashes, LoopOfCall
<1> QED BY <1>1, <1>4 DEF Shape, Own

LEMMA RecvReturnsWays ==
  ASSUME NEW t \in Task, NEW value \in {"Data", "Close", "err"}, NEW up,
         RecvReturns(t, value, up)
  PROVE  \/ call[t] # "close" /\ Finish(t, value) /\ connected' = up
         \/ /\ call[t] = "close" /\ value = "Data"
            /\ Goto(t, "recv") /\ connected' = connected
         \/ /\ call[t] = "close" /\ value = "Close"
            /\ Finish(t, "ok") /\ connected' = FALSE
         \/ /\ call[t] = "close" /\ value = "err"
            /\ Finish(t, "err") /\ connected' = FALSE
<1>1. CASE call[t] # "close"
  BY <1>1 DEF RecvReturns
<1>2. CASE call[t] = "close" /\ value = "Data"
  BY <1>2 DEF RecvReturns
<1>3. CASE call[t] = "close" /\ value = "Close"
  BY <1>3 DEF RecvReturns
<1>4. CASE call[t] = "close" /\ value = "err"
  BY <1>4 DEF RecvReturns
<1> QED BY <1>1, <1>2, <1>3, <1>4

LEMMA RecvReturnsShape ==
  ASSUME Tasks, Control, NEW t \in Task, Own(t), call' = call, fault' = fault,
         awaiting'[t] = "none", NEW value \in {"Data", "Close", "err"}, NEW up,
         value = "Data" => connected,
         RecvReturns(t, value, up)
  PROVE  Shape(t)
<1>1. ASSUME NEW v \in Results, Finish(t, v)
      PROVE  Shape(t)
  BY <1>1, FinishShape
<1>2. CASE call[t] = "close" /\ value = "Data" /\ Goto(t, "recv") /\ connected' = connected
  BY <1>2, GotoShape DEF Loops
<1> QED BY <1>1, <1>2, RecvReturnsWays DEF Results

\* A task that is not suspended starts a function, or goes on with its own.
LEMMA Starts ==
  ASSUME NEW t \in Task, Runs(t), NEW function \in Uses[t],
         call' = [call EXCEPT ![t] = function], UNCHANGED <<awaiting, span>>
  PROVE  Own(t) /\ awaiting'[t] = "none"
BY DEF Own, Runs

LEMMA RunsOn ==
  ASSUME Control, Tasks, NEW t \in Task, Runs(t), pc[t] # "idle", call' = call
  PROVE  running = t /\ connected /\ call[t] # "none" /\ call[t] \in Uses[t]
<1>1. running = t /\ LoopOfCall(t) /\ call[t] \in Uses[t] \cup {"none"}
  BY DEF Control, Turn, Runs
<1>2. connected
  BY <1>1, AsyncAssumption DEF Control, Processor
<1>3. call[t] # "none"
  BY <1>1 DEF LoopOfCall, Tasks, Loops, Reasons
<1> QED BY <1>1, <1>2, <1>3

LEMMA ResumesOn ==
  ASSUME Control, Tasks, NEW t \in Task, NEW function \in {"send", "receive"},
         Resumes(t, function), call' = call,
         span' = span \/ span' = [span EXCEPT ![t] = << >>]
  PROVE  /\ Own(t) /\ awaiting'[t] = "none" /\ pc[t] # "idle"
         /\ function = "send" => pc[t] \in Reasons /\ span[t] # << >>
         /\ function = "receive" => pc[t] = "recv"
<1>1. Turn(t)
  BY DEF Control
<1>2. /\ fault = "none" /\ running = "nobody" /\ awaiting[t] = function
      /\ awaiting' = [awaiting EXCEPT ![t] = "none"]
  BY DEF Resumes
<1>3. /\ pc[t] # "idle"
      /\ function = "send" => pc[t] \in Reasons /\ span[t] # << >>
      /\ function = "receive" => pc[t] = "recv"
  BY <1>1, <1>2 DEF Turn, Reasons
<1>4. call[t] # "none"
  BY <1>1, <1>3 DEF Turn, LoopOfCall, Tasks, Loops, Reasons
<1>5. awaiting'[t] = "none"
  BY <1>2 DEF Tasks
<1>6. << >> \in Seq(Nat)
  BY EmptySeq
<1> QED BY <1>2, <1>3, <1>4, <1>5, <1>6 DEF Own

LEMMA CallShape ==
  ASSUME Tasks, Control, NEW t \in Task, Call(t)
  PROVE  Shape(t)
<1>1. CASE CallDisconnected(t)
  <2>1. running = "nobody" /\ pc[t] = "idle" /\ awaiting[t] = "none" /\ fault = "none"
    BY <1>1, AsyncAssumption DEF CallDisconnected, Control, Processor, Runs
  <2>2. PICK function \in Uses[t] : call' = [call EXCEPT ![t] = function]
    BY <1>1 DEF CallDisconnected
  <2>3. Own(t)
    BY <1>1, <2>2, Starts DEF CallDisconnected
  <2>4. Finish(t, "err")
    BY <1>1, <2>1 DEF CallDisconnected, Finish, Tasks
  <2>5. awaiting'[t] = "none" /\ fault' = fault
    BY <1>1, <2>1 DEF CallDisconnected
  <2> QED BY <2>3, <2>4, <2>5, FinishShape DEF Results
<1>2. ASSUME NEW function, Begin(t, function), UNCHANGED <<awaiting, span, fault>>
      PROVE  /\ Own(t) /\ awaiting'[t] = "none" /\ connected
             /\ function \in Uses[t] /\ call'[t] = function
  <2>1. /\ Runs(t) /\ connected /\ function \in Uses[t]
        /\ call' = [call EXCEPT ![t] = function]
    BY <1>2 DEF Begin
  <2> QED BY <1>2, <2>1, Starts DEF Tasks
<1>3. ASSUME NEW function, Begin(t, function), UNCHANGED <<awaiting, span, fault>>,
             NEW value \in Results, Finish(t, value)
      PROVE  Shape(t)
  BY <1>2, <1>3, FinishShape
<1>4. ASSUME NEW function, Begin(t, function),
             UNCHANGED <<connected, awaiting, span, fault>>,
             NEW label \in Loops, Goto(t, label),
             \/ function \in {"send", "flush"} /\ label = "send"
             \/ function = "recv" /\ label = "recv"
             \/ function \in {"close", "closeNoAck"} /\ label = function
      PROVE  Shape(t)
  BY <1>2, <1>4, GotoShape
<1>5. ASSUME NEW type, CallWrite(t, type) \/ CallSend(t, type)
      PROVE  Shape(t)
  BY <1>3, <1>4, <1>5 DEF CallWrite, CallSend, Results, Loops, Reasons
<1>6. CASE CallSendInvalid(t) \/ CallFlush(t) \/ CallRecv(t)
  BY <1>3, <1>4, <1>6 DEF CallSendInvalid, CallFlush, CallRecv, Results, Loops, Reasons
<1>7. ASSUME NEW function \in {"close", "closeNoAck"},
             CallClose(t, function) \/ CallCloseInvalid(t, function)
      PROVE  Shape(t)
  BY <1>3, <1>4, <1>7 DEF CallClose, CallCloseInvalid, Results, Loops, Reasons
<1>8. CASE TryFlush(t) \/ CloseSync(t) \/ CloseSyncInvalid(t)
  <2>1. PICK value \in Results, function \in Functions :
          /\ Begin(t, function) /\ Finish(t, value)
          /\ UNCHANGED <<awaiting, span, fault>>
    <3>1. CASE CloseSyncInvalid(t)
      BY <3>1 DEF CloseSyncInvalid, Results, Functions
    <3>2. ASSUME NEW bytes, NEW n, TrySend(t, bytes, n)
          PROVE  \E value \in Results : Finish(t, value)
      BY <3>2 DEF TrySend, Results
    <3>3. CASE TryFlush(t)
      BY <3>2, <3>3 DEF TryFlush, Functions
    <3>4. CASE CloseSync(t)
      BY <3>2, <3>4 DEF CloseSync, Functions
    <3> QED BY <1>8, <3>1, <3>3, <3>4
  <2> QED BY <1>3, <2>1
<1> QED BY <1>1, <1>5, <1>6, <1>7, <1>8 DEF Call

\* The loop of flush.
LEMMA FlushShape ==
  ASSUME Tasks, Control, Bytes, NEW t \in Task,
         \/ FlushSend(t) \/ FlushDone(t) \/ SendFailed(t)
         \/ \E n \in 1 .. Len(span[t]) : SendDone(t, n)
  PROVE  Shape(t)
<1> USE DEF Reasons
<1>1. CASE FlushSend(t)
  <2>1. /\ Runs(t) /\ pc[t] \in Reasons /\ wbuf # << >>
        /\ awaiting' = [awaiting EXCEPT ![t] = "send"] /\ running' = "nobody"
        /\ span' = [span EXCEPT ![t] = wbuf]
        /\ UNCHANGED <<call, pc, result, fault>>
    BY <1>1 DEF FlushSend, Suspend
  <2>2. Own(t)
    BY <2>1, RunsOn DEF Own, Runs, Bytes
  <2>3. awaiting'[t] = "send" /\ span'[t] # << >> /\ fault' = "none"
    BY <2>1 DEF Tasks, Runs
  <2> QED BY <2>1, <2>2, <2>3, StayShape
<1>2. CASE FlushDone(t)
  <2>1. /\ Runs(t) /\ pc[t] \in Reasons
        /\ UNCHANGED <<call, awaiting, span, fault>>
    BY <1>2 DEF FlushDone
  <2>2. running = t /\ connected /\ call[t] # "none" /\ call[t] \in Uses[t]
    BY <2>1, RunsOn
  <2>3. Own(t) /\ awaiting'[t] = "none"
    BY <2>1, <2>2 DEF Own, Runs
  <2>4. LoopOfCall(t)
    BY DEF Control, Turn
  <2>5. CASE pc[t] \in {"send", "closeNoAck"}
    BY <1>2, <2>1, <2>3, <2>5, FinishShape DEF FlushDone, Results
  <2>6. CASE pc[t] \in {"pong", "close"}
    <3>1. Goto(t, "recv") /\ connected' = connected
      BY <1>2, <2>6 DEF FlushDone
    <3>2. call'[t] \in {"recv", "close"}
      BY <2>1, <2>4, <2>6 DEF LoopOfCall
    <3> QED BY <2>1, <2>2, <2>3, <3>1, <3>2, GotoShape DEF Loops
  <2>7. CASE pc[t] \in {"reply", "violation"}
    <3>1. RecvReturns(t, "Close", FALSE) \/ RecvReturns(t, "err", FALSE)
      BY <1>2, <2>7 DEF FlushDone
    <3> QED BY <2>1, <2>3, <3>1, RecvReturnsShape
  <2> QED BY <2>1, <2>5, <2>6, <2>7
<1>3. CASE SendFailed(t)
  <2>1. /\ Resumes(t, "send") /\ connected /\ UNCHANGED <<call, fault>>
        /\ span' = [span EXCEPT ![t] = << >>]
    BY <1>3 DEF SendFailed
  <2>2. Own(t) /\ awaiting'[t] = "none" /\ pc[t] \in Reasons
    BY <2>1, ResumesOn
  <2>3. CASE pc[t] \in {"send", "close", "closeNoAck"}
    BY <1>3, <2>1, <2>2, <2>3, FinishShape DEF SendFailed, Results
  <2>4. CASE pc[t] \in {"pong", "reply", "violation"}
    <3>1. PICK up : RecvReturns(t, "err", up)
      BY <1>3, <2>4 DEF SendFailed
    <3> QED BY <2>1, <2>2, <3>1, RecvReturnsShape
  <2> QED BY <2>2, <2>3, <2>4
<1>4. ASSUME NEW n \in 1 .. Len(span[t]), SendDone(t, n)
      PROVE  Shape(t)
  <2>1. /\ Resumes(t, "send") /\ connected /\ connected' = connected
        /\ UNCHANGED <<call, pc, result>>
        /\ span' = [span EXCEPT ![t] = << >>]
        /\ fault = "none" /\ running = "nobody"
    BY <1>4 DEF SendDone, Resumes, Crash
  <2>2. Own(t) /\ awaiting'[t] = "none" /\ pc[t] # "idle"
    BY <2>1, ResumesOn
  <2>3. \/ running' = t /\ fault' = fault
        \/ running' = running /\ fault' = "out_of_range"
    BY <1>4 DEF SendDone, Crash
  <2> QED BY <2>1, <2>2, <2>3, StayShape
<1> QED BY <1>1, <1>2, <1>3, <1>4

\* The loop of recv.
LEMMA RecvShape ==
  ASSUME Tasks, Control, NEW t \in Task,
         \/ TakeData(t) \/ TakePong(t) \/ TakePing(t) \/ TakeClose(t) \/ TakeBad(t)
         \/ RecvReceive(t) \/ ReceiveFailed(t)
         \/ \E n \in 1 .. Len(net) : ReceiveDone(t, n)
  PROVE  Shape(t)
<1>0. LoopOfCall(t)
  BY DEF Control, Turn
<1>1. ASSUME NEW type, Take(t, type)
      PROVE  /\ Own(t) /\ awaiting'[t] = "none" /\ fault' = fault
             /\ call' = call /\ call'[t] \in {"recv", "close"} /\ connected
  <2>1. /\ Runs(t) /\ pc[t] = "recv" /\ UNCHANGED <<call, awaiting, span, fault>>
    BY <1>1 DEF Take
  <2>2. running = t /\ connected /\ call[t] # "none" /\ call[t] \in Uses[t]
    BY <2>1, RunsOn
  <2> QED BY <1>0, <2>1, <2>2 DEF Own, Runs, LoopOfCall
<1>2. CASE TakeData(t)
  <2>1. Take(t, "Data") /\ RecvReturns(t, "Data", connected)
    BY <1>2 DEF TakeData
  <2> QED BY <1>1, <2>1, RecvReturnsShape
<1>3. ASSUME NEW type, Take(t, type), connected' = connected,
             NEW label \in {"recv", "pong", "reply", "violation"}, Goto(t, label)
      PROVE  Shape(t)
  BY <1>1, <1>3, GotoShape DEF Loops, Reasons
<1>a. CASE TakePong(t)
  BY <1>3, <1>a DEF TakePong
<1>b. CASE TakePing(t) \/ TakeClose(t) \/ TakeBad(t)
  BY <1>3, <1>b DEF TakePing, TakeClose, TakeBad, Answer
<1>4. CASE RecvReceive(t)
  <2>1. /\ Runs(t) /\ pc[t] = "recv" /\ UNCHANGED <<call, pc, result, span, fault>>
        /\ awaiting' = [awaiting EXCEPT ![t] = "receive"] /\ running' = "nobody"
    BY <1>4 DEF RecvReceive, Suspend
  <2>2. running = t /\ call[t] # "none" /\ fault = "none"
    BY <2>1, RunsOn DEF Runs
  <2>3. Own(t)
    BY <2>1, <2>2 DEF Own
  <2>4. awaiting'[t] = "receive"
    BY <2>1 DEF Tasks
  <2> QED BY <2>1, <2>2, <2>3, <2>4, StayShape
<1>5. CASE ReceiveFailed(t)
  <2>1. /\ Resumes(t, "receive") /\ UNCHANGED <<call, span, fault>>
        /\ RecvReturns(t, "err", connected)
    BY <1>5 DEF ReceiveFailed
  <2>2. Own(t) /\ awaiting'[t] = "none"
    BY <2>1, ResumesOn
  <2> QED BY <2>1, <2>2, RecvReturnsShape
<1>6. ASSUME NEW n \in 1 .. Len(net), ReceiveDone(t, n)
      PROVE  Shape(t)
  <2>1. /\ Resumes(t, "receive") /\ connected /\ running' = t
        /\ UNCHANGED <<connected, call, pc, result, span, fault>>
    BY <1>6 DEF ReceiveDone
  <2>2. Own(t) /\ awaiting'[t] = "none" /\ pc[t] # "idle" /\ fault = "none"
    BY <2>1, ResumesOn DEF Resumes
  <2> QED BY <2>1, <2>2, StayShape
<1> QED BY <1>2, <1>a, <1>b, <1>4, <1>5, <1>6

LEMMA DestroyedShape ==
  ASSUME Tasks, Control, NEW t \in Task, ResumeDestroyed(t)
  PROVE  Shape(t)
<1>1. PICK function \in {"send", "receive"} : Resumes(t, function)
  BY DEF ResumeDestroyed
<1>2. /\ UNCHANGED <<call, span, pc, result, running>> /\ fault' # "none"
      /\ running = "nobody"
  BY <1>1 DEF ResumeDestroyed, Crash, Resumes
<1>3. Own(t) /\ awaiting'[t] = "none" /\ pc[t] # "idle"
  BY <1>1, <1>2, ResumesOn
<1> QED BY <1>2, <1>3, StayShape

LEMMA StepShape ==
  ASSUME Tasks, Control, Bytes, NEW t \in Task, Call(t) \/ Progress(t) \/ Failure(t)
  PROVE  Shape(t)
<1>1. CASE Call(t)
  BY <1>1, CallShape
<1>2. CASE Progress(t)
  BY <1>2, FlushShape, RecvShape DEF Progress
<1>3. CASE Failure(t)
  BY <1>3, FlushShape, RecvShape, DestroyedShape DEF Failure
<1> QED BY <1>1, <1>2, <1>3

-----------------------------------------------------------------------------
(* The types *)

LEMMA FrameBytesType ==
  ASSUME written \in Seq(Frame)
  PROVE  /\ FrameSize * Len(written) \in Nat
         /\ FrameBytes(Len(written) + 1) = Run(FrameSize * Len(written), FrameSize)
         /\ FrameBytes(Len(written) + 1) \in Seq(Nat)
<1>1. Len(written) \in Nat /\ FrameSize \in Nat
  BY AsyncAssumption
<1>2. FrameSize * Len(written) \in Nat
  BY <1>1
<1>3. FrameBytes(Len(written) + 1) = Run(FrameSize * Len(written), FrameSize)
  <2>1. (Len(written) + 1) - 1 = Len(written)
    BY <1>1
  <2> QED BY <2>1 DEF FrameBytes, Run
<1> QED BY <1>1, <1>2, <1>3, RunProperties

LEMMA WriteTypes ==
  ASSUME Bytes, NEW type \in {"Data", "Ping", "Pong", "Close"}, NEW tag \in Nat,
         WriteFrame(type, tag)
  PROVE  /\ written' \in Seq(Frame) /\ wbuf' \in Seq(Nat)
         /\ overwritten' \in [Task -> BOOLEAN]
<1>1. written' \in Seq(Frame)
  <2>1. [type |-> type, tag |-> tag] \in Frame
    BY DEF Frame
  <2> QED BY <2>1, AppendProperties DEF Bytes, WriteFrame
<1>2. FrameBytes(Len(written) + 1) \in Seq(Nat)
  BY FrameBytesType DEF Bytes
<1>3. wbuf' \in Seq(Nat)
  BY <1>2, ConcatProperties DEF Bytes, WriteFrame
<1>4. overwritten' \in [Task -> BOOLEAN]
  BY Zenon DEF Bytes, WriteFrame
<1> QED BY <1>1, <1>3, <1>4

LEMMA ConnectedType ==
  ASSUME Bytes, NEW t \in Task, NEW value \in {"Data", "Close", "err"},
         NEW up \in BOOLEAN, RecvReturns(t, value, up)
  PROVE  connected' \in BOOLEAN
BY RecvReturnsWays DEF Bytes

\* A part of a buffer that is moved to the wire.
LEMMA SplitTypes ==
  ASSUME NEW bytes \in Seq(Nat), NEW n \in 0 .. Len(bytes)
  PROVE  /\ SubSeq(bytes, 1, n) \in Seq(Nat)
         /\ SubSeq(bytes, n + 1, Len(bytes)) \in Seq(Nat)
OBVIOUS

LEMMA TrySendTypes ==
  ASSUME Bytes, NEW t, NEW bytes \in Seq(Nat), NEW n \in 0 .. Len(bytes),
         TrySend(t, bytes, n)
  PROVE  wire' \in Seq(Nat) /\ wbuf' \in Seq(Nat) /\ sendFailed' \in BOOLEAN
<1>1. SubSeq(bytes, 1, n) \in Seq(Nat) /\ wbuf' \in Seq(Nat)
  BY SplitTypes DEF TrySend
<1>2. wire' \in Seq(Nat)
  BY <1>1, ConcatProperties DEF Bytes, TrySend
<1>3. sendFailed' \in BOOLEAN
  BY DEF Bytes, TrySend
<1> QED BY <1>1, <1>2, <1>3

LEMMA CallBytes ==
  ASSUME Bytes, NEW t \in Task, Call(t)
  PROVE  Bytes'
<1>1. CASE CallDisconnected(t) \/ CallSendInvalid(t) \/ CallFlush(t) \/ CallRecv(t)
  BY <1>1 DEF CallDisconnected, CallSendInvalid, CallFlush, CallRecv, WriteNothing,
              Bytes, world
<1>2. ASSUME NEW type \in {"Data", "Ping", "Pong", "Close"}, WriteFrame(type, 0),
             UNCHANGED <<connected, world>>
      PROVE  Bytes'
  BY <1>2, WriteTypes DEF Bytes, world
<1>3. ASSUME NEW type \in {"Data", "Ping"}, CallWrite(t, type) \/ CallSend(t, type)
      PROVE  Bytes'
  BY <1>2, <1>3 DEF CallWrite, CallSend
<1>4. ASSUME NEW function, CallClose(t, function)
      PROVE  Bytes'
  BY <1>2, <1>4 DEF CallClose
<1>5. ASSUME NEW function, CallCloseInvalid(t, function) \/ CloseSyncInvalid(t)
      PROVE  Bytes'
  BY <1>5 DEF CallCloseInvalid, CloseSyncInvalid, WriteNothing, Bytes, world
<1>6. CASE TryFlush(t)
  <2>1. PICK n \in 0 .. Len(wbuf) : TrySend(t, wbuf, n)
    BY <1>6 DEF TryFlush
  <2>2. wire' \in Seq(Nat) /\ wbuf' \in Seq(Nat) /\ sendFailed' \in BOOLEAN
    BY <2>1, TrySendTypes DEF Bytes
  <2> QED BY <1>6, <2>2 DEF TryFlush, Bytes
<1>7. CASE CloseSync(t)
  <2> DEFINE frame == [type |-> "Close", tag |-> 0]
             bytes == wbuf \o FrameBytes(Len(written) + 1)
  <2>1. /\ written' = Append(written, frame) /\ connected' = FALSE
        /\ overwritten' = [u \in Task |-> overwritten[u] \/ awaiting[u] = "send"]
    BY <1>7 DEF CloseSync
  <2>2. PICK n \in 0 .. Len(bytes) : TrySend(t, bytes, n)
    BY <1>7 DEF CloseSync
  <2>3. written' \in Seq(Frame)
    <3>1. frame \in Frame
      BY DEF Frame
    <3> QED BY <2>1, <3>1, AppendProperties DEF Bytes
  <2>4. FrameBytes(Len(written) + 1) \in Seq(Nat)
    BY FrameBytesType DEF Bytes
  <2>5. bytes \in Seq(Nat)
    BY <2>4, ConcatProperties DEF Bytes
  <2> HIDE DEF bytes
  <2>6. wire' \in Seq(Nat) /\ wbuf' \in Seq(Nat) /\ sendFailed' \in BOOLEAN
    BY <2>2, <2>5, TrySendTypes
  <2>7. overwritten' \in [Task -> BOOLEAN]
    BY <2>1, Zenon DEF Bytes
  <2> QED BY <2>1, <2>3, <2>6, <2>7 DEF Bytes
<1> QED BY <1>1, <1>3, <1>4, <1>5, <1>6, <1>7 DEF Call

LEMMA FlushBytes ==
  ASSUME Bytes, Tasks, Control, NEW t \in Task,
         \/ FlushSend(t) \/ FlushDone(t) \/ SendFailed(t) \/ ResumeDestroyed(t)
         \/ \E n \in 1 .. Len(span[t]) : SendDone(t, n)
  PROVE  Bytes'
<1>1. CASE FlushSend(t) \/ ResumeDestroyed(t)
  BY <1>1 DEF FlushSend, ResumeDestroyed, Bytes, buffers, world
<1>2. CASE FlushDone(t) \/ SendFailed(t)
  <2>1. /\ UNCHANGED <<written, buffers, wire, overwritten>>
        /\ sendFailed' \in BOOLEAN
    BY <1>2 DEF FlushDone, SendFailed, world, Bytes
  <2>2. pc[t] \in Reasons
    BY <1>2, ResumesOn DEF FlushDone, SendFailed
  <2>3. connected' \in BOOLEAN
    <3>1. CASE FlushDone(t)
      BY <2>2, <3>1, ConnectedType DEF FlushDone, Reasons, Bytes
    <3>2. CASE SendFailed(t)
      BY <2>2, <3>2, ConnectedType DEF SendFailed, Reasons, Bytes
    <3> QED BY <1>2, <3>1, <3>2
  <2> QED BY <2>1, <2>3 DEF Bytes, buffers
<1>3. ASSUME NEW n \in 1 .. Len(span[t]), SendDone(t, n)
      PROVE  Bytes'
  <2>1. UNCHANGED <<connected, written, sendFailed, overwritten>>
    BY <1>3 DEF SendDone
  <2>2. span[t] \in Seq(Nat) /\ n \in 0 .. Len(span[t]) /\ n \in Nat
    BY DEF Tasks
  <2>3. wbuf' \in Seq(Nat)
    <3>1. CASE n <= Len(wbuf)
      <4>1. n \in 0 .. Len(wbuf) /\ wbuf' = SubSeq(wbuf, n + 1, Len(wbuf))
        BY <1>3, <2>2, <3>1 DEF SendDone, Bytes
      <4> QED BY <4>1, SplitTypes DEF Bytes
    <3>2. CASE ~ n <= Len(wbuf)
      BY <1>3, <3>2 DEF SendDone, Bytes
    <3> QED BY <3>1, <3>2
  <2>4. wire' \in Seq(Nat)
    <3>1. SubSeq(span[t], 1, n) \in Seq(Nat)
      BY <2>2, SplitTypes
    <3>2. [i \in 1 .. n |-> Garbage] \in Seq(Nat)
      BY <2>2 DEF Garbage
    <3>3. \/ wire' = wire \o SubSeq(span[t], 1, n)
          \/ wire' = wire \o [i \in 1 .. n |-> Garbage]
      BY <1>3 DEF SendDone
    <3>4. wire \in Seq(Nat)
      BY DEF Bytes
    <3>5. wire \o SubSeq(span[t], 1, n) \in Seq(Nat)
      BY <3>1, <3>4, ConcatProperties
    <3>6. wire \o [i \in 1 .. n |-> Garbage] \in Seq(Nat)
      BY <3>2, <3>4, ConcatProperties
    <3> QED BY <3>3, <3>5, <3>6, Zenon
  <2> QED BY <2>1, <2>3, <2>4 DEF Bytes
<1> QED BY <1>1, <1>2, <1>3

LEMMA TakeQueues ==
  ASSUME Queues, NEW t \in Task, NEW type, Take(t, type)
  PROVE  Queues' /\ Head(rbuf) \in Message
<1>1. /\ rbuf # << >> /\ rbuf' = Tail(rbuf) /\ UNCHANGED <<sent, net>>
  BY DEF Take, world
<1> QED BY <1>1, HeadTailProperties DEF Queues

LEMMA RecvBytes ==
  ASSUME Bytes, Queues, NEW t \in Task,
         \/ TakeData(t) \/ TakePong(t) \/ TakePing(t) \/ TakeClose(t) \/ TakeBad(t)
         \/ RecvReceive(t) \/ ReceiveFailed(t)
         \/ \E n \in 1 .. Len(net) : ReceiveDone(t, n)
  PROVE  Bytes'
<1>1. ASSUME WriteNothing, UNCHANGED <<wire, sendFailed>>, connected' \in BOOLEAN
      PROVE  Bytes'
  BY <1>1 DEF WriteNothing, Bytes
<1>2. ASSUME NEW type \in {"Data", "Ping", "Pong", "Close"}, NEW tag \in Nat,
             WriteFrame(type, tag), UNCHANGED <<connected, wire, sendFailed>>
      PROVE  Bytes'
  BY <1>2, WriteTypes DEF Bytes
<1>3. CASE TakeData(t)
  <2>1. connected' \in BOOLEAN
    BY <1>3, ConnectedType DEF TakeData, Bytes
  <2> QED BY <1>1, <1>3, <2>1 DEF TakeData, Take, world
<1>4. CASE TakePong(t) \/ RecvReceive(t)
  BY <1>1, <1>4 DEF TakePong, RecvReceive, Take, world, Bytes
<1>5. CASE TakePing(t)
  <2>1. Head(rbuf).tag \in Nat
    BY <1>5, TakeQueues DEF TakePing, Message
  <2> QED BY <1>2, <1>5, <2>1 DEF TakePing, Answer, Take, world
<1>6. CASE TakeClose(t) \/ TakeBad(t)
  BY <1>2, <1>6 DEF TakeClose, TakeBad, Answer, Take, world
<1>7. CASE ReceiveFailed(t)
  <2>1. connected' \in BOOLEAN
    BY <1>7, ConnectedType DEF ReceiveFailed, Bytes
  <2> QED BY <1>1, <1>7, <2>1 DEF ReceiveFailed, world
<1>8. ASSUME NEW n, ReceiveDone(t, n)
      PROVE  Bytes'
  BY <1>1, <1>8 DEF ReceiveDone, Bytes
<1> QED BY <1>3, <1>4, <1>5, <1>6, <1>7, <1>8

LEMMA TaskQueues ==
  ASSUME Queues, NEW t \in Task, Call(t) \/ Progress(t) \/ Failure(t)
  PROVE  Queues'
<1>1. CASE UNCHANGED <<sent, net, rbuf>>
  BY <1>1 DEF Queues
<1>2. CASE Call(t)
  BY <1>1, <1>2
  DEF Call, CallDisconnected, CallWrite, CallSend, CallSendInvalid, CallFlush, CallRecv,
      CallClose, CallCloseInvalid, TryFlush, CloseSync, CloseSyncInvalid, world
<1>3. CASE Failure(t) \/ RecvReceive(t)
  BY <1>1, <1>3
  DEF Failure, SendFailed, ReceiveFailed, ResumeDestroyed, RecvReceive, buffers, world
<1>4. ASSUME FlushSend(t) \/ FlushDone(t) \/ \E n \in 1 .. Len(span[t]) : SendDone(t, n)
      PROVE  Queues'
  BY <1>1, <1>4 DEF FlushSend, FlushDone, SendDone, buffers, world
<1>5. CASE TakeData(t) \/ TakePong(t) \/ TakePing(t) \/ TakeClose(t) \/ TakeBad(t)
  BY <1>5, TakeQueues DEF TakeData, TakePong, TakePing, TakeClose, TakeBad
<1>6. ASSUME NEW n \in 1 .. Len(net), ReceiveDone(t, n)
      PROVE  Queues'
  <2>1. SubSeq(net, 1, n) \in Seq(Message) /\ SubSeq(net, n + 1, Len(net)) \in Seq(Message)
    BY DEF Queues
  <2>2. rbuf \o SubSeq(net, 1, n) \in Seq(Message)
    BY <2>1, ConcatProperties DEF Queues
  <2> QED BY <1>6, <2>1, <2>2 DEF ReceiveDone, Queues
<1> QED BY <1>2, <1>3, <1>4, <1>5, <1>6 DEF Progress

\* What the server does: everything but the messages stays.
ServerStep ==
  /\ \E type \in Arriving \cup {"Close"} :
       LET message == [type |-> type, tag |-> Len(sent) + 1]
       IN  sent' = Append(sent, message) /\ net' = Append(net, message)
  /\ UNCHANGED <<connected, written, wbuf, rbuf, wire, sendFailed, taskVars, fault>>

LEMMA ServerShape ==
  ASSUME ServerSend \/ ServerAck
  PROVE  ServerStep
BY DEF ServerSend, ServerAck, ServerSends, ServerStep, buffers

LEMMA ServerQueues ==
  ASSUME Queues, ServerStep
  PROVE  Queues'
<1>1. PICK type \in Arriving \cup {"Close"} :
        LET message == [type |-> type, tag |-> Len(sent) + 1]
        IN  sent' = Append(sent, message) /\ net' = Append(net, message)
  BY DEF ServerStep
<1> DEFINE message == [type |-> type, tag |-> Len(sent) + 1]
<1>2. message \in Message
  BY DEF Message, Queues
<1>3. sent' = Append(sent, message) /\ net' = Append(net, message) /\ rbuf' = rbuf
  BY <1>1 DEF ServerStep
<1> HIDE DEF message
<1> QED BY <1>2, <1>3, AppendProperties DEF Queues

-----------------------------------------------------------------------------
(* Types and control, whatever the tasks call *)

Basics == Bytes /\ Queues /\ Tasks /\ Control

LEMMA BasicsInitially ==
  ASSUME Init
  PROVE  Basics
<1>1. Bytes /\ Queues
  BY EmptySeq DEF Init, Bytes, Queues
<1>2. Tasks
  BY EmptySeq DEF Init, Tasks
<1>3. Control
  BY DEF Init, Control, Processor, Turn, LoopOfCall, Reasons
<1> QED BY <1>1, <1>2, <1>3 DEF Basics

LEMMA BasicsUntouched ==
  ASSUME Basics, ServerStep \/ UNCHANGED vars
  PROVE  Basics'
<1>1. /\ UNCHANGED <<connected, written, wbuf, wire, sendFailed, fault>>
      /\ UNCHANGED <<call, pc, result, awaiting, span, overwritten, running>>
  BY DEF ServerStep, vars, taskVars, buffers, world
<1>2. Queues'
  BY ServerQueues DEF Basics, vars, buffers, world, Queues
<1>3. Bytes' /\ Tasks'
  BY <1>1 DEF Basics, Bytes, Tasks
<1>4. Control'
  <2>1. ASSUME NEW u \in Task
        PROVE  Turn(u)'
    BY <1>1 DEF Basics, Control, Turn, LoopOfCall
  <2>2. Processor'
    BY <1>1 DEF Basics, Control, Processor
  <2> QED BY <2>1, <2>2 DEF Control
<1> QED BY <1>2, <1>3, <1>4 DEF Basics

LEMMA BasicsKept ==
  ASSUME Basics, [Next]_vars
  PROVE  Basics'
<1>1. ASSUME NEW t \in Task, Call(t) \/ Progress(t) \/ Failure(t)
      PROVE  Basics'
  <2>1. Bytes /\ Queues /\ Tasks /\ Control
    BY DEF Basics
  <2>2. Shape(t)
    BY <1>1, <2>1, StepShape
  <2>3. Control' /\ Tasks'
    BY <2>1, <2>2, ShapeKeepsControl DEF Shape, OnlyOwn
  <2>4. Queues'
    BY <1>1, <2>1, TaskQueues
  <2>5. Bytes'
    BY <1>1, <2>1, CallBytes, FlushBytes, RecvBytes DEF Progress, Failure
  <2> QED BY <2>3, <2>4, <2>5 DEF Basics
<1>2. CASE ServerSend \/ ServerAck
  BY <1>2, ServerShape, BasicsUntouched
<1> QED BY <1>1, <1>2, BasicsUntouched DEF Next

LEMMA BasicsHold == Spec => []Basics
<1>1. Init => Basics
  BY BasicsInitially
<1>2. Basics /\ [Next]_vars => Basics'
  BY BasicsKept
<1> QED BY <1>1, <1>2, PTL DEF Spec

\* At most one task receives.
OneReceiver ==
  \A t, u \in Task :
    Uses[t] \cap {"recv", "close"} # {} /\ Uses[u] \cap {"recv", "close"} # {} => t = u

ReceiveWaits == \A t \in Task : awaiting[t] = "receive" => rbuf = << >>

LEMMA InRecv ==
  ASSUME Basics, NEW t \in Task, pc[t] = "recv"
  PROVE  Uses[t] \cap {"recv", "close"} # {}
BY DEF Basics, Control, Turn, LoopOfCall

LEMMA ReceiveWaitsKept ==
  ASSUME OneReceiver, Basics, ReceiveWaits, [Next]_vars
  PROVE  ReceiveWaits'
<1>1. ASSUME NEW u \in Task, awaiting'[u] = "receive"
      PROVE  rbuf' = << >>
  <2>1. ASSUME NEW t \in Task, Call(t) \/ Progress(t) \/ Failure(t), awaiting[u] = "receive"
        PROVE  rbuf' = rbuf
    <3>1. pc[u] = "recv"
      BY <2>1 DEF Basics, Control, Turn
    <3>2. ASSUME Runs(t), pc[t] = "recv"
          PROVE  FALSE
      BY <2>1, <3>1, <3>2, InRecv DEF OneReceiver, Runs
    <3>3. ASSUME NEW n, ReceiveDone(t, n)
          PROVE  FALSE
      <4>1. pc[t] = "recv" /\ awaiting'[t] = "none"
        BY <3>3, ResumesOn DEF ReceiveDone, Basics
      <4> QED BY <1>1, <3>1, <4>1, InRecv DEF OneReceiver
    <3>4. CASE Call(t)
      BY <3>4
      DEF Call, CallDisconnected, CallWrite, CallSend, CallSendInvalid, CallFlush,
          CallRecv, CallClose, CallCloseInvalid, TryFlush, CloseSync, CloseSyncInvalid
    <3>5. CASE Failure(t)
      BY <3>5 DEF Failure, SendFailed, ReceiveFailed, ResumeDestroyed, buffers
    <3>6. CASE Progress(t)
      BY <3>2, <3>3, <3>6
      DEF Progress, FlushSend, FlushDone, SendDone, TakeData, TakePong, TakePing, TakeClose,
          TakeBad, Take, RecvReceive, buffers
    <3> QED BY <2>1, <3>4, <3>5, <3>6
  <2>2. ASSUME NEW t \in Task, Call(t) \/ Progress(t) \/ Failure(t), awaiting[u] # "receive"
        PROVE  rbuf' = << >>
    <3>1. Shape(t)
      BY <2>2, StepShape DEF Basics
    <3>2. u = t
      BY <1>1, <2>2, <3>1 DEF Shape, OnlyOwn
    <3>3. awaiting' # awaiting /\ awaiting'[t] = "receive"
      BY <1>1, <2>2, <3>2
    <3>4. CASE Call(t)
      BY <3>3, <3>4
      DEF Call, CallDisconnected, CallWrite, CallSend, CallSendInvalid, CallFlush,
          CallRecv, CallClose, CallCloseInvalid, TryFlush, CloseSync, CloseSyncInvalid
    <3>5. ASSUME NEW function, Resumes(t, function)
          PROVE  FALSE
      BY <3>3, <3>5 DEF Resumes, Basics, Tasks
    <3>6. CASE Failure(t)
      BY <3>5, <3>6 DEF Failure, SendFailed, ReceiveFailed, ResumeDestroyed
    <3>7. CASE FlushSend(t)
      BY <3>3, <3>7 DEF FlushSend, Suspend, Basics, Tasks
    <3>8. CASE RecvReceive(t)
      BY <3>8 DEF RecvReceive
    <3>9. CASE Progress(t) /\ ~ FlushSend(t) /\ ~ RecvReceive(t)
      BY <3>3, <3>5, <3>9
      DEF Progress, FlushDone, SendDone, ReceiveDone, TakeData, TakePong, TakePing,
          TakeClose, TakeBad, Take
    <3> QED BY <2>2, <3>4, <3>6, <3>7, <3>8, <3>9
  <2>3. CASE ServerSend \/ ServerAck \/ UNCHANGED vars
    BY <1>1, <2>3, ServerShape DEF ServerStep, vars, taskVars, buffers, ReceiveWaits
  <2> QED BY <1>1, <2>1, <2>2, <2>3 DEF Next, ReceiveWaits
<1> QED BY <1>1 DEF ReceiveWaits

\* The variables keep their types; whoever has the processor is in a loop with
\* a live transport; and a suspended task is in the loop that awaits what it
\* awaits, with an empty read buffer if one task at most receives.
THEOREM TypeCorrect ==
  ASSUME OneReceiver
  PROVE  Spec => []TypeOK
<1>1. Init => ReceiveWaits
  BY DEF Init, ReceiveWaits
<1>2. Basics /\ ReceiveWaits /\ [Next]_vars => ReceiveWaits'
  BY ReceiveWaitsKept
<1>3. Basics /\ ReceiveWaits => TypeOK
  <2> SUFFICES ASSUME Basics, ReceiveWaits PROVE TypeOK
    OBVIOUS
  <2>1. \A t \in Task :
          /\ awaiting[t] = "send" => pc[t] \in Reasons /\ span[t] # << >>
          /\ awaiting[t] = "receive" => pc[t] = "recv" /\ rbuf = << >>
    BY DEF Basics, Control, Turn, ReceiveWaits
  <2>2. running # "nobody" =>
          connected /\ awaiting[running] = "none" /\ pc[running] # "idle"
    BY DEF Basics, Control, Processor
  <2>3. /\ pc \in [Task -> Reasons \cup {"idle", "recv"}]
        /\ result \in [Task -> {"none", "ok", "err", "Data", "Close"}]
    BY DEF Basics, Tasks, Loops, Results
  <2> QED BY <2>1, <2>2, <2>3
    DEF TypeOK, Basics, Bytes, Queues, Tasks, Frame, Message
<1> QED BY <1>1, <1>2, <1>3, BasicsHold, PTL DEF Spec

-----------------------------------------------------------------------------
(* The stream, for one task or for the use that the documentation allows *)

Alone == \A t, u \in Task : t = u

Sends(t) == Uses[t] \ {"recv"} # {}

\* "It is okay to call send and recv concurrently", but not two sends; a close
\* resets the transport and is not among what may go on beside a recv.
DocumentedUse ==
  /\ \A t \in Task : Uses[t] \subseteq {"write", "send", "flush", "tryFlush", "recv"}
  /\ \A t, u \in Task : Sends(t) /\ Sends(u) => t = u

QuietMessages(messages) ==
  \A k \in DOMAIN messages : messages[k].type \in {"Data", "Pong"}

\* recv has nothing to answer, and nobody resets the transport.
QuietUse ==
  /\ connected
  /\ QuietMessages(net) /\ QuietMessages(rbuf)
  /\ \A t \in Task : pc[t] \in {"idle", "recv", "send"}

Peace == Alone \/ (DocumentedUse /\ QuietUse)

\* The transport of a suspended task is there, and it still looks at what it
\* was given: the whole of m_wbuf.
Live(t) ==
  /\ awaiting[t] # "none" => connected
  /\ awaiting[t] = "send" => span[t] = wbuf /\ ~ overwritten[t]

OkSent(t) ==
  pc[t] = "idle" /\ call[t] \in {"send", "flush", "tryFlush"} /\ result[t] = "ok"
    => Len(wire) = FrameSize * Len(written)

BytesInOrder == InOrder(wire, wbuf, FrameSize * Len(written))

Stream ==
  /\ fault = "none"
  /\ BytesInOrder
  /\ \A t \in Task : Live(t) /\ OkSent(t)

\* While t writes or sends, no other task does.
LEMMA NoOtherSender ==
  ASSUME Basics, Peace, NEW t \in Task, Alone \/ Sends(t), NEW u \in Task \ {t}
  PROVE  awaiting[u] # "send" /\ call[u] \notin {"send", "flush", "tryFlush"}
<1>1. DocumentedUse /\ QuietUse /\ ~ Sends(u)
  BY DEF Peace, Alone, DocumentedUse
<1>2. call[u] \in {"recv", "none"}
  BY <1>1 DEF Sends, Basics, Control, Turn
<1>3. pc[u] \in {"idle", "recv"}
  BY <1>1, <1>2 DEF QuietUse, Basics, Control, Turn, LoopOfCall
<1>4. awaiting[u] # "send"
  BY <1>3 DEF Basics, Control, Turn, Reasons
<1> QED BY <1>2, <1>4

LEMMA SenderInFlush ==
  ASSUME Basics, Peace, NEW t \in Task, pc[t] \in Reasons
  PROVE  Alone \/ (Sends(t) /\ pc[t] = "send")
<1>1. CASE DocumentedUse /\ QuietUse
  <2>1. pc[t] = "send"
    BY <1>1 DEF QuietUse, Reasons
  <2>2. call[t] \in Uses[t] /\ call[t] # "recv"
    BY <2>1 DEF Basics, Control, Turn, LoopOfCall
  <2> QED BY <2>1, <2>2 DEF Sends
<1> QED BY <1>1 DEF Peace

Quietly(t) ==
  /\ connected' = connected /\ pc'[t] \in {"idle", "recv", "send"}
  /\ QuietMessages(net)' /\ QuietMessages(rbuf)'

\* What a step of t does to the stream and to t itself.
Smooth(t) ==
  /\ fault' = "none" /\ BytesInOrder' /\ Live(t)' /\ OkSent(t)'
  /\ UNCHANGED <<written, wbuf, wire, overwritten>> \/ Alone \/ Sends(t)
  /\ Alone \/ Quietly(t)

LEMMA SmoothKeepsStream ==
  ASSUME Basics, Stream, Peace, NEW t \in Task, Shape(t), Smooth(t)
  PROVE  Stream' /\ Peace'
<1>1. ASSUME NEW u \in Task \ {t}
      PROVE  Live(u)' /\ OkSent(u)'
  <2>1. Live(u) /\ OkSent(u)
    BY DEF Stream
  <2>2. ~ Alone /\ connected' = connected
    BY DEF Alone, Smooth, Quietly
  <2>3. /\ call'[u] = call[u] /\ pc'[u] = pc[u] /\ result'[u] = result[u]
        /\ awaiting'[u] = awaiting[u] /\ span'[u] = span[u]
    BY DEF Shape, OnlyOwn
  <2>4. CASE UNCHANGED <<written, wbuf, wire, overwritten>>
    BY <2>1, <2>2, <2>3, <2>4 DEF Live, OkSent
  <2>5. CASE Sends(t)
    <3>1. awaiting[u] # "send" /\ call[u] \notin {"send", "flush", "tryFlush"}
      BY <2>5, NoOtherSender
    <3> QED BY <2>1, <2>2, <2>3, <3>1 DEF Live, OkSent
  <2> QED BY <2>2, <2>4, <2>5 DEF Smooth
<1>2. Stream'
  BY <1>1 DEF Stream, Smooth
<1>3. Peace'
  <2>1. CASE ~ Alone
    <3>1. DocumentedUse /\ QuietUse
      BY <2>1 DEF Peace
    <3>2. \A u \in Task : pc'[u] \in {"idle", "recv", "send"}
      BY <2>1, <3>1 DEF Smooth, Quietly, QuietUse, Shape, OnlyOwn
    <3> QED BY <2>1, <3>1, <3>2 DEF Peace, QuietUse, Smooth, Quietly
  <2>2. CASE Alone
    BY <2>2 DEF Peace
  <2> QED BY <2>1, <2>2
<1> QED BY <1>2, <1>3

\* The ways in which a step treats the stream.
LEMMA StreamUntouched ==
  ASSUME Stream, UNCHANGED <<written, wbuf, wire>>
  PROVE  BytesInOrder'
BY DEF Stream, BytesInOrder, InOrder

LEMMA StreamWritten ==
  ASSUME Basics, Stream, NEW type \in {"Data", "Ping", "Pong", "Close"}, NEW tag \in Nat,
         written' = Append(written, [type |-> type, tag |-> tag])
  PROVE  /\ wbuf \o FrameBytes(Len(written) + 1) \in Seq(Nat)
         /\ InOrder(wire, wbuf \o FrameBytes(Len(written) + 1), FrameSize * Len(written'))
<1> DEFINE total == FrameSize * Len(written)
<1>1. /\ written \in Seq(Frame) /\ wbuf \in Seq(Nat) /\ wire \in Seq(Nat)
      /\ FrameSize \in Nat /\ Len(written) \in Nat
  BY AsyncAssumption DEF Basics, Bytes
<1>2. Len(written') = Len(written) + 1
  BY <1>1
<1>3. FrameSize * (Len(written) + 1) = total + FrameSize
  BY <1>1
<1>4. total \in Nat /\ FrameBytes(Len(written) + 1) = Run(total, FrameSize)
  BY <1>1, FrameBytesType
<1>5. InOrder(wire, wbuf, total)
  BY DEF Stream, BytesInOrder
<1> HIDE DEF total
<1>6. /\ wbuf \o Run(total, FrameSize) \in Seq(Nat)
      /\ InOrder(wire, wbuf \o Run(total, FrameSize), total + FrameSize)
  BY <1>1, <1>4, <1>5, StreamGrows
<1> QED BY <1>2, <1>3, <1>4, <1>6

\* A step that neither writes nor sends.
LEMMA UntouchedSmooth ==
  ASSUME Basics, Stream, NEW t \in Task, fault' = fault,
         UNCHANGED <<written, wbuf, wire, overwritten>>, awaiting'[t] \in {"none", "receive"},
         awaiting'[t] = "receive" => connected',
         \/ pc'[t] # "idle" \/ result'[t] # "ok"
         \/ call'[t] \notin {"send", "flush", "tryFlush"} \/ wbuf = << >>,
         Alone \/ Quietly(t)
  PROVE  Smooth(t)
<1>1. BytesInOrder' /\ fault' = "none"
  BY StreamUntouched DEF Stream
<1>2. Live(t)'
  BY DEF Live, Basics, Tasks
<1>3. OkSent(t)'
  <2>1. CASE wbuf = << >>
    <3>1. Len(wire) + 0 = FrameSize * Len(written) /\ Len(wire) \in Nat
      BY <2>1 DEF Stream, BytesInOrder, InOrder, Basics, Bytes
    <3> QED BY <3>1 DEF OkSent
  <2> QED BY <2>1 DEF OkSent
<1> QED BY <1>1, <1>2, <1>3 DEF Smooth

\* A task that writes keeps no span of its own.
LEMMA WriteSmooth ==
  ASSUME Basics, Stream, Peace, NEW t \in Task, Alone \/ Sends(t), fault' = fault,
         NEW type \in {"Data", "Ping", "Pong", "Close"}, NEW tag \in Nat,
         WriteFrame(type, tag), wire' = wire, awaiting'[t] = "none",
         pc'[t] # "idle" \/ call'[t] = "write",
         Alone \/ Quietly(t)
  PROVE  Smooth(t)
<1>1. BytesInOrder' /\ fault' = "none"
  <2>1. /\ written' = Append(written, [type |-> type, tag |-> tag])
        /\ wbuf' = wbuf \o FrameBytes(Len(written) + 1)
    BY DEF WriteFrame
  <2>2. InOrder(wire, wbuf', FrameSize * Len(written'))
    BY <2>1, StreamWritten
  <2> QED BY <2>2 DEF BytesInOrder, Stream
<1>2. Live(t)' /\ OkSent(t)'
  BY DEF Live, OkSent
<1> QED BY <1>1, <1>2 DEF Smooth

\* tryFlush and closeSync: what the socket took has left the buffer.
LEMMA TrySendSmooth ==
  ASSUME Basics, Stream, Peace, NEW t \in Task, Alone \/ Sends(t), fault' = fault,
         NEW bytes \in Seq(Nat), InOrder(wire, bytes, FrameSize * Len(written')),
         NEW n \in 0 .. Len(bytes), TrySend(t, bytes, n), awaiting'[t] = "none",
         Alone \/ Quietly(t)
  PROVE  Smooth(t)
<1>1. /\ wire' = wire \o SubSeq(bytes, 1, n)
      /\ wbuf' = SubSeq(bytes, n + 1, Len(bytes))
      /\ result'[t] = IF n = Len(bytes) THEN "ok" ELSE "err"
  BY DEF TrySend, Finish, Basics, Tasks
<1>2. /\ Len(wire \o SubSeq(bytes, 1, n)) = Len(wire) + n
      /\ InOrder(wire', wbuf', FrameSize * Len(written'))
  BY <1>1, StreamMoves DEF Basics, Bytes
<1>3. OkSent(t)'
  <2>1. CASE n = Len(bytes)
    <3>1. Len(wire') = Len(wire) + Len(bytes)
      BY <1>1, <1>2, <2>1
    <3>2. Len(wire) + Len(bytes) = FrameSize * Len(written')
      BY DEF InOrder
    <3> QED BY <3>1, <3>2 DEF OkSent
  <2>2. CASE n # Len(bytes)
    BY <1>1, <2>2 DEF OkSent
  <2> QED BY <2>1, <2>2
<1>4. BytesInOrder' /\ fault' = "none" /\ Live(t)'
  BY <1>2 DEF BytesInOrder, Stream, Live
<1> QED BY <1>3, <1>4 DEF Smooth

LEMMA CallSmooth ==
  ASSUME Basics, Stream, Peace, NEW t \in Task, Call(t)
  PROVE  Smooth(t)
<1>1. ASSUME UNCHANGED <<connected, net, rbuf>>, pc'[t] \in {"idle", "recv", "send"}
      PROVE  Alone \/ Quietly(t)
  BY <1>1 DEF Peace, QuietUse, Quietly, QuietMessages
<1>2. ASSUME NEW function, Begin(t, function)
      PROVE  /\ awaiting[t] = "none" /\ pc[t] = "idle"
             /\ call'[t] = function
             /\ function # "recv" => Alone \/ Sends(t)
             /\ function \in {"close", "closeNoAck", "closeSync"} => Alone
  <2>1. /\ awaiting[t] = "none" /\ pc[t] = "idle" /\ function \in Uses[t]
        /\ call' = [call EXCEPT ![t] = function]
    BY <1>2 DEF Begin, Runs
  <2> QED BY <2>1 DEF Basics, Tasks, Sends, Peace, DocumentedUse
<1>3. ASSUME NEW value \in Results, Finish(t, value)
      PROVE  pc'[t] = "idle" /\ result'[t] = value
  BY <1>3 DEF Finish, Basics, Tasks
<1>4. ASSUME NEW label \in Loops, Goto(t, label)
      PROVE  pc'[t] = label
  BY <1>4 DEF Goto, Basics, Tasks
<1>5. CASE CallDisconnected(t)
  <2>1. result'[t] = "err" /\ awaiting'[t] = "none" /\ pc'[t] = "idle"
    BY <1>5 DEF CallDisconnected, Runs, Basics, Tasks
  <2>2. UNCHANGED <<connected, net, rbuf, written, wbuf, wire, overwritten, fault>>
    BY <1>5 DEF CallDisconnected, world, WriteNothing
  <2> QED BY <1>1, <2>1, <2>2, UntouchedSmooth
<1>6. ASSUME NEW type \in {"Data", "Ping"}, CallWrite(t, type)
      PROVE  Smooth(t)
  <2>1. /\ Begin(t, "write") /\ WriteFrame(type, 0) /\ Finish(t, "ok")
        /\ UNCHANGED <<connected, net, rbuf, wire, awaiting, fault>>
    BY <1>6 DEF CallWrite, world
  <2> QED BY <1>1, <1>2, <1>3, <2>1, WriteSmooth DEF Results
<1>7. ASSUME NEW type \in {"Data", "Ping"}, CallSend(t, type)
      PROVE  Smooth(t)
  <2>1. /\ Begin(t, "send") /\ WriteFrame(type, 0) /\ Goto(t, "send")
        /\ UNCHANGED <<connected, net, rbuf, wire, awaiting, fault>>
    BY <1>7 DEF CallSend, world
  <2> QED BY <1>1, <1>2, <1>4, <2>1, WriteSmooth DEF Loops, Reasons
<1>8. CASE CallSendInvalid(t) \/ CloseSyncInvalid(t)
  <2>1. /\ Begin(t, "send") \/ Begin(t, "closeSync")
        /\ WriteNothing /\ Finish(t, "err")
        /\ UNCHANGED <<connected, net, rbuf, wire, awaiting, fault>>
    BY <1>8 DEF CallSendInvalid, CloseSyncInvalid, world
  <2>2. pc'[t] = "idle" /\ result'[t] = "err" /\ awaiting'[t] = "none"
    BY <1>2, <1>3, <2>1 DEF Results
  <2> QED BY <1>1, <2>1, <2>2, UntouchedSmooth DEF WriteNothing
<1>9. CASE CallFlush(t) \/ CallRecv(t)
  <2>1. /\ \/ Begin(t, "flush") /\ Goto(t, "send")
           \/ Begin(t, "recv") /\ Goto(t, "recv")
        /\ WriteNothing
        /\ UNCHANGED <<connected, net, rbuf, wire, awaiting, fault>>
    BY <1>9 DEF CallFlush, CallRecv, world
  <2>2. pc'[t] \in {"recv", "send"} /\ awaiting'[t] = "none"
    BY <1>2, <1>4, <2>1 DEF Loops, Reasons
  <2> QED BY <1>1, <2>1, <2>2, UntouchedSmooth DEF WriteNothing
<1>10. ASSUME NEW function \in {"close", "closeNoAck"}, CallClose(t, function)
       PROVE  Smooth(t)
  <2>1. /\ Begin(t, function) /\ WriteFrame("Close", 0) /\ Goto(t, function)
        /\ UNCHANGED <<wire, awaiting, fault>>
    BY <1>10 DEF CallClose, world
  <2> QED BY <1>2, <1>4, <2>1, WriteSmooth DEF Loops, Reasons
<1>11. ASSUME NEW function \in {"close", "closeNoAck"}, CallCloseInvalid(t, function)
       PROVE  Smooth(t)
  <2>1. /\ Begin(t, function) /\ WriteNothing /\ Finish(t, "err")
        /\ UNCHANGED <<wire, awaiting, fault>>
    BY <1>11 DEF CallCloseInvalid, world
  <2>2. result'[t] = "err" /\ awaiting'[t] = "none" /\ Alone
    BY <1>2, <1>3, <2>1 DEF Results
  <2> QED BY <2>1, <2>2, UntouchedSmooth DEF WriteNothing
<1>12. CASE TryFlush(t)
  <2>1. /\ Begin(t, "tryFlush")
        /\ UNCHANGED <<connected, written, net, rbuf, awaiting, fault>>
    BY <1>12 DEF TryFlush
  <2>2. PICK n \in 0 .. Len(wbuf) : TrySend(t, wbuf, n)
    BY <1>12 DEF TryFlush
  <2>3. pc'[t] = "idle"
    BY <2>2 DEF TrySend, Finish, Basics, Tasks
  <2>4. InOrder(wire, wbuf, FrameSize * Len(written')) /\ wbuf \in Seq(Nat)
    BY <2>1 DEF Stream, BytesInOrder, Basics, Bytes
  <2> QED BY <1>1, <1>2, <2>1, <2>2, <2>3, <2>4, TrySendSmooth
<1>13. CASE CloseSync(t)
  <2> DEFINE bytes == wbuf \o FrameBytes(Len(written) + 1)
  <2>1. /\ Begin(t, "closeSync") /\ UNCHANGED <<awaiting, fault>>
        /\ written' = Append(written, [type |-> "Close", tag |-> 0])
    BY <1>13 DEF CloseSync
  <2>2. PICK n \in 0 .. Len(bytes) : TrySend(t, bytes, n)
    BY <1>13 DEF CloseSync
  <2>3. bytes \in Seq(Nat) /\ InOrder(wire, bytes, FrameSize * Len(written'))
    BY <2>1, StreamWritten
  <2> HIDE DEF bytes
  <2>4. Alone /\ awaiting'[t] = "none"
    BY <1>2, <2>1
  <2> QED BY <2>1, <2>2, <2>3, <2>4, TrySendSmooth
<1> QED
  BY <1>5, <1>6, <1>7, <1>8, <1>9, <1>10, <1>11, <1>12, <1>13 DEF Call

\* The loop of flush.  The send that is done was given all of m_wbuf.
LEMMA FlushSmooth ==
  ASSUME Basics, Stream, Peace, NEW t \in Task,
         \/ FlushSend(t) \/ FlushDone(t) \/ SendFailed(t)
         \/ \E n \in 1 .. Len(span[t]) : SendDone(t, n)
  PROVE  Smooth(t)
<1>0. QuietUse => QuietMessages(net) /\ QuietMessages(rbuf) /\ connected
  BY DEF QuietUse
<1>1. ASSUME pc[t] \in Reasons, UNCHANGED <<net, rbuf>>,
             pc[t] = "send" => connected' = connected /\ pc'[t] \in {"idle", "send"}
      PROVE  (Alone \/ Sends(t)) /\ (Alone \/ Quietly(t))
  BY <1>0, <1>1, SenderInFlush DEF Peace, Quietly, QuietMessages
<1>2. Live(t) /\ OkSent(t)
  BY DEF Stream
<1>3. CASE FlushSend(t)
  <2>1. /\ Runs(t) /\ pc[t] \in Reasons
        /\ awaiting' = [awaiting EXCEPT ![t] = "send"]
        /\ span' = [span EXCEPT ![t] = wbuf]
        /\ overwritten' = [overwritten EXCEPT ![t] = FALSE]
        /\ UNCHANGED <<connected, written, wbuf, wire, net, rbuf, pc, fault>>
    BY <1>3 DEF FlushSend, Suspend, buffers, world
  <2>2. connected /\ pc[t] # "idle"
    BY <2>1, AsyncAssumption DEF Runs, Basics, Control, Processor, Turn, Reasons
  <2>3. Live(t)' /\ OkSent(t)'
    BY <2>1, <2>2 DEF Live, OkSent, Basics, Tasks, Bytes
  <2> QED BY <1>1, <2>1, <2>3, StreamUntouched DEF Smooth, Stream
<1>4. CASE FlushDone(t)
  <2>1. /\ Runs(t) /\ pc[t] \in Reasons /\ wbuf = << >>
        /\ UNCHANGED <<written, wbuf, wire, net, rbuf, awaiting, overwritten, fault>>
    BY <1>4 DEF FlushDone, Flushed, buffers, world
  <2>2. pc[t] = "send" => connected' = connected /\ pc'[t] = "idle"
    BY <1>4 DEF FlushDone, Finish, Basics, Tasks
  <2> QED BY <1>1, <2>1, <2>2, UntouchedSmooth DEF Runs
<1>5. CASE SendFailed(t)
  <2>1. /\ Resumes(t, "send")
        /\ UNCHANGED <<written, wbuf, wire, net, rbuf, overwritten, fault, call>>
        /\ span' = [span EXCEPT ![t] = << >>]
    BY <1>5 DEF SendFailed, buffers
  <2>2. awaiting'[t] = "none" /\ pc[t] \in Reasons
    BY <2>1, ResumesOn DEF Basics
  <2>3. pc[t] = "send" => connected' = connected /\ pc'[t] = "idle"
    BY <1>5 DEF SendFailed, Finish, Basics, Tasks
  <2>4. pc'[t] # "idle" \/ result'[t] # "ok"
    <3>1. CASE pc[t] \in {"send", "close", "closeNoAck"}
      BY <1>5, <3>1 DEF SendFailed, Finish, Basics, Tasks
    <3>2. CASE pc[t] \in {"pong", "reply", "violation"}
      <4>1. PICK up : RecvReturns(t, "err", up)
        BY <1>5, <3>2 DEF SendFailed
      <4> QED BY <4>1, RecvReturnsWays DEF Finish, Basics, Tasks
    <3> QED BY <2>2, <3>1, <3>2 DEF Reasons
  <2> QED BY <1>1, <2>1, <2>2, <2>3, <2>4, UntouchedSmooth
<1>6. ASSUME NEW n \in 1 .. Len(span[t]), SendDone(t, n)
      PROVE  Smooth(t)
  <2>1. /\ Resumes(t, "send") /\ awaiting[t] = "send"
        /\ span' = [span EXCEPT ![t] = << >>]
        /\ UNCHANGED <<connected, call, pc, written, rbuf, net, overwritten>>
    BY <1>6 DEF SendDone, Resumes, Crash
  <2>2. awaiting'[t] = "none" /\ pc[t] \in Reasons /\ pc[t] # "idle"
    BY <2>1, ResumesOn DEF Basics
  <2>3. span[t] = wbuf /\ ~ overwritten[t]
    BY <1>2, <2>1 DEF Live
  <2>4. n <= Len(wbuf) /\ n \in 0 .. Len(wbuf) /\ wbuf \in Seq(Nat) /\ wire \in Seq(Nat)
    BY <2>3 DEF Basics, Bytes
  <2>5. /\ wire' = wire \o SubSeq(wbuf, 1, n)
        /\ wbuf' = SubSeq(wbuf, n + 1, Len(wbuf))
        /\ fault' = fault
    BY <1>6, <2>3, <2>4 DEF SendDone
  <2>6. InOrder(wire', wbuf', FrameSize * Len(written))
    BY <2>4, <2>5, StreamMoves DEF Stream, BytesInOrder
  <2>7. Live(t)' /\ OkSent(t)'
    BY <2>1, <2>2 DEF Live, OkSent
  <2>8. pc[t] = "send" => pc'[t] = "send"
    BY <2>1
  <2> QED BY <1>1, <2>1, <2>2, <2>5, <2>6, <2>7, <2>8 DEF Smooth, Stream, BytesInOrder
<1> QED BY <1>3, <1>4, <1>5, <1>6

\* Messages that move from the transport to the read buffer.
LEMMA QuietMoves ==
  ASSUME NEW a \in Seq(Message), NEW b \in Seq(Message), NEW n \in 1 .. Len(b),
         QuietMessages(a), QuietMessages(b)
  PROVE  QuietMessages(a \o SubSeq(b, 1, n)) /\ QuietMessages(SubSeq(b, n + 1, Len(b)))
<1> DEFINE s == SubSeq(b, 1, n)  r == SubSeq(b, n + 1, Len(b))
<1>1. /\ Len(b) \in Nat /\ n \in Nat /\ Len(b) - n \in Nat
      /\ DOMAIN a = 1 .. Len(a) /\ DOMAIN b = 1 .. Len(b) /\ Len(a) \in Nat
  OBVIOUS
<1>2. /\ s \in Seq(Message) /\ Len(s) = n
      /\ \A k \in 1 .. n : s[k] = b[k] /\ k \in 1 .. Len(b)
  BY <1>1, SubSeqProperties
<1>3. /\ r \in Seq(Message) /\ Len(r) = Len(b) - n
      /\ \A k \in 1 .. Len(b) - n : r[k] = b[n + k] /\ n + k \in 1 .. Len(b)
  <2>1. /\ r \in Seq(Message) /\ Len(r) = Len(b) - n
        /\ \A k \in 1 .. Len(b) - n : r[k] = b[n + k]
    OBVIOUS
  <2>2. \A k \in 1 .. Len(b) - n : n + k \in 1 .. Len(b)
    BY <1>1
  <2> QED BY <2>1, <2>2
<1> HIDE DEF s, r
<1>4. /\ a \o s \in Seq(Message) /\ Len(a \o s) = Len(a) + n
      /\ \A k \in 1 .. Len(a) + n :
           (a \o s)[k] = IF k <= Len(a) THEN a[k] ELSE s[k - Len(a)]
  BY <1>1, <1>2, ConcatProperties
<1>5. ASSUME NEW k \in 1 .. Len(a) + n
      PROVE  (a \o s)[k].type \in {"Data", "Pong"}
  <2>1. CASE k <= Len(a)
    BY <1>1, <1>4, <2>1 DEF QuietMessages
  <2>2. CASE ~ k <= Len(a)
    <3>1. k - Len(a) \in 1 .. n
      BY <1>1, <2>2
    <3>2. s[k - Len(a)].type \in {"Data", "Pong"}
      BY <1>1, <1>2, <3>1 DEF QuietMessages
    <3> QED BY <1>4, <2>2, <3>2
  <2> QED BY <2>1, <2>2
<1>6. QuietMessages(a \o s)
  <2>1. DOMAIN (a \o s) = 1 .. Len(a) + n
    BY <1>4
  <2> QED BY <1>5, <2>1 DEF QuietMessages
<1>7. QuietMessages(r)
  <2>1. DOMAIN r = 1 .. Len(b) - n
    BY <1>3
  <2> QED BY <1>1, <1>3, <2>1 DEF QuietMessages
<1> QED BY <1>6, <1>7 DEF s, r

\* The loop of recv.
LEMMA RecvSmooth ==
  ASSUME Basics, Stream, Peace, NEW t \in Task,
         \/ TakeData(t) \/ TakePong(t) \/ TakePing(t) \/ TakeClose(t) \/ TakeBad(t)
         \/ RecvReceive(t) \/ ReceiveFailed(t)
         \/ \E n \in 1 .. Len(net) : ReceiveDone(t, n)
  PROVE  Smooth(t)
<1>0. ASSUME ~ Alone
      PROVE  DocumentedUse /\ QuietUse /\ call[t] # "close"
  BY <1>0 DEF Peace, DocumentedUse, Basics, Control, Turn
<1>1. ASSUME NEW value \in {"Data", "err"}, RecvReturns(t, value, connected)
      PROVE  /\ Alone \/ (connected' = connected /\ pc'[t] = "idle")
             /\ pc'[t] # "idle" \/ result'[t] # "ok"
  <2>1. ASSUME NEW v \in {"Data", "err"}, Finish(t, v)
        PROVE  pc'[t] = "idle" /\ result'[t] = v
    BY <2>1 DEF Finish, Basics, Tasks
  <2>3. \/ call[t] # "close" /\ Finish(t, value) /\ connected' = connected
        \/ call[t] = "close" /\ Goto(t, "recv")
        \/ call[t] = "close" /\ Finish(t, "err")
    BY <1>1, RecvReturnsWays
  <2>4. CASE call[t] # "close" /\ Finish(t, value) /\ connected' = connected
    BY <2>1, <2>4
  <2>5. CASE call[t] = "close" /\ Goto(t, "recv")
    <3>1. pc'[t] = "recv"
      BY <2>5 DEF Goto, Basics, Tasks
    <3> QED BY <1>0, <2>5, <3>1
  <2>6. CASE call[t] = "close" /\ Finish(t, "err")
    BY <1>0, <2>1, <2>6
  <2> QED BY <2>3, <2>4, <2>5, <2>6
<1>2. ASSUME NEW type, Take(t, type)
      PROVE  /\ awaiting'[t] = "none" /\ pc[t] = "recv"
             /\ UNCHANGED <<wire, net, call, fault>>
             /\ Alone \/ type \in {"Data", "Pong"}
             /\ Alone \/ (QuietMessages(net)' /\ QuietMessages(rbuf)')
  <2>1. /\ awaiting'[t] = "none" /\ pc[t] = "recv" /\ rbuf # << >>
        /\ Head(rbuf).type = type /\ rbuf' = Tail(rbuf)
        /\ UNCHANGED <<wire, net, call, fault>>
    BY <1>2 DEF Take, Runs, world
  <2>2. ASSUME QuietMessages(rbuf)
        PROVE  type \in {"Data", "Pong"} /\ QuietMessages(rbuf)'
    <3>1. rbuf \in Seq(Message)
      BY DEF Basics, Queues
    <3>2. /\ Len(rbuf) \in Nat /\ Len(rbuf) > 0 /\ Head(rbuf) = rbuf[1]
          /\ rbuf' \in Seq(Message) /\ Len(rbuf') = Len(rbuf) - 1
          /\ \A k \in 1 .. Len(rbuf') : rbuf'[k] = rbuf[k + 1]
      BY <2>1, <3>1, HeadTailProperties
    <3>3. \A k \in 1 .. Len(rbuf') : k + 1 \in 1 .. Len(rbuf)
      BY <3>2
    <3> QED BY <2>1, <2>2, <3>1, <3>2, <3>3 DEF QuietMessages
  <2> QED BY <1>0, <2>1, <2>2 DEF QuietUse, QuietMessages
<1>3. CASE TakeData(t)
  <2>1. Take(t, "Data") /\ RecvReturns(t, "Data", connected) /\ WriteNothing
    BY <1>3 DEF TakeData
  <2> QED BY <1>1, <1>2, <2>1, UntouchedSmooth DEF WriteNothing, Quietly
<1>4. CASE TakePong(t)
  <2>1. Take(t, "Pong") /\ pc'[t] = "recv" /\ WriteNothing /\ connected' = connected
    BY <1>4 DEF TakePong, Goto, Basics, Tasks, Loops
  <2> QED BY <1>2, <2>1, UntouchedSmooth DEF WriteNothing, Quietly
<1>5. ASSUME NEW type \in {"Ping", "Close", "Bad"}, Take(t, type),
             NEW reply \in {"Pong", "Close"}, NEW tag \in Nat, NEW reason \in Reasons,
             Answer(t, reply, tag, reason)
      PROVE  Smooth(t)
  <2>1. WriteFrame(reply, tag) /\ pc'[t] = reason /\ reason # "idle"
    BY <1>5 DEF Answer, Goto, Basics, Tasks, Reasons
  <2>2. Alone /\ awaiting'[t] = "none" /\ UNCHANGED <<wire, fault>>
    BY <1>2, <1>5
  <2> QED BY <2>1, <2>2, WriteSmooth
<1>6. CASE TakePing(t)
  <2>1. Head(rbuf).tag \in Nat
    BY <1>6, TakeQueues DEF TakePing, Basics, Message
  <2> QED BY <1>5, <1>6, <2>1 DEF TakePing, Reasons
<1>7. CASE TakeClose(t) \/ TakeBad(t)
  BY <1>5, <1>7 DEF TakeClose, TakeBad, Reasons
<1>8. CASE RecvReceive(t)
  <2>1. /\ Runs(t) /\ pc[t] = "recv" /\ WriteNothing
        /\ awaiting' = [awaiting EXCEPT ![t] = "receive"]
        /\ UNCHANGED <<connected, wire, net, rbuf, pc, fault>>
    BY <1>8 DEF RecvReceive, Suspend, world
  <2>2. connected
    BY <2>1, AsyncAssumption DEF Runs, Basics, Control, Processor, Turn
  <2>3. awaiting'[t] = "receive" /\ pc'[t] = "recv"
    BY <2>1 DEF Basics, Tasks
  <2>4. Alone \/ Quietly(t)
    BY <1>0, <2>1, <2>3 DEF Quietly, QuietUse, QuietMessages
  <2> QED BY <2>1, <2>2, <2>3, <2>4, UntouchedSmooth DEF WriteNothing
<1>9. CASE ReceiveFailed(t)
  <2>1. /\ Resumes(t, "receive") /\ RecvReturns(t, "err", connected) /\ WriteNothing
        /\ UNCHANGED <<wire, net, rbuf, fault>>
    BY <1>9 DEF ReceiveFailed, world
  <2>2. awaiting'[t] = "none"
    BY <2>1 DEF Resumes, Basics, Tasks
  <2>3. Alone \/ Quietly(t)
    BY <1>0, <1>1, <2>1 DEF Quietly, QuietUse, QuietMessages
  <2> QED BY <1>1, <2>1, <2>2, <2>3, UntouchedSmooth DEF WriteNothing
<1>10. ASSUME NEW n \in 1 .. Len(net), ReceiveDone(t, n)
       PROVE  Smooth(t)
  <2>1. /\ Resumes(t, "receive") /\ WriteNothing
        /\ rbuf' = rbuf \o SubSeq(net, 1, n)
        /\ net' = SubSeq(net, n + 1, Len(net))
        /\ UNCHANGED <<connected, wire, call, pc, span, fault>>
    BY <1>10 DEF ReceiveDone
  <2>2. awaiting'[t] = "none" /\ pc[t] = "recv"
    BY <2>1, ResumesOn DEF Basics
  <2>3. ASSUME QuietMessages(net), QuietMessages(rbuf)
        PROVE  QuietMessages(net)' /\ QuietMessages(rbuf)'
    <3>1. rbuf \in Seq(Message) /\ net \in Seq(Message)
      BY DEF Basics, Queues
    <3>2. rbuf' = rbuf \o SubSeq(net, 1, n) /\ net' = SubSeq(net, n + 1, Len(net))
      BY <2>1
    <3> QED BY <2>3, <3>1, <3>2, QuietMoves DEF QuietMessages
  <2>4. Alone \/ Quietly(t)
    BY <1>0, <2>1, <2>2, <2>3 DEF Quietly, QuietUse
  <2> QED BY <2>1, <2>2, <2>4, UntouchedSmooth DEF WriteNothing
<1> QED BY <1>3, <1>4, <1>6, <1>7, <1>8, <1>9, <1>10

LEMMA StepSmooth ==
  ASSUME Basics, Stream, Peace, NEW t \in Task, Call(t) \/ Progress(t) \/ Failure(t)
  PROVE  Smooth(t)
<1>1. CASE Call(t)
  BY <1>1, CallSmooth
<1>2. CASE Progress(t)
  BY <1>2, FlushSmooth, RecvSmooth DEF Progress
<1>3. CASE Failure(t)
  <2>1. ~ ResumeDestroyed(t)
    BY DEF ResumeDestroyed, Resumes, Stream, Live
  <2> QED BY <1>3, <2>1, FlushSmooth, RecvSmooth DEF Failure
<1> QED BY <1>1, <1>2, <1>3

LEMMA StreamKept ==
  ASSUME Basics, Stream, Peace, NEW t \in Task, Call(t) \/ Progress(t) \/ Failure(t)
  PROVE  Stream' /\ Peace'
BY StepSmooth, StepShape, SmoothKeepsStream DEF Basics

LEMMA ServerKeepsStream ==
  ASSUME Stream, ServerStep \/ UNCHANGED vars
  PROVE  Stream'
<1>1. /\ UNCHANGED <<connected, written, wbuf, wire, fault>>
      /\ UNCHANGED <<call, pc, result, awaiting, span, overwritten>>
  BY DEF ServerStep, vars, taskVars, buffers, world
<1> QED BY <1>1 DEF Stream, BytesInOrder, InOrder, Live, OkSent

LEMMA StreamInitially ==
  ASSUME Init
  PROVE  Stream /\ QuietUse
<1>1. BytesInOrder
  <2>1. Len(written) = 0 /\ Len(wbuf) = 0 /\ Len(wire) = 0
    BY DEF Init
  <2>2. Run(0, 0) = << >>
    BY DEF Run
  <2> QED BY <2>1, <2>2, AsyncAssumption DEF Init, BytesInOrder, InOrder
<1>2. \A t \in Task : Live(t) /\ OkSent(t)
  BY DEF Init, Live, OkSent
<1>3. QuietUse
  BY DEF Init, QuietUse, QuietMessages
<1> QED BY <1>1, <1>2, <1>3 DEF Init, Stream

LEMMA StreamHolds ==
  ASSUME Alone
  PROVE  Spec => []Stream
<1>1. Init => Stream
  BY StreamInitially
<1>2. Basics /\ Stream /\ [Next]_vars => Stream'
  <2> SUFFICES ASSUME Basics, Stream, [Next]_vars PROVE Stream'
    OBVIOUS
  <2>1. Peace
    BY DEF Peace
  <2>2. ASSUME NEW t \in Task, Call(t) \/ Progress(t) \/ Failure(t)
        PROVE  Stream'
    BY <2>1, <2>2, StreamKept
  <2>3. CASE ServerSend \/ ServerAck \/ UNCHANGED vars
    BY <2>3, ServerShape, ServerKeepsStream
  <2> QED BY <2>2, <2>3 DEF Next
<1> QED BY <1>1, <1>2, BasicsHold, PTL DEF Spec

LEMMA InOrderIsIntact ==
  ASSUME BytesInOrder
  PROVE  StreamIntact
<1>1. wire = [i \in 1 .. Len(wire) |-> 0 + i]
  BY DEF BytesInOrder, InOrder, Run
<1>2. [i \in 1 .. Len(wire) |-> 0 + i] = [i \in 1 .. Len(wire) |-> i]
  OBVIOUS
<1> QED BY <1>1, <1>2 DEF StreamIntact

\* Whatever a single task calls, and wherever the transport fails, the server
\* gets the bytes of the frames in the order in which they were written.
THEOREM AloneStreamIntact ==
  ASSUME Alone
  PROVE  Spec => []StreamIntact
<1>1. Stream => StreamIntact
  BY InOrderIsIntact DEF Stream
<1> QED BY <1>1, StreamHolds, PTL

\* Ok from send, flush or tryFlush means that nothing is left in m_wbuf.
THEOREM AloneOkMeansSent ==
  ASSUME Alone
  PROVE  Spec => []OkMeansSent
<1>1. Stream => OkMeansSent
  BY DEF Stream, OkSent, OkMeansSent
<1> QED BY <1>1, StreamHolds, PTL

\* No task resumes in a destroyed transport, and no skip throws.
THEOREM AloneNoFault ==
  ASSUME Alone
  PROVE  Spec => []NoFault
<1>1. Stream => NoFault
  BY DEF Stream, NoFault
<1> QED BY <1>1, StreamHolds, PTL

-----------------------------------------------------------------------------
(* The documented use *)

Quiet == QuietMessages(sent)

SafeInvariant == Quiet => Stream /\ Peace

LEMMA StillQuiet ==
  ASSUME Basics, [Next]_vars, Quiet'
  PROVE  Quiet
<1>1. CASE sent' = sent
  BY <1>1 DEF Quiet, QuietMessages
<1>2. CASE ServerStep
  <2>1. PICK message : sent' = Append(sent, message)
    BY <1>2 DEF ServerStep
  <2>2. /\ DOMAIN sent = 1 .. Len(sent) /\ Len(sent) \in Nat
        /\ DOMAIN sent' = 1 .. Len(sent) + 1
        /\ \A k \in 1 .. Len(sent) : sent'[k] = sent[k]
    BY <2>1 DEF Basics, Queues
  <2>3. \A k \in 1 .. Len(sent) : k \in 1 .. Len(sent) + 1
    BY <2>2
  <2> QED BY <2>2, <2>3 DEF Quiet, QuietMessages
<1>3. ASSUME NEW t \in Task, Call(t)
      PROVE  sent' = sent
  BY <1>3
  DEF Call, CallDisconnected, CallWrite, CallSend, CallSendInvalid, CallFlush, CallRecv,
      CallClose, CallCloseInvalid, TryFlush, CloseSync, CloseSyncInvalid, world
<1>4. ASSUME NEW t \in Task, Failure(t)
      PROVE  sent' = sent
  BY <1>4 DEF Failure, SendFailed, ReceiveFailed, ResumeDestroyed, world
<1>5. ASSUME NEW t \in Task, Progress(t)
      PROVE  sent' = sent
  BY <1>5
  DEF Progress, FlushSend, FlushDone, SendDone, TakeData, TakePong, TakePing, TakeClose,
      TakeBad, Take, RecvReceive, ReceiveDone, world
<1>6. CASE UNCHANGED vars
  BY <1>1, <1>6 DEF vars, world
<1> QED BY <1>1, <1>2, <1>3, <1>4, <1>5, <1>6, ServerShape DEF Next

LEMMA ServerKeepsQuiet ==
  ASSUME Basics, QuietUse, Quiet', ServerStep
  PROVE  QuietUse'
<1>1. PICK message : sent' = Append(sent, message) /\ net' = Append(net, message)
  BY DEF ServerStep
<1>2. /\ Len(sent) \in Nat /\ Len(net) \in Nat
      /\ Len(sent) + 1 \in DOMAIN sent' /\ sent'[Len(sent) + 1] = message
      /\ DOMAIN net = 1 .. Len(net) /\ DOMAIN net' = 1 .. Len(net) + 1
      /\ \A k \in 1 .. Len(net) : net'[k] = net[k]
      /\ net'[Len(net) + 1] = message
  BY <1>1 DEF Basics, Queues
<1>3. message.type \in {"Data", "Pong"}
  BY <1>2 DEF Quiet, QuietMessages
<1>4. QuietMessages(net)'
  <2>1. ASSUME NEW k \in 1 .. Len(net) + 1
        PROVE  net'[k].type \in {"Data", "Pong"}
    <3>1. CASE k \in 1 .. Len(net)
      BY <1>2, <3>1 DEF QuietUse, QuietMessages
    <3>2. CASE k = Len(net) + 1
      BY <1>2, <1>3, <3>2
    <3> QED BY <1>2, <3>1, <3>2
  <2> QED BY <1>2, <2>1 DEF QuietMessages
<1> QED BY <1>4 DEF ServerStep, QuietUse, QuietMessages, taskVars

LEMMA SafeInvariantKept ==
  ASSUME DocumentedUse, Basics, SafeInvariant, [Next]_vars
  PROVE  SafeInvariant'
<1> SUFFICES ASSUME Quiet' PROVE Stream' /\ Peace'
  BY DEF SafeInvariant
<1>1. Stream /\ Peace
  BY StillQuiet DEF SafeInvariant
<1>2. ASSUME NEW t \in Task, Call(t) \/ Progress(t) \/ Failure(t)
      PROVE  Stream' /\ Peace'
  BY <1>1, <1>2, StreamKept
<1>3. CASE ServerStep
  BY <1>1, <1>3, ServerKeepsStream, ServerKeepsQuiet DEF Peace
<1>4. CASE UNCHANGED vars
  BY <1>1, <1>4, ServerKeepsStream
  DEF vars, taskVars, buffers, world, Peace, QuietUse, QuietMessages
<1> QED BY <1>2, <1>3, <1>4, ServerShape DEF Next

\* In the use the documentation allows, with as many receivers as one likes and
\* any server that sends Data and Pongs only, the stream stays whole and no
\* task comes to harm.
THEOREM SafeInDocumentedUse ==
  ASSUME DocumentedUse
  PROVE  Spec => []SafeWhileQuiet
<1>1. Init => SafeInvariant
  BY StreamInitially DEF SafeInvariant, Peace
<1>2. Basics /\ SafeInvariant /\ [Next]_vars => SafeInvariant'
  BY SafeInvariantKept
<1>3. SafeInvariant => SafeWhileQuiet
  BY InOrderIsIntact
  DEF SafeInvariant, Quiet, QuietMessages, Stream, SafeWhileQuiet, NoFault
<1> QED BY <1>1, <1>2, <1>3, BasicsHold, PTL DEF Spec

-----------------------------------------------------------------------------
(* A single task sees the synchronous client *)

SoloInvariant == Basics /\ ReceiveWaits /\ Stream

LEMMA SameFrames == Sync!AppFrames = AppFrames
BY DEF Sync!AppFrames, AppFrames

LEMMA SameWrite ==
  ASSUME NEW type, NEW tag, WriteFrame(type, tag)
  PROVE  Sync!WriteFrame(type, tag)
BY DEF WriteFrame, FrameBytes, Sync!WriteFrame, Sync!FrameBytes

\* What the primitives mean for the only task.
LEMMA SamePrimitives ==
  ASSUME Tasks, Single \in Task
  PROVE  /\ \A function : Begin(Single, function) => Sync!Begin(function)
         /\ \A value : Finish(Single, value) => Sync!Finish(value)
         /\ \A label : Goto(Single, label) =>
              pc'[Single] = label /\ result'[Single] = "none"
<1>1. ASSUME NEW function, Begin(Single, function)
      PROVE  Sync!Begin(function)
  BY <1>1 DEF Begin, Sync!Begin, Tasks
<1>2. ASSUME NEW value, Finish(Single, value)
      PROVE  Sync!Finish(value)
  BY <1>2 DEF Finish, Sync!Finish, Tasks
<1>3. ASSUME NEW label, Goto(Single, label)
      PROVE  pc'[Single] = label /\ result'[Single] = "none"
  BY <1>3 DEF Goto, Tasks
<1> QED BY <1>1, <1>2, <1>3

LEMMA SameRecvReturns ==
  ASSUME Tasks, Single \in Task, result[Single] = "none",
         NEW value \in {"Data", "Close", "err"}, NEW up, RecvReturns(Single, value, up)
  PROVE  Sync!RecvReturns(value, up)
<1>1. CASE call[Single] # "close"
  BY <1>1, SamePrimitives DEF RecvReturns, Sync!RecvReturns
<1>2. CASE call[Single] = "close" /\ value = "Data"
  BY <1>2, SamePrimitives DEF RecvReturns, Sync!RecvReturns
<1>3. CASE call[Single] = "close" /\ value = "Close"
  BY <1>3, SamePrimitives DEF RecvReturns, Sync!RecvReturns
<1>4. CASE call[Single] = "close" /\ value = "err"
  BY <1>4, SamePrimitives DEF RecvReturns, Sync!RecvReturns
<1> QED BY <1>1, <1>2, <1>3, <1>4

LEMMA CallRefines ==
  ASSUME SoloInvariant, Single \in Task, Call(Single)
  PROVE  Sync!Next \/ AddedFunctions
<1>0. Tasks
  BY DEF SoloInvariant, Basics
<1> USE SamePrimitives, SameFrames, SameWrite DEF world
<1>1. CASE CallDisconnected(Single)
  <2>1. PICK function \in Uses[Single] : call' = [call EXCEPT ![Single] = function]
    BY <1>1 DEF CallDisconnected
  <2>2. call'[Single] = function /\ function \in Functions
    BY <1>0, <2>1, AsyncAssumption DEF Tasks, Functions
  <2>3. result'[Single] = "err" /\ pc[Single] = "idle" /\ ~ connected
    BY <1>0, <1>1 DEF CallDisconnected, Tasks
  <2>4. UNCHANGED <<connected, written, wbuf, pc, wire, sent, net, rbuf, sendFailed>>
    BY <1>1 DEF CallDisconnected, WriteNothing
  <2>5. CASE function \in {"tryFlush", "closeSync"}
    BY <1>1, <2>2, <2>5 DEF AddedFunctions
  <2>6. CASE function \in Sync!Calls
    <3>1. Sync!CallDisconnected
      BY <2>2, <2>3, <2>4, <2>6 DEF Sync!CallDisconnected
    <3> QED BY <3>1 DEF Sync!Next, Sync!Call
  <2> QED BY <2>2, <2>5, <2>6 DEF Functions, Sync!Calls
<1>2. ASSUME NEW type \in {"Data", "Ping"}, CallWrite(Single, type)
      PROVE  Sync!Call
  <2>1. Sync!CallWrite(type)
    BY <1>0, <1>2 DEF CallWrite, Sync!CallWrite
  <2> QED BY <2>1 DEF Sync!Call
<1>3. ASSUME NEW type \in {"Data", "Ping"}, CallSend(Single, type)
      PROVE  Sync!Call
  <2>1. Sync!CallSend(type)
    BY <1>0, <1>3 DEF CallSend, Sync!CallSend
  <2> QED BY <2>1 DEF Sync!Call
<1>4. CASE CallSendInvalid(Single)
  <2>1. Sync!CallSendInvalid
    BY <1>0, <1>4 DEF CallSendInvalid, WriteNothing, Sync!CallSendInvalid
  <2> QED BY <2>1 DEF Sync!Next, Sync!Call
<1>5. CASE CallFlush(Single)
  <2>1. Sync!CallFlush
    BY <1>0, <1>5 DEF CallFlush, WriteNothing, Sync!CallFlush
  <2> QED BY <2>1 DEF Sync!Next, Sync!Call
<1>6. CASE CallRecv(Single)
  <2>1. Sync!CallRecv
    BY <1>0, <1>6 DEF CallRecv, WriteNothing, Sync!CallRecv
  <2> QED BY <2>1 DEF Sync!Next, Sync!Call
<1>7. ASSUME NEW function \in {"close", "closeNoAck"}, CallClose(Single, function)
      PROVE  Sync!Call
  <2>1. Sync!CallClose(function)
    BY <1>0, <1>7 DEF CallClose, Sync!CallClose
  <2> QED BY <2>1 DEF Sync!Call
<1>8. ASSUME NEW function \in {"close", "closeNoAck"}, CallCloseInvalid(Single, function)
      PROVE  Sync!Call
  <2>1. Sync!CallCloseInvalid(function)
    BY <1>0, <1>8 DEF CallCloseInvalid, WriteNothing, Sync!CallCloseInvalid
  <2> QED BY <2>1 DEF Sync!Call
<1>9. CASE TryFlush(Single) \/ CloseSync(Single) \/ CloseSyncInvalid(Single)
  BY <1>9 DEF AddedFunctions
<1> QED
  BY <1>1, <1>2, <1>3, <1>4, <1>5, <1>6, <1>7, <1>8, <1>9 DEF Call, Sync!Next

LEMMA LoopRuns ==
  ASSUME SoloInvariant, Single \in Task, pc[Single] # "idle"
  PROVE  Tasks /\ result[Single] = "none"
BY DEF SoloInvariant, Basics, Control, Turn

LEMMA FlushRefines ==
  ASSUME SoloInvariant, Single \in Task,
         \/ FlushSend(Single) \/ FlushDone(Single) \/ SendFailed(Single)
         \/ \E n \in 1 .. Len(span[Single]) : SendDone(Single, n)
  PROVE  Sync!Next \/ UNCHANGED Sync!vars
<1>0. Tasks /\ Control /\ Live(Single) /\ Stream
  BY DEF SoloInvariant, Basics, Stream
<1> USE SamePrimitives DEF buffers, world
<1>1. CASE FlushSend(Single)
  BY <1>1 DEF FlushSend, Sync!vars, Sync!clientVars
<1>2. CASE FlushDone(Single)
  <2>1. pc[Single] \in Sync!Reasons /\ pc[Single] # "idle" /\ Sync!Flushed
    BY <1>2 DEF FlushDone, Flushed, Reasons, Sync!Reasons, Sync!Flushed
  <2>2. result[Single] = "none"
    BY <2>1, LoopRuns
  <2>3. UNCHANGED <<written, wbuf, call, wire, sent, net, rbuf, sendFailed>>
    BY <1>2 DEF FlushDone
  <2>4. CASE pc[Single] \in {"send", "closeNoAck", "pong", "close"}
    BY <1>0, <1>2, <2>1, <2>2, <2>3, <2>4
    DEF FlushDone, Sync!FlushDone, Sync!Next, Sync!Progress
  <2>5. CASE pc[Single] = "reply"
    <3>1. Sync!RecvReturns("Close", FALSE)
      BY <1>0, <1>2, <2>2, <2>5, SameRecvReturns DEF FlushDone
    <3> QED BY <2>1, <2>3, <2>5, <3>1 DEF Sync!FlushDone, Sync!Next, Sync!Progress
  <2>6. CASE pc[Single] = "violation"
    <3>1. Sync!RecvReturns("err", FALSE)
      BY <1>0, <1>2, <2>2, <2>6, SameRecvReturns DEF FlushDone
    <3> QED BY <2>1, <2>3, <2>6, <3>1 DEF Sync!FlushDone, Sync!Next, Sync!Progress
  <2> QED BY <2>1, <2>4, <2>5, <2>6 DEF Sync!Reasons
<1>3. ASSUME Resumes(Single, "send"), call' = call, span' = [span EXCEPT ![Single] = << >>]
      PROVE  /\ pc[Single] \in Sync!Reasons /\ pc[Single] # "idle"
             /\ wbuf # << >> /\ span[Single] = wbuf /\ ~ overwritten[Single]
  <2>1. pc[Single] \in Reasons /\ pc[Single] # "idle" /\ span[Single] # << >>
    BY <1>0, <1>3, ResumesOn
  <2>2. span[Single] = wbuf /\ ~ overwritten[Single]
    BY <1>0, <1>3 DEF Live, Resumes
  <2> QED BY <2>1, <2>2 DEF Reasons, Sync!Reasons
<1>4. CASE SendFailed(Single)
  <2>1. pc[Single] \in Sync!Reasons /\ pc[Single] # "idle" /\ wbuf # << >>
    BY <1>3, <1>4 DEF SendFailed
  <2>2. result[Single] = "none"
    BY <2>1, LoopRuns
  <2>3. UNCHANGED <<written, wbuf, call, wire, sent, net, rbuf>> /\ sendFailed' = TRUE
    BY <1>4 DEF SendFailed
  <2>4. CASE pc[Single] \in {"send", "close", "closeNoAck"}
    BY <1>0, <1>4, <2>1, <2>3, <2>4 DEF SendFailed, Sync!FlushFails, Sync!Next
  <2>5. CASE pc[Single] = "pong"
    <3>1. Sync!RecvReturns("err", connected)
      BY <1>0, <1>4, <2>2, <2>5, SameRecvReturns DEF SendFailed
    <3> QED BY <2>1, <2>3, <2>5, <3>1 DEF Sync!FlushFails, Sync!Next
  <2>6. CASE pc[Single] \in {"reply", "violation"}
    <3>1. Sync!RecvReturns("err", FALSE)
      BY <1>0, <1>4, <2>2, <2>6, SameRecvReturns DEF SendFailed
    <3> QED BY <2>1, <2>3, <2>6, <3>1 DEF Sync!FlushFails, Sync!Next
  <2> QED BY <2>1, <2>4, <2>5, <2>6 DEF Sync!Reasons
<1>5. ASSUME NEW n \in 1 .. Len(span[Single]), SendDone(Single, n)
      PROVE  Sync!Next
  <2>1. /\ pc[Single] \in Sync!Reasons /\ span[Single] = wbuf /\ ~ overwritten[Single]
    BY <1>3, <1>5 DEF SendDone
  <2>2. n \in 1 .. Len(wbuf) /\ n <= Len(wbuf)
    BY <2>1 DEF SoloInvariant, Basics, Bytes
  <2>3. Sync!FlushSome(n)
    BY <1>5, <2>1, <2>2 DEF SendDone, Sync!FlushSome
  <2> QED BY <2>2, <2>3 DEF Sync!Next, Sync!Progress
<1> QED BY <1>1, <1>2, <1>4, <1>5

LEMMA RecvRefines ==
  ASSUME SoloInvariant, Single \in Task,
         \/ TakeData(Single) \/ TakePong(Single) \/ TakePing(Single)
         \/ TakeClose(Single) \/ TakeBad(Single)
         \/ RecvReceive(Single) \/ ReceiveFailed(Single)
         \/ \E n \in 1 .. Len(net) : ReceiveDone(Single, n)
  PROVE  Sync!Next \/ UNCHANGED Sync!vars
<1>0. Tasks /\ Control /\ Queues
  BY DEF SoloInvariant, Basics
<1> USE SamePrimitives, SameWrite DEF world
<1>1. ASSUME NEW type, Take(Single, type)
      PROVE  Sync!Take(type) /\ result[Single] = "none"
  BY <1>1, LoopRuns DEF Take, Sync!Take
<1>2. CASE TakeData(Single)
  <2>1. Sync!Take("Data") /\ result[Single] = "none"
    BY <1>1, <1>2 DEF TakeData
  <2>2. Sync!RecvReturns("Data", connected)
    BY <1>0, <1>2, <2>1, SameRecvReturns DEF TakeData
  <2>3. Sync!TakeData
    BY <1>2, <2>1, <2>2 DEF TakeData, WriteNothing, Sync!TakeData
  <2> QED BY <2>3 DEF Sync!Next, Sync!Progress
<1>3. CASE TakePong(Single)
  <2>1. Sync!Take("Pong") /\ result[Single] = "none" /\ pc[Single] = "recv"
    BY <1>1, <1>3 DEF TakePong, Take
  <2>2. Sync!TakePong
    BY <1>0, <1>3, <2>1 DEF TakePong, WriteNothing, Sync!TakePong
  <2> QED BY <2>2 DEF Sync!Next, Sync!Progress
<1>4. CASE TakePing(Single)
  <2>1. Sync!Take("Ping") /\ result[Single] = "none"
    BY <1>1, <1>4 DEF TakePing
  <2>2. Sync!TakePing
    BY <1>0, <1>4, <2>1 DEF TakePing, Answer, Sync!TakePing
  <2> QED BY <2>2 DEF Sync!Next, Sync!Progress
<1>5. CASE TakeClose(Single)
  <2>1. Sync!Take("Close") /\ result[Single] = "none"
    BY <1>1, <1>5 DEF TakeClose
  <2>2. Sync!TakeClose
    BY <1>0, <1>5, <2>1 DEF TakeClose, Answer, Sync!TakeClose
  <2> QED BY <2>2 DEF Sync!Next, Sync!Progress
<1>6. CASE TakeBad(Single)
  <2>1. Sync!Take("Bad") /\ result[Single] = "none"
    BY <1>1, <1>6 DEF TakeBad
  <2>2. Sync!TakeBad
    BY <1>0, <1>6, <2>1 DEF TakeBad, Answer, Sync!TakeBad
  <2> QED BY <2>2 DEF Sync!Next, Sync!Progress
<1>7. CASE RecvReceive(Single)
  BY <1>7 DEF RecvReceive, WriteNothing, Sync!vars, Sync!clientVars
<1>8. ASSUME Resumes(Single, "receive"), UNCHANGED <<call, span>>
      PROVE  pc[Single] = "recv" /\ rbuf = << >> /\ result[Single] = "none"
  <2>1. pc[Single] = "recv"
    BY <1>0, <1>8, ResumesOn
  <2> QED BY <1>8, <2>1, LoopRuns DEF SoloInvariant, ReceiveWaits, Resumes
<1>9. CASE ReceiveFailed(Single)
  <2>1. pc[Single] = "recv" /\ rbuf = << >> /\ result[Single] = "none"
    BY <1>8, <1>9 DEF ReceiveFailed
  <2>2. Sync!RecvReturns("err", connected)
    BY <1>0, <1>9, <2>1, SameRecvReturns DEF ReceiveFailed
  <2>3. Sync!ReceiveFails
    BY <1>9, <2>1, <2>2 DEF ReceiveFailed, WriteNothing, Sync!ReceiveFails
  <2> QED BY <2>3 DEF Sync!Next
<1>10. ASSUME NEW n \in 1 .. Len(net), ReceiveDone(Single, n)
       PROVE  Sync!Next
  <2>1. pc[Single] = "recv" /\ rbuf = << >>
    BY <1>8, <1>10 DEF ReceiveDone
  <2>2. << >> \o SubSeq(net, 1, n) = SubSeq(net, 1, n)
    <3>1. SubSeq(net, 1, n) \in Seq(Message)
      BY <1>0 DEF Queues
    <3> QED BY <3>1, ConcatEmptySeq
  <2>3. Sync!Receive(n)
    BY <1>10, <2>1, <2>2 DEF ReceiveDone, WriteNothing, Sync!Receive, Sync!clientVars
  <2> QED BY <2>3 DEF Sync!Next, Sync!Progress
<1> QED BY <1>2, <1>3, <1>4, <1>5, <1>6, <1>7, <1>9, <1>10

LEMMA ServerRefines ==
  ASSUME ServerSend \/ ServerAck
  PROVE  Sync!Next
<1>1. ASSUME NEW type, ServerSends(type)
      PROVE  Sync!ServerSends(type)
  BY <1>1 DEF ServerSends, Sync!ServerSends, Sync!clientVars, taskVars, buffers
<1>2. CASE ServerSend
  <2>1. Arriving \subseteq Sync!Incoming
    BY AsyncAssumption DEF Sync!Incoming
  <2> QED BY <1>1, <1>2, <2>1 DEF ServerSend, Sync!ServerSend, Sync!Next
<1>3. CASE ServerAck
  BY <1>1, <1>3 DEF ServerAck, Arrived, Sync!ServerAck, Sync!Arrived, Sync!Next
<1> QED BY <1>2, <1>3

LEMMA SoloHolds ==
  ASSUME Alone
  PROVE  Spec => []SoloInvariant
<1>1. OneReceiver
  BY DEF Alone, OneReceiver
<1>2. Init => ReceiveWaits
  BY DEF Init, ReceiveWaits
<1>3. Basics /\ ReceiveWaits /\ [Next]_vars => ReceiveWaits'
  BY <1>1, ReceiveWaitsKept
<1> QED BY <1>2, <1>3, BasicsHold, StreamHolds, PTL DEF Spec, SoloInvariant

\* With a single task the awaits are invisible: every step of the asynchronous
\* client is one of the synchronous client, one of the functions added here,
\* or a suspension.
THEOREM AloneImplementsClient ==
  ASSUME Alone, Task # {}
  PROVE  Spec => AsyncImplementsClient
<1>1. Single \in Task /\ \A t \in Task : t = Single
  BY DEF Single, Alone
<1>2. Init => Sync!Init
  BY <1>1 DEF Init, Sync!Init
<1>3. SoloInvariant /\ [Next]_vars => [Sync!Next \/ AddedFunctions]_Sync!vars
  <2> SUFFICES ASSUME SoloInvariant, [Next]_vars
               PROVE  Sync!Next \/ AddedFunctions \/ UNCHANGED Sync!vars
    OBVIOUS
  <2>1. CASE Call(Single)
    BY <1>1, <2>1, CallRefines
  <2>2. CASE Progress(Single) \/ Failure(Single)
    <3>1. ~ ResumeDestroyed(Single)
      BY <1>1 DEF ResumeDestroyed, Resumes, SoloInvariant, Stream, Live
    <3> QED BY <1>1, <2>2, <3>1, FlushRefines, RecvRefines DEF Progress, Failure
  <2>3. CASE ServerSend \/ ServerAck
    BY <2>3, ServerRefines
  <2>4. CASE UNCHANGED vars
    BY <2>4 DEF vars, buffers, world, taskVars, Sync!vars, Sync!clientVars
  <2> QED BY <1>1, <2>1, <2>2, <2>3, <2>4 DEF Next
<1> QED BY <1>2, <1>3, SoloHolds, PTL DEF Spec, AsyncImplementsClient

=============================================================================
