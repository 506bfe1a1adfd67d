---------------------------- MODULE AsyncClient ----------------------------
(***************************************************************************)
(* The asynchronous client after its handshake, used by several tasks of   *)
(* one cooperative scheduler.  A task keeps the processor until it awaits  *)
(* the transport; while it is suspended in AsyncWsTransport::send or       *)
(* ::receive the other tasks run and change m_wbuf and m_transport under   *)
(* it.  The transport is given a span of m_wbuf (peek), and what it sends  *)
(* is skipped only after the await.                                        *)
(*                                                                         *)
(* Loops, reasons and messages are those of the synchronous client         *)
(* (module Client), kept per task; tryFlush and closeSync exist here only. *)
(***************************************************************************)
EXTENDS Integers, Sequences

CONSTANTS
  Task,          \* the tasks using the client
  Uses,          \* the functions each task may call
  Arriving,      \* the kinds of messages this server sends
  FrameSize,     \* bytes of a frame on the wire (all alike here)
  MaxWrites,     \* frames the application writes (bounds the model)
  MaxIncoming    \* messages the server sends, its acknowledgement of a
                 \* Close not counted (bounds the model)

ASSUME AsyncAssumption ==
  /\ Uses \in [Task -> SUBSET {"write", "send", "flush", "tryFlush", "recv",
                              "close", "closeNoAck", "closeSync"}]
  /\ Arriving \subseteq {"Data", "Ping", "Pong", "Close", "Bad"}
  /\ FrameSize \in Nat \ {0}
  /\ MaxWrites \in Nat
  /\ MaxIncoming \in Nat
  /\ "nobody" \notin Task

VARIABLES
  connected,   \* m_transport is not null
  written,     \* the frames written to m_wbuf so far (history)
  wbuf,        \* m_wbuf; a byte is its position in the stream of all bytes
  wire,        \* the bytes the transport has sent, in order (history)
  sent,        \* the messages the server has sent (history)
  net,         \* those on their way
  rbuf,        \* those in m_rbuf
  call,        \* per task, the public function running or last run
  pc,          \* per task, "idle", "recv", or the reason for which flush runs
  result,      \* per task, what the last call returned
  awaiting,    \* per task, the transport function it is suspended in, or "none"
  span,        \* per task, the bytes peek gave to the pending send
  overwritten, \* per task, m_wbuf was written since that peek
  running,     \* the task that has the processor, or "nobody"
  sendFailed,  \* the transport has refused to send (history)
  fault        \* "none", or what brought the program down

buffers == <<wbuf, rbuf>>
world   == <<wire, sent, net, sendFailed>>
taskVars == <<call, pc, result, awaiting, span, overwritten, running>>
vars == <<connected, written, buffers, world, taskVars, fault>>

Reasons == {"send", "pong", "reply", "violation", "close", "closeNoAck"}

\* A byte of freed or reused memory.
Garbage == 0

AppFrames == SelectSeq(written, LAMBDA f : f.type \in {"Data", "Ping"})

FrameBytes(k) == [i \in 1 .. FrameSize |-> FrameSize * (k - 1) + i]

Init ==
  /\ connected = TRUE
  /\ written = << >> /\ wbuf = << >> /\ wire = << >>
  /\ sent = << >> /\ net = << >> /\ rbuf = << >>
  /\ call = [t \in Task |-> "none"]
  /\ pc = [t \in Task |-> "idle"]
  /\ result = [t \in Task |-> "none"]
  /\ awaiting = [t \in Task |-> "none"]
  /\ span = [t \in Task |-> << >>]
  /\ overwritten = [t \in Task |-> FALSE]
  /\ running = "nobody"
  /\ sendFailed = FALSE
  /\ fault = "none"

-----------------------------------------------------------------------------
(* The server, for as long as the program runs *)

ServerSends(type) ==
  /\ fault = "none"
  /\ sent' = Append(sent, [type |-> type, tag |-> Len(sent) + 1])
  /\ net' = Append(net, [type |-> type, tag |-> Len(sent) + 1])
  /\ UNCHANGED <<connected, written, buffers, wire, sendFailed, taskVars, fault>>

ServerSend ==
  /\ Len(sent) < MaxIncoming
  /\ \E type \in Arriving : ServerSends(type)

Arrived == Len(wire) \div FrameSize

ServerAck ==
  /\ \E k \in DOMAIN written : k <= Arrived /\ written[k].type = "Close"
  /\ \A k \in 1 .. Len(sent) : sent[k].type # "Close"
  /\ ServerSends("Close")

-----------------------------------------------------------------------------
(* Scheduling *)

\* A task that is not suspended runs until it awaits or its call returns.
Runs(t) ==
  /\ fault = "none"
  /\ running \in {t, "nobody"}
  /\ awaiting[t] = "none"

Goto(t, label) ==
  /\ pc' = [pc EXCEPT ![t] = label]
  /\ result' = [result EXCEPT ![t] = "none"]
  /\ running' = t

Finish(t, value) ==
  /\ pc' = [pc EXCEPT ![t] = "idle"]
  /\ result' = [result EXCEPT ![t] = value]
  /\ running' = "nobody"

Suspend(t, function) ==
  /\ awaiting' = [awaiting EXCEPT ![t] = function]
  /\ running' = "nobody"

\* The scheduler resumes a suspended task when the transport is done.
Resumes(t, function) ==
  /\ fault = "none"
  /\ running = "nobody"
  /\ awaiting[t] = function
  /\ awaiting' = [awaiting EXCEPT ![t] = "none"]

Crash(what) ==
  /\ fault' = what
  /\ UNCHANGED <<pc, result, running>>

-----------------------------------------------------------------------------
(* Parts of the calls *)

\* _writeMessage of a message that validates.  It may reallocate m_wbuf, or
\* reuse bytes a pending send still looks at.
WriteFrame(type, tag) ==
  /\ written' = Append(written, [type |-> type, tag |-> tag])
  /\ wbuf' = wbuf \o FrameBytes(Len(written) + 1)
  /\ overwritten' = [u \in Task |-> overwritten[u] \/ awaiting[u] = "send"]

WriteNothing == UNCHANGED <<written, wbuf, overwritten>>

\* (mutant) A function does not look at m_transport.
Begin_Unchecked(t, function) ==
  /\ Runs(t)
  /\ pc[t] = "idle"
  /\ function \in Uses[t]
  /\ call' = [call EXCEPT ![t] = function]

Begin(t, function) ==
  /\ Runs(t)
  /\ pc[t] = "idle"
  /\ connected
  /\ function \in Uses[t]
  /\ call' = [call EXCEPT ![t] = function]

RecvReturns(t, value, up) ==
  CASE call[t] # "close"                     -> Finish(t, value) /\ connected' = up
    [] call[t] = "close" /\ value = "Data"  -> Goto(t, "recv") /\ UNCHANGED connected
    [] call[t] = "close" /\ value = "Close" -> Finish(t, "ok") /\ connected' = FALSE
    [] call[t] = "close" /\ value = "err"   -> Finish(t, "err") /\ connected' = FALSE

-----------------------------------------------------------------------------
(* The calls *)

CallDisconnected(t) ==
  /\ Runs(t)
  /\ pc[t] = "idle"
  /\ ~ connected
  /\ \E function \in Uses[t] : call' = [call EXCEPT ![t] = function]
  /\ result' = [result EXCEPT ![t] = "err"]
  /\ WriteNothing
  /\ UNCHANGED <<connected, rbuf, world, pc, awaiting, span, running, fault>>

CallWrite(t, type) ==
  /\ Len(AppFrames) < MaxWrites
  /\ Begin(t, "write")
  /\ WriteFrame(type, 0)
  /\ Finish(t, "ok")
  /\ UNCHANGED <<connected, rbuf, world, awaiting, span, fault>>

CallSend(t, type) ==
  /\ Len(AppFrames) < MaxWrites
  /\ Begin(t, "send")
  /\ WriteFrame(type, 0)
  /\ Goto(t, "send")
  /\ UNCHANGED <<connected, rbuf, world, awaiting, span, fault>>

CallSendInvalid(t) ==
  /\ Begin(t, "send")
  /\ Finish(t, "err")
  /\ WriteNothing
  /\ UNCHANGED <<connected, rbuf, world, awaiting, span, fault>>

CallFlush(t) ==
  /\ Begin(t, "flush")
  /\ Goto(t, "send")
  /\ WriteNothing
  /\ UNCHANGED <<connected, rbuf, world, awaiting, span, fault>>

CallRecv(t) ==
  /\ Begin(t, "recv")
  /\ Goto(t, "recv")
  /\ WriteNothing
  /\ UNCHANGED <<connected, rbuf, world, awaiting, span, fault>>

CallClose(t, function) ==
  /\ Begin(t, function)
  /\ WriteFrame("Close", 0)
  /\ Goto(t, function)
  /\ UNCHANGED <<connected, rbuf, world, awaiting, span, fault>>

CallCloseInvalid(t, function) ==
  /\ Begin(t, function)
  /\ connected' = FALSE
  /\ Finish(t, "err")
  /\ WriteNothing
  /\ UNCHANGED <<rbuf, world, awaiting, span, fault>>

\* The loop of tryFlush around trySend: it ends when the buffer is empty or
\* the socket takes no more, in which case the n bytes it took are gone and
\* the caller gets the error.
TrySend(t, bytes, n) ==
  /\ wire' = wire \o SubSeq(bytes, 1, n)
  /\ wbuf' = SubSeq(bytes, n + 1, Len(bytes))
  /\ sendFailed' = (sendFailed \/ n < Len(bytes))
  /\ Finish(t, IF n = Len(bytes) THEN "ok" ELSE "err")

TryFlush(t) ==
  /\ Begin(t, "tryFlush")
  /\ \E n \in 0 .. Len(wbuf) : TrySend(t, wbuf, n)
  /\ UNCHANGED <<connected, written, overwritten, rbuf, sent, net, awaiting, span, fault>>

CloseSync(t) ==
  /\ Begin(t, "closeSync")
  /\ written' = Append(written, [type |-> "Close", tag |-> 0])
  /\ overwritten' = [u \in Task |-> overwritten[u] \/ awaiting[u] = "send"]
  /\ LET bytes == wbuf \o FrameBytes(Len(written) + 1)
     IN  \E n \in 0 .. Len(bytes) : TrySend(t, bytes, n)
  /\ connected' = FALSE
  /\ UNCHANGED <<rbuf, sent, net, awaiting, span, fault>>

\* Unlike closeNoAck, closeSync returns before the reset when the code or
\* the reason is invalid.
CloseSyncInvalid(t) ==
  /\ Begin(t, "closeSync")
  /\ Finish(t, "err")
  /\ WriteNothing
  /\ UNCHANGED <<connected, rbuf, world, awaiting, span, fault>>

-----------------------------------------------------------------------------
(* The loop of flush *)

\* peek, and the await on send.
FlushSend(t) ==
  /\ Runs(t)
  /\ pc[t] \in Reasons
  /\ wbuf # << >>
  /\ Suspend(t, "send")
  /\ span' = [span EXCEPT ![t] = wbuf]
  /\ overwritten' = [overwritten EXCEPT ![t] = FALSE]
  /\ UNCHANGED <<connected, written, buffers, world, call, pc, result, fault>>

\* (mutant) The whole span is skipped after a short send.
SendDone_SkipsSpan(t, n) ==
  /\ Resumes(t, "send")
  /\ connected
  /\ wire' = wire \o SubSeq(span[t], 1, n)
  /\ wbuf' = SubSeq(wbuf, Len(span[t]) + 1, Len(wbuf))
  /\ running' = t
  /\ span' = [span EXCEPT ![t] = << >>]
  /\ UNCHANGED <<connected, written, rbuf, sent, net, sendFailed, call, overwritten,
                 pc, result, fault>>

\* The transport has sent n bytes of the span; skip throws when m_wbuf holds
\* fewer by now.  Where m_wbuf was written during the await the span may
\* dangle.
SendDone(t, n) ==
  /\ Resumes(t, "send")
  /\ connected
  /\ \/ wire' = wire \o SubSeq(span[t], 1, n)
     \/ overwritten[t] /\ wire' = wire \o [i \in 1 .. n |-> Garbage]
  /\ IF n <= Len(wbuf)
     THEN /\ wbuf' = SubSeq(wbuf, n + 1, Len(wbuf))
          /\ running' = t
          /\ UNCHANGED <<pc, result, fault>>
     ELSE Crash("out_of_range") /\ UNCHANGED wbuf
  /\ span' = [span EXCEPT ![t] = << >>]
  /\ UNCHANGED <<connected, written, rbuf, sent, net, sendFailed, call, overwritten>>

\* (mutant) sendCloseFrame keeps the transport when it fails.
SendFailed_CloseKeeps(t) ==
  /\ Resumes(t, "send")
  /\ connected
  /\ sendFailed' = TRUE
  /\ Finish(t, "err")
  /\ span' = [span EXCEPT ![t] = << >>]
  /\ UNCHANGED <<connected, written, buffers, wire, sent, net, call, overwritten, fault>>

\* send and the sending of a Pong leave the transport; sendCloseFrame does not.
SendFailed(t) ==
  /\ Resumes(t, "send")
  /\ connected
  /\ sendFailed' = TRUE
  /\ CASE pc[t] = "send" -> Finish(t, "err") /\ UNCHANGED connected
       [] pc[t] = "pong" -> RecvReturns(t, "err", connected)
       [] pc[t] \in {"reply", "violation"}  -> RecvReturns(t, "err", FALSE)
       [] pc[t] \in {"close", "closeNoAck"} -> Finish(t, "err") /\ connected' = FALSE
  /\ span' = [span EXCEPT ![t] = << >>]
  /\ UNCHANGED <<written, buffers, wire, sent, net, call, overwritten, fault>>

\* (mutant) One send per flush.
Flushed_OneSend == TRUE

Flushed == wbuf = << >>

FlushDone(t) ==
  /\ Runs(t)
  /\ pc[t] \in Reasons
  /\ Flushed
  /\ CASE pc[t] = "send"       -> Finish(t, "ok") /\ UNCHANGED connected
       [] pc[t] = "pong"       -> Goto(t, "recv") /\ UNCHANGED connected
       [] pc[t] = "close"      -> Goto(t, "recv") /\ UNCHANGED connected
       [] pc[t] = "closeNoAck" -> Finish(t, "ok") /\ connected' = FALSE
       [] pc[t] = "reply"      -> RecvReturns(t, "Close", FALSE)
       [] pc[t] = "violation"  -> RecvReturns(t, "err", FALSE)
  /\ UNCHANGED <<written, buffers, world, call, awaiting, span, overwritten, fault>>

\* Another task reset the transport while this one was suspended in it: it
\* resumes in a destroyed object.
ResumeDestroyed(t) ==
  /\ \E function \in {"send", "receive"} : Resumes(t, function)
  /\ ~ connected
  /\ Crash("destroyed transport")
  /\ UNCHANGED <<connected, written, buffers, world, call, span, overwritten>>

-----------------------------------------------------------------------------
(* The loop of recv *)

Take(t, type) ==
  /\ Runs(t)
  /\ pc[t] = "recv"
  /\ rbuf # << >>
  /\ Head(rbuf).type = type
  /\ rbuf' = Tail(rbuf)
  /\ UNCHANGED <<world, call, awaiting, span, fault>>

TakeData(t) ==
  /\ Take(t, "Data")
  /\ RecvReturns(t, "Data", connected)
  /\ WriteNothing

TakePong(t) ==
  /\ Take(t, "Pong")
  /\ Goto(t, "recv")
  /\ WriteNothing
  /\ UNCHANGED connected

\* recv answers with a frame of its own.  (Every function it calls looks at
\* m_transport again; no other task has run since it was last seen.)
Answer(t, type, tag, reason) ==
  /\ WriteFrame(type, tag)
  /\ Goto(t, reason)
  /\ UNCHANGED connected

\* (mutant) A task that is closing does not reply a second time, and forgets
\* that this was the answer it waits for.
TakeClose_IgnoredWhenClosing(t) ==
  /\ Take(t, "Close")
  /\ IF call[t] = "close" THEN Goto(t, "recv") /\ WriteNothing /\ UNCHANGED connected
     ELSE Answer(t, "Close", 0, "reply")

TakePing(t)  == Take(t, "Ping")  /\ Answer(t, "Pong", Head(rbuf).tag, "pong")
TakeClose(t) == Take(t, "Close") /\ Answer(t, "Close", 0, "reply")
TakeBad(t)   == Take(t, "Bad")   /\ Answer(t, "Close", 0, "violation")

\* (mutant) recv reads from the socket before it looks at its buffer.
RecvReceive_BufferIgnored(t) ==
  /\ Runs(t)
  /\ pc[t] = "recv"
  /\ Suspend(t, "receive")
  /\ WriteNothing
  /\ UNCHANGED <<connected, rbuf, world, call, pc, result, span, fault>>

\* rwindow, and the await on receive.
RecvReceive(t) ==
  /\ Runs(t)
  /\ pc[t] = "recv"
  /\ rbuf = << >>
  /\ Suspend(t, "receive")
  /\ WriteNothing
  /\ UNCHANGED <<connected, rbuf, world, call, pc, result, span, fault>>

ReceiveDone(t, n) ==
  /\ Resumes(t, "receive")
  /\ connected
  /\ rbuf' = rbuf \o SubSeq(net, 1, n)
  /\ net' = SubSeq(net, n + 1, Len(net))
  /\ running' = t
  /\ WriteNothing
  /\ UNCHANGED <<connected, wire, sent, sendFailed, call, pc, result, span, fault>>

\* (mutant) recv disconnects on an error, as its documentation says.
ReceiveFailed_Disconnects(t) ==
  /\ Resumes(t, "receive")
  /\ connected
  /\ RecvReturns(t, "err", FALSE)
  /\ WriteNothing
  /\ UNCHANGED <<rbuf, world, call, span, fault>>

ReceiveFailed(t) ==
  /\ Resumes(t, "receive")
  /\ connected
  /\ RecvReturns(t, "err", connected)
  /\ WriteNothing
  /\ UNCHANGED <<rbuf, world, call, span, fault>>

-----------------------------------------------------------------------------
Call(t) ==
  \/ CallDisconnected(t)
  \/ \E type \in {"Data", "Ping"} : CallWrite(t, type) \/ CallSend(t, type)
  \/ CallSendInvalid(t) \/ CallFlush(t) \/ CallRecv(t)
  \/ \E function \in {"close", "closeNoAck"} :
       CallClose(t, function) \/ CallCloseInvalid(t, function)
  \/ TryFlush(t) \/ CloseSync(t) \/ CloseSyncInvalid(t)

Progress(t) ==
  \/ FlushSend(t) \/ FlushDone(t)
  \/ \E n \in 1 .. Len(span[t]) : SendDone(t, n)
  \/ TakeData(t) \/ TakePong(t) \/ TakePing(t) \/ TakeClose(t) \/ TakeBad(t)
  \/ RecvReceive(t)
  \/ \E n \in 1 .. Len(net) : ReceiveDone(t, n)

Failure(t) == SendFailed(t) \/ ReceiveFailed(t) \/ ResumeDestroyed(t)

Next ==
  \/ \E t \in Task : Call(t) \/ Progress(t) \/ Failure(t)
  \/ ServerSend \/ ServerAck

\* The scheduler gives every task that can go on its turn, also when other
\* tasks keep the processor busy; the server answers a Close.
Spec ==
  /\ Init /\ [][Next]_vars
  /\ \A t \in Task : SF_vars(Progress(t))
  /\ WF_vars(ServerAck)

-----------------------------------------------------------------------------
(* Properties *)

\* Whoever has the processor is in a loop with a live transport, and a
\* suspended task is in the loop that awaits what it awaits.
TypeOK ==
  /\ connected \in BOOLEAN
  /\ written \in Seq([type : {"Data", "Ping", "Pong", "Close"}, tag : Nat])
  /\ wbuf \in Seq(Nat) /\ wire \in Seq(Nat)
  /\ \A messages \in {sent, net, rbuf} :
       messages \in Seq([type : Arriving \cup {"Close"}, tag : Nat])
  /\ pc \in [Task -> Reasons \cup {"idle", "recv"}]
  /\ result \in [Task -> {"none", "ok", "err", "Data", "Close"}]
  /\ awaiting \in [Task -> {"none", "send", "receive"}]
  /\ span \in [Task -> Seq(Nat)]
  /\ overwritten \in [Task -> BOOLEAN]
  /\ sendFailed \in BOOLEAN
  /\ running # "nobody" =>
       connected /\ awaiting[running] = "none" /\ pc[running] # "idle"
  /\ \A t \in Task :
       /\ awaiting[t] = "send" => pc[t] \in Reasons /\ span[t] # << >>
       /\ awaiting[t] = "receive" => pc[t] = "recv" /\ rbuf = << >>

\* "It is okay to call send and recv concurrently": the server gets the bytes
\* of the frames in the order they were written, none twice, none lost.
\* (So only while recv has nothing to answer: see the runs.)
StreamIntact == wire = [i \in 1 .. Len(wire) |-> i]

\* The part of it that does not depend on what becomes of memory that a
\* write has freed or reused: no byte of the stream is sent twice.
SentOnce ==
  \A i, j \in DOMAIN wire : wire[i] = wire[j] /\ wire[i] # Garbage => i = j

\* The same promise for the program: no task resumes inside a transport that
\* another one has reset, and no skip throws.  (Nor this: see the runs.)
NoFault == fault = "none"

NoUseAfterReset == fault # "destroyed transport"

\* What remains of it: with one task sending and one receiving all is well
\* until the server sends something recv has to answer.
SafeWhileQuiet ==
  (\A k \in DOMAIN sent : sent[k].type \in {"Data", "Pong"})
    => StreamIntact /\ NoFault

\* When send or flush has returned Ok, all that was written is on the wire.
OkMeansSent ==
  \A t \in Task :
    pc[t] = "idle" /\ call[t] \in {"send", "flush", "tryFlush"} /\ result[t] = "ok"
      => Len(wire) = FrameSize * Len(written)

\* A task that waits for the transport in send does not keep recv from
\* returning once a message has arrived (or from what brings it down).
ReceiverNotStarved ==
  \A t \in Task :
    (pc[t] = "recv" /\ \E m \in DOMAIN net : net[m].type = "Data")
      ~> (pc[t] = "idle" \/ fault # "none")

\* close() returns, in whatever task, unless another one brings it down.
CloseReturns ==
  \A t \in Task :
    (call[t] = "close" /\ pc[t] # "idle") ~> (pc[t] = "idle" \/ fault # "none")

\* With a single task the awaits are invisible: the asynchronous client is
\* the synchronous one with two functions added.
Single == CHOOSE t \in Task : TRUE

Sync ==
  INSTANCE Client
    WITH call <- call[Single], pc <- pc[Single], result <- result[Single]

AddedFunctions ==
  \/ TryFlush(Single) \/ CloseSync(Single) \/ CloseSyncInvalid(Single)
  \/ CallDisconnected(Single) /\ call'[Single] \in {"tryFlush", "closeSync"}

AsyncImplementsClient == Sync!Init /\ [][Sync!Next \/ AddedFunctions]_Sync!vars

===========================================================================
