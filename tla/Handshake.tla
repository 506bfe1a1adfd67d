----------------------------- MODULE Handshake -----------------------------
(***************************************************************************)
(* connect and doHandshake of both clients, from the URL to the first      *)
(* frames: options, transport, request, a response that arrives in parts   *)
(* in m_rbuf, and the reader that goes on with what is left there.         *)
(*                                                                         *)
(* The bytes of RingOps are the tokens of HttpUpgrade; "CR" and "LF" are   *)
(* bytes of their own, so that a read may end between any two.  A frame is *)
(* a head, which announces a length, and that many tokens.                 *)
(***************************************************************************)
EXTENDS ReadWindow, HttpUpgrade

CONSTANTS
  Urls,          \* texts the application connects to
  GivenOptions,  \* options it builds itself instead
  Keys,          \* base64 texts of the nonces that _genrandom may draw
  Answers,       \* for each key, what servers answer
  Announced,     \* the length that the head of a frame announces
  SizeMod        \* size_t counts modulo this

ASSUME SizeAssumption ==
  /\ SizeMod \in Nat
  /\ SizeMod > 2 * (MaxBuffer + Window)

\* Every byte can be the head of a frame.
ASSUME HeadAssumption == Announced \in [Byte -> Nat]

Offers == UNION {Answers[k] : k \in Keys}

NoUrl     == << >>
NoOptions == [port |-> -1]
NoRequest == [key |-> "none"]
NoAnswer  == [status |-> << >>, ended |-> FALSE, frames |-> << >>]

VARIABLES
  phase,     \* how far the attempt is, or how it ended
  url,       \* the argument of connect, NoUrl with options
  opts,      \* ClientConnectOptions
  request,   \* the request, once generated
  arrived,   \* whether the server has all of it
  answer,    \* what the server chose to answer
  net,       \* its bytes on the way
  buf,       \* m_rbuf
  response,  \* the text read out of it, up to the blank line
  taken,     \* the frames the reader took (for the properties)
  waiting    \* whether a receive has a window and has not returned

vars == <<phase, url, opts, request, arrived, answer, net, buf, response, taken, waiting>>

Init ==
  /\ phase = "start"
  /\ url \in Urls \cup {NoUrl}
  /\ opts = NoOptions
  /\ request = NoRequest
  /\ arrived = FALSE
  /\ answer = NoAnswer
  /\ net = << >>
  /\ buf = NewRing(0)
  /\ response = << >>
  /\ taken = << >>
  /\ waiting = FALSE

-----------------------------------------------------------------------------
(* From the URL to the request *)

Stay == UNCHANGED <<url, request, arrived, answer, net, buf, response, taken, waiting>>

RejectUrl ==
  /\ phase = "start" /\ url # NoUrl
  /\ ~ NamesHost(ParseUrl(url))
  /\ phase' = "bad url"
  /\ Stay /\ UNCHANGED opts

\* The resolver does not know the name.
UnknownHost ==
  /\ phase = "start" /\ url # NoUrl
  /\ NamesHost(ParseUrl(url)) /\ ~ Resolvable(ParseUrl(url))
  /\ phase' = "no options"
  /\ Stay /\ UNCHANGED opts

\* createContext: there is no context, or it finds no certificates.
NoTlsContext ==
  /\ phase = "start" /\ url # NoUrl
  /\ Resolvable(ParseUrl(url)) /\ ParseUrl(url).tls
  /\ phase' = "no options"
  /\ Stay /\ UNCHANGED opts

FromUrl ==
  /\ phase = "start" /\ url # NoUrl
  /\ Resolvable(ParseUrl(url))
  /\ opts' = OptionsFrom(ParseUrl(url))
  /\ phase' = "options"
  /\ Stay

TakeOptions ==
  /\ phase = "start" /\ url = NoUrl
  /\ opts' \in GivenOptions
  /\ phase' = "options"
  /\ Stay

\* The transport is connected, encrypted if the options have a context.
DialTcp ==
  /\ phase = "options" /\ ~ opts.tls
  /\ phase' \in {"connected", "unreachable"}
  /\ Stay /\ UNCHANGED opts

DialTls ==
  /\ phase = "options" /\ opts.tls
  /\ phase' \in {"connected", "unreachable"}
  /\ Stay /\ UNCHANGED opts

\* The transport may take only a part of the request: doHandshake does not
\* look at how much it was.
SendRequest ==
  /\ phase = "connected"
  /\ \E key \in Keys : request' = GenerateRequest(opts, key)
  /\ arrived' \in BOOLEAN
  /\ phase' = "response"
  /\ UNCHANGED <<url, opts, answer, net, buf, response, taken, waiting>>

SendFails ==
  /\ phase = "connected"
  /\ phase' = "broken"
  /\ Stay /\ UNCHANGED opts

-----------------------------------------------------------------------------
(* The server *)

\* What stands before a CRLF.
IsLine(line) == line \in Seq(Byte) /\ PlacesOf(CRLF, line) = {}

IsWholeFrame(f) ==
  f \in Seq(Byte) /\ f # << >> /\ Len(f) = 1 + Announced[f[1]] /\ Len(f) <= SizeMod \div 2

\* The beginning of a frame, or nothing.
IsPartOfFrame(f) ==
  f \in Seq(Byte) /\ (f # << >> => Len(f) <= Announced[f[1]])

\* A server may answer with any bytes: up to the first blank line they are the
\* status line and headers, and behind it whole frames and a part of one.
IsAnswer(a) ==
  /\ DOMAIN a = {"status", "headers", "ended", "frames", "more"}
  /\ a.ended \in BOOLEAN
  /\ IsLine(a.status)
  /\ a.headers \in Seq(Seq(Byte))
  /\ \A i \in 1 .. Len(a.headers) : IsLine(a.headers[i]) /\ a.headers[i] # << >>
  /\ a.frames \in Seq(Seq(Byte))
  /\ \A i \in 1 .. Len(a.frames) : IsWholeFrame(a.frames[i])
  /\ IsPartOfFrame(a.more)

ASSUME AnswerAssumption ==
  /\ {"CR", "LF"} \subseteq Byte
  /\ \A k \in Keys : \A a \in Answers[k] : IsAnswer(a)

Line(line) == line \o CRLF

Lines(a) == <<a.status>> \o a.headers \o IF a.ended THEN << << >> >> ELSE << >>

AnswerBytes(a) ==
  FlattenSeq([i \in 1 .. Len(Lines(a)) |-> Line(Lines(a)[i])])
    \o IF a.ended THEN FlattenSeq(a.frames) \o a.more ELSE << >>

ServerAnswers ==
  /\ phase = "response" /\ arrived /\ answer = NoAnswer
  /\ answer' \in Answers[request.key]
  /\ net' = AnswerBytes(answer')
  /\ UNCHANGED <<phase, url, opts, request, arrived, buf, response, taken, waiting>>

-----------------------------------------------------------------------------
(* What is in the buffer *)

\* headerLen + payloadLen, in size_t.
FrameLen(b) == (1 + Announced[Peek(b, 1, 0)[1]]) % SizeMod

\* (mutant) A frame is taken only when more than it is there.
HasFrame_AndMore(b) == b.size > 0 /\ b.size > FrameLen(b)

HasFrame(b) == b.size > 0 /\ b.size >= FrameLen(b)

\* The payload's vector cannot be that long: std::length_error.
TooLong(b) == Announced[Peek(b, 1, 0)[1]] >= SizeMod \div 2

-----------------------------------------------------------------------------
(* The response *)

\* string_view{wrpread.first.data(), wrpread.size()}: as long as both spans,
\* but from the start of the first.
View(b) ==
  LET at == PeekFirst(b, b.size, 0).at
  IN  [i \in 1 .. b.size |-> IF at + i - 1 < b.cap THEN b.data[at + i - 1] ELSE Uninit]

\* rwindow, in doHandshake and in recv: the buffer may grow, or the exception
\* ends the attempt or the connection.
WantsMore ==
  /\ ~ waiting
  /\ phase = "response" \/ (phase = "open" /\ ~ HasFrame(buf))

OpenWindow ==
  /\ WantsMore /\ ~ BufferOverflow(buf)
  /\ buf' = RWindow(buf)
  /\ waiting' = TRUE
  /\ UNCHANGED <<phase, url, opts, request, arrived, answer, net, response, taken>>

Overflow ==
  /\ WantsMore /\ BufferOverflow(buf)
  /\ phase' = "overflow"
  /\ Stay /\ UNCHANGED opts

\* (mutant) Only what was just received is searched for the blank line.
ResponseLen_LastRead(view, n) ==
  Len(view) - n + FindText(BlankLine, SubSeq(view, Len(view) - n + 1, Len(view))) + 3

\* The length of the response in a view whose last n bytes were just received:
\* longer than the view while the blank line is missing.
ResponseLen(view, n) == FindText(BlankLine, view) + 3

\* (mutant) The text of a line is dropped from the buffer once its end is there.
AwaitMore_DropsLines(b, view, n) ==
  /\ phase = "response" /\ ResponseLen(view, n) > b.size
  /\ LET end == FindText(CRLF, view) IN buf' = IF end > b.size THEN b ELSE Skip(b, end - 1)
  /\ UNCHANGED <<phase, response>>

AwaitMore(b, view, n) ==
  /\ phase = "response" /\ ResponseLen(view, n) > b.size
  /\ buf' = b
  /\ UNCHANGED <<phase, response>>

\* read takes the response out of the buffer.
ReadResponse(b, view, n) ==
  /\ phase = "response" /\ ResponseLen(view, n) <= b.size
  /\ response' = Peek(b, ResponseLen(view, n), 0)
  /\ buf' = Skip(b, ResponseLen(view, n))
  /\ phase' = "parse"

\* The client that is returned is moved, with its buffers.
AcceptResponse ==
  /\ phase = "parse"
  /\ ParseResponse(request.key, response) = "headers"
  /\ phase' = "open"
  /\ buf' = MovedTo(buf)
  /\ UNCHANGED <<url, opts, request, arrived, answer, net, response, taken, waiting>>

RefuseResponse ==
  /\ phase = "parse"
  /\ ParseResponse(request.key, response) = "error"
  /\ phase' = "refused"
  /\ Stay /\ UNCHANGED opts

\* The error ends the attempt, or is what recv returns: this model ends with
\* it, and what a client may do afterwards is in Client and AsyncClient.
ReceiveFails ==
  /\ waiting
  /\ waiting' = FALSE
  /\ phase' = "broken"
  /\ UNCHANGED <<url, opts, request, arrived, answer, net, buf, response, taken>>

-----------------------------------------------------------------------------
(* The reader *)

TakeFrame ==
  /\ phase = "open" /\ HasFrame(buf) /\ ~ TooLong(buf)
  /\ taken' = Append(taken, Peek(buf, FrameLen(buf), 0))
  /\ buf' = Skip(buf, FrameLen(buf))
  /\ UNCHANGED <<phase, url, opts, request, arrived, answer, net, response, waiting>>

LengthError ==
  /\ phase = "open" /\ HasFrame(buf) /\ TooLong(buf)
  /\ phase' = "length error"
  /\ Stay /\ UNCHANGED opts

ReceiveMore(b) ==
  /\ phase = "open"
  /\ buf' = b
  /\ UNCHANGED <<phase, response>>

\* receive and advanceWrite: the transport delivers a part of what is on its
\* way, and the loop looks at it.
Receive ==
  /\ waiting
  /\ \E n \in 1 .. AtMost(Len(net), WriteWindow(buf).len) :
       \E b \in {ReceiveInto(buf, SubSeq(net, 1, n))} : \E view \in {View(b)} :
         /\ AwaitMore(b, view, n) \/ ReadResponse(b, view, n) \/ ReceiveMore(b)
         /\ net' = SubSeq(net, n + 1, Len(net))
  /\ waiting' = FALSE
  /\ UNCHANGED <<url, opts, request, arrived, answer, taken>>

Connect ==
  \/ RejectUrl \/ UnknownHost \/ NoTlsContext \/ FromUrl \/ TakeOptions
  \/ DialTcp \/ DialTls \/ SendRequest \/ SendFails

Next ==
  \/ Connect \/ ServerAnswers
  \/ OpenWindow \/ Overflow \/ Receive \/ ReceiveFails \/ AcceptResponse \/ RefuseResponse
  \/ TakeFrame \/ LengthError

\* The loops of doHandshake and recv go on, and the network delivers.
Progress ==
  OpenWindow \/ Overflow \/ Receive \/ AcceptResponse \/ RefuseResponse \/ TakeFrame \/ LengthError

Spec == Init /\ [][Next]_vars /\ WF_vars(Progress)

-----------------------------------------------------------------------------
(* What it promises *)

CONSTANTS
  RightAccept,  \* the accept key that RFC 6455 derives from a nonce's text
  Documented    \* the URLs of the documentation |-> what it says they mean

Scheme(tls) == IF tls THEN "wss://" ELSE "ws://"

StandardPort(tls) == IF tls THEN 443 ELSE 80

MeantAddress(authority, meant) ==
  /\ meant.name = << >> /\ meant.ip # NoIp
  /\ IF authority \in DOMAIN SocketAddresses
     THEN SocketAddresses[authority] = [ip |-> meant.ip, port |-> meant.port]
     ELSE /\ authority \in DOMAIN IpAddresses
          /\ IpAddresses[authority] = meant.ip /\ meant.port = StandardPort(meant.tls)

MeantName(authority, meant) ==
  /\ authority \notin DOMAIN SocketAddresses \cup DOMAIN IpAddresses
  /\ meant.name \in DOMAIN HostAddresses /\ HostAddresses[meant.name] = meant.ip
  /\ meant.name \in Seq(STRING) /\ meant.name # << >> /\ ":" \notin ToSet(meant.name)
  /\ \/ authority = meant.name /\ meant.port = StandardPort(meant.tls)
     \/ \E token \in DOMAIN LeadingNumber :
          authority = meant.name \o <<":", token>> /\ meant.port = LeadingNumber[token]

\* A URL as the documentation writes them: a scheme, an address or a name,
\* with or without a port, and perhaps a path.
MeantBy(text, meant) ==
  /\ text \in Seq(STRING) /\ Len(text) >= 2
  /\ meant.tls \in BOOLEAN /\ text[1] = Scheme(meant.tls)
  /\ meant.port \in Nat /\ 0 < meant.port /\ meant.port < 65536
  /\ \E n \in 2 .. Len(text) :
       LET authority == SubSeq(text, 2, n)
           path      == SubSeq(text, n + 1, Len(text))
       IN  /\ "/" \notin ToSet(authority)
           /\ path # << >> => path[1] = "/"
           /\ meant.path = IF path = << >> THEN <<"/">> ELSE path
           /\ MeantAddress(authority, meant) \/ MeantName(authority, meant)

ASSUME DocumentedAssumption == \A text \in DOMAIN Documented : MeantBy(text, Documented[text])

\* The status line of an answer that switches protocols.
Switches(status) ==
  /\ Len(status) >= 3 /\ status[1] = "HTTP/1.1 "
  /\ status[2] \in DOMAIN LeadingNumber /\ LeadingNumber[status[2]] = 101
  /\ \E i \in 3 .. Len(status) : status[i] \in Blanks

Named(line, name) == Len(line) >= 2 /\ line[2] = ": " /\ Lower[line[1]] = name

Says(line, name, value) == Named(line, name) /\ Len(line) = 3 /\ Lower[line[3]] = value

\* An answer that completes the handshake, read by its lines.  (The library
\* wants "Upgrade" to be the only value of its header.)
Acceptable(a, key) ==
  LET headers    == ToSet(a.headers)
      acceptKeys == {line \in headers : Named(line, "sec-websocket-accept")}
  IN  /\ a.ended
      /\ Switches(a.status)
      /\ \A line \in headers : ": " \in ToSet(line)
      /\ \E line \in headers : Says(line, "upgrade", "websocket")
      /\ \E line \in headers : Says(line, "connection", "upgrade")
      /\ acceptKeys # {}
      /\ \A line \in acceptKeys : line = <<line[1], ": ", RightAccept[key]>>

Phases == {"start", "bad url", "no options", "options", "unreachable", "connected",
           "response", "parse", "open", "refused", "broken", "overflow", "length error"}

\* The buffer is a ring throughout, so that no receive, read or move of the
\* handshake breaks what the reader relies on.
TypeOK ==
  /\ phase \in Phases
  /\ RingOK(buf)
  /\ net \in Seq(Byte)
  /\ taken \in Seq(Seq(Byte))
  /\ arrived \in BOOLEAN
  /\ arrived => request.key \in Keys

\* doHandshake reads as many bytes as both spans hold from the start of the
\* first one: these are the bytes received so far, and lie in the allocation.
ViewInBounds == phase = "response" => View(buf) = Contents(buf)

\* A URL of the documentation is not refused, and leads to the address, port
\* and encryption that the documentation gives; the request asks for its
\* path, and the Host header names the same server and port.
ConnectsWhereUrlSays ==
  url \in DOMAIN Documented =>
    LET meant == Documented[url]
    IN  /\ phase # "bad url"
        /\ opts # NoOptions =>
             opts.tls = meant.tls /\ opts.ip = meant.ip /\ opts.port = meant.port
        /\ request # NoRequest =>
             /\ request.path = meant.path
             /\ meant.name # << >> => request.host.name = meant.name
             /\ meant.port =
                  IF request.host.port = 0 THEN StandardPort(meant.tls) ELSE request.host.port

\* An answer is refused only if it does not complete the handshake: not
\* because of where it was cut, and not because the client's own hash of its
\* key is wrong.
RefusedRightly == phase = "refused" => ~ Acceptable(answer, request.key)

\* rwindow looks at the limit before it doubles; all the same m_rbuf does
\* not outgrow MAX_BUFFER_SIZE.
CapacityBounded == buf.cap <= MaxBuffer

\* "Buffer overflow: received data exceeds maximum buffer size" is what the
\* exception says.  (Not so: see the runs.)
OverflowMeansFull == phase = "overflow" => buf.size + Window > MaxBuffer

Outcome ==
  CASE phase = "open" -> "open"
    [] phase \in {"bad url", "no options", "unreachable", "refused", "broken",
                  "overflow", "length error"} -> "failed"
    [] OTHER -> "pending"

\* Seen from outside connecting is Opening: reads, growth and parsing are
\* stuttering steps of it.
Connecting == INSTANCE Opening WITH
  NoOffer <- NoAnswer, outcome <- Outcome, key <- request.key, offer <- answer,
  delivered <- taken

HandshakeImplementsOpening == Connecting!Spec

\* Once a whole answer is on its way doHandshake returns, however the network
\* cuts the blank line.
HandshakeEnds == Connecting!Settles

\* An open connection hands out every frame that came behind the answer, also
\* those that were in the buffer before it was open.
FramesDelivered == Connecting!Delivers
=============================================================================
