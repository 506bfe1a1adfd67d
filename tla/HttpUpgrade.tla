---------------------------- MODULE HttpUpgrade ----------------------------
(***************************************************************************)
(* The two HTTP messages of the opening handshake: what generateRequest    *)
(* asks for, and what parseResponse makes of the answer.  A response is a  *)
(* sequence of tokens; of the texts among them only the case matters.      *)
(***************************************************************************)
EXTENDS Url

CONSTANTS
  Lower,      \* tolower of the letters of a token
  AcceptKey   \* nonceToAcceptKey, from the base64 text of the nonce

\* The lower case of the texts that parseResponse looks for.  No number begins
\* with a blank.
ASSUME TextAssumption ==
  /\ Lower["Upgrade"] = "upgrade" /\ Lower["websocket"] = "websocket"
  /\ Lower["Connection"] = "connection"
  /\ Lower["Sec-WebSocket-Accept"] = "sec-websocket-accept"
  /\ Lower[": "] = ": "
  /\ DOMAIN LeadingNumber \cap {" ", "CR", "LF"} = {}

CRLF == <<"CR", "LF">>

BlankLine == CRLF \o CRLF

PlacesOf(sub, s) ==
  {i \in 1 .. Len(s) - Len(sub) + 1 : SubSeq(s, i, i + Len(sub) - 1) = sub}

\* string_view::find: the first place of the text sub in s, one past the end
\* for npos.
FindText(sub, s) == Min(PlacesOf(sub, s) \cup {Len(s) + 1})

-----------------------------------------------------------------------------
IsStandardPort(opts) ==
  \/ opts.port = 0
  \/ opts.tls /\ opts.port = 443
  \/ ~ opts.tls /\ opts.port = 80

\* The fields of the request that a server reads.  Port 0 in the Host header
\* stands for a header without a port.
GenerateRequest(opts, key) ==
  [path    |-> IF opts.path = << >> THEN <<"/">> ELSE opts.path,
   host    |-> [name |-> IF opts.hostname = << >> THEN <<"localhost">> ELSE opts.hostname,
                port |-> IF IsStandardPort(opts) THEN 0 ELSE opts.port],
   key     |-> key,
   headers |-> opts.headers]

-----------------------------------------------------------------------------
\* equalsIgnoreCase
SameText(s, t) ==
  Len(s) = Len(t) /\ \A i \in 1 .. Len(s) : Lower[s[i]] = Lower[t[i]]

\* What ends the status code.
Blanks == {" ", "CR", "LF"}

\* The place of the first blank in s, or 0.
FindBlank(s) == SelectInSeq(s, LAMBDA token : token \in Blanks)

\* The status line is "HTTP/1.1 ", a code up to a blank, and a reason.
GoodStatus(line) ==
  /\ line # << >> /\ line[1] = "HTTP/1.1 "
  /\ FindBlank(Tail(line)) > 1
  /\ line[2] \in DOMAIN LeadingNumber
  /\ LeadingNumber[line[2]] = 101

\* The lines of a response, by the place where they begin.
LineStarts(s) == {1} \cup {i + 2 : i \in PlacesOf(CRLF, s)}

LineEnd(s, from) == Min({i \in PlacesOf(CRLF, s) : i >= from})

LineAt(s, from) == SubSeq(s, from, LineEnd(s, from) - 1)

StatusLine(s) == LineAt(s, 1)

\* The header lines: those between the status line and the first empty one.
HeaderLines(s) ==
  LET blank == Min({i \in LineStarts(s) \ {1} : i \in PlacesOf(CRLF, s)})
  IN  {LineAt(s, i) : i \in {j \in LineStarts(s) : 1 < j /\ j < blank}}

Name(line)  == Before(": ", line)
Value(line) == After(": ", line)

HasHeader(lines, name, value) ==
  \E line \in lines : SameText(Name(line), name) /\ SameText(Value(line), value)

Accepts(lines) == {line \in lines : SameText(Name(line), <<"Sec-WebSocket-Accept">>)}

\* (mutant) One right accept key is enough.
AcceptMatches_Any(key, lines) == \E line \in Accepts(lines) : Value(line) = <<AcceptKey[key]>>

AcceptMatches(key, lines) ==
  /\ Accepts(lines) # {}
  /\ \A line \in Accepts(lines) : Value(line) = <<AcceptKey[key]>>

\* parseResponse, for a text that ends with its first empty line: whether it
\* returns the headers or an error.
ParseResponse(key, s) ==
  LET lines == HeaderLines(s)
  IN  IF /\ GoodStatus(StatusLine(s))
         /\ \A line \in lines : Find(": ", line) # 0
         /\ HasHeader(lines, <<"Upgrade">>, <<"websocket">>)
         /\ HasHeader(lines, <<"Connection">>, <<"Upgrade">>)
         /\ AcceptMatches(key, lines)
      THEN "headers" ELSE "error"
=============================================================================
