---------------------------- MODULE MCHandshake ----------------------------
(* Two nonces, URLs of the documentation and others, and servers that      *)
(* answer well or not.                                                     *)
EXTENDS Handshake, Sha1

MCUrls ==
  { <<"ws://", "example.com">>,
    <<"wss://", "example.com">>,
    <<"wss://", "example.com", ":", "8443">>,
    <<"ws://", "192.168.0.10", ":", "8080">>,
    <<"ws://", "[2001", ":", "db8", ":", ":", "1]", ":", "8080", "/", "chat">>,
    <<"wss://", "192.168.0.10", "/", "chat">>,
    <<"ws://", "example.com", ":", "80x">>,
    <<"ws://", "example.com", ":", "99999">>,
    <<"ws://", "example.com", ":", "0", "/", "chat">>,
    <<"ws://", "unknown.example">>,
    <<"ws://", ":", "8443">>,
    <<"ws://", "/", "chat">>,
    <<"http://", "example.com">> }

MCSocketAddresses ==
  <<"192.168.0.10", ":", "8080">> :> [ip |-> "192.168.0.10", port |-> 8080]
  @@ <<"[2001", ":", "db8", ":", ":", "1]", ":", "8080">> :> [ip |-> "2001:db8::1", port |-> 8080]

MCIpAddresses == <<"192.168.0.10">> :> "192.168.0.10"

MCHostAddresses == <<"example.com">> :> "192.0.2.1"

MCLeadingNumber ==
  ("8443" :> 8443) @@ ("8080" :> 8080) @@ ("80x" :> 80) @@ ("99999" :> 99999)
  @@ ("0" :> 0) @@ ("101" :> 101) @@ ("404" :> 404)

Meaning(tls, name, ip, port, path) ==
  [tls |-> tls, name |-> name, ip |-> ip, port |-> port, path |-> path]

\* The table in Client.hpp, with a path and the root in place of none.
MCDocumented ==
  LET example == <<"example.com">>
  IN  <<"ws://", "example.com">> :> Meaning(FALSE, example, "192.0.2.1", 80, <<"/">>)
      @@ <<"wss://", "example.com">> :> Meaning(TRUE, example, "192.0.2.1", 443, <<"/">>)
      @@ <<"wss://", "example.com", ":", "8443">> :>
           Meaning(TRUE, example, "192.0.2.1", 8443, <<"/">>)
      @@ <<"ws://", "192.168.0.10", ":", "8080">> :>
           Meaning(FALSE, << >>, "192.168.0.10", 8080, <<"/">>)
      @@ <<"ws://", "[2001", ":", "db8", ":", ":", "1]", ":", "8080", "/", "chat">> :>
           Meaning(FALSE, << >>, "2001:db8::1", 8080, <<"/", "chat">>)

\* What an application may build: no path, no hostname, an automatic port.
MCGivenOptions ==
  { [tls |-> FALSE, ip |-> "192.0.2.1", port |-> 0, hostname |-> << >>, path |-> << >>,
     headers |-> << <<"Origin", ": ", "here">> >>] }

-----------------------------------------------------------------------------
\* The nonces: that of RFC 6455, section 1.3, and one of zeroes.
MCKeys == {"dGhlIHNhbXBsZSBub25jZQ==", "AAAAAAAAAAAAAAAAAAAAAA=="}

Characters ==
  ("dGhlIHNhbXBsZSBub25jZQ==" :>
     <<100, 71, 104, 108, 73, 72, 78, 104, 98, 88, 66, 115, 90, 83, 66, 117, 98, 50,
       53, 106, 90, 81, 61, 61>>)
  @@ ("AAAAAAAAAAAAAAAAAAAAAA==" :> [i \in 1 .. 24 |-> IF i <= 22 THEN 65 ELSE 61])

\* "258EAFA5-E914-47DA-95CA-C5AB0DC85B11"
Guid ==
  <<50, 53, 56, 69, 65, 70, 65, 53, 45, 69, 57, 49, 52, 45, 52, 55, 68, 65, 45, 57, 53,
    67, 65, 45, 67, 53, 65, 66, 48, 68, 67, 56, 53, 66, 49, 49>>

ServersDigest(nonce) == FipsSha1(Characters[nonce] \o Guid)

\* (A set binds the object: TLC's coverage unfolds an argument at each use.)
ClientsDigest(nonce) ==
  CHOOSE digest \in {Final(sha) : sha \in {Update(New, Characters[nonce] \o Guid)}} : TRUE

\* Base64 of a digest, by the name of the key whose digest it is.
MCRightAccept ==
  [nonce \in MCKeys |-> IF nonce = "AAAAAAAAAAAAAAAAAAAAAA==" THEN "accept zeroes" ELSE "accept sample"]

ClientsAccept(nonce) ==
  IF \E k \in MCKeys : ServersDigest(k) = ClientsDigest(nonce)
  THEN MCRightAccept[CHOOSE k \in MCKeys : ServersDigest(k) = ClientsDigest(nonce)]
  ELSE "accept other"

AcceptTable == [nonce \in MCKeys |-> ClientsAccept(nonce)]

MCAcceptKey == AcceptTable

\* The accept key that RFC 6455 gives for its example.
ASSUME SampleOfTheRfc ==
  ServersDigest("dGhlIHNhbXBsZSBub25jZQ==") =
    << <<45946, 20268>>, <<49250, 20246>>, <<37110, 17926>>, <<53048, 22853>>,
       <<45758, 50410>> >>

-----------------------------------------------------------------------------
Good    == <<"HTTP/1.1 ", "101", " ", "Switching">>
Upgrade == <<"Upgrade", ": ", "websocket">>
Connection == <<"Connection", ": ", "Upgrade">>
Accept(text) == <<"Sec-WebSocket-Accept", ": ", text>>

Answer(status, headers) ==
  [status |-> status, headers |-> headers, ended |-> TRUE, frames |-> << >>, more |-> << >>]

Frames == << <<"f1", "x">>, <<"f0">>, <<"f3", "y", "z", "x">>, <<"f1", "z">>, <<"f0">> >>

MCAnswers ==
  [nonce \in MCKeys |->
     LET accept == MCRightAccept[nonce]
         whole  == Answer(Good, <<Upgrade, Connection, Accept(accept)>>)
     IN  { [whole EXCEPT !.frames = Frames],
           Answer(Good, <<Upgrade, Connection, Accept("accept zeroes")>>) }
         \cup IF nonce = "AAAAAAAAAAAAAAAAAAAAAA==" THEN {} ELSE
         { [whole EXCEPT !.frames = SubSeq(Frames, 1, 2), !.more = <<"long", "x">>],
           [whole EXCEPT !.frames = SubSeq(Frames, 1, 1), !.more = <<"top", "x">>],
           [whole EXCEPT !.ended = FALSE],
           Answer(Good, <<Accept(accept), <<"connection", ": ", "upgrade">>,
                          <<"Server", ": ", "a", ": ", "b">>, <<"UPGRADE", ": ", "WebSocket">> >>),
           Answer(Good, <<Accept(accept), Upgrade, Connection, Accept("accept other")>>),
           Answer(Good, <<Upgrade, Accept(accept)>>),
           Answer(Good, <<Upgrade, <<"Connection">>, Connection, Accept(accept)>>),
           Answer(<<"HTTP/1.1 ", "404", " ", "Gone">>, <<Upgrade, Connection, Accept(accept)>>),
           Answer(<<"HTTP/1.1 ", "101">>, <<Upgrade, Connection, Accept(accept)>>),
           Answer(<<"HTTP/1.0 ", "101", " ">>, << >>) }]

Names ==
  { "HTTP/1.1 ", "HTTP/1.0 ", "101", "404", " ", "Gone", "Switching", ": ", "CR", "LF",
    "Upgrade", "UPGRADE", "Connection", "connection", "websocket", "WebSocket", "upgrade",
    "Server", "a", "b", "Sec-WebSocket-Accept", "accept zeroes", "accept sample", "accept other",
    "f0", "f1", "f3", "long", "top", "x", "y", "z" }

\* A text is no head that a server would send; it announces nothing.
MCAnnounced ==
  [t \in Names |-> CASE t = "f1" -> 1 [] t = "f3" -> 3 [] t = "long" -> 9 [] t = "top" -> 127
                     [] OTHER -> 0]

MCLower ==
  [t \in Names |->
     CASE t \in {"Upgrade", "UPGRADE"} -> "upgrade"
       [] t = "Connection" -> "connection"
       [] t = "WebSocket" -> "websocket"
       [] t = "Server" -> "server"
       [] t = "Sec-WebSocket-Accept" -> "sec-websocket-accept"
       [] OTHER -> t]
=============================================================================
