-------------------------------- MODULE Url --------------------------------
(***************************************************************************)
(* parseUrl and ClientConnectOptions::fromUrl.  A text is a sequence of    *)
(* tokens: the two schemes, "/", ":", and the pieces between them.  What   *)
(* qsox and the standard library make of a text is given by functions.     *)
(***************************************************************************)
EXTENDS SequencesExt

CONSTANTS
  SocketAddresses,  \* what SocketAddress::parse accepts |-> its ip and port
  IpAddresses,      \* what IpAddress::parse accepts |-> the ip
  LeadingNumber,    \* a token that begins with digits |-> what from_chars reads
  HostAddresses     \* the names the resolver knows |-> their ip

NoIp == "no ip"

\* The place of the first t in s, or 0.
Find(t, s) == SelectInSeq(s, LAMBDA token : token = t)

Before(t, s) == IF Find(t, s) = 0 THEN s ELSE SubSeq(s, 1, Find(t, s) - 1)

After(t, s) == SubSeq(s, Find(t, s) + 1, Len(s))

-----------------------------------------------------------------------------
BadUrl == [ok |-> FALSE]

\* (mutant) An encrypted connection to the port of a plain one.
DefaultPort_Swapped(tls) == IF tls THEN 80 ELSE 443

DefaultPort(tls) == IF tls THEN 443 ELSE 80

\* from_chars into a uint16_t: it fails without a digit or out of range, and
\* nobody looks at what follows the number.
IsPort(s) ==
  /\ s # << >>
  /\ s[1] \in DOMAIN LeadingNumber
  /\ LeadingNumber[s[1]] < 2^16

\* The authority is an address with a port, an address, or a name that an
\* optional port follows, tried in this order.
ParseUrl(url) ==
  LET tls       == url[1] = "wss://"
      rest      == Tail(url)
      authority == Before("/", rest)
      path      == SubSeq(rest, Len(authority) + 1, Len(rest))
      portText  == After(":", authority)
      hasPort   == Find(":", authority) # 0
      given     == IF hasPort THEN LeadingNumber[portText[1]] ELSE 0
      isLiteral == authority \in DOMAIN SocketAddresses \cup DOMAIN IpAddresses
      Parts(ip, hostname, port) ==
        [ok |-> TRUE, tls |-> tls, ip |-> ip, hostname |-> hostname,
         path |-> path, port |-> port]
  IN  IF \/ url[1] \notin {"ws://", "wss://"}
         \/ authority = << >>
         \/ ~ isLiteral /\ hasPort /\ ~ IsPort(portText)
      THEN BadUrl
      ELSE IF authority \in DOMAIN SocketAddresses
      THEN Parts(SocketAddresses[authority].ip, << >>, SocketAddresses[authority].port)
      ELSE IF authority \in DOMAIN IpAddresses
      THEN Parts(IpAddresses[authority], << >>, DefaultPort(tls))
      ELSE Parts(NoIp, Before(":", authority),
                 IF given = 0 THEN DefaultPort(tls) ELSE given)

-----------------------------------------------------------------------------
\* fromUrl: an address is taken from the URL or asked of the resolver.
NamesHost(parts) ==
  parts.ok /\ (parts.ip # NoIp \/ parts.hostname # << >>)

Resolvable(parts) ==
  NamesHost(parts) /\ (parts.ip # NoIp \/ parts.hostname \in DOMAIN HostAddresses)

OptionsFrom(parts) ==
  [tls      |-> parts.tls,
   ip       |-> IF parts.ip # NoIp THEN parts.ip ELSE HostAddresses[parts.hostname],
   port     |-> parts.port,
   hostname |-> parts.hostname,
   path     |-> parts.path,
   headers  |-> << >>]
=============================================================================
