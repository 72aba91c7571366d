------------------------------- MODULE Request -------------------------------
(***************************************************************************)
(* One connection to the front door, byte by byte: the SOCKS5 or HTTP      *)
(* CONNECT request it begins with (proxy/socks.go, server.go), the dial    *)
(* the routing table decides, the SOCKS5 client's part if that leads       *)
(* through an ssh -D, and the relay.  The lives of connections, deadlines  *)
(* and Shutdown are in FrontProxy; here a client may be lost at any time   *)
(* before it is answered, and a stream that ends early stands for a client *)
(* or server that closes it.                                               *)
(*                                                                         *)
(* A text is the sequence of its bytes.  net/http is given the head of an  *)
(* HTTP request as its method's first byte, the target's length, its bytes *)
(* and the port; an HTTP answer is its status.                             *)
(***************************************************************************)
EXTENDS Routing

CONSTANTS
  Clients,   \* [bytes, host, port, target, payload]: what a client sends, and what a
             \* well-formed CONNECT among it asks for; target encodes host and port
  Servers,   \* [bytes, code, payload]: how an ssh -D answers: code 0 if it connects,
             \* another if it refuses, NoCode if its answer breaks off
  Spelling   \* [4 or 16 bytes -> Texts]: netip.Addr.String

NoHost == <<256>>
NoCode == 256

maxPort == 65535

After(s, n) == SubSeq(s, n + 1, Len(s))

-----------------------------------------------------------------------------
(* The messages of RFC 1928 and the head of an HTTP CONNECT, each as a      *)
(* whole: what clients and servers mean by their bytes.                     *)

\* VER, the number of methods and the methods, one of them "no auth".
IsGreeting(s) ==
  Len(s) >= 2 /\ s[1] = 5 /\ Len(s) = 2 + s[2] /\ \E i \in 3..Len(s) : s[i] = 0

\* ATYP with an IPv4 address, a counted name or an IPv6 address.
IsAddr(s) ==
  \/ Len(s) = 5 /\ s[1] = 1
  \/ Len(s) >= 2 /\ s[1] = 3 /\ Len(s) = 2 + s[2]
  \/ Len(s) = 17 /\ s[1] = 4

\* VER, a command or the code of a reply, RSV, address and port.
IsMessage(s, code) == Len(s) >= 6 /\ s[2] = code /\ IsAddr(SubSeq(s, 4, Len(s) - 2))

IsConnect(s) == Len(s) >= 3 /\ s[1] = 67 /\ Len(s) = 3 + s[2] /\ s[Len(s)] \in 1..maxPort

\* Behind the first i of the bytes b there is a request, up to the j-th.
RequestAt(b, i, j) ==
  \/ IsGreeting(SubSeq(b, 1, i)) /\ IsMessage(SubSeq(b, i + 1, j), 1) /\ b[i + 1] = 5
  \/ i = 0 /\ IsConnect(SubSeq(b, 1, j))

\* The request s is for port p of host h.
Asks(s, h, p) ==
  IF s[1] = 67 THEN h = SubSeq(s, 3, Len(s) - 1) /\ p = s[Len(s)]
  ELSE /\ h = IF s[4] = 3 THEN SubSeq(s, 6, Len(s) - 2) ELSE Spelling[SubSeq(s, 5, Len(s) - 2)]
       /\ p = 256 * s[Len(s) - 1] + s[Len(s)]

\* The end t of a request asks for port p of host h, by its address if it is one.
Encodes(t, h, p) ==
  LET a == SubSeq(t, 1, Len(t) - 2) IN
  /\ IsAddr(a)
  /\ IF h \in DOMAIN Literal THEN a[1] # 3 /\ Tail(a) = Literal[h]
                             ELSE a[1] = 3 /\ SubSeq(a, 3, Len(a)) = h
  /\ t[Len(t) - 1] = p \div 256 /\ t[Len(t)] = p % 256

ASSUME RequestAssumption ==
  /\ <<>> \in Texts /\ Texts \subseteq Seq(0..255)
  /\ Addresses = DOMAIN Spelling /\ Addresses \subseteq Seq(0..255)
  /\ \A a \in Addresses : Len(a) \in {4, 16} /\ (Len(a) = 4 <=> a \in IPv4)
                          /\ Spelling[a] \in DOMAIN Literal /\ Literal[Spelling[a]] = a

\* A client without a host sends no request, but anything else.
ASSUME ClientsAssumption ==
  \A c \in Clients :
    /\ {c.bytes, c.payload, c.target} \subseteq Seq(Nat)
    /\ IF c.host = NoHost THEN \A i, j \in 0..Len(c.bytes) : ~RequestAt(c.bytes, i, j)
       ELSE /\ c.host \in Texts /\ c.port \in 0..maxPort
            /\ \E i, j \in 0..Len(c.bytes) :
                 /\ RequestAt(c.bytes, i, j) /\ Asks(SubSeq(c.bytes, i + 1, j), c.host, c.port)
                 /\ c.payload = After(c.bytes, j)
            /\ Encodes(c.target, c.host, c.port)

\* A server without a code sends no success, but anything else.
ASSUME ServersAssumption ==
  \A s \in Servers :
    /\ s.bytes \in Seq(0..255) /\ s.payload \in Seq(Nat)
    /\ IF s.code = NoCode
         THEN \A n \in 2..Len(s.bytes) :
                ~(SubSeq(s.bytes, 1, 2) = <<5, 0>> /\ IsMessage(SubSeq(s.bytes, 3, n), 0))
         ELSE /\ s.code \in 0..255 /\ SubSeq(s.bytes, 1, 2) = <<5, 0>>
              /\ \E n \in 2..Len(s.bytes) :
                   IsMessage(SubSeq(s.bytes, 3, n), s.code) /\ s.payload = After(s.bytes, n)

VARIABLES
  needed,    \* table.proxyNeeded
  client, server,
  peer,      \* "gone" if the client is lost
  in, out,   \* still to be read from the client, and written to it
  upIn, upOut,
  host, port,
  via,       \* Decision.Upstream, as its route
  pc

local == <<client, peer, host, port, via>>
vars  == <<needed, local, server, in, out, upIn, upOut, pc>>

socksVersion == 5
methodNoAuth == 0
cmdConnect   == 1
atypIPv4     == 1
atypDomain   == 3
atypIPv6     == 4

generalFailure == 1
hostUnreachable == 4
connectionRefused == 5
commandNotSupported == 7
addrNotSupported == 8

Names == {Routes[r].name : r \in 1..Len(Routes)}

TypeOK ==
  /\ needed \in UNION {[known -> BOOLEAN] : known \in SUBSET Names}
  /\ client \in Clients /\ server \in Servers
  /\ peer \in {"there", "gone"}
  /\ \A stream \in {in, out, upIn, upOut} : stream \in Seq(Nat)
  /\ host \in Texts
  /\ port \in 0..maxPort
  /\ via \in Tunnelled \cup {NoRoute}
  /\ pc \in {"first", "request", "dial", "dialling", "upGreeting", "upReply", "answer",
             "relay", "closed"}

Init ==
  /\ needed = [n \in {} |-> TRUE]
  /\ client \in Clients
  /\ server \in Servers
  /\ peer = "there"
  /\ in = client.bytes
  /\ out = <<>> /\ upIn = <<>> /\ upOut = <<>>
  /\ host = <<>> /\ port = 0 /\ via = NoRoute
  /\ pc = "first"

Update ==
  /\ \E f \in [Names -> BOOLEAN] : needed' = f
  /\ UNCHANGED <<local, server, in, out, upIn, upOut, pc>>

\* The handshake deadline has passed, the client has left, or Shutdown has
\* closed its connection.  The deadline is the earlier one: when the proxy's
\* own dial, or the ssh -D, has had dialTimeout, the client is lost as well.
Lose ==
  /\ peer = "there" /\ pc \notin {"relay", "closed"}
  /\ peer' = "gone"
  /\ UNCHANGED <<needed, client, host, port, via, server, in, out, upIn, upOut, pc>>

lost == peer = "gone"

-----------------------------------------------------------------------------
(* Reading and writing.                                                     *)

\* The bytes readAddr takes from the head of s, more than s has if it fails.
addrSize(s, atyp) ==
  CASE atyp = atypIPv4               -> 4
    [] atyp = atypIPv6               -> 16
    [] atyp = atypDomain /\ s # <<>> -> 1 + s[1]
    [] OTHER                         -> Len(s) + 1

addrText(s, atyp) ==
  IF atyp = atypDomain THEN SubSeq(s, 2, 1 + s[1]) ELSE Spelling[SubSeq(s, 1, addrSize(s, atyp))]

socksReply(code) == <<socksVersion, code, 0, atypIPv4, 0, 0, 0, 0, 0, 0>>

encodeAddr(text) ==
  IF text \in DOMAIN Literal
    THEN <<IF Literal[text] \in IPv4 THEN atypIPv4 ELSE atypIPv6>> \o Literal[text]
    ELSE <<atypDomain, Len(text)>> \o text

IsSocks == client.bytes # <<>> /\ client.bytes[1] = socksVersion

\* Nothing reaches a client that is lost.
write(bytes) == out' = IF lost THEN out ELSE out \o bytes

closeSilently == pc' = "closed" /\ UNCHANGED out

\* Mutant: without an answer.
refuseSilently(code) == closeSilently

\* The answer to a request that cannot be served.
refuse(code) == pc' = "closed" /\ write(IF IsSocks THEN socksReply(code) ELSE <<502>>)

-----------------------------------------------------------------------------
(* handle and readSocksRequest.                                             *)

\* Of a client that is lost no more is read than what the buffer has.
ReadFails ==
  /\ pc \in {"first", "request"} /\ lost
  /\ closeSilently
  /\ UNCHANGED <<needed, local, server, in, upIn, upOut>>

startsWith(bytes) == in # <<>> /\ in[1] \in bytes

\* Neither SOCKS5 nor HTTP.
Unrecognized ==
  /\ pc = "first"
  /\ ~startsWith({socksVersion} \cup 65..90)
  /\ closeSilently
  /\ UNCHANGED <<needed, local, server, in, upIn, upOut>>

\* VER, the number of methods, and the methods.
Greeting ==
  /\ pc = "first" /\ startsWith({socksVersion})
  /\ LET complete == Len(in) >= 2 /\ Len(in) >= 2 + in[2]
         noAuth   == \E i \in 3..2 + in[2] : in[i] = methodNoAuth
     IN  \/ ~complete /\ closeSilently /\ UNCHANGED in
         \/ /\ complete /\ noAuth
            /\ write(<<socksVersion, methodNoAuth>>)
            /\ in' = After(in, 2 + in[2])
            /\ pc' = IF lost THEN "closed" ELSE "request"
         \/ /\ complete /\ ~noAuth
            /\ write(<<socksVersion, 255>>)
            /\ pc' = "closed"
            /\ UNCHANGED in
  /\ UNCHANGED <<needed, local, server, upIn, upOut>>

\* VER CMD RSV ATYP, the address and the port.
hasHeader == Len(in) >= 4 /\ in[1] = socksVersion
hasAddr   == hasHeader /\ addrSize(After(in, 4), in[4]) <= Len(in) - 4
hasPort   == hasAddr /\ addrSize(After(in, 4), in[4]) + 2 <= Len(in) - 4

BadRequest ==
  /\ pc = "request"
  /\ \/ ~hasHeader /\ closeSilently
     \/ hasHeader /\ ~hasAddr /\ refuse(addrNotSupported)
     \/ hasAddr /\ ~hasPort /\ closeSilently
     \/ hasPort /\ in[2] # cmdConnect /\ refuse(commandNotSupported)
  /\ UNCHANGED <<needed, local, server, in, upIn, upOut>>

ReadRequest ==
  /\ pc = "request"
  /\ hasPort /\ in[2] = cmdConnect
  /\ LET rest == After(in, 4)
         tail == After(rest, addrSize(rest, in[4]))
     IN  /\ host' = addrText(rest, in[4])
         /\ port' = 256 * tail[1] + tail[2]
         /\ in' = After(tail, 2)
  /\ pc' = "dial"
  /\ UNCHANGED <<needed, client, peer, via, server, out, upIn, upOut>>

\* handleHTTP: ReadRequest, the method and the target's port.
hasHTTPHead == Len(in) >= 2 /\ Len(in) >= 3 + in[2]
hasHTTPPort == in[3 + in[2]] \in 1..maxPort

BadHTTPRequest ==
  /\ pc = "first" /\ startsWith(65..90)
  /\ \/ ~hasHTTPHead /\ closeSilently
     \/ hasHTTPHead /\ in[1] # 67 /\ write(<<405>>) /\ pc' = "closed"
     \/ hasHTTPHead /\ in[1] = 67 /\ ~hasHTTPPort /\ write(<<400>>) /\ pc' = "closed"
  /\ UNCHANGED <<needed, local, server, in, upIn, upOut>>

HTTPConnect ==
  /\ pc = "first" /\ startsWith({67})
  /\ hasHTTPHead /\ hasHTTPPort
  /\ host' = SubSeq(in, 3, 2 + in[2])
  /\ port' = in[3 + in[2]]
  /\ in' = After(in, 3 + in[2])
  /\ pc' = "dial"
  /\ UNCHANGED <<needed, client, peer, via, server, out, upIn, upOut>>

-----------------------------------------------------------------------------
(* dial and socksConnect.                                                   *)

TakeDecision ==
  /\ pc = "dial"
  /\ via' = Decide(needed, host)
  /\ pc' = "dialling"
  /\ UNCHANGED <<needed, client, peer, host, port, server, in, out, upIn, upOut>>

DialFails ==
  /\ pc = "dialling"
  /\ \E code \in {generalFailure, hostUnreachable, connectionRefused} :
       (via # NoRoute => code = generalFailure) /\ refuse(code)
  /\ UNCHANGED <<needed, local, server, in, upIn, upOut>>

DialDirect ==
  /\ pc = "dialling" /\ via = NoRoute
  /\ upIn' = server.payload
  /\ pc' = "answer"
  /\ UNCHANGED <<needed, local, server, in, out, upOut>>

DialTunnel ==
  /\ pc = "dialling" /\ via # NoRoute
  /\ upIn' = server.bytes
  /\ upOut' = <<socksVersion, 1, methodNoAuth>>
  /\ pc' = "upGreeting"
  /\ UNCHANGED <<needed, local, server, in, out>>

\* A stream that ends early.
upFails == refuse(generalFailure)

tooLong == host \notin DOMAIN Literal /\ Len(host) > 255

UpRefuses ==
  /\ \/ pc = "upGreeting" /\ Len(upIn) < 2 /\ upFails
     \/ /\ pc = "upGreeting" /\ Len(upIn) >= 2
        /\ SubSeq(upIn, 1, 2) # <<socksVersion, methodNoAuth>>
        /\ refuse(generalFailure)
     \/ /\ pc = "upGreeting" /\ Len(upIn) >= 2
        /\ SubSeq(upIn, 1, 2) = <<socksVersion, methodNoAuth>> /\ tooLong
        /\ refuse(addrNotSupported)
     \/ pc = "upReply" /\ Len(upIn) < 4 /\ upFails
     \/ pc = "upReply" /\ Len(upIn) >= 4 /\ upIn[2] # 0 /\ refuse(upIn[2])
     \/ /\ pc = "upReply" /\ Len(upIn) >= 4 /\ upIn[2] = 0
        /\ addrSize(After(upIn, 4), upIn[4]) + 2 > Len(upIn) - 4
        /\ upFails
     \/ pc \in {"upGreeting", "upReply"} /\ lost /\ upFails   \* it is late
  /\ UNCHANGED <<needed, local, server, in, upIn, upOut>>

UpGreeting ==
  /\ pc = "upGreeting" /\ Len(upIn) >= 2
  /\ SubSeq(upIn, 1, 2) = <<socksVersion, methodNoAuth>> /\ ~tooLong
  /\ upIn' = After(upIn, 2)
  /\ upOut' = upOut \o <<socksVersion, cmdConnect, 0>> \o encodeAddr(host)
                    \o <<port \div 256, port % 256>>
  /\ pc' = "upReply"
  /\ UNCHANGED <<needed, local, server, in, out>>

\* The bound address and port are read and thrown away.
UpReply ==
  /\ pc = "upReply" /\ Len(upIn) >= 4 /\ upIn[2] = 0
  /\ LET rest == After(upIn, 4)
         size == addrSize(rest, upIn[4])
     IN  size + 2 <= Len(rest) /\ upIn' = After(rest, size + 2)
  /\ pc' = "answer"
  /\ UNCHANGED <<needed, local, server, in, out, upOut>>

-----------------------------------------------------------------------------
(* The answer, and the relay; the client's bytes come from br, which may    *)
(* have read on beyond the request.                                         *)

\* handleSocks does not look whether its reply could be written.  A client
\* that Shutdown closed is not relayed: nor is its upstream tracked.
Answer ==
  /\ pc = "answer"
  /\ \/ pc' = "relay" /\ (lost => IsSocks)
     \/ pc' = "closed" /\ lost
  /\ write(IF IsSocks THEN socksReply(0) ELSE <<200>>)
  /\ UNCHANGED <<needed, local, server, in, upIn, upOut>>

\* Mutant: reads from the connection, not from br, and misses what br has.
RelayUpUnbuffered ==
  /\ pc = "relay" /\ in # <<>>
  /\ upOut' = upOut \o After(in, 1)
  /\ in' = <<>>
  /\ UNCHANGED <<needed, local, server, out, upIn, pc>>

RelayUp ==
  /\ pc = "relay" /\ in # <<>>
  /\ upOut' = Append(upOut, Head(in))
  /\ in' = Tail(in)
  /\ UNCHANGED <<needed, local, server, out, upIn, pc>>

RelayDown ==
  /\ pc = "relay" /\ upIn # <<>>
  /\ out' = Append(out, Head(upIn))
  /\ upIn' = Tail(upIn)
  /\ UNCHANGED <<needed, local, server, in, upOut, pc>>

Next ==
  \/ Update \/ Lose \/ ReadFails \/ Unrecognized \/ Greeting \/ BadRequest \/ ReadRequest
  \/ BadHTTPRequest \/ HTTPConnect \/ TakeDecision \/ DialFails \/ DialDirect
  \/ DialTunnel \/ UpRefuses \/ UpGreeting \/ UpReply
  \/ Answer \/ RelayUp \/ RelayDown

Spec == Init /\ [][Next]_vars
-----------------------------------------------------------------------------
(* Properties.                                                              *)

Hello == IF IsSocks THEN <<socksVersion, methodNoAuth>> ELSE <<>>

success == IF IsSocks THEN socksReply(0) ELSE <<200>>

\* Behind the handshakes nothing is lost, doubled or out of place: what the
\* client sent after its request is what the destination gets, and the other
\* way round; and an ssh -D is asked for the very host and port the client
\* named, however it spelled them.  A SOCKS client that was lost has no reply.
Transparent ==
  pc = "relay" =>
    /\ upOut \o in =
         (IF via = NoRoute THEN <<>>
          ELSE <<socksVersion, 1, methodNoAuth, socksVersion, cmdConnect, 0>> \o client.target)
         \o client.payload
    /\ out \o upIn = Hello \o (IF lost THEN <<>> ELSE success) \o server.payload
    /\ via = NoRoute => host = client.host /\ port = client.port

\* A client with a request gets one answer to it, wherever the dial, the ssh -D
\* or its streams fail: a success is followed by the relay, a failure by the
\* end; a SOCKS client is told the reason an ssh -D gave.  One that is lost gets
\* none, and no half of one; an HTTP client is then not relayed.
OneAnswer ==
  client.host # NoHost =>
    \/ pc \in {"first", "request", "dial", "dialling", "upGreeting", "upReply", "answer"}
       /\ out \in {<<>>, Hello}
    \/ pc = "relay" /\ (lost => IsSocks)
    \/ pc = "closed" /\ lost /\ out \in {<<>>, Hello}
    \/ /\ pc = "closed" /\ ~lost
       /\ \E code \in 1..255 : out = Hello \o (IF IsSocks THEN socksReply(code) ELSE <<502>>)
       /\ Len(upOut) > 3 => server.code # 0
       /\ Len(upOut) > 3 /\ IsSocks /\ server.code # NoCode =>
            out = Hello \o socksReply(server.code)

\* The table, the PAC file and check-ssh, given the same decisions, send a host
\* the same way, if it is one they see alike; while a decision is still missing
\* table and check-ssh take the tunnel, and the PAC file must not name another.
SameWay ==
  \A h \in Texts :
    /\ LET r == match(h) IN
       r # NoRoute => (Decide(needed, h) = r <=> CheckSSH(needed, Routes[r].name))
    /\ Plain(h) =>
         \/ FindProxyForURL(needed, h) = Decide(needed, h)
         \/ FindProxyForURL(needed, h) = NoRoute /\ DOMAIN needed # Names
=============================================================================
