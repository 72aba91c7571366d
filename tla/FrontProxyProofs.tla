-------------------------- MODULE FrontProxyProofs --------------------------
(***************************************************************************)
(* Proofs about FrontProxy, for any number of clients.                     *)
(*                                                                         *)
(* The three safety invariants rest on how a handler's place, its sockets, *)
(* s.conns, s.wg and the accept loop hang together: a connection is in     *)
(* s.conns exactly while its handler may use it, so whatever Shutdown does *)
(* not find there finds s.closed set when it comes to track.               *)
(***************************************************************************)
EXTENDS FrontProxy, TLAPS

\* Where the client, and the upstream, connection is tracked.
Handling   == {"request", "dial", "socks", "refuse", "trackUp", "reply", "relay",
               "closeUp", "close"}
Relaying   == {"reply", "relay", "closeUp"}
\* Where the handler has an upstream connection it has not closed.
Upstreamed == {"socks", "trackUp"} \cup Relaying

TrackInv ==
  \A c \in Clients :
    /\ clientConn(c) \in conns <=> pc[c] \in Handling
    /\ upstreamConn(c) \in conns <=> pc[c] \in Relaying
    /\ up[c] = "open" => pc[c] \in Upstreamed
    /\ c \in open => pc[c] \in Handling \cup {"queued", "track"}

\* s.closed and the listener change together; nothing tracked stays open.
ClosedInv ==
  /\ closed <=> ~listening
  /\ shutdown # "no" => closed
  /\ closed => \A c \in Clients :
       /\ pc[c] # "queued"
       /\ pc[c] \in Handling => c \notin open
       /\ pc[c] \in Relaying => up[c] = "closed"

\* Whom s.wg counts; the accept loop holds one connection at most.
WaitInv ==
  /\ "serve" \in wg <=> accepting # "returned"
  /\ \A c \in Clients :
       /\ c \in wg <=> pc[c] \in Handling
       /\ pc[c] = "track" => accepting = "track"
       /\ \A d \in Clients : pc[c] = "track" /\ pc[d] = "track" => c = d

\* The part of TypeOK the rest depends on.
ShapeInv ==
  /\ pc \in [Clients -> Labels]
  /\ up \in [Clients -> {"none", "open", "closed"}]
  /\ open \subseteq Clients
  /\ conns \subseteq {"client", "upstream"} \X Clients
  /\ wg \subseteq Clients \cup {"serve"}
  /\ accepting \in {"accept", "track", "returned"}
  /\ shutdown \in {"no", "waiting", "ok", "expired"}

IInv == ShapeInv /\ TrackInv /\ ClosedInv /\ WaitInv /\ ShutdownWaits

-----------------------------------------------------------------------------
LEMMA InitIInv == Init => IInv
  BY FrontProxyAssumption
     DEF Init, IInv, ShapeInv, TrackInv, ClosedInv, WaitInv, ShutdownWaits, Labels,
         Handling, Relaying, Upstreamed, clientConn, upstreamConn

\* One handler moves on from one tracked place to another, keeping its
\* sockets and its entries in s.conns.
LEMMA HandlerMoves ==
  ASSUME IInv, NEW c \in Clients, NEW label \in Handling,
         pc[c] \in Handling, Goto(c, label),
         label \in Relaying <=> pc[c] \in Relaying,
         up' \in [Clients -> {"none", "open", "closed"}],
         \A d \in Clients : d # c => up'[d] = up[d],
         up'[c] = "open" => label \in Upstreamed,
         label \in Relaying => up'[c] = up[c],
         UNCHANGED <<loopVars, open>>
  PROVE  IInv'
<1>1. pc' \in [Clients -> Labels] /\ \A d \in Clients : pc'[d] = IF d = c THEN label ELSE pc[d]
  BY DEF Goto, IInv, ShapeInv, Handling, Labels
<1>2. ShapeInv'
  BY <1>1 DEF IInv, ShapeInv, loopVars
<1>3. TrackInv'
  BY <1>1 DEF IInv, TrackInv, loopVars
<1>4. ClosedInv'
  BY <1>1 DEF IInv, ClosedInv, loopVars, Handling
<1>5. WaitInv'
  BY <1>1 DEF IInv, WaitInv, loopVars, Handling
<1>6. ShutdownWaits'
  BY <1>1 DEF IInv, ShutdownWaits, loopVars, Handling
<1> QED BY <1>2, <1>3, <1>4, <1>5, <1>6 DEF IInv

LEMMA ServeStep == ASSUME IInv, Serve PROVE IInv'
<1> USE FrontProxyAssumption
    DEF IInv, ShapeInv, Labels, Handling, Relaying, Upstreamed, clientConn, upstreamConn,
        connVars, peerVars
<1>1. CASE ServeReturns
  <2>1. TrackInv' BY <1>1 DEF ServeReturns, TrackInv
  <2>2. ClosedInv' /\ ShutdownWaits' BY <1>1 DEF ServeReturns, ClosedInv, ShutdownWaits
  <2>3. WaitInv' BY <1>1 DEF ServeReturns, WaitInv
  <2> QED BY <1>1, <2>1, <2>2, <2>3 DEF ServeReturns
<1>2. ASSUME NEW c \in Clients, Accept(c) PROVE IInv'
  <2>1. pc' = [pc EXCEPT ![c] = "track"] BY <1>2 DEF Accept, Goto
  <2>2. TrackInv' BY <1>2, <2>1 DEF Accept, TrackInv
  <2>3. ClosedInv' /\ ShutdownWaits' BY <1>2, <2>1 DEF Accept, ClosedInv, ShutdownWaits
  <2>4. WaitInv' BY <1>2, <2>1 DEF Accept, WaitInv
  <2> QED BY <1>2, <2>1, <2>2, <2>3, <2>4 DEF Accept
<1>3. ASSUME NEW c \in Clients, TrackClient(c) PROVE IInv'
  <2>1. CASE closed
    <3>1. pc' = [pc EXCEPT ![c] = "done"] /\ UNCHANGED <<conns, up>>
      BY <1>3, <2>1 DEF TrackClient, Goto
    <3>2. TrackInv' BY <1>3, <2>1, <3>1 DEF TrackClient, TrackInv
    <3>3. ClosedInv' /\ ShutdownWaits'
      BY <1>3, <2>1, <3>1 DEF TrackClient, ClosedInv, ShutdownWaits
    <3>4. WaitInv' BY <1>3, <2>1, <3>1 DEF TrackClient, WaitInv
    <3> QED BY <1>3, <2>1, <3>1, <3>2, <3>3, <3>4 DEF TrackClient
  <2>2. CASE ~closed
    <3>1. pc' = [pc EXCEPT ![c] = "request"] /\ conns' = conns \cup {clientConn(c)}
      BY <1>3, <2>2 DEF TrackClient, Goto
    <3>2. TrackInv' BY <1>3, <2>2, <3>1 DEF TrackClient, TrackInv
    <3>3. ClosedInv' /\ ShutdownWaits'
      BY <1>3, <2>2, <3>1 DEF TrackClient, ClosedInv, ShutdownWaits
    <3>4. WaitInv' BY <1>3, <2>2, <3>1 DEF TrackClient, WaitInv
    <3> QED BY <1>3, <2>2, <3>1, <3>2, <3>3, <3>4 DEF TrackClient
  <2> QED BY <2>1, <2>2
<1> QED BY <1>1, <1>2, <1>3 DEF Serve

LEMMA HandlerStep == ASSUME IInv, NEW c \in Clients, Handler(c) PROVE IInv'
<1> USE FrontProxyAssumption DEF connVars, peerVars
<1>a. /\ up \in [Clients -> {"none", "open", "closed"}]
      /\ up[c] = "open" => pc[c] \in Upstreamed
  BY DEF IInv, ShapeInv, TrackInv
<1>1. CASE ReadRequest(c) \/ ReadFails(c)
  BY <1>a, <1>1, HandlerMoves DEF ReadRequest, ReadFails, Handling, Relaying, Upstreamed
<1>2. CASE DialDirect(c) \/ DialTunnel(c) \/ DialFails(c)
  BY <1>a, <1>2, HandlerMoves
     DEF DialDirect, DialTunnel, DialFails, Handling, Relaying, Upstreamed
<1>3. CASE SocksConnect(c)
  BY <1>a, <1>3, HandlerMoves DEF SocksConnect, Handling, Relaying, Upstreamed
<1>4. CASE Refuse(c)
  BY <1>a, <1>4, HandlerMoves DEF Refuse, Handling, Relaying, Upstreamed
<1>5. CASE Reply(c) \/ RelayEnds(c)
  BY <1>a, <1>5, HandlerMoves DEF Reply, RelayEnds, Handling, Relaying, Upstreamed
<1>6. CASE TrackUpstream(c)
  <2>1. CASE closed
    BY <1>a, <1>6, <2>1, HandlerMoves
       DEF TrackUpstream, loopVars, Handling, Relaying, Upstreamed
  <2>2. CASE ~closed
    <3> USE DEF IInv, ShapeInv, Labels, Handling, Relaying, Upstreamed, clientConn,
                upstreamConn
    <3>1. /\ pc' = [pc EXCEPT ![c] = "reply"] /\ conns' = conns \cup {upstreamConn(c)}
          /\ UNCHANGED <<up, open, wg, accepting, listening, closed, shutdown>>
      BY <1>6, <2>2 DEF TrackUpstream, Goto
    <3>2. pc[c] = "trackUp" BY <1>6 DEF TrackUpstream
    <3>3. TrackInv' BY <3>1, <3>2 DEF TrackInv
    <3>4. ClosedInv' /\ ShutdownWaits' BY <2>2, <3>1, <3>2 DEF ClosedInv, ShutdownWaits
    <3>5. WaitInv' BY <3>1, <3>2 DEF WaitInv
    <3> QED BY <3>1, <3>3, <3>4, <3>5
  <2> QED BY <2>1, <2>2
<1>7. CASE UntrackUpstream(c)
  <2> USE DEF IInv, ShapeInv, Labels, Handling, Relaying, Upstreamed, clientConn,
              upstreamConn
  <2>1. /\ pc' = [pc EXCEPT ![c] = "close"] /\ conns' = conns \ {upstreamConn(c)}
        /\ up' = [up EXCEPT ![c] = "closed"]
        /\ UNCHANGED <<open, wg, accepting, listening, closed, shutdown>>
    BY <1>7 DEF UntrackUpstream, Goto
  <2>2. pc[c] = "closeUp" BY <1>7 DEF UntrackUpstream
  <2>3. TrackInv' BY <2>1, <2>2 DEF TrackInv
  <2>4. ClosedInv' /\ ShutdownWaits' BY <2>1, <2>2 DEF ClosedInv, ShutdownWaits
  <2>5. WaitInv' BY <2>1, <2>2 DEF WaitInv
  <2> QED BY <2>1, <2>3, <2>4, <2>5
<1>8. CASE UntrackClient(c)
  <2> USE DEF IInv, ShapeInv, Labels, Handling, Relaying, Upstreamed, clientConn,
              upstreamConn
  <2>1. /\ pc' = [pc EXCEPT ![c] = "done"] /\ conns' = conns \ {clientConn(c)}
        /\ open' = open \ {c} /\ wg' = wg \ {c}
        /\ UNCHANGED <<up, accepting, listening, closed, shutdown>>
    BY <1>8 DEF UntrackClient, Goto
  <2>2. pc[c] = "close" BY <1>8 DEF UntrackClient
  <2>3. TrackInv' BY <2>1, <2>2 DEF TrackInv
  <2>4. ClosedInv' /\ ShutdownWaits' BY <2>1, <2>2 DEF ClosedInv, ShutdownWaits
  <2>5. WaitInv' BY <2>1, <2>2 DEF WaitInv
  <2> QED BY <2>1, <2>3, <2>4, <2>5
<1> QED BY <1>1, <1>2, <1>3, <1>4, <1>5, <1>6, <1>7, <1>8 DEF Handler

LEMMA ShutdownStep == ASSUME IInv, ShutdownCloses \/ ShutdownReturns PROVE IInv'
<1> USE FrontProxyAssumption
    DEF IInv, ShapeInv, Labels, Handling, Relaying, Upstreamed, connVars, peerVars
<1>1. CASE ShutdownCloses
  <2>1. /\ UNCHANGED <<accepting, conns, wg>>
        /\ closed' = TRUE /\ listening' = FALSE /\ shutdown' = "waiting"
        /\ \A c \in Clients :
             /\ pc'[c] = IF pc[c] = "queued" THEN "refused" ELSE pc[c]
             /\ up'[c] = IF upstreamConn(c) \in conns THEN "closed" ELSE up[c]
             /\ c \in open' <=> c \in open /\ clientConn(c) \notin conns /\ pc[c] # "queued"
    BY <1>1 DEF ShutdownCloses
  <2>2. ShapeInv' BY <1>1 DEF ShutdownCloses
  <2>3. TrackInv' BY <2>1 DEF TrackInv
  <2>4. ClosedInv' BY <2>1 DEF TrackInv, ClosedInv
  <2>5. WaitInv' /\ ShutdownWaits' BY <2>1 DEF WaitInv, ShutdownWaits
  <2> QED BY <2>2, <2>3, <2>4, <2>5
<1>2. CASE ShutdownReturns
  <2>1. UNCHANGED <<accepting, listening, closed, conns, wg, pc, up, open>>
    BY <1>2 DEF ShutdownReturns
  <2>2. ShapeInv' /\ TrackInv' /\ WaitInv'
    BY <1>2, <2>1 DEF ShutdownReturns, TrackInv, WaitInv
  <2>3. ClosedInv' BY <1>2, <2>1 DEF ShutdownReturns, ClosedInv
  <2>4. ShutdownWaits' BY <1>2, <2>1 DEF ShutdownReturns, ShutdownWaits, WaitInv, ClosedInv
  <2> QED BY <2>2, <2>3, <2>4
<1> QED BY <1>1, <1>2

LEMMA PeerStep ==
  ASSUME IInv, NEW c \in Clients,
         \/ Peer(c) \/ Expire(c)
         \/ \E direction \in {"up", "down"} : CopierEnds(c, direction) \/ CopierFails(c, direction)
  PROVE  IInv'
<1> USE DEF IInv, ShapeInv, Labels, Handling, Relaying, Upstreamed, connVars, peerVars, loopVars
<1>1. CASE Connect(c)
  <2>1. /\ pc' = [pc EXCEPT ![c] = "queued"] /\ open' = open \cup {c} /\ pc[c] = "new"
        /\ listening
        /\ UNCHANGED <<up, conns, wg, accepting, listening, closed, shutdown>>
    BY <1>1 DEF Connect, Goto
  <2>2. TrackInv' BY <2>1 DEF TrackInv
  <2>3. ClosedInv' /\ ShutdownWaits' BY <2>1 DEF ClosedInv, ShutdownWaits
  <2>4. WaitInv' BY <2>1 DEF WaitInv
  <2> QED BY <2>1, <2>2, <2>3, <2>4
<1>2. CASE ~Connect(c)
  <2>1. UNCHANGED <<pc, up, open, loopVars>>
    BY <1>2 DEF Peer, Send, Leave, UpstreamEnds, Expire, CopierEnds, CopierFails
  <2> QED BY <2>1 DEF TrackInv, ClosedInv, WaitInv, ShutdownWaits
<1> QED BY <1>1, <1>2

LEMMA Inductive == Spec => []IInv
<1>1. ASSUME IInv, [Next]_vars PROVE IInv'
  <2>1. CASE Next
    BY <1>1, <2>1, ServeStep, HandlerStep, ShutdownStep, PeerStep DEF Next
  <2>2. CASE UNCHANGED vars
    BY <1>1, <2>2 DEF vars, loopVars, connVars, IInv, ShapeInv, TrackInv, ClosedInv, WaitInv,
                      ShutdownWaits
  <2> QED BY <1>1, <2>1, <2>2
<1> QED BY <1>1, InitIInv, PTL DEF Spec

-----------------------------------------------------------------------------
(* The rest of TypeOK: flags, what peers did, the copiers.                  *)

Flags == {listening, closed} \subseteq BOOLEAN

Peers == {expired, sent, gone, upEOF, answered} \subseteq SUBSET Clients

CopyInv ==
  /\ copying \in [Clients -> SUBSET {"up", "down"}]
  /\ \A c \in Clients : copying[c] # {} => pc[c] = "relay"

LEMMA TypeParts == TypeOK <=> Flags /\ Peers /\ CopyInv /\ ShapeInv
<1>1. TypeOK => Flags /\ Peers /\ CopyInv /\ ShapeInv
  BY Zenon DEF TypeOK, Flags, Peers, CopyInv, ShapeInv
<1>2. Flags /\ Peers /\ CopyInv /\ ShapeInv => TypeOK
  BY Zenon DEF TypeOK, Flags, Peers, CopyInv, ShapeInv
<1> QED BY <1>1, <1>2

LEMMA FlagsStep == ASSUME Flags, Next PROVE Flags'
<1>1. CASE ShutdownCloses
  BY <1>1, Zenon DEF Flags, ShutdownCloses
<1>2. CASE ~ShutdownCloses
  <2>1. UNCHANGED <<listening, closed>>
    BY <1>2 DEF Next, Peer, Connect, Send, Leave, UpstreamEnds, Expire, Handler, ReadRequest,
                ReadFails, DialDirect, DialTunnel, DialFails, SocksConnect, Refuse,
                TrackUpstream, Reply, RelayEnds, UntrackUpstream, UntrackClient, CopierEnds,
                CopierFails, Serve, ServeReturns, Accept, TrackClient, ShutdownReturns,
                loopVars
  <2> QED BY <2>1 DEF Flags
<1> QED BY <1>1, <1>2

LEMMA PeersStep == ASSUME Peers, Next PROVE Peers'
<1> USE DEF Peers, loopVars, connVars, peerVars
<1>1. ASSUME NEW c \in Clients, Peer(c) \/ Expire(c) PROVE Peers'
  BY <1>1 DEF Peer, Connect, Send, Leave, UpstreamEnds, Expire
<1>2. ASSUME NEW c \in Clients, ReadRequest(c) \/ Refuse(c) \/ Reply(c) PROVE Peers'
  BY <1>2 DEF ReadRequest, Refuse, Reply
<1>3. ASSUME NEW c \in Clients, Handler(c), ~(ReadRequest(c) \/ Refuse(c) \/ Reply(c))
      PROVE  Peers'
  BY <1>3 DEF Handler, ReadFails, DialDirect, DialTunnel, DialFails, SocksConnect,
              TrackUpstream, RelayEnds, UntrackUpstream, UntrackClient
<1>4. ASSUME NEW c \in Clients, NEW d \in {"up", "down"}, CopierEnds(c, d) \/ CopierFails(c, d)
      PROVE  Peers'
  BY <1>4 DEF CopierEnds, CopierFails
<1>5. CASE Serve \/ ShutdownCloses \/ ShutdownReturns
  BY <1>5 DEF Serve, ServeReturns, Accept, TrackClient, ShutdownCloses, ShutdownReturns
<1> QED BY <1>1, <1>2, <1>3, <1>4, <1>5 DEF Next

LEMMA CopyStep == ASSUME IInv, CopyInv, Next PROVE CopyInv'
<1> USE DEF CopyInv, loopVars, connVars, peerVars
<1>a. pc \in [Clients -> Labels] BY DEF IInv, ShapeInv
<1>1. ASSUME NEW c \in Clients, Peer(c) \/ Expire(c) PROVE CopyInv'
  BY <1>a, <1>1 DEF Peer, Connect, Send, Leave, UpstreamEnds, Expire, Goto
<1>2. ASSUME NEW c \in Clients, Reply(c) PROVE CopyInv'
  BY <1>a, <1>2 DEF Reply, Goto
<1>3. ASSUME NEW c \in Clients, Handler(c), ~Reply(c) PROVE CopyInv'
  <2>1. copying' = copying /\ copying[c] = {}
    BY <1>3 DEF Handler, ReadRequest, ReadFails, DialDirect, DialTunnel, DialFails,
                SocksConnect, Refuse, TrackUpstream, RelayEnds, UntrackUpstream, UntrackClient
  <2>2. \E label : pc' = [pc EXCEPT ![c] = label]
    BY <1>3 DEF Handler, ReadRequest, ReadFails, DialDirect, DialTunnel, DialFails,
                SocksConnect, Refuse, TrackUpstream, RelayEnds, UntrackUpstream, UntrackClient,
                Goto
  <2> QED BY <1>a, <2>1, <2>2
<1>4. ASSUME NEW c \in Clients, NEW d \in {"up", "down"}, CopierEnds(c, d) \/ CopierFails(c, d)
      PROVE  CopyInv'
  BY <1>a, <1>4 DEF CopierEnds, CopierFails
<1>5. CASE Serve
  BY <1>a, <1>5 DEF Serve, ServeReturns, Accept, TrackClient, Goto
<1>6. CASE ShutdownCloses \/ ShutdownReturns
  BY <1>a, <1>6 DEF ShutdownCloses, ShutdownReturns
<1> QED BY <1>1, <1>2, <1>3, <1>4, <1>5, <1>6 DEF Next

-----------------------------------------------------------------------------
\* Every variable keeps its type, and a copier runs only inside relay
\* (server.go:269-287).
THEOREM TypeCorrect == Spec => []TypeOK
<1>1. Init => TypeOK
  BY DEF Init, TypeOK, Labels
<1>2. TypeOK /\ IInv /\ IInv' /\ [Next]_vars => TypeOK'
  <2> SUFFICES ASSUME TypeOK, IInv, IInv', [Next]_vars PROVE TypeOK' OBVIOUS
  <2>1. CASE Next
    <3>1. Flags' /\ Peers' /\ CopyInv'
      BY <2>1, TypeParts, FlagsStep, PeersStep, CopyStep
    <3> QED BY <3>1, TypeParts, PTL DEF IInv
  <2>2. CASE UNCHANGED vars
    BY <2>2 DEF vars, loopVars, connVars, peerVars, TypeOK
  <2> QED BY <2>1, <2>2
<1> QED BY <1>1, <1>2, Inductive, PTL DEF Spec

\* Whatever Shutdown met in whatever phase, nothing is relayed over an open
\* socket afterwards (server.go:75-88, 127-136, 175-179).
THEOREM NoLateRelay == Spec => []NoRelayAfterShutdown
<1>1. IInv => NoRelayAfterShutdown
  BY DEF IInv, ClosedInv, NoRelayAfterShutdown, Handling, Relaying
<1> QED BY <1>1, Inductive, PTL

\* When Shutdown returns nil the accept loop and every handler have ended
\* (server.go:90-101, 115-124).
THEOREM Waits == Spec => []ShutdownWaits
<1>1. IInv => ShutdownWaits BY DEF IInv
<1> QED BY <1>1, Inductive, PTL

\* No exit of a handler leaves a socket open or in s.conns (server.go:138-143,
\* 167-222).
THEOREM LeakFree == Spec => []NoLeak
<1>1. IInv => NoLeak
  BY DEF IInv, TrackInv, NoLeak, Handling, Relaying, Upstreamed
<1> QED BY <1>1, Inductive, PTL
=============================================================================
