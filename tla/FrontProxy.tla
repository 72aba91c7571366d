----------------------------- MODULE FrontProxy -----------------------------
(***************************************************************************)
(* The front-door proxy listener, internal/proxy/server.go: its accept     *)
(* loop, one handler goroutine per client connection with its upstream     *)
(* connection, the handshake deadline, and Shutdown.                       *)
(*                                                                         *)
(* Which upstream is dialled is decided by the routing table (Routing); a  *)
(* dial here ends well or not.  The bytes relayed are left out: what       *)
(* matters of a direction is whether its copier still runs.                *)
(***************************************************************************)
CONSTANTS
  Clients,      \* client connections
  SocksClients  \* those that speak SOCKS5, the others speak HTTP

ASSUME FrontProxyAssumption ==
  /\ SocksClients \subseteq Clients
  /\ "serve" \notin Clients

VARIABLES
  accepting,  \* the accept loop: "accept", the client it has accepted, or "returned"
  listening,  \* is the listener open?
  closed,     \* s.closed
  conns,      \* s.conns
  wg,         \* whom s.wg counts
  shutdown,   \* "no", "waiting", or what Shutdown returned: "ok", "expired"
  pc,         \* where each connection, then its handler, is
  open,       \* client connections not closed by the proxy
  up,         \* upstream connection of each client: "none", "open" or "closed"
  expired,    \* clients whose handshake deadline has passed
  sent,       \* clients whose request has arrived
  gone,       \* clients that have closed or reset their end
  upEOF,      \* upstreams that have closed theirs
  copying,    \* the directions of each relay that still run
  answered    \* clients that received an answer to their request

loopVars == <<accepting, listening, closed, conns, wg, shutdown>>
connVars == <<pc, open, up, expired>>
peerVars == <<sent, gone, upEOF>>
vars     == <<loopVars, connVars, peerVars, copying, answered>>

clientConn(c)   == <<"client", c>>
upstreamConn(c) == <<"upstream", c>>

Labels == {"new", "queued", "refused", "track", "request", "dial", "socks", "refuse",
           "trackUp", "reply", "relay", "closeUp", "close", "done"}

TypeOK ==
  /\ accepting \in {"accept", "track", "returned"}
  /\ {listening, closed} \subseteq BOOLEAN
  /\ conns \subseteq {"client", "upstream"} \X Clients
  /\ wg \subseteq Clients \cup {"serve"}
  /\ shutdown \in {"no", "waiting", "ok", "expired"}
  /\ pc \in [Clients -> Labels]
  /\ open \subseteq Clients
  /\ up \in [Clients -> {"none", "open", "closed"}]
  /\ {expired, sent, gone, upEOF, answered} \subseteq SUBSET Clients
  /\ copying \in [Clients -> SUBSET {"up", "down"}]
  /\ \A c \in Clients : copying[c] # {} => pc[c] = "relay"

Init ==
  /\ accepting = "accept"
  /\ listening = TRUE
  /\ closed = FALSE
  /\ conns = {}
  /\ wg = {"serve"}
  /\ shutdown = "no"
  /\ pc = [c \in Clients |-> "new"]
  /\ open = {}
  /\ up = [c \in Clients |-> "none"]
  /\ expired = {} /\ sent = {} /\ gone = {} /\ upEOF = {} /\ answered = {}
  /\ copying = [c \in Clients |-> {}]

Goto(c, label) == pc' = [pc EXCEPT ![c] = label]

-----------------------------------------------------------------------------
(* The peers, and the time.                                                 *)

\* The kernel queues connections while the listener is open.
Connect(c) ==
  /\ pc[c] = "new" /\ listening
  /\ Goto(c, "queued")
  /\ open' = open \cup {c}
  /\ UNCHANGED <<loopVars, up, expired, peerVars, copying, answered>>

Send(c) ==
  /\ pc[c] \notin {"new", "refused", "done"} /\ c \notin sent \cup gone
  /\ sent' = sent \cup {c}
  /\ UNCHANGED <<loopVars, connVars, gone, upEOF, copying, answered>>

Leave(c) ==
  /\ pc[c] \notin {"new", "refused", "done"} /\ c \notin gone
  /\ gone' = gone \cup {c}
  /\ UNCHANGED <<loopVars, connVars, sent, upEOF, copying, answered>>

UpstreamEnds(c) ==
  /\ up[c] = "open" /\ c \notin upEOF
  /\ upEOF' = upEOF \cup {c}
  /\ UNCHANGED <<loopVars, connVars, sent, gone, copying, answered>>

\* handshakeTimeout, set by handle and lifted only before the relay.
Expire(c) ==
  /\ pc[c] \in {"request", "dial", "socks", "refuse", "trackUp", "reply"}
  /\ c \notin expired
  /\ expired' = expired \cup {c}
  /\ UNCHANGED <<loopVars, pc, open, up, peerVars, copying, answered>>

-----------------------------------------------------------------------------
(* The accept loop.                                                         *)

\* An Accept error other than ErrClosed is logged and tried again: a stutter.
Accept(c) ==
  /\ accepting = "accept" /\ listening
  /\ pc[c] = "queued"
  /\ accepting' = "track"
  /\ Goto(c, "track")
  /\ UNCHANGED <<listening, closed, conns, wg, shutdown, open, up, expired, peerVars, copying,
                 answered>>

\* Mutant: the handler is not counted.
TrackClientNoWg(c) ==
  /\ pc[c] = "track" /\ ~closed
  /\ accepting' = "accept"
  /\ Goto(c, "request")
  /\ conns' = conns \cup {clientConn(c)}
  /\ UNCHANGED <<listening, closed, shutdown, wg, open, up, expired, peerVars, copying, answered>>

TrackClient(c) ==
  /\ pc[c] = "track"
  /\ IF closed
       THEN /\ accepting' = "returned"
            /\ wg' = wg \ {"serve"}
            /\ Goto(c, "done")
            /\ open' = open \ {c}
            /\ UNCHANGED conns
       ELSE /\ accepting' = "accept"
            /\ wg' = wg \cup {c}
            /\ Goto(c, "request")
            /\ conns' = conns \cup {clientConn(c)}
            /\ UNCHANGED open
  /\ UNCHANGED <<listening, closed, shutdown, up, expired, peerVars, copying, answered>>

\* Accept reports net.ErrClosed.
ServeReturns ==
  /\ accepting = "accept" /\ ~listening
  /\ accepting' = "returned"
  /\ wg' = wg \ {"serve"}
  /\ UNCHANGED <<listening, closed, conns, shutdown, connVars, peerVars, copying, answered>>

-----------------------------------------------------------------------------
(* A handler: handle, handleSocks and handleHTTP, dial.                     *)

Reachable(c) == c \in open /\ c \notin expired /\ c \notin gone

\* A whole request: valid, or refused with a status or without a word.
ReadRequest(c) ==
  /\ pc[c] = "request"
  /\ c \in sent \cap open /\ c \notin expired
  /\ \/ Goto(c, "dial") /\ UNCHANGED answered
     \/ Goto(c, "close") /\ answered' = answered \cup ({c} \ gone)
  /\ UNCHANGED <<loopVars, open, up, expired, peerVars, copying>>

\* Mutant: no deadline on the request.
ReadFailsNoDeadline(c) ==
  /\ pc[c] = "request"
  /\ c \in gone \/ c \notin open
  /\ Goto(c, "close")
  /\ UNCHANGED <<loopVars, open, up, expired, peerVars, copying, answered>>

\* The read fails: deadline, shutdown, or the client has left.
ReadFails(c) ==
  /\ pc[c] = "request"
  /\ c \in expired \cup gone \/ c \notin open
  /\ Goto(c, "close")
  /\ UNCHANGED <<loopVars, open, up, expired, peerVars, copying, answered>>

\* The destination, or the route's -D forward and then socksConnect.  Nobody
\* can close a connection that dial has not returned yet.
DialDirect(c) ==
  /\ pc[c] = "dial"
  /\ up' = [up EXCEPT ![c] = "open"]
  /\ Goto(c, "trackUp")
  /\ UNCHANGED <<loopVars, open, expired, peerVars, copying, answered>>

DialTunnel(c) ==
  /\ pc[c] = "dial"
  /\ up' = [up EXCEPT ![c] = "open"]
  /\ Goto(c, "socks")
  /\ UNCHANGED <<loopVars, open, expired, peerVars, copying, answered>>

DialFails(c) ==
  /\ pc[c] = "dial"
  /\ Goto(c, "refuse")
  /\ UNCHANGED <<loopVars, open, up, expired, peerVars, copying, answered>>

SocksConnect(c) ==
  /\ pc[c] = "socks"
  /\ \/ c \notin upEOF /\ Goto(c, "trackUp") /\ UNCHANGED up
     \/ Goto(c, "refuse") /\ up' = [up EXCEPT ![c] = "closed"]
  /\ UNCHANGED <<loopVars, open, expired, peerVars, copying, answered>>

\* The failure reply, or 502: whether it arrives is not looked at.
Refuse(c) ==
  /\ pc[c] = "refuse"
  /\ Goto(c, "close")
  /\ answered' = IF Reachable(c) THEN answered \cup {c} ELSE answered
  /\ UNCHANGED <<loopVars, open, up, expired, peerVars, copying>>

\* Mutant: an upstream dialled during Shutdown is relayed to.
TrackUpstreamUnchecked(c) ==
  /\ pc[c] = "trackUp"
  /\ conns' = conns \cup {upstreamConn(c)}
  /\ Goto(c, "reply")
  /\ UNCHANGED <<accepting, listening, closed, wg, shutdown, up, open, expired, peerVars,
                 copying, answered>>

TrackUpstream(c) ==
  /\ pc[c] = "trackUp"
  /\ IF closed
       THEN up' = [up EXCEPT ![c] = "closed"] /\ Goto(c, "close") /\ UNCHANGED conns
       ELSE conns' = conns \cup {upstreamConn(c)} /\ Goto(c, "reply") /\ UNCHANGED up
  /\ UNCHANGED <<accepting, listening, closed, wg, shutdown, open, expired, peerVars,
                 copying, answered>>

\* The success reply.  handleSocks does not look whether it was written, and
\* goes on to lift the deadline and relay; handleHTTP returns if it was not.
Reply(c) ==
  /\ pc[c] = "reply"
  /\ answered' = IF Reachable(c) THEN answered \cup {c} ELSE answered
  /\ \/ /\ c \in open \ expired \/ c \in SocksClients
        /\ Goto(c, "relay")
        /\ copying' = [copying EXCEPT ![c] = {"up", "down"}]
     \/ /\ ~Reachable(c) /\ c \notin SocksClients
        /\ Goto(c, "closeUp")
        /\ UNCHANGED copying
  /\ UNCHANGED <<loopVars, open, up, expired, peerVars>>

ClientOver(c)   == c \notin open \/ c \in gone
UpstreamOver(c) == up[c] = "closed" \/ c \in upEOF

\* A copier ends when its source is closed or at EOF, or, if there is something
\* to write, when its destination is; CloseWrite then passes the EOF on.
CopierEnds(c, direction) ==
  /\ direction \in copying[c]
  /\ IF direction = "up" THEN ClientOver(c) ELSE UpstreamOver(c)
  /\ copying' = [copying EXCEPT ![c] = @ \ {direction}]
  /\ UNCHANGED <<loopVars, connVars, peerVars, answered>>

CopierFails(c, direction) ==
  /\ direction \in copying[c]
  /\ IF direction = "up" THEN UpstreamOver(c) ELSE ClientOver(c)
  /\ copying' = [copying EXCEPT ![c] = @ \ {direction}]
  /\ UNCHANGED <<loopVars, connVars, peerVars, answered>>

\* Mutant: the handler goes on when the first copier is through.
RelayEndsEarly(c) ==
  /\ pc[c] = "relay" /\ copying[c] # {"up", "down"}
  /\ Goto(c, "closeUp")
  /\ UNCHANGED <<loopVars, open, up, expired, peerVars, copying, answered>>

\* wg.Wait of relay.
RelayEnds(c) ==
  /\ pc[c] = "relay" /\ copying[c] = {}
  /\ Goto(c, "closeUp")
  /\ UNCHANGED <<loopVars, open, up, expired, peerVars, copying, answered>>

\* Mutant: the upstream stays open when the handler is through.
UntrackUpstreamNoClose(c) ==
  /\ pc[c] = "closeUp"
  /\ conns' = conns \ {upstreamConn(c)}
  /\ Goto(c, "close")
  /\ UNCHANGED <<accepting, listening, closed, wg, shutdown, open, up, expired, peerVars,
                 copying, answered>>

\* The deferred untracks, upstream first, and wg.Done.
UntrackUpstream(c) ==
  /\ pc[c] = "closeUp"
  /\ conns' = conns \ {upstreamConn(c)}
  /\ up' = [up EXCEPT ![c] = "closed"]
  /\ Goto(c, "close")
  /\ UNCHANGED <<accepting, listening, closed, wg, shutdown, open, expired, peerVars,
                 copying, answered>>

UntrackClient(c) ==
  /\ pc[c] = "close"
  /\ conns' = conns \ {clientConn(c)}
  /\ open' = open \ {c}
  /\ wg' = wg \ {c}
  /\ Goto(c, "done")
  /\ UNCHANGED <<accepting, listening, closed, shutdown, up, expired, peerVars, copying,
                 answered>>

-----------------------------------------------------------------------------
(* Shutdown.                                                                *)

\* Mutant: only the clients are closed.
ShutdownClientsOnly ==
  /\ shutdown = "no"
  /\ shutdown' = "waiting"
  /\ closed' = TRUE
  /\ listening' = FALSE
  /\ open' = {c \in open : clientConn(c) \notin conns /\ pc[c] # "queued"}
  /\ pc' = [c \in Clients |-> IF pc[c] = "queued" THEN "refused" ELSE pc[c]]
  /\ UNCHANGED <<accepting, conns, wg, up, expired, peerVars, copying, answered>>

\* The critical section; connections still queued are reset by the kernel.
ShutdownCloses ==
  /\ shutdown = "no"
  /\ shutdown' = "waiting"
  /\ closed' = TRUE
  /\ listening' = FALSE
  /\ open' = {c \in open : clientConn(c) \notin conns /\ pc[c] # "queued"}
  /\ up' = [c \in Clients |-> IF upstreamConn(c) \in conns THEN "closed" ELSE up[c]]
  /\ pc' = [c \in Clients |-> IF pc[c] = "queued" THEN "refused" ELSE pc[c]]
  /\ UNCHANGED <<accepting, conns, wg, expired, peerVars, copying, answered>>

ShutdownReturns ==
  /\ shutdown = "waiting"
  /\ \/ wg = {} /\ shutdown' = "ok"
     \/ shutdown' = "expired"
  /\ UNCHANGED <<accepting, listening, closed, conns, wg, connVars, peerVars, copying, answered>>

-----------------------------------------------------------------------------
Peer(c) == Connect(c) \/ Send(c) \/ Leave(c) \/ UpstreamEnds(c)

Serve == ServeReturns \/ \E c \in Clients : Accept(c) \/ TrackClient(c)

Handler(c) ==
  \/ ReadRequest(c) \/ ReadFails(c)
  \/ DialDirect(c) \/ DialTunnel(c) \/ DialFails(c) \/ SocksConnect(c) \/ Refuse(c)
  \/ TrackUpstream(c) \/ Reply(c) \/ RelayEnds(c) \/ UntrackUpstream(c) \/ UntrackClient(c)

Next ==
  \/ \E c \in Clients : \/ Peer(c) \/ Expire(c) \/ Handler(c)
                        \/ \E direction \in {"up", "down"} :
                             CopierEnds(c, direction) \/ CopierFails(c, direction)
  \/ Serve \/ ShutdownCloses \/ ShutdownReturns

Spec == Init /\ [][Next]_vars

\* Goroutines run; a dial ends by dialTimeout at the latest, a deadline that
\* is set passes, Shutdown's context expires.  The peers need not do anything.
Fairness ==
  /\ WF_vars(Serve) /\ WF_vars(ShutdownReturns)
  /\ \A c \in Clients :
       /\ WF_vars(Handler(c))
       /\ WF_vars(Expire(c))
       /\ \A direction \in {"up", "down"} : WF_vars(CopierEnds(c, direction))

FairSpec == Spec /\ Fairness
-----------------------------------------------------------------------------
(* Properties.                                                              *)

\* A connection that Shutdown met in any phase (accepted but not tracked yet,
\* dialling, about to reply) is never relayed afterwards over open sockets.
NoRelayAfterShutdown ==
  closed => \A c \in Clients :
    pc[c] \in {"reply", "relay"} => c \notin open /\ up[c] = "closed"

\* Shutdown reports success only when no accept loop and no handler is left.
ShutdownWaits ==
  shutdown = "ok" =>
    /\ accepting = "returned"
    /\ \A c \in Clients : pc[c] \in {"new", "refused", "done"}

\* Whatever way a handler ends, both its sockets are closed and forgotten.
NoLeak ==
  \A c \in Clients :
    pc[c] = "done" => /\ c \notin open /\ up[c] # "open"
                      /\ {clientConn(c), upstreamConn(c)} \cap conns = {}

\* A client that never completes its request does not occupy a handler for
\* ever, nor does a relay whose ends have both finished.
HandlersProgress ==
  \A c \in Clients :
    /\ pc[c] = "request" ~> pc[c] # "request"
    /\ (pc[c] = "relay" /\ c \in gone \cap upEOF) ~> pc[c] = "done"

\* After Shutdown every handler ends, even those it did not wait for.
ShutdownEndsHandlers ==
  closed ~> (accepting = "returned" /\ \A c \in Clients : pc[c] \in {"new", "refused", "done"})

\* server.go:19: the deadline is for the client "to send its SOCKS5/CONNECT
\* request": a client that has, and waits, is answered, unless shut down.
RequestsAnswered ==
  \A c \in Clients :
    pc[c] \in {"relay", "done"} /\ c \in sent \ gone /\ up[c] # "none" /\ ~closed
      => c \in answered
=============================================================================
