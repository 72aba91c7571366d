------------------------------- MODULE Routing -------------------------------
(***************************************************************************)
(* The three places that decide how a host is reached: the routing table   *)
(* of the front door (internal/proxy/table.go), the PAC file               *)
(* (internal/pac/generate.go) and check-ssh (cmd/ssh-autoproxy).           *)
(*                                                                         *)
(* Hosts and patterns are texts; what the text functions of Go and of the  *)
(* browser make of them is given by constants.  The decisions a network    *)
(* change leaves behind are a function `needed` from route names to        *)
(* BOOLEAN, without the routes nothing is known about yet.                 *)
(***************************************************************************)
EXTENDS Naturals, Sequences

CONSTANTS
  Routes,      \* cfg.Routes: a sequence of [name, patterns, subnets, socks]
  Texts,
  Addresses,   \* IP addresses; a subnet is a set of them
  Lower, Trim, \* [Texts -> Texts]: strings.ToLower; one trailing dot removed
  Glob,        \* the pairs <<pattern, text>> path.Match matches
  ShExp,       \* the pairs <<pattern, text>> the browser's shExpMatch matches
  Special,     \* the texts with a character class, an escape or a slash
  Literal,     \* the texts netip.ParseAddr accepts, each with its address
  Unmap,       \* [Addresses -> Addresses]: 4-in-6 to IPv4
  IPv4,        \* the addresses of four bytes
  Resolved     \* the IPv4 address isInNet has for a text: its own, or from DNS

NoRoute == 0

ASSUME RoutingAssumption ==
  /\ \A r \in 1..Len(Routes) :
       Routes[r].patterns \subseteq Texts /\ Routes[r].subnets \subseteq SUBSET Addresses
  /\ \A r, s \in 1..Len(Routes) : Routes[r].name = Routes[s].name => r = s
  /\ Lower \in [Texts -> Texts] /\ Trim \in [Texts -> Texts]
  /\ Glob \subseteq Texts \X Texts /\ ShExp \subseteq Texts \X Texts
  /\ \A p, t \in Texts \ Special : <<p, t>> \in Glob <=> <<p, t>> \in ShExp
  /\ DOMAIN Literal \subseteq Texts /\ \A t \in DOMAIN Literal : Literal[t] \in Addresses
  /\ Unmap \in [Addresses -> Addresses] /\ \A a \in IPv4 : Unmap[a] = a
  /\ DOMAIN Resolved \subseteq Texts /\ \A t \in DOMAIN Resolved : Resolved[t] \in IPv4
  /\ \A t \in DOMAIN Literal : Literal[t] \in IPv4 => t \in DOMAIN Resolved
                                                     /\ Resolved[t] = Literal[t]

\* Routes without a socks_proxy take part in neither table nor PAC.
Tunnelled == {r \in 1..Len(Routes) : Routes[r].socks}

First(hits) == IF hits = {} THEN NoRoute ELSE CHOOSE r \in hits : \A s \in hits : r <= s

Needed(needed, r) == Routes[r].name \in DOMAIN needed => needed[Routes[r].name]

-----------------------------------------------------------------------------
(* Table.                                                                   *)

Norm(host) == Trim[Lower[host]]

tableMatches(r, host) ==
  \/ \E p \in Routes[r].patterns : <<Lower[p], Norm(host)>> \in Glob
  \/ /\ Norm(host) \in DOMAIN Literal
     /\ \E subnet \in Routes[r].subnets : Unmap[Literal[Norm(host)]] \in subnet

\* Mutant: routes without a socks_proxy take part.
matchAll(host) == First({r \in 1..Len(Routes) : tableMatches(r, host)})

match(host) == First({r \in Tunnelled : tableMatches(r, host)})

\* Mutant: the first match whose route is away, instead of the first match.
DecideAnyNeeded(needed, host) ==
  First({r \in Tunnelled : tableMatches(r, host) /\ Needed(needed, r)})

\* The route whose tunnel to take, or NoRoute to dial directly.
Decide(needed, host) ==
  IF match(host) # NoRoute /\ Needed(needed, match(host)) THEN match(host) ELSE NoRoute

-----------------------------------------------------------------------------
(* FindProxyForURL of the generated file: the first `if` that applies.  A   *)
(* pattern is compared as it is written, with the host as the browser has   *)
(* it; isInNet knows IPv4 only, and resolves names.                         *)

pacMatches(r, host) ==
  \/ \E p \in Routes[r].patterns : <<p, host>> \in ShExp
  \/ /\ host \in DOMAIN Resolved
     /\ \E subnet \in Routes[r].subnets : Resolved[host] \in subnet

pacMatch(host) == First({r \in Tunnelled : pacMatches(r, host)})

\* The route whose proxy the file names, or NoRoute for DIRECT.
FindProxyForURL(needed, host) ==
  LET r == pacMatch(host) IN
  IF r # NoRoute /\ Routes[r].name \in DOMAIN needed /\ needed[Routes[r].name]
    THEN r ELSE NoRoute

-----------------------------------------------------------------------------
(* check-ssh for a route: `needed` has what its own query finds out, and no *)
(* entry when the config or the network cannot be read.                     *)

CheckSSH(needed, name) ==
  IF (\E r \in 1..Len(Routes) : Routes[r].name = name) /\ name \in DOMAIN needed
    THEN needed[name] ELSE TRUE

-----------------------------------------------------------------------------
(* A host the PAC file sees as the table does: written in lower case and    *)
(* without a trailing dot, matched only by patterns in lower case that both *)
(* matchers read alike, and, as far as subnets are concerned, a plain IPv4  *)
(* address or a name without one in any.                                    *)

PlainPattern(p) == Lower[p] = p /\ p \notin Special

Plain(host) ==
  /\ Norm(host) = host /\ host \notin Special
  /\ \A r \in Tunnelled : \A p \in Routes[r].patterns :
       PlainPattern(p) \/ (<<Lower[p], host>> \notin Glob /\ <<p, host>> \notin ShExp)
  /\ IF host \in DOMAIN Literal
       THEN Literal[host] \in IPv4
       ELSE host \in DOMAIN Resolved =>
              \A r \in Tunnelled : \A subnet \in Routes[r].subnets : Resolved[host] \notin subnet
=============================================================================
