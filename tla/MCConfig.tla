------------------------------ MODULE MCConfig ------------------------------
(* Instance of Config for TLC.  Ports: 1 to 3 for 1080, 8850 and 8851, 4 and *)
(* 5 for the kernel's own range, 6 for 65535; 7 is out of range.  The IPv6   *)
(* loopback address has two spellings.  The files: none; two tunnels with    *)
(* ports left to chance; an explicit port, one that is out of range, a route *)
(* without a tunnel and pac.port 0; and the IPv6 address, spelled in two     *)
(* ways, for everything.                                                     *)
EXTENDS Config

v4  == "127.0.0.1"
v6  == "::1"
v6b == "::01"

MCIP     == [b \in {v4, v6, v6b} |-> IF b = v4 THEN "v4" ELSE "v6"]
MCColons == {v6, v6b}
MCNames  == {"a", "b", "c"}
MCBinds  == {v4, v6, v6b, NoBind}

listener(on, bind, port) == [enabled |-> on, bind |-> bind, port |-> port]
route(name, socks) == [name |-> name, jump |-> TRUE, socks |-> socks]
Socks(active, bind, port) == [active |-> active, bind |-> bind, port |-> port]
File(routes, p, f) == [routes |-> routes, pac |-> p, proxy |-> f]

MCDefault == File(<<>>, listener(TRUE, v4, 2), listener(TRUE, v4, 3))

MCFiles ==
  {MCDefault,
   File(<<route("a", Socks(TRUE, NoBind, 0)), route("b", Socks(TRUE, v4, 0))>>,
        listener(TRUE, v4, 2), listener(FALSE, v4, 3)),
   File(<<route("a", Socks(TRUE, v4, 5)), route("b", Socks(FALSE, v4, 7)), route("c", NoSocks)>>,
        listener(TRUE, v4, 0), listener(TRUE, v4, 4)),
   File(<<route("a", Socks(FALSE, v6, 0)), route("b", Socks(TRUE, v6, 0))>>,
        listener(TRUE, v6b, 1), listener(TRUE, v6b, 3))}

MCPrograms == {<<"v4", 4>>}
=============================================================================
