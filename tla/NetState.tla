------------------------------ MODULE NetState ------------------------------
(***************************************************************************)
(* Pure part of internal/netstate: which direct profile, if any, matches   *)
(* what was found out about the network.                                   *)
(*                                                                         *)
(* A NetState is a record [SSID, Gateway, Address], a profile a record     *)
(* [Name, SSID, Gateway, Subnet]; Blank means unknown, respectively not    *)
(* asked for.  A Subnet is the set of its addresses, {} if not asked for.  *)
(***************************************************************************)
EXTENDS Integers, Sequences

Blank == ""

\* Blank is in no subnet, and an unparsable subnet contains nothing.
addressInSubnet(address, subnet) == address # Blank /\ address \in subnet

profileMatches(p, ns) ==
  /\ p.SSID # Blank \/ p.Gateway # Blank \/ p.Subnet # {}
  /\ p.SSID \in {Blank, ns.SSID}
  /\ p.Gateway \in {Blank, ns.Gateway}
  /\ p.Subnet # {} => addressInSubnet(ns.Address, p.Subnet)

\* The first profile that matches; none means away, the jump host is needed.
Evaluate(profiles, ns) ==
  LET hits == {i \in DOMAIN profiles : profileMatches(profiles[i], ns)} IN
  IF hits = {}
    THEN [matched |-> Blank, proxyNeeded |-> TRUE]
    ELSE [matched |-> profiles[CHOOSE i \in hits : \A j \in hits : i <= j].Name,
          proxyNeeded |-> FALSE]
=============================================================================
