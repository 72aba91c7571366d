----------------------------- MODULE MCRequest -----------------------------
(* Instances of Request for TLC; the .cfg file names the definitions.  What  *)
(* clients and servers send is put together here from RFC 1928.              *)
EXTENDS Request

\* Texts, by what they stand for: db.corp, DB.CORP, db.corp., *.corp,
\* [w]ww.*, www.example, 10.0.0.1, fd00::1, ::ffff:10.0.0.1, 8.8.8.8, a name of 256 bytes.
db     == <<97>>
dbUp   == <<65>>
dbDot  == <<97, 46>>
corp   == <<42>>
class  == <<91>>
www    == <<98>>
lan4   == <<49>>
ula    == <<54>>
mapped == <<52>>
dns4   == <<56>>
long   == [i \in 1..256 |-> 122]

ip4(last) == <<10, 0, 0, last>>
ip6(last) == [i \in 1..16 |-> IF i = 16 THEN last ELSE 0]

MCTexts == {<<>>, db, dbUp, dbDot, corp, class, www, lan4, ula, mapped, dns4, long}

MCLiteral == [t \in {lan4, ula, mapped, dns4} |->
  CASE t = lan4 -> ip4(1) [] t = dns4 -> ip4(8) [] t = ula -> ip6(6) [] t = mapped -> ip6(1)]

MCIPv4      == {ip4(1), ip4(8)}
MCAddresses == {MCLiteral[t] : t \in DOMAIN MCLiteral}
MCSpelling  == [a \in MCAddresses |-> CHOOSE t \in DOMAIN MCLiteral : MCLiteral[t] = a]
MCUnmap     == [a \in MCAddresses |-> IF a = ip6(1) THEN ip4(1) ELSE a]
MCResolved  == [t \in {lan4, dns4, www, db} |-> IF t \in {lan4, www} THEN ip4(1) ELSE ip4(8)]
MCLower     == [t \in MCTexts |-> IF t = dbUp THEN db ELSE t]
MCTrim      == [t \in MCTexts |-> IF t = dbDot THEN db ELSE t]
MCShExp     == {<<corp, db>>, <<db, db>>, <<dbUp, dbUp>>, <<www, www>>}
MCGlob      == MCShExp \cup {<<class, www>>}
MCSpecial   == {class}

\* The second has no socks_proxy, the third overlaps with the first and has a
\* character class, which only the table knows.
MCRoutes == <<
  [name |-> "lan",  patterns |-> {corp},     subnets |-> {{ip4(1)}},          socks |-> TRUE],
  [name |-> "bare", patterns |-> {www},      subnets |-> {{ip4(8)}},          socks |-> FALSE],
  [name |-> "lab",  patterns |-> {db, lan4, class}, subnets |-> {{ip6(6)}},          socks |-> TRUE]>>

-----------------------------------------------------------------------------
\* What follows a client's request, what a server says after its reply.
up   == <<201, 202>>
down == <<203>>

asName(t) == <<3, Len(t)>> \o t
asAddr(t) == <<IF t \in {lan4, dns4} THEN 1 ELSE 4>> \o MCLiteral[t]
encode(t) == IF t \in DOMAIN MCLiteral THEN asAddr(t) ELSE asName(t)

https == <<1, 187>>

socks(methods, cmd, addr) ==
  <<5, Len(methods)>> \o methods \o <<5, cmd, 0>> \o addr \o https \o up

asking(bytes, t) == [bytes |-> bytes, host |-> t, port |-> 443,
                     target |-> encode(t) \o https, payload |-> up]

asksNothing(bytes) == [bytes |-> bytes, host |-> NoHost, port |-> 0,
                       target |-> <<>>, payload |-> <<>>]

http(method, t, p) == <<method, Len(t)>> \o t \o <<p>> \o up

GoodClients ==
  {asking(socks(methods, 1, asName(t)), t) : methods \in {<<0>>, <<2, 0>>}, t \in MCTexts \ {long}}
  \cup {asking(socks(<<0>>, 1, asAddr(t)), t) : t \in DOMAIN MCLiteral}

BadClients ==
  {asksNothing(SubSeq(socks(<<0>>, 1, addr), 1, n)) :
     n \in 0..9, addr \in {asName(dbDot), asAddr(lan4)}}
  \cup {asksNothing(bytes) : bytes \in {
         socks(<<>>, 1, asName(db)), socks(<<2>>, 1, asName(db)), socks(<<0>>, 2, asName(db)),
         socks(<<0>>, 1, <<2>>), <<5, 1, 0, 4, 1>> \o up, <<22, 3, 1>>,
         http(71, db, 80), http(67, db, 0), http(67, db, 70000), <<67, 5, 97>>}}

\* Only HTTP can ask for a name of more than 255 bytes.
HTTPClients == {asking(http(67, t, 443), t) : t \in {db, ula, www, long}}

MCClients == GoodClients \cup BadClients \cup HTTPClients

reply(code, addr) == <<5, 0, 5, code, 0>> \o addr \o <<0, 0>> \o down

MCServers ==
  {[bytes |-> reply(code, addr), code |-> code, payload |-> down] :
     code \in {0, 5}, addr \in {asAddr(dns4), asAddr(ula), asName(db)}}
  \cup {[bytes |-> bytes, code |-> NoCode, payload |-> down] :
          bytes \in {<<5>>, <<5, 255>>, <<4, 0>>, <<5, 0, 5>>, <<5, 0, 5, 0, 0, 3>>,
                     <<5, 0, 5, 0, 0, 1, 0, 0, 0, 0, 0>>}}
=============================================================================
