--------------------------- MODULE RequestProofs ---------------------------
(***************************************************************************)
(* Proofs about Request and Routing, for any routes, hosts and patterns,   *)
(* and for any clients and servers that keep to Request's assumptions.     *)
(*                                                                         *)
(* Routing: for a host that both see alike, table and PAC file find the    *)
(* same routes to match, so the same first one; the decisions in force are *)
(* none, or one for every route, since an evaluation covers them all.      *)
(*                                                                         *)
(* Bytes: the messages of RFC 1928 as wholes are what the code reads piece *)
(* by piece (MessageSize to HTTPClient), and what it writes (TargetIs,     *)
(* ServerReply); StageInv says where the four streams are at each stage.   *)
(***************************************************************************)
EXTENDS Request, SequenceTheorems, WellFoundedInduction, TLAPS

-----------------------------------------------------------------------------
(* Routing.                                                                 *)

LEMMA FirstIsLeast ==
  ASSUME NEW hits \in SUBSET (1..Len(Routes)), hits # {}
  PROVE  First(hits) \in hits /\ First(hits) # NoRoute
<1> DEFINE less == {ss \in Nat \X Nat : ss[1] < ss[2]}
<1>1. IsWellFoundedOn(less, Nat) BY NatLessThanWellFounded DEF OpToRel
<1>2. hits \subseteq Nat OBVIOUS
<1>3. PICK r \in hits : \A s \in hits : ~ (<<s, r>> \in less)
  <2> HIDE DEF less
  <2> QED BY <1>1, <1>2, WFMin
<1>4. \A s \in hits : r <= s
  <2>1. \A a, b \in Nat : a < b => <<a, b>> \in less OBVIOUS
  <2> HIDE DEF less
  <2>2. \A s \in hits : ~ (s < r) BY <1>2, <1>3, <2>1
  <2> QED BY <1>2, <2>2
<1>5. First(hits) \in hits BY <1>4 DEF First
<1> QED BY <1>5 DEF NoRoute

LEMMA MatchIsRoute ==
  ASSUME NEW hits \in SUBSET Tunnelled
  PROVE  First(hits) = NoRoute \/ First(hits) \in hits
<1>1. hits \subseteq 1..Len(Routes) BY DEF Tunnelled
<1> QED BY <1>1, FirstIsLeast DEF First

\* Patterns and subnets, one by one.
LEMMA SameMatches ==
  ASSUME NEW h \in Texts, Plain(h), NEW r \in Tunnelled
  PROVE  tableMatches(r, h) <=> pacMatches(r, h)
<1> USE RoutingAssumption
<1>1. r \in 1..Len(Routes) BY DEF Tunnelled
<1>2. (\E p \in Routes[r].patterns : <<Lower[p], Norm(h)>> \in Glob)
        <=> (\E p \in Routes[r].patterns : <<p, h>> \in ShExp)
  <2>1. ASSUME NEW p \in Routes[r].patterns
        PROVE  <<Lower[p], h>> \in Glob <=> <<p, h>> \in ShExp
    BY <1>1, <2>1 DEF PlainPattern, Plain
  <2> QED BY <2>1 DEF Plain
<1>3. CASE h \in DOMAIN Literal
  <2>1. Unmap[Literal[Norm(h)]] = Resolved[h] /\ h \in DOMAIN Resolved
    BY <1>3 DEF Plain
  <2> QED BY <1>2, <1>3, <2>1 DEF tableMatches, pacMatches, Plain
<1>4. CASE h \notin DOMAIN Literal
  BY <1>2, <1>4 DEF tableMatches, pacMatches, Plain
<1> QED BY <1>3, <1>4

LEMMA SameMatch ==
  ASSUME NEW h \in Texts, Plain(h)
  PROVE  match(h) = pacMatch(h)
<1>1. {r \in Tunnelled : tableMatches(r, h)} = {r \in Tunnelled : pacMatches(r, h)}
  BY SameMatches
<1> QED BY <1>1 DEF match, pacMatch

-----------------------------------------------------------------------------
\* What holds of the decisions whenever they are none or complete.
Known(f) == f \in [{} -> BOOLEAN] \/ f \in [Names -> BOOLEAN]

LEMMA DecisionsAgree ==
  ASSUME NEW f, Known(f), NEW h \in Texts
  PROVE  /\ match(h) # NoRoute =>
              (Decide(f, h) = match(h) <=> CheckSSH(f, Routes[match(h)].name))
         /\ Plain(h) =>
              \/ FindProxyForURL(f, h) = Decide(f, h)
              \/ FindProxyForURL(f, h) = NoRoute /\ DOMAIN f # Names
<1>1. match(h) # NoRoute => match(h) \in 1..Len(Routes)
  BY MatchIsRoute DEF match, Tunnelled
<1>2. match(h) # NoRoute => Routes[match(h)].name \in Names
  BY <1>1 DEF Names
<1>3. ASSUME match(h) # NoRoute
      PROVE  Decide(f, h) = match(h) <=> CheckSSH(f, Routes[match(h)].name)
  <2>1. CheckSSH(f, Routes[match(h)].name) <=> Needed(f, match(h))
    BY <1>1, <1>3 DEF CheckSSH, Needed, Known
  <2>2. Decide(f, h) = match(h) <=> Needed(f, match(h))
    BY <1>3 DEF Decide
  <2> QED BY <2>1, <2>2
<1>4. ASSUME Plain(h)
      PROVE  \/ FindProxyForURL(f, h) = Decide(f, h)
             \/ FindProxyForURL(f, h) = NoRoute /\ DOMAIN f # Names
  <2>1. match(h) = pacMatch(h) BY <1>4, SameMatch
  <2>2. CASE f \in [Names -> BOOLEAN]
    BY <1>2, <2>1, <2>2 DEF FindProxyForURL, Decide, Needed
  <2>3. CASE DOMAIN f = {}
    <3>1. FindProxyForURL(f, h) = NoRoute BY <2>3 DEF FindProxyForURL
    <3>2. CASE Names = {} BY <1>2, <3>1, <3>2 DEF Decide
    <3> QED BY <2>3, <3>1, <3>2
  <2> QED BY <2>2, <2>3 DEF Known
<1> QED BY <1>3, <1>4

LEMMA DecideIsRoute ==
  ASSUME NEW f, NEW h PROVE Decide(f, h) \in Tunnelled \cup {NoRoute}
<1> DEFINE hits == {r \in Tunnelled : tableMatches(r, h)}
<1>1. First(hits) = NoRoute \/ First(hits) \in hits BY MatchIsRoute
<1> QED BY <1>1 DEF Decide, match

LEMMA KnownInductive == Spec => []Known(needed)
<1>1. Init => Known(needed) BY DEF Init, Known
<1>2. Known(needed) /\ [Next]_vars => Known(needed)'
  <2>1. ASSUME [Next]_vars PROVE needed' = needed \/ needed' \in [Names -> BOOLEAN]
    <3>1. CASE Update BY <3>1 DEF Update
    <3>2. CASE Lose \/ ReadFails \/ Unrecognized \/ Greeting \/ BadRequest \/ ReadRequest
      BY <3>2 DEF Lose, ReadFails, Unrecognized, Greeting, BadRequest, ReadRequest
    <3>3. CASE BadHTTPRequest \/ HTTPConnect BY <3>3 DEF BadHTTPRequest, HTTPConnect
    <3>7. CASE TakeDecision \/ DialFails BY <3>7 DEF TakeDecision, DialFails
    <3>4. CASE DialDirect \/ DialTunnel \/ UpRefuses \/ UpGreeting \/ UpReply
      BY <3>4 DEF DialDirect, DialTunnel, UpRefuses, UpGreeting, UpReply
    <3>5. CASE Answer \/ RelayUp \/ RelayDown BY <3>5 DEF Answer, RelayUp, RelayDown
    <3>6. CASE UNCHANGED vars BY <3>6 DEF vars
    <3> QED BY <2>1, <3>1, <3>2, <3>3, <3>4, <3>5, <3>6, <3>7 DEF Next
  <2> QED BY <2>1 DEF Known
<1> QED BY <1>1, <1>2, PTL DEF Spec

\* Table, PAC file and check-ssh send every host they see alike the same way,
\* whatever the routes; before the first evaluation the PAC file says DIRECT.
THEOREM SameWayAlways == Spec => []SameWay
<1>1. Known(needed) => SameWay BY DecisionsAgree DEF SameWay
<1> QED BY <1>1, KnownInductive, PTL

-----------------------------------------------------------------------------
(* Sequences of bytes, cut at the front and at the end.                     *)

LEMMA AfterIs ==
  ASSUME NEW s \in Seq(Nat), NEW n \in 0..Len(s)
  PROVE  /\ After(s, n) \in Seq(Nat)
         /\ Len(After(s, n)) = Len(s) - n
         /\ \A k \in 1..Len(s) - n : After(s, n)[k] = s[n + k]
  BY SubSeqProperties DEF After

LEMMA PartIs ==
  ASSUME NEW s \in Seq(Nat), NEW m \in 1..Len(s) + 1, NEW n \in 0..Len(s)
  PROVE  /\ SubSeq(s, m, n) \in Seq(Nat)
         /\ Len(SubSeq(s, m, n)) = IF m <= n THEN n - m + 1 ELSE 0
         /\ \A k \in 1..n - m + 1 : SubSeq(s, m, n)[k] = s[m + k - 1]
  BY SubSeqProperties

LEMMA AfterAfter ==
  ASSUME NEW s \in Seq(Nat), NEW m \in Nat, NEW n \in Nat, m + n <= Len(s)
  PROVE  After(After(s, m), n) = After(s, m + n)
<1>0. m \in 0..Len(s) /\ m + n \in 0..Len(s) OBVIOUS
<1>1. After(s, m) \in Seq(Nat) /\ n \in 0..Len(After(s, m)) BY <1>0, AfterIs
<1>2. After(After(s, m), n) \in Seq(Nat) /\ After(s, m + n) \in Seq(Nat) BY <1>1, AfterIs
<1>3. Len(After(After(s, m), n)) = Len(After(s, m + n)) BY <1>0, <1>1, AfterIs
<1>4. \A k \in 1..Len(After(s, m + n)) : After(After(s, m), n)[k] = After(s, m + n)[k]
  <2> TAKE k \in 1..Len(After(s, m + n))
  <2>0. Len(After(s, m)) = Len(s) - m /\ Len(After(s, m + n)) = Len(s) - (m + n)
    BY <1>0, AfterIs
  <2>1. k \in 1..Len(After(s, m)) - n /\ n + k \in 1..Len(s) - m /\ k \in 1..Len(s) - (m + n)
    BY <2>0
  <2>2. After(After(s, m), n)[k] = After(s, m)[n + k] BY <1>1, <2>1, AfterIs
  <2>3. After(s, m)[n + k] = s[m + (n + k)] BY <1>0, <2>1, AfterIs
  <2>4. After(s, m + n)[k] = s[m + n + k] BY <1>0, <2>1, AfterIs
  <2> QED BY <2>2, <2>3, <2>4
<1> QED BY <1>2, <1>3, <1>4, SeqEqual

LEMMA PartOfAfter ==
  ASSUME NEW s \in Seq(Nat), NEW i \in 0..Len(s), NEW m \in Nat \ {0}, NEW n \in 0..Len(s) - i,
         m <= n + 1
  PROVE  SubSeq(After(s, i), m, n) = SubSeq(s, i + m, i + n)
<1>1. After(s, i) \in Seq(Nat) /\ m \in 1..Len(After(s, i)) + 1 /\ n \in 0..Len(After(s, i))
  BY AfterIs
<1>2. SubSeq(After(s, i), m, n) \in Seq(Nat) /\ SubSeq(s, i + m, i + n) \in Seq(Nat) BY <1>1, PartIs
<1>3. Len(SubSeq(After(s, i), m, n)) = n - m + 1 /\ Len(SubSeq(s, i + m, i + n)) = n - m + 1
  BY <1>1, PartIs
<1>4. \A k \in 1..n - m + 1 : SubSeq(After(s, i), m, n)[k] = SubSeq(s, i + m, i + n)[k]
  BY <1>1, PartIs, AfterIs
<1> QED BY <1>2, <1>3, <1>4, SeqEqual

LEMMA PartOfPart ==
  ASSUME NEW s \in Seq(Nat), NEW j \in 0..Len(s), NEW m \in Nat \ {0}, NEW n \in 0..j, m <= n + 1
  PROVE  SubSeq(SubSeq(s, 1, j), m, n) = SubSeq(s, m, n)
<1>1. SubSeq(s, 1, j) \in Seq(Nat) /\ Len(SubSeq(s, 1, j)) = j BY PartIs
<1>2. SubSeq(SubSeq(s, 1, j), m, n) \in Seq(Nat) /\ SubSeq(s, m, n) \in Seq(Nat) BY <1>1, PartIs
<1>3. Len(SubSeq(SubSeq(s, 1, j), m, n)) = n - m + 1 /\ Len(SubSeq(s, m, n)) = n - m + 1
  BY <1>1, PartIs
<1>4. \A k \in 1..n - m + 1 : SubSeq(SubSeq(s, 1, j), m, n)[k] = SubSeq(s, m, n)[k]
  BY <1>1, PartIs
<1> QED BY <1>2, <1>3, <1>4, SeqEqual

\* The first n bytes of s are one message with that code if and only if
\* readAddr takes as many bytes.
LEMMA MessageSize ==
  ASSUME NEW s \in Seq(Nat), NEW n \in 0..Len(s), NEW code
  PROVE  IsMessage(SubSeq(s, 1, n), code) <=>
           Len(s) >= 4 /\ s[2] = code /\ addrSize(After(s, 4), s[4]) + 6 = n
<1> DEFINE t == SubSeq(s, 1, n)
           a == SubSeq(t, 4, Len(t) - 2)
<1>1. t \in Seq(Nat) /\ Len(t) = n /\ \A k \in 1..n : t[k] = s[k] BY PartIs
<1>2. CASE n < 6
  <2>1. ~IsMessage(t, code) BY <1>1, <1>2 DEF IsMessage
  <2>2. ASSUME Len(s) >= 4 PROVE addrSize(After(s, 4), s[4]) + 6 # n
    <3>1. After(s, 4) \in Seq(Nat) BY <2>2, AfterIs
    <3> QED BY <1>2, <3>1 DEF addrSize, atypIPv4, atypIPv6, atypDomain
  <2> QED BY <2>1, <2>2
<1>3. CASE n >= 6
  <2>1. a \in Seq(Nat) /\ Len(a) = n - 5 /\ \A k \in 1..n - 5 : a[k] = s[3 + k]
    <3>1. 4 \in 1..Len(t) + 1 /\ Len(t) - 2 \in 0..Len(t) BY <1>1, <1>3
    <3>2. a \in Seq(Nat) /\ Len(a) = n - 5 /\ \A k \in 1..n - 5 : a[k] = t[3 + k]
      BY <1>1, <1>3, <3>1, PartIs
    <3>3. ASSUME NEW k \in 1..n - 5 PROVE a[k] = s[3 + k]
      <4>1. a[k] = t[3 + k] /\ 3 + k \in 1..n BY <3>2
      <4> QED BY <1>1, <4>1
    <3> QED BY <3>2, <3>3
  <2>2. After(s, 4) \in Seq(Nat) /\ Len(After(s, 4)) = Len(s) - 4 /\ After(s, 4) # <<>>
        /\ After(s, 4)[1] = s[5] /\ s[5] \in Nat
    BY <1>3, AfterIs
  <2>3. a[1] = s[4] BY <1>3, <2>1
  <2>4. n >= 7 => a[2] = s[5] BY <1>3, <2>1
  <2> DEFINE r == After(s, 4)
  <2> HIDE DEF a, r
  <2>5. IsAddr(a) <=> addrSize(r, s[4]) + 6 = n
    <3>1. CASE s[4] = 1
      BY <1>3, <2>1, <2>3, <3>1 DEF IsAddr, addrSize, atypIPv4, atypIPv6, atypDomain
    <3>2. CASE s[4] = 3
      <4>1. addrSize(r, s[4]) = 1 + s[5]
        BY <2>2, <3>2 DEF addrSize, atypIPv4, atypIPv6, atypDomain, r
      <4>2. IsAddr(a) <=> n >= 7 /\ n - 5 = 2 + a[2]
        BY <1>3, <2>1, <2>3, <3>2 DEF IsAddr
      <4>3. CASE n = 6 BY <2>2, <4>1, <4>2, <4>3
      <4>4. CASE n >= 7
        <5>1. IsAddr(a) <=> n - 5 = 2 + s[5] BY <2>4, <4>2, <4>4
        <5>2. n \in Nat /\ s[5] \in Nat BY <2>2
        <5>3. n - 5 = 2 + s[5] <=> 1 + s[5] + 6 = n BY <5>2
        <5> QED BY <4>1, <5>1, <5>3
      <4> QED BY <1>3, <4>3, <4>4
    <3>3. CASE s[4] = 4
      BY <1>3, <2>1, <2>3, <3>3 DEF IsAddr, addrSize, atypIPv4, atypIPv6, atypDomain
    <3>4. CASE s[4] \notin {1, 3, 4}
      <4>1. addrSize(r, s[4]) = Len(s) - 3
        BY <2>2, <3>4 DEF addrSize, atypIPv4, atypIPv6, atypDomain, r
      <4> QED BY <1>3, <2>3, <3>4, <4>1 DEF IsAddr
    <3> QED BY <3>1, <3>2, <3>3, <3>4
  <2> QED BY <1>1, <1>3, <2>5 DEF IsMessage, a, r
<1> QED BY <1>2, <1>3

LEMMA ConnectHead ==
  ASSUME NEW b \in Seq(Nat), NEW j \in 0..Len(b)
  PROVE  IsConnect(SubSeq(b, 1, j)) <=>
           j >= 3 /\ b[1] = 67 /\ j = 3 + b[2] /\ b[j] \in 1..maxPort
<1> DEFINE s == SubSeq(b, 1, j)
<1>1. Len(s) = j /\ \A k \in 1..j : s[k] = b[k] BY PartIs
<1> HIDE DEF s
<1>2. j >= 3 => s[1] = b[1] /\ s[2] = b[2] /\ s[j] = b[j] BY <1>1
<1>3. IsConnect(s) <=> j >= 3 /\ s[1] = 67 /\ j = 3 + s[2] /\ s[j] \in 1..maxPort
  BY <1>1 DEF IsConnect
<1>4. IsConnect(s) <=> j >= 3 /\ b[1] = 67 /\ j = 3 + b[2] /\ b[j] \in 1..maxPort BY <1>2, <1>3
<1> QED BY <1>4, Zenon DEF s

LEMMA AddrSizeIsNat ==
  ASSUME NEW s \in Seq(Nat), NEW atyp PROVE addrSize(s, atyp) \in Nat
<1>1. s # <<>> => s[1] \in Nat OBVIOUS
<1>2. CASE atyp = 1 BY <1>2 DEF addrSize, atypIPv4, atypIPv6, atypDomain
<1>3. CASE atyp = 4 BY <1>3 DEF addrSize, atypIPv4, atypIPv6, atypDomain
<1>4. CASE atyp = 3 /\ s # <<>>
  BY <1>1, <1>4 DEF addrSize, atypIPv4, atypIPv6, atypDomain
<1>5. CASE atyp \notin {1, 4} /\ ~(atyp = 3 /\ s # <<>>)
  BY <1>5 DEF addrSize, atypIPv4, atypIPv6, atypDomain
<1> QED BY <1>2, <1>3, <1>4, <1>5

\* The request of a SOCKS client is where Greeting and ReadRequest look for it.
LEMMA SocksRequestAt ==
  ASSUME NEW b \in Seq(Nat), b # <<>>, b[1] = 5, NEW i \in 0..Len(b), NEW j \in 0..Len(b)
  PROVE  RequestAt(b, i, j) <=>
           /\ Len(b) >= 2 /\ i = 2 + b[2] /\ \E k \in 3..2 + b[2] : b[k] = 0
           /\ LET r == After(b, i) IN
              /\ Len(r) >= 4 /\ r[1] = 5 /\ r[2] = 1
              /\ addrSize(After(r, 4), r[4]) + 6 = j - i
<1> DEFINE g == SubSeq(b, 1, i)
           r == After(b, i)
<1>1. Len(b) \in Nat \ {0} /\ b[1] \in Nat OBVIOUS
<1>2. Len(g) = i /\ \A k \in 1..i : g[k] = b[k] BY PartIs
<1>3. r \in Seq(Nat) /\ Len(r) = Len(b) - i /\ \A k \in 1..Len(b) - i : r[k] = b[i + k]
  BY AfterIs
<1>4. ~IsConnect(SubSeq(b, 1, j))
  <2>1. b[1] # 67 OBVIOUS
  <2> QED BY <2>1, ConnectHead, Zenon
<1>5. IsGreeting(g) <=> Len(b) >= 2 /\ i = 2 + b[2] /\ \E k \in 3..2 + b[2] : b[k] = 0
  <2> HIDE DEF g
  <2>1. CASE i < 2
    <3>1. Len(b) >= 2 => b[2] \in Nat BY <1>1
    <3> QED BY <1>2, <2>1, <3>1 DEF IsGreeting
  <2>2. CASE i >= 2
    <3>1. g[1] = 5 /\ g[2] = b[2] /\ Len(b) >= 2 /\ b[2] \in Nat BY <1>1, <1>2, <2>2
    <3> QED BY <1>1, <1>2, <2>2, <3>1 DEF IsGreeting
  <2> QED BY <2>1, <2>2
<1>6. IsMessage(SubSeq(b, i + 1, j), 1) <=>
        Len(r) >= 4 /\ r[2] = 1 /\ addrSize(After(r, 4), r[4]) + 6 = j - i
  <2>1. CASE i <= j
    <3>1. j - i \in 0..Len(b) - i BY <2>1
    <3>2. 1 \in Nat \ {0} /\ 1 <= j - i + 1 /\ i + (j - i) = j BY <2>1
    <3>3. SubSeq(r, 1, j - i) = SubSeq(b, i + 1, i + (j - i)) BY <3>1, <3>2, PartOfAfter, Zenon
    <3>4. j - i \in 0..Len(r) BY <1>3, <3>1
    <3> HIDE DEF r
    <3>5. IsMessage(SubSeq(r, 1, j - i), 1) <=>
            Len(r) >= 4 /\ r[2] = 1 /\ addrSize(After(r, 4), r[4]) + 6 = j - i
      BY <1>3, <3>4, MessageSize
    <3>6. SubSeq(r, 1, j - i) = SubSeq(b, i + 1, j) BY <3>2, <3>3, Zenon
    <3> QED BY <3>5, <3>6, Zenon
  <2>2. CASE j < i
    <3>1. SubSeq(b, i + 1, j) = <<>> BY <2>2, SubSeqEmpty
    <3>2. ~IsMessage(SubSeq(b, i + 1, j), 1) BY <3>1 DEF IsMessage
    <3>3. Len(r) >= 4 => addrSize(After(r, 4), r[4]) \in Nat
      <4> HIDE DEF r
      <4> SUFFICES ASSUME Len(r) >= 4 PROVE addrSize(After(r, 4), r[4]) \in Nat OBVIOUS
      <4>1. 4 \in 0..Len(r) BY <1>3
      <4>2. After(r, 4) \in Seq(Nat) BY <1>3, <4>1, AfterIs
      <4> QED BY <4>2, AddrSizeIsNat
    <3> HIDE DEF r
    <3> QED BY <2>2, <3>2, <3>3
  <2> QED BY <2>1, <2>2
<1>7. Len(r) >= 4 => b[i + 1] = r[1] BY <1>1, <1>3
<1> HIDE DEF g, r
<1>8. RequestAt(b, i, j) <=> IsGreeting(g) /\ IsMessage(SubSeq(b, i + 1, j), 1) /\ b[i + 1] = 5
  BY <1>4 DEF RequestAt, g
<1> QED BY <1>5, <1>6, <1>7, <1>8 DEF r

LEMMA HTTPRequestAt ==
  ASSUME NEW b \in Seq(Nat), b # <<>>, b[1] = 67, NEW i \in 0..Len(b), NEW j \in 0..Len(b)
  PROVE  RequestAt(b, i, j) <=> /\ i = 0 /\ Len(b) >= 2 /\ j = 3 + b[2]
                                /\ b[3 + b[2]] \in 1..maxPort
<1> DEFINE g == SubSeq(b, 1, i)
<1>1. Len(b) \in Nat \ {0} OBVIOUS
<1>2. Len(g) = i /\ \A k \in 1..i : g[k] = b[k] BY PartIs
<1> HIDE DEF g
<1>3. ~IsGreeting(g) BY <1>1, <1>2 DEF IsGreeting
<1>4. IsConnect(SubSeq(b, 1, j)) <=> Len(b) >= 2 /\ j = 3 + b[2] /\ b[3 + b[2]] \in 1..maxPort
  <2>1. IsConnect(SubSeq(b, 1, j)) <=> j >= 3 /\ b[1] = 67 /\ j = 3 + b[2] /\ b[j] \in 1..maxPort
    BY ConnectHead, Zenon
  <2>2. Len(b) >= 2 => b[2] \in Nat OBVIOUS
  <2>3. j >= 3 /\ b[1] = 67 /\ j = 3 + b[2] /\ b[j] \in 1..maxPort
          <=> Len(b) >= 2 /\ j = 3 + b[2] /\ b[3 + b[2]] \in 1..maxPort
    BY <2>2
  <2> QED BY <2>1, <2>3, Zenon
<1>5. RequestAt(b, i, j) <=> i = 0 /\ IsConnect(SubSeq(b, 1, j)) BY <1>3, Zenon DEF RequestAt, g
<1> QED BY <1>4, <1>5, Zenon

LEMMA RequestBegins ==
  ASSUME NEW b \in Seq(Nat), NEW i \in 0..Len(b), NEW j \in 0..Len(b), RequestAt(b, i, j)
  PROVE  b # <<>> /\ b[1] \in {5, 67}
<1>1. Len(SubSeq(b, 1, i)) = i /\ \A k \in 1..i : SubSeq(b, 1, i)[k] = b[k] BY PartIs
<1>2. CASE IsGreeting(SubSeq(b, 1, i)) BY <1>1, <1>2 DEF IsGreeting
<1>3. CASE IsConnect(SubSeq(b, 1, j))
  <2>1. j >= 3 /\ b[1] = 67 BY <1>3, ConnectHead, Zenon
  <2> QED BY <2>1
<1> QED BY <1>2, <1>3 DEF RequestAt

LEMMA PartOfPrefix ==
  ASSUME NEW s \in Seq(Nat), NEW j \in 0..Len(s), NEW m \in Nat \ {0}, NEW n \in Nat,
         m <= n + 1, n <= j
  PROVE  SubSeq(SubSeq(s, 1, j), m, n) = SubSeq(s, m, n)
<1>1. n \in 0..j OBVIOUS
<1> QED BY <1>1, PartOfPart

\* What ReadRequest and UpReply make of the bytes of one message, and where
\* they leave off.
LEMMA MessageTail ==
  ASSUME NEW s \in Seq(Nat), NEW n \in 0..Len(s), Len(s) >= 4,
         addrSize(After(s, 4), s[4]) + 6 = n
  PROVE  LET rest == After(s, 4)
             size == addrSize(rest, s[4])
             tail == After(rest, size)
         IN  /\ rest \in Seq(Nat) /\ size \in Nat /\ size + 2 <= Len(rest)
             /\ tail[1] = s[n - 1] /\ tail[2] = s[n]
             /\ After(tail, 2) = After(s, n)
             /\ After(rest, size + 2) = After(s, n)
<1> DEFINE rest == After(s, 4)
           size == addrSize(rest, s[4])
           tail == After(rest, size)
<1>1. 4 \in 0..Len(s) OBVIOUS
<1>2. rest \in Seq(Nat) /\ Len(rest) = Len(s) - 4 /\ \A k \in 1..Len(s) - 4 : rest[k] = s[4 + k]
  BY <1>1, AfterIs
<1>3. size \in Nat BY <1>2, AddrSizeIsNat
<1>4. size + 2 <= Len(rest) /\ size \in 0..Len(rest) BY <1>2, <1>3
<1> HIDE DEF rest, size
<1>5. tail \in Seq(Nat) /\ Len(tail) = Len(rest) - size
      /\ \A k \in 1..Len(rest) - size : tail[k] = rest[size + k]
  BY <1>2, <1>4, AfterIs
<1>6. tail[1] = s[n - 1] /\ tail[2] = s[n]
  <2>1. n = size + 6 BY DEF size, rest
  <2>2. {1, 2} \subseteq 1..Len(rest) - size BY <1>2, <1>3, <1>4
  <2>3. tail[1] = rest[size + 1] /\ tail[2] = rest[size + 2] BY <1>5, <2>2
  <2>4. {size + 1, size + 2} \subseteq 1..Len(s) - 4 BY <1>2, <1>3, <1>4
  <2>5. rest[size + 1] = s[4 + (size + 1)] /\ rest[size + 2] = s[4 + (size + 2)]
    BY <1>2, <2>4
  <2>6. 4 + (size + 1) = n - 1 /\ 4 + (size + 2) = n BY <1>3, <2>1
  <2> QED BY <2>3, <2>5, <2>6
<1>7. After(rest, size + 2) = After(s, n)
  <2>1. n = 4 + (size + 2) BY <1>3 DEF size, rest
  <2>2. After(After(s, 4), size + 2) = After(s, 4 + (size + 2))
    BY <1>2, <1>3, <1>4, AfterAfter
  <2> QED BY <2>1, <2>2 DEF rest
<1>8. After(tail, 2) = After(rest, size + 2) BY <1>2, <1>3, <1>4, AfterAfter
<1> QED BY <1>2, <1>3, <1>4, <1>6, <1>7, <1>8 DEF size, rest

LEMMA SocksAsks ==
  ASSUME NEW s \in Seq(Nat), NEW n \in 0..Len(s), Len(s) >= 4, s[1] = 5, NEW h, NEW p
  PROVE  addrSize(After(s, 4), s[4]) + 6 = n /\ Asks(SubSeq(s, 1, n), h, p)
           => addrText(After(s, 4), s[4]) = h /\ 256 * s[n - 1] + s[n] = p
<1>a. SUFFICES ASSUME addrSize(After(s, 4), s[4]) + 6 = n, Asks(SubSeq(s, 1, n), h, p)
               PROVE  addrText(After(s, 4), s[4]) = h /\ 256 * s[n - 1] + s[n] = p
  OBVIOUS
<1> DEFINE t == SubSeq(s, 1, n)
           rest == After(s, 4)
           size == addrSize(rest, s[4])
<1>1. rest \in Seq(Nat) /\ size \in Nat /\ size + 2 <= Len(rest) BY <1>a, MessageTail
<1>2. Len(rest) = Len(s) - 4 /\ rest[1] = s[5] BY <1>1, AfterIs
<1>3. Len(t) = n /\ \A k \in 1..n : t[k] = s[k] BY PartIs
<1>4. n = size + 6 BY <1>a, <1>1
<1> HIDE DEF t, rest, size
<1>5. t[1] = 5 /\ t[4] = s[4] /\ t[n - 1] = s[n - 1] /\ t[n] = s[n] BY <1>1, <1>3, <1>4
<1>0. Asks(t, h, p) BY <1>a, Zenon DEF t
<1>6. p = 256 * s[n - 1] + s[n] BY <1>0, <1>3, <1>5 DEF Asks
<1>7. h = IF s[4] = 3 THEN SubSeq(t, 6, n - 2) ELSE Spelling[SubSeq(t, 5, n - 2)]
  BY <1>0, <1>3, <1>5 DEF Asks
<1>8. CASE s[4] = 3
  <2>1. rest # <<>> /\ rest[1] \in Nat
    BY <1>1, <1>2
  <2>2. size = 1 + rest[1]
    BY <1>8, <2>1 DEF size, addrSize, atypIPv4, atypIPv6, atypDomain
  <2>3. size >= 1 BY <2>1, <2>2
  <2>4. addrText(rest, s[4]) = SubSeq(rest, 2, size)
    BY <1>8, <2>2 DEF addrText, atypDomain
  <2>5. 6 \in Nat \ {0} /\ n - 2 \in Nat /\ 6 <= (n - 2) + 1 /\ n - 2 <= n
    BY <1>1, <1>4, <2>3
  <2>6. h = SubSeq(s, 6, n - 2) BY <1>7, <1>8, <2>5, PartOfPrefix DEF t
  <2>7. 4 \in 0..Len(s) /\ 2 \in Nat \ {0} /\ size \in 0..Len(s) - 4 /\ 2 <= size + 1
    BY <1>1, <1>2, <2>3
  <2>8. SubSeq(rest, 2, size) = SubSeq(s, 4 + 2, 4 + size) BY <2>7, PartOfAfter DEF rest
  <2>9. 4 + 2 = 6 /\ 4 + size = n - 2 BY <1>1, <1>4
  <2> QED BY <1>6, <2>4, <2>6, <2>8, <2>9 DEF rest
<1>9. CASE s[4] # 3
  <2>1. 5 \in Nat \ {0} /\ n - 2 \in Nat /\ 5 <= (n - 2) + 1 /\ n - 2 <= n
    BY <1>1, <1>4
  <2>2. h = Spelling[SubSeq(s, 5, n - 2)] BY <1>7, <1>9, <2>1, PartOfPrefix DEF t
  <2>3. 4 \in 0..Len(s) /\ 1 \in Nat \ {0} /\ size \in 0..Len(s) - 4 /\ 1 <= size + 1
    BY <1>1, <1>2
  <2>4. SubSeq(rest, 1, size) = SubSeq(s, 4 + 1, 4 + size) BY <2>3, PartOfAfter DEF rest
  <2>5. 4 + 1 = 5 /\ 4 + size = n - 2 BY <1>1, <1>4
  <2>6. addrText(rest, s[4]) = Spelling[SubSeq(rest, 1, size)]
    BY <1>9 DEF addrText, atypDomain, size
  <2> QED BY <1>6, <2>2, <2>4, <2>5, <2>6 DEF rest
<1> QED BY <1>8, <1>9

-----------------------------------------------------------------------------
(* What a client asks for, by its first byte.                               *)

LEMMA ClientTypes ==
  ASSUME NEW c \in Clients
  PROVE  /\ c.bytes \in Seq(Nat) /\ c.payload \in Seq(Nat) /\ c.target \in Seq(Nat)
         /\ c.host # NoHost => /\ c.host \in Texts /\ c.port \in 0..maxPort
                              /\ Encodes(c.target, c.host, c.port)
  BY ClientsAssumption, Zenon

LEMMA ClientRequest ==
  ASSUME NEW c \in Clients, c.host # NoHost
  PROVE  \E i, j \in 0..Len(c.bytes) :
           /\ RequestAt(c.bytes, i, j) /\ Asks(SubSeq(c.bytes, i + 1, j), c.host, c.port)
           /\ c.payload = After(c.bytes, j)
  BY ClientsAssumption, Zenon

LEMMA NoClientRequest ==
  ASSUME NEW c \in Clients, c.host = NoHost, NEW i \in 0..Len(c.bytes), NEW j \in 0..Len(c.bytes)
  PROVE  ~RequestAt(c.bytes, i, j)
  BY ClientsAssumption, Zenon

LEMMA ClientBegins ==
  ASSUME NEW c \in Clients, c.host # NoHost
  PROVE  c.bytes # <<>> /\ c.bytes[1] \in {5, 67}
<1>1. PICK i, j \in 0..Len(c.bytes) : RequestAt(c.bytes, i, j) BY ClientRequest, Zenon
<1> QED BY <1>1, ClientTypes, RequestBegins, Zenon

\* What is left of the bytes b of a SOCKS client behind its greeting.
Behind(b) == After(b, 2 + b[2])
SizeOf(r) == addrSize(After(r, 4), r[4])

GoodSocks(b) ==
  /\ Len(b) >= 2 /\ 2 + b[2] <= Len(b) /\ \E k \in 3..2 + b[2] : b[k] = 0
  /\ Len(Behind(b)) >= 4 /\ Behind(b)[1] = 5 /\ Behind(b)[2] = 1
  /\ SizeOf(Behind(b)) + 6 <= Len(Behind(b))

LEMMA BehindIs ==
  ASSUME NEW b \in Seq(Nat), Len(b) >= 2, 2 + b[2] <= Len(b)
  PROVE  /\ 2 + b[2] \in 0..Len(b) /\ Behind(b) \in Seq(Nat)
         /\ Len(Behind(b)) = Len(b) - (2 + b[2])
<1>1. b[2] \in Nat OBVIOUS
<1>2. 2 + b[2] \in 0..Len(b) BY <1>1
<1> QED BY <1>2, AfterIs DEF Behind

LEMMA SizeIsNat ==
  ASSUME NEW r \in Seq(Nat), Len(r) >= 4 PROVE SizeOf(r) \in Nat
<1>1. 4 \in 0..Len(r) OBVIOUS
<1> QED BY <1>1, AfterIs, AddrSizeIsNat DEF SizeOf

LEMMA SocksClient ==
  ASSUME NEW c \in Clients, c.bytes # <<>>, c.bytes[1] = 5
  PROVE  /\ c.host # NoHost <=> GoodSocks(c.bytes)
         /\ c.host # NoHost =>
              LET r == Behind(c.bytes)
                  tail == After(After(r, 4), SizeOf(r))
              IN  /\ addrText(After(r, 4), r[4]) = c.host
                  /\ 256 * tail[1] + tail[2] = c.port
                  /\ After(tail, 2) = c.payload
<1> DEFINE b == c.bytes
           r == Behind(b)
<1>1. b \in Seq(Nat) BY ClientTypes
<1>2. ASSUME c.host # NoHost
      PROVE  /\ GoodSocks(b)
             /\ addrText(After(r, 4), r[4]) = c.host
             /\ LET tail == After(After(r, 4), SizeOf(r)) IN
                256 * tail[1] + tail[2] = c.port /\ After(tail, 2) = c.payload
  <2>1. PICK i, j \in 0..Len(b) :
          /\ RequestAt(b, i, j) /\ Asks(SubSeq(b, i + 1, j), c.host, c.port)
          /\ c.payload = After(b, j)
    BY <1>2, ClientRequest, Zenon
  <2> HIDE DEF b, r
  <2>2. /\ Len(b) >= 2 /\ i = 2 + b[2] /\ \E k \in 3..2 + b[2] : b[k] = 0
        /\ LET q == After(b, i) IN
           Len(q) >= 4 /\ q[1] = 5 /\ q[2] = 1 /\ addrSize(After(q, 4), q[4]) + 6 = j - i
    BY <1>1, <2>1, SocksRequestAt, Zenon DEF b
  <2>3. r = After(b, i) BY <2>2 DEF r, Behind
  <2>4. Len(r) >= 4 /\ r[1] = 5 /\ r[2] = 1 /\ SizeOf(r) + 6 = j - i
    BY <2>2, <2>3, Zenon DEF SizeOf
  <2>5. r \in Seq(Nat) /\ Len(r) = Len(b) - i BY <1>1, <2>3, AfterIs
  <2>6. SizeOf(r) \in Nat BY <2>4, <2>5, SizeIsNat
  <2>7. j - i \in 0..Len(r) /\ 1 <= (j - i) + 1 /\ i + (j - i) = j /\ j - i \in 0..Len(b) - i
    BY <1>1, <2>4, <2>5, <2>6
  <2>8. GoodSocks(b)
    <3>1. i <= Len(b) /\ SizeOf(r) + 6 <= Len(r) BY <1>1, <2>4, <2>5, <2>7
    <3> QED BY <2>2, <2>4, <3>1 DEF GoodSocks, r
  <2>9. SubSeq(r, 1, j - i) = SubSeq(b, i + 1, j)
    <3>1. SubSeq(After(b, i), 1, j - i) = SubSeq(b, i + 1, i + (j - i))
      <4>1. 1 \in Nat \ {0} OBVIOUS
      <4> QED BY <1>1, <2>7, <4>1, PartOfAfter, Zenon
    <3> QED BY <2>3, <2>7, <3>1, Zenon
  <2>10. Asks(SubSeq(r, 1, j - i), c.host, c.port) BY <2>1, <2>9, Zenon
  <2>11. addrText(After(r, 4), r[4]) = c.host /\ 256 * r[(j - i) - 1] + r[j - i] = c.port
    <3>0. PICK n : n = j - i OBVIOUS
    <3>1. /\ n \in 0..Len(r) /\ addrSize(After(r, 4), r[4]) + 6 = n
          /\ Asks(SubSeq(r, 1, n), c.host, c.port)
      BY <2>4, <2>7, <2>10, <3>0, Zenon DEF SizeOf
    <3>2. addrText(After(r, 4), r[4]) = c.host /\ 256 * r[n - 1] + r[n] = c.port
      <4>1. r \in Seq(Nat) /\ Len(r) >= 4 /\ r[1] = 5 BY <2>4, <2>5, Zenon
      <4>2. \A h, p : addrSize(After(r, 4), r[4]) + 6 = n /\ Asks(SubSeq(r, 1, n), h, p)
              => addrText(After(r, 4), r[4]) = h /\ 256 * r[n - 1] + r[n] = p
        <5>1. n \in 0..Len(r) BY <3>1, Zenon
        <5> QED BY <4>1, <5>1, SocksAsks, Zenon
      <4> QED BY <3>1, <4>2, Zenon
    <3> QED BY <3>0, <3>2, Zenon
  <2>12. LET tail == After(After(r, 4), SizeOf(r)) IN
           tail[1] = r[(j - i) - 1] /\ tail[2] = r[j - i] /\ After(tail, 2) = After(r, j - i)
    BY <2>4, <2>5, <2>7, MessageTail, Zenon DEF SizeOf
  <2>13. After(r, j - i) = After(b, j)
    <3>1. i \in Nat /\ j - i \in Nat /\ i + (j - i) <= Len(b) BY <2>7
    <3>2. After(After(b, i), j - i) = After(b, i + (j - i)) BY <1>1, <3>1, AfterAfter
    <3> QED BY <2>3, <2>7, <3>2, Zenon
  <2> QED BY <2>1, <2>8, <2>11, <2>12, <2>13
<1>3. ASSUME GoodSocks(b) PROVE c.host # NoHost
  <2> DEFINE i == 2 + b[2]
             j == i + (SizeOf(r) + 6)
  <2> HIDE DEF b, r
  <2>1. i \in 0..Len(b) /\ r \in Seq(Nat) /\ Len(r) = Len(b) - i /\ r = After(b, i)
    BY <1>1, <1>3, BehindIs DEF GoodSocks, r, Behind
  <2>2. SizeOf(r) \in Nat BY <1>3, <2>1, SizeIsNat DEF GoodSocks, r
  <2>3. SizeOf(r) + 6 <= Len(r) BY <1>3 DEF GoodSocks, r
  <2> HIDE DEF i
  <2>4. j \in 0..Len(b) /\ j - i = SizeOf(r) + 6
    <3> DEFINE z == SizeOf(r)
    <3>1. i \in Nat /\ Len(b) \in Nat /\ z \in Nat /\ Len(r) = Len(b) - i /\ z + 6 <= Len(r)
      BY <1>1, <2>1, <2>2, <2>3
    <3> HIDE DEF z
    <3>2. i + (z + 6) \in 0..Len(b) /\ (i + (z + 6)) - i = z + 6 BY <3>1
    <3> QED BY <3>2, Zenon DEF z, j
  <2> HIDE DEF j
  <2>5. addrSize(After(r, 4), r[4]) + 6 = j - i BY <2>4 DEF SizeOf
  <2>6. RequestAt(b, i, j)
    <3>1. /\ b # <<>> /\ b[1] = 5 /\ Len(b) >= 2 /\ i = 2 + b[2]
          /\ \E k \in 3..2 + b[2] : b[k] = 0
      BY <1>3, Zenon DEF GoodSocks, i, b
    <3>2. Len(r) >= 4 /\ r[1] = 5 /\ r[2] = 1 BY <1>3 DEF GoodSocks, r
    <3>3. LET q == After(b, i) IN
          Len(q) >= 4 /\ q[1] = 5 /\ q[2] = 1 /\ addrSize(After(q, 4), q[4]) + 6 = j - i
      BY <2>1, <2>5, <3>2, Zenon
    <3> QED BY <1>1, <2>1, <2>4, <3>1, <3>3, SocksRequestAt, Zenon
  <2> QED BY <2>1, <2>4, <2>6, NoClientRequest, Zenon DEF b
<1> QED BY <1>2, <1>3, Zenon DEF b, r

GoodConnect(b) == Len(b) >= 2 /\ 3 + b[2] <= Len(b) /\ b[3 + b[2]] \in 1..maxPort

LEMMA HTTPClient ==
  ASSUME NEW c \in Clients, c.bytes # <<>>, c.bytes[1] = 67
  PROVE  /\ c.host # NoHost <=> GoodConnect(c.bytes)
         /\ c.host # NoHost =>
              /\ SubSeq(c.bytes, 3, 2 + c.bytes[2]) = c.host
              /\ c.bytes[3 + c.bytes[2]] = c.port
              /\ After(c.bytes, 3 + c.bytes[2]) = c.payload
<1> DEFINE b == c.bytes
           j == 3 + b[2]
<1>1. b \in Seq(Nat) BY ClientTypes
<1>2. ASSUME c.host # NoHost
      PROVE  /\ GoodConnect(b) /\ SubSeq(b, 3, 2 + b[2]) = c.host
             /\ b[j] = c.port /\ After(b, j) = c.payload
  <2>1. PICK i, k \in 0..Len(b) :
          /\ RequestAt(b, i, k) /\ Asks(SubSeq(b, i + 1, k), c.host, c.port)
          /\ c.payload = After(b, k)
    BY <1>2, ClientRequest, Zenon
  <2> HIDE DEF b
  <2>2. i = 0 /\ Len(b) >= 2 /\ k = 3 + b[2] /\ b[3 + b[2]] \in 1..maxPort
    BY <1>1, <2>1, HTTPRequestAt, Zenon DEF b
  <2>3. b[2] \in Nat /\ i + 1 = 1 BY <1>1, <2>2
  <2>4. Asks(SubSeq(b, 1, k), c.host, c.port) BY <2>1, <2>3, Zenon
  <2> DEFINE s == SubSeq(b, 1, k)
  <2>5. Len(s) = k /\ \A n \in 1..k : s[n] = b[n] BY <1>1, PartIs
  <2> HIDE DEF s
  <2>6. 1 \in 1..k /\ k \in 1..k BY <2>2, <2>3
  <2>7. s[1] = 67 /\ s[k] = b[k]
    BY <2>5, <2>6 DEF b
  <2>8. Asks(s, c.host, c.port) BY <2>4, Zenon DEF s
  <2>9. c.host = SubSeq(s, 3, k - 1) /\ c.port = s[k] BY <2>5, <2>7, <2>8 DEF Asks
  <2>10. k - 1 = 2 + b[2] /\ 3 \in Nat \ {0} /\ k - 1 \in Nat /\ 3 <= (k - 1) + 1 /\ k - 1 <= k
    BY <2>2, <2>3
  <2>11. SubSeq(s, 3, k - 1) = SubSeq(b, 3, k - 1) BY <1>1, <2>10, PartOfPrefix DEF s
  <2>12. GoodConnect(b) BY <1>1, <2>2 DEF GoodConnect
  <2> QED BY <2>1, <2>2, <2>7, <2>9, <2>10, <2>11, <2>12
<1>3. ASSUME GoodConnect(b) PROVE c.host # NoHost
  <2> HIDE DEF b
  <2>1. b[2] \in Nat BY <1>1, <1>3 DEF GoodConnect
  <2>2. 0 \in 0..Len(b) /\ j \in 0..Len(b) BY <1>1, <1>3, <2>1 DEF GoodConnect
  <2>3. RequestAt(b, 0, j) BY <1>1, <1>3, <2>2, HTTPRequestAt, Zenon DEF GoodConnect, b
  <2> QED BY <2>2, <2>3, NoClientRequest, Zenon DEF b
<1> QED BY <1>2, <1>3, Zenon DEF b

\* A first byte that is neither SOCKS5 nor a C(ONNECT).
LEMMA OtherClient ==
  ASSUME NEW c \in Clients, c.bytes = <<>> \/ c.bytes[1] \notin {5, 67}
  PROVE  c.host = NoHost
  BY ClientBegins, Zenon

LEMMA PairOf ==
  ASSUME NEW s \in Seq(Nat), NEW m \in Nat \ {0}, m + 1 <= Len(s)
  PROVE  SubSeq(s, m, m + 1) = <<s[m], s[m + 1]>>
<1>1. m \in 1..Len(s) + 1 /\ m + 1 \in 0..Len(s) /\ m \in 1..Len(s) /\ m + 1 \in 1..Len(s)
  OBVIOUS
<1>2. s[m] \in Nat /\ s[m + 1] \in Nat BY <1>1, ElementOfSeq
<1> DEFINE q == SubSeq(s, m, m + 1)
<1>3. q \in Seq(Nat) /\ Len(q) = 2 /\ \A k \in 1..2 : q[k] = s[m + k - 1]
  <2>1. (m + 1) - m + 1 = 2 /\ m <= m + 1 OBVIOUS
  <2> QED BY <1>1, <2>1, PartIs
<1> HIDE DEF q
<1>4. q[1] = s[m] /\ q[2] = s[m + 1]
  <2>1. q[1] = s[m + 1 - 1] /\ q[2] = s[m + 2 - 1] BY <1>3
  <2>2. m + 1 - 1 = m /\ m + 2 - 1 = m + 1 OBVIOUS
  <2> QED BY <2>1, <2>2
<1>5. q = <<s[m], s[m + 1]>> BY <1>2, <1>3, <1>4
<1> QED BY <1>5 DEF q

LEMMA LastTwo ==
  ASSUME NEW t \in Seq(Nat), Len(t) >= 2
  PROVE  t = SubSeq(t, 1, Len(t) - 2) \o <<t[Len(t) - 1], t[Len(t)]>>
<1> DEFINE n == Len(t)
<1>0. n \in Nat /\ n >= 2 OBVIOUS
<1> HIDE DEF n
<1>1. /\ 1 \in 1..n + 1 /\ n - 2 \in 1 - 1..n /\ n \in n - 2..n
      /\ n - 1 \in Nat \ {0} /\ (n - 2) + 1 = n - 1 /\ (n - 1) + 1 = n
  BY <1>0
<1>2. SubSeq(t, 1, n - 2) \o SubSeq(t, (n - 2) + 1, n) = SubSeq(t, 1, n)
  BY <1>1, ConcatAdjacentSubSeq DEF n
<1>3. SubSeq(t, n - 1, (n - 1) + 1) = <<t[n - 1], t[(n - 1) + 1]>>
  <2>1. (n - 1) + 1 <= Len(t) BY <1>1 DEF n
  <2> QED BY <1>1, <2>1, PairOf
<1>4. SubSeq(t, 1, n) = t BY SubSeqFull DEF n
<1> QED BY <1>1, <1>2, <1>3, <1>4, Zenon DEF n

\* What the code puts together for a host is what a client means by it.
LEMMA TargetIs ==
  ASSUME NEW t \in Seq(Nat), NEW h \in Texts, NEW p, Encodes(t, h, p)
  PROVE  t = encodeAddr(h) \o <<p \div 256, p % 256>>
<1> DEFINE a == SubSeq(t, 1, Len(t) - 2)
<1>1. /\ IsAddr(a)
      /\ IF h \in DOMAIN Literal THEN a[1] # 3 /\ Tail(a) = Literal[h]
                                 ELSE a[1] = 3 /\ SubSeq(a, 3, Len(a)) = h
      /\ t[Len(t) - 1] = p \div 256 /\ t[Len(t)] = p % 256
  BY Zenon DEF Encodes
<1>2. Len(t) \in Nat /\ Len(t) >= 2
  <2>1. ASSUME Len(t) < 3 PROVE FALSE
    <3>1. a = <<>> BY <2>1, SubSeqEmpty
    <3> HIDE DEF a
    <3>2. Len(a) = 0 BY <3>1
    <3> QED BY <1>1, <3>2 DEF IsAddr
  <2> QED BY <2>1
<1>3. a \in Seq(Nat) /\ Len(a) = Len(t) - 2
  <2> DEFINE n == Len(t) - 2
  <2>1. 1 \in 1..Len(t) + 1 /\ n \in 0..Len(t) BY <1>2
  <2> HIDE DEF n
  <2>2. SubSeq(t, 1, n) \in Seq(Nat) /\ Len(SubSeq(t, 1, n)) = IF 1 <= n THEN n - 1 + 1 ELSE 0
    BY <2>1, PartIs
  <2>3. Len(SubSeq(t, 1, n)) = n BY <1>2, <2>1, <2>2
  <2> QED BY <2>2, <2>3 DEF n
<1>4. t = a \o <<p \div 256, p % 256>> BY <1>1, <1>2, LastTwo
<1> HIDE DEF a
<1>5. a # <<>> /\ Len(a) >= 1 BY <1>1, <1>3 DEF IsAddr
<1>6. a = encodeAddr(h)
  <2>1. CASE h \in DOMAIN Literal
    <3>1. Literal[h] \in Addresses /\ (Len(Literal[h]) = 4 <=> Literal[h] \in IPv4)
      BY <2>1, RoutingAssumption, RequestAssumption
    <3>2. Len(Literal[h]) = Len(a) - 1 BY <1>1, <1>3, <1>5, <2>1, HeadTailProperties
    <3>3. a[1] = IF Literal[h] \in IPv4 THEN 1 ELSE 4
      <4>1. IsAddr(a) /\ a[1] # 3 BY <1>1, <2>1
      <4>2. (Len(a) = 5 /\ a[1] = 1) \/ (Len(a) = 17 /\ a[1] = 4) BY <4>1 DEF IsAddr
      <4>3. Len(a) = 5 <=> Literal[h] \in IPv4 BY <1>3, <3>1, <3>2
      <4>4. CASE Len(a) = 5 BY <4>2, <4>3, <4>4
      <4>5. CASE Len(a) # 5 BY <4>2, <4>3, <4>5
      <4> QED BY <4>4, <4>5
    <3>4. a = <<a[1]>> \o Tail(a)
      <4>1. 1 \in 1..Len(a) /\ Len(a) \in 1..Len(a) BY <1>3, <1>5
      <4>2. SubSeq(a, 1, Len(a)) = <<a[1]>> \o SubSeq(a, 1 + 1, Len(a))
        BY <1>3, <4>1, SubSeqRecursiveFirst
      <4>3. SubSeq(a, 1, Len(a)) = a /\ Tail(a) = SubSeq(a, 2, Len(a))
        BY <1>3, <1>5, SubSeqFull, TailIsSubSeq
      <4> QED BY <4>2, <4>3
    <3> QED BY <1>1, <2>1, <3>3, <3>4 DEF encodeAddr, atypIPv4, atypIPv6
  <2>2. CASE h \notin DOMAIN Literal
    <3>1. a[1] = 3 /\ SubSeq(a, 3, Len(a)) = h /\ Len(a) >= 2 /\ Len(a) = 2 + a[2]
      BY <1>1, <2>2 DEF IsAddr
    <3>2. Len(h) = a[2]
      <4>1. a[2] \in Nat
        <5>1. 2 \in 1..Len(a) BY <1>3, <3>1
        <5> QED BY <1>3, <5>1, ElementOfSeq
      <4>2. Len(a) \in Nat /\ 3 \in 1..Len(a) + 1 /\ Len(a) \in 0..Len(a) BY <1>3, <3>1
      <4>3. Len(SubSeq(a, 3, Len(a))) = IF 3 <= Len(a) THEN Len(a) - 3 + 1 ELSE 0
        BY <1>3, <4>2, PartIs
      <4>4. Len(SubSeq(a, 3, Len(a))) = a[2] BY <3>1, <4>1, <4>2, <4>3
      <4> QED BY <3>1, <4>4
    <3>3. a = <<a[1], a[2]>> \o SubSeq(a, 3, Len(a))
      <4>1. 1 \in 1..Len(a) + 1 /\ 2 \in 1 - 1..Len(a) /\ Len(a) \in 2..Len(a) BY <1>3, <3>1
      <4>2. SubSeq(a, 1, 2) \o SubSeq(a, 2 + 1, Len(a)) = SubSeq(a, 1, Len(a))
        BY <1>3, <4>1, ConcatAdjacentSubSeq
      <4>3. SubSeq(a, 1, 2) = <<a[1], a[2]>>
        <5>1. 1 \in Nat \ {0} /\ 1 + 1 = 2 /\ 1 + 1 <= Len(a) BY <3>1
        <5> QED BY <1>3, <5>1, PairOf
      <4>4. SubSeq(a, 1, Len(a)) = a BY <1>3, SubSeqFull
      <4> QED BY <4>2, <4>3, <4>4
    <3> QED BY <2>2, <3>1, <3>2, <3>3 DEF encodeAddr, atypDomain
  <2> QED BY <2>1, <2>2
<1> QED BY <1>4, <1>6

LEMMA ServerTypes ==
  ASSUME NEW s \in Servers
  PROVE  /\ s.bytes \in Seq(Nat) /\ s.payload \in Seq(Nat)
         /\ s.code # NoCode => s.code \in 0..255 /\ Len(s.bytes) >= 2
                               /\ SubSeq(s.bytes, 1, 2) = <<5, 0>>
         /\ \A k \in 1..Len(s.bytes) : s.bytes[k] \in 0..255
<1>1. s.bytes \in Seq(0..255) /\ s.payload \in Seq(Nat) BY ServersAssumption, Zenon
<1>2. s.bytes \in Seq(Nat)
  <2>1. 0..255 \subseteq Nat OBVIOUS
  <2> QED BY <1>1, <2>1, SeqMonotonic
<1>3. \A k \in 1..Len(s.bytes) : s.bytes[k] \in 0..255 BY <1>1, ElementOfSeq, Zenon
<1>4. ASSUME s.code # NoCode
      PROVE  s.code \in 0..255 /\ Len(s.bytes) >= 2 /\ SubSeq(s.bytes, 1, 2) = <<5, 0>>
  <2>1. /\ s.code \in 0..255 /\ SubSeq(s.bytes, 1, 2) = <<5, 0>>
        /\ \E n \in 2..Len(s.bytes) : IsMessage(SubSeq(s.bytes, 3, n), s.code)
    BY <1>4, ServersAssumption, Zenon
  <2>2. 2 <= Len(s.bytes) BY <1>2, <2>1
  <2> QED BY <2>1, <2>2
<1> QED BY <1>1, <1>2, <1>3, <1>4

\* The reply of an ssh -D behind its greeting, as UpRefuses and UpReply see it.
LEMMA ServerReply ==
  ASSUME NEW s \in Servers, Len(s.bytes) >= 2, SubSeq(s.bytes, 1, 2) = <<5, 0>>
  PROVE  LET r == After(s.bytes, 2) IN
         /\ r \in Seq(Nat)
         /\ Len(r) >= 4 => r[2] \in 0..255
         /\ s.code = NoCode => ~(Len(r) >= 4 /\ r[2] = 0 /\ SizeOf(r) + 6 <= Len(r))
         /\ s.code # NoCode => /\ Len(r) >= 4 /\ r[2] = s.code /\ SizeOf(r) + 6 <= Len(r)
                               /\ After(After(r, 4), SizeOf(r) + 2) = s.payload
<1> DEFINE b == s.bytes
           r == After(b, 2)
<1>1. b \in Seq(Nat) /\ Len(b) \in Nat /\ \A k \in 1..Len(b) : b[k] \in 0..255 BY ServerTypes
<1>2. r \in Seq(Nat) /\ Len(r) = Len(b) - 2 /\ \A k \in 1..Len(b) - 2 : r[k] = b[2 + k]
  <2>1. 2 \in 0..Len(b) BY <1>1
  <2> QED BY <1>1, <2>1, AfterIs
<1> HIDE DEF b, r
<1>3. ASSUME Len(r) >= 4 PROVE r[2] \in 0..255
  <2>1. 2 \in 1..Len(b) - 2 /\ 2 + 2 \in 1..Len(b) BY <1>1, <1>2, <1>3
  <2>2. r[2] = b[2 + 2] BY <1>2, <2>1, Zenon
  <2> QED BY <1>1, <2>1, <2>2, Zenon
<1>4. ASSUME NEW n \in 2..Len(b), NEW code
      PROVE  IsMessage(SubSeq(b, 3, n), code)
               <=> Len(r) >= 4 /\ r[2] = code /\ SizeOf(r) + 6 = n - 2
  <2> DEFINE m == n - 2
  <2>1. /\ 2 \in 0..Len(b) /\ 1 \in Nat \ {0} /\ m \in 0..Len(b) - 2 /\ 1 <= m + 1
        /\ 2 + 1 = 3 /\ 2 + m = n /\ m \in 0..Len(r)
    BY <1>1, <1>2
  <2> HIDE DEF m
  <2>2. SubSeq(r, 1, m) = SubSeq(b, 2 + 1, 2 + m) BY <1>1, <2>1, PartOfAfter, Zenon DEF r
  <2>3. SubSeq(r, 1, m) = SubSeq(b, 3, n) BY <2>1, <2>2, Zenon
  <2>4. IsMessage(SubSeq(r, 1, m), code) <=>
          Len(r) >= 4 /\ r[2] = code /\ addrSize(After(r, 4), r[4]) + 6 = m
    BY <1>2, <2>1, MessageSize, Zenon
  <2> QED BY <2>3, <2>4, Zenon DEF SizeOf, m
<1>5. ASSUME s.code = NoCode, Len(r) >= 4, r[2] = 0, SizeOf(r) + 6 <= Len(r) PROVE FALSE
  <2> DEFINE n == SizeOf(r) + 8
  <2>1. SizeOf(r) \in Nat BY <1>2, <1>5, SizeIsNat
  <2>2. n \in 2..Len(b) /\ SizeOf(r) + 6 = n - 2
    <3> DEFINE z == SizeOf(r)
    <3>1. z \in Nat /\ Len(b) \in Nat /\ Len(r) = Len(b) - 2 /\ z + 6 <= Len(r)
      BY <1>1, <1>2, <1>5, <2>1
    <3> HIDE DEF z
    <3>2. z + 8 \in 2..Len(b) /\ z + 6 = (z + 8) - 2 BY <3>1
    <3> QED BY <3>2, Zenon DEF z, n
  <2> HIDE DEF n
  <2>3. IsMessage(SubSeq(b, 3, n), 0) BY <1>4, <1>5, <2>2, Zenon
  <2>4. SubSeq(b, 1, 2) = <<5, 0>> BY DEF b
  <2>5. ~(SubSeq(b, 1, 2) = <<5, 0>> /\ IsMessage(SubSeq(b, 3, n), 0))
    BY <1>5, <2>2, ServersAssumption, Zenon DEF b
  <2> QED BY <2>3, <2>4, <2>5, Zenon
<1>6. ASSUME s.code # NoCode
      PROVE  /\ Len(r) >= 4 /\ r[2] = s.code /\ SizeOf(r) + 6 <= Len(r)
             /\ After(After(r, 4), SizeOf(r) + 2) = s.payload
  <2>1. PICK n \in 2..Len(b) :
          IsMessage(SubSeq(b, 3, n), s.code) /\ s.payload = After(b, n)
    BY <1>6, ServersAssumption, Zenon DEF b
  <2> DEFINE m == n - 2
  <2>2. Len(r) >= 4 /\ r[2] = s.code /\ SizeOf(r) + 6 = m BY <1>4, <2>1, Zenon
  <2>3. m \in 0..Len(r) /\ m \in Nat /\ 2 + m = n /\ 2 + m <= Len(b) BY <1>1, <1>2
  <2>4. SizeOf(r) \in Nat BY <1>2, <2>2, SizeIsNat
  <2> HIDE DEF m
  <2>5. SizeOf(r) + 6 <= Len(r) BY <1>2, <2>2, <2>3
  <2>6. After(After(r, 4), SizeOf(r) + 2) = After(r, m)
    <3>1. addrSize(After(r, 4), r[4]) + 6 = m BY <2>2 DEF SizeOf
    <3> QED BY <1>2, <2>2, <2>3, <3>1, MessageTail, Zenon DEF SizeOf
  <2>7. After(r, m) = After(b, n)
    <3>1. 2 \in Nat OBVIOUS
    <3>2. After(After(b, 2), m) = After(b, 2 + m) BY <1>1, <2>3, <3>1, AfterAfter, Zenon
    <3> QED BY <2>3, <3>2, Zenon DEF r
  <2> QED BY <2>1, <2>2, <2>5, <2>6, <2>7, Zenon
<1> QED BY <1>2, <1>3, <1>5, <1>6, Zenon DEF r, b

LEMMA TextIsSeq ==
  ASSUME NEW s \in Seq(0..255) PROVE s \in Seq(Nat)
<1>1. 0..255 \subseteq Nat OBVIOUS
<1> QED BY <1>1, SeqMonotonic

LEMMA EncodeAddrIsSeq ==
  ASSUME NEW h \in Texts PROVE encodeAddr(h) \in Seq(Nat)
<1>1. h \in Seq(0..255) /\ h \in Seq(Nat) BY RequestAssumption, TextIsSeq, Zenon
<1>2. CASE h \in DOMAIN Literal
  <2>1. Literal[h] \in Seq(0..255) BY <1>2, RoutingAssumption, RequestAssumption, Zenon
  <2>2. Literal[h] \in Seq(Nat) BY <2>1, TextIsSeq
  <2>3. <<1>> \in Seq(Nat) /\ <<4>> \in Seq(Nat) OBVIOUS
  <2>4. <<IF Literal[h] \in IPv4 THEN 1 ELSE 4>> \in Seq(Nat) OBVIOUS
  <2>5. <<IF Literal[h] \in IPv4 THEN 1 ELSE 4>> \o Literal[h] \in Seq(Nat)
    BY <2>2, <2>4, ConcatProperties
  <2> QED BY <1>2, <2>5, Zenon DEF encodeAddr, atypIPv4, atypIPv6
<1>3. CASE h \notin DOMAIN Literal
  <2>1. <<3, Len(h)>> \in Seq(Nat) BY <1>1
  <2>2. <<3, Len(h)>> \o h \in Seq(Nat) BY <1>1, <2>1, ConcatProperties
  <2> QED BY <1>3, <2>2, Zenon DEF encodeAddr, atypDomain
<1> QED BY <1>2, <1>3

LEMMA ReplyIsSeq ==
  ASSUME NEW code \in Nat PROVE socksReply(code) \in Seq(Nat)
  BY DEF socksReply, socksVersion, atypIPv4

LEMMA HelloIsSeq == Hello \in Seq(Nat)
  BY DEF Hello, socksVersion, methodNoAuth

\* One byte further along: nothing is lost between the two streams.
LEMMA ByteMoves ==
  ASSUME NEW u \in Seq(Nat), NEW s \in Seq(Nat), s # <<>>
  PROVE  /\ Head(s) \in Nat /\ Tail(s) \in Seq(Nat)
         /\ u \o <<Head(s)>> \in Seq(Nat)
         /\ Append(u, Head(s)) = u \o <<Head(s)>>
         /\ (u \o <<Head(s)>>) \o Tail(s) = u \o s
<1>1. Head(s) \in Nat /\ Tail(s) \in Seq(Nat) BY HeadTailProperties
<1>2. Append(u, Head(s)) = u \o <<Head(s)>> BY <1>1, AppendIsConcat
<1>3. <<Head(s)>> \in Seq(Nat) BY <1>1
<1>4. <<Head(s)>> \o Tail(s) = s
  <2>1. 1 \in 1..Len(s) /\ Len(s) \in 1..Len(s) OBVIOUS
  <2>2. SubSeq(s, 1, Len(s)) = <<s[1]>> \o SubSeq(s, 1 + 1, Len(s))
    BY <2>1, SubSeqRecursiveFirst
  <2>3. SubSeq(s, 1, Len(s)) = s /\ Tail(s) = SubSeq(s, 2, Len(s)) /\ Head(s) = s[1]
    BY SubSeqFull, TailIsSubSeq
  <2> QED BY <2>2, <2>3
<1>5. (u \o <<Head(s)>>) \o Tail(s) = u \o (<<Head(s)>> \o Tail(s))
  BY <1>1, <1>3, ConcatAssociative
<1>6. u \o <<Head(s)>> \in Seq(Nat) BY <1>3, ConcatProperties
<1> QED BY <1>1, <1>2, <1>4, <1>5, <1>6, Zenon

-----------------------------------------------------------------------------
(* The stages of a connection.                                              *)

\* The greeting among the bytes b is complete and offers "no auth".
GoodGreeting(b) == Len(b) >= 2 /\ 2 + b[2] <= Len(b) /\ \E k \in 3..2 + b[2] : b[k] = 0

\* What has gone to an ssh -D once it has been asked, and to a client once it
\* has been answered: one that is lost never is.
Asked    == IF via = NoRoute THEN <<>> ELSE <<5, 1, 0, 5, 1, 0>> \o client.target
Answered == Hello \o (IF lost THEN <<>> ELSE success)

\* The request has been read, as the client means it, and nothing beyond it.
Ready == /\ client.host # NoHost /\ host = client.host /\ port = client.port
         /\ in = client.payload /\ out = Hello

Refusal(code) == Hello \o (IF IsSocks THEN socksReply(code) ELSE <<502>>)

Refused ==
  /\ \E code \in 1..255 : out = Refusal(code)
  /\ Len(upOut) > 3 => server.code # 0
  /\ Len(upOut) > 3 /\ IsSocks /\ server.code # NoCode => out = Hello \o socksReply(server.code)

\* How a connection ends that had a request and is not relayed.
Finished == IF lost THEN out \in {<<>>, Hello} ELSE Refused

\* Where the streams are at each stage of a connection.
StageInv ==
  /\ pc \in {"first", "request", "dial", "dialling"} => upOut = <<>>
  /\ pc \in {"first", "request", "dial"} => via = NoRoute
  /\ pc = "first" => in = client.bytes /\ out = <<>>
  /\ pc = "request" =>
       IsSocks /\ out = Hello /\ GoodGreeting(client.bytes) /\ in = Behind(client.bytes)
  /\ pc \in {"dial", "dialling", "upGreeting", "upReply", "answer"} => Ready
  /\ pc \in {"upGreeting", "upReply"} => via # NoRoute
  /\ pc = "upGreeting" => upIn = server.bytes /\ upOut = <<5, 1, 0>>
  /\ pc \in {"upReply", "answer"} => upOut = Asked
  /\ pc = "upReply" => /\ Len(server.bytes) >= 2 /\ SubSeq(server.bytes, 1, 2) = <<5, 0>>
                       /\ upIn = After(server.bytes, 2)
  /\ pc = "answer" => upIn = server.payload
  /\ pc = "relay" => /\ client.host # NoHost /\ host = client.host /\ port = client.port
                     /\ upOut \o in = Asked \o client.payload
                     /\ out \o upIn = Answered \o server.payload
                     /\ lost => IsSocks
  /\ pc = "closed" /\ client.host # NoHost => Finished

LEMMA Streams ==
  TypeOK => /\ client \in Clients /\ server \in Servers
            /\ in \in Seq(Nat) /\ out \in Seq(Nat) /\ upIn \in Seq(Nat) /\ upOut \in Seq(Nat)
            /\ host \in Texts
  BY DEF TypeOK

LEMMA SameClient ==
  client' = client => /\ (IsSocks <=> IsSocks') /\ Hello' = Hello
                      /\ (via' = via => Asked' = Asked)
                      /\ (peer' = peer => Answered' = Answered)
  BY Zenon DEF IsSocks, Hello, Asked, Answered, lost, success, socksReply

LEMMA SocksGreeting == IsSocks => Hello = <<5, 0>>
  BY DEF Hello, socksVersion, methodNoAuth

LEMMA PlainHello == ~IsSocks => Hello = <<>>
  BY DEF Hello

\* What is left of a stream is one.
LEMMA AfterSize ==
  ASSUME NEW s \in Seq(Nat), NEW n \in Nat, n <= Len(s)
  PROVE  After(s, n) \in Seq(Nat)
  BY AfterIs

\* A client the code turns away before it has a request had none.
LEMMA NothingAsked ==
  ASSUME client \in Clients,
         \/ client.bytes = <<>>
         \/ client.bytes # <<>> /\ client.bytes[1] = 5 /\ ~GoodSocks(client.bytes)
         \/ client.bytes # <<>> /\ client.bytes[1] = 67 /\ ~GoodConnect(client.bytes)
         \/ client.bytes # <<>> /\ client.bytes[1] \notin {5, 67}
  PROVE  client.host = NoHost
<1>1. CASE client.bytes = <<>> BY <1>1, OtherClient, Zenon
<1>2. CASE client.bytes # <<>> /\ client.bytes[1] = 5 /\ ~GoodSocks(client.bytes)
  BY <1>2, SocksClient, Zenon
<1>3. CASE client.bytes # <<>> /\ client.bytes[1] = 67 /\ ~GoodConnect(client.bytes)
  BY <1>3, HTTPClient, Zenon
<1>4. CASE client.bytes # <<>> /\ client.bytes[1] \notin {5, 67}
  BY <1>4, OtherClient, Zenon
<1> QED BY <1>1, <1>2, <1>3, <1>4, Zenon

LEMMA InitStage == Init => TypeOK /\ StageInv
<1> SUFFICES ASSUME Init PROVE TypeOK /\ StageInv OBVIOUS
<1>1. client.bytes \in Seq(Nat) BY ClientTypes, Zenon DEF Init
<1>2. <<>> \in Texts /\ <<>> \in Seq(Nat) BY RequestAssumption
<1>3. needed \in UNION {[known -> BOOLEAN] : known \in SUBSET Names} BY DEF Init
<1>4. 0 \in 0..maxPort BY DEF maxPort
<1>5. TypeOK BY <1>1, <1>2, <1>3, <1>4 DEF Init, TypeOK
<1>6. StageInv BY DEF Init, StageInv
<1> QED BY <1>5, <1>6

LEMMA Unmoved ==
  ASSUME StageInv, UNCHANGED <<local, server, in, out, upIn, upOut, pc>>
  PROVE  StageInv'
<1>1. /\ client' = client /\ server' = server /\ in' = in /\ out' = out /\ upIn' = upIn
      /\ upOut' = upOut /\ host' = host /\ port' = port /\ via' = via /\ pc' = pc
      /\ peer' = peer
  BY Zenon DEF local
<1>2. /\ (IsSocks <=> IsSocks') /\ Hello' = Hello /\ Asked' = Asked /\ Answered' = Answered
  BY <1>1, SameClient, Zenon
<1>3. (Ready <=> Ready') BY <1>1, <1>2, Zenon DEF Ready
<1>4. (Refused <=> Refused')
  <2>1. \A code : Refusal(code)' = Refusal(code) BY <1>2, Zenon DEF Refusal, socksReply
  <2>2. (\E code \in 1..255 : out = Refusal(code)) <=> (\E code \in 1..255 : out' = Refusal(code)')
    BY <1>1, <2>1, Zenon
  <2>3. (Hello \o socksReply(server.code))' = Hello \o socksReply(server.code)
    BY <1>1, <1>2, Zenon DEF socksReply
  <2> QED BY <1>1, <1>2, <2>2, <2>3, Zenon DEF Refused
<1>5. (lost <=> lost') /\ (Finished <=> Finished')
  BY <1>1, <1>2, <1>4, Zenon DEF Finished, lost
<1> QED BY <1>1, <1>2, <1>3, <1>5, Zenon DEF StageInv

LEMMA UpdateStep ==
  ASSUME TypeOK, StageInv, Update PROVE TypeOK' /\ StageInv'
<1>1. needed' \in UNION {[known -> BOOLEAN] : known \in SUBSET Names} BY DEF Update
<1>2. TypeOK' BY <1>1, Zenon DEF TypeOK, Update, local
<1>3. StageInv' BY Unmoved, Zenon DEF Update
<1> QED BY <1>2, <1>3

\* The end of a connection that is not relayed.
LEMMA Closes ==
  ASSUME TypeOK, UNCHANGED <<needed, local, server, in, upIn, upOut>>,
         pc' = "closed", out' \in Seq(Nat), client.host # NoHost => Finished'
  PROVE  TypeOK' /\ StageInv'
<1>1. client' = client BY DEF local
<1>2. TypeOK' BY DEF TypeOK, local
<1>3. StageInv' BY <1>1 DEF StageInv
<1> QED BY <1>2, <1>3

LEMMA LoseStep ==
  ASSUME TypeOK, StageInv, Lose PROVE TypeOK' /\ StageInv'
<1>1. /\ UNCHANGED <<needed, client, host, port, via, server, in, out, upIn, upOut, pc>>
      /\ peer' = "gone" /\ pc \notin {"relay", "closed"}
  BY DEF Lose
<1>2. TypeOK' BY <1>1 DEF TypeOK
<1>3. (IsSocks <=> IsSocks') /\ Hello' = Hello /\ Asked' = Asked BY <1>1, SameClient, Zenon
<1>4. Ready <=> Ready' BY <1>1, <1>3, Zenon DEF Ready
<1>5. pc' = pc /\ pc' \notin {"relay", "closed"} BY <1>1
<1>6. StageInv' BY <1>1, <1>3, <1>4, <1>5 DEF StageInv
<1> QED BY <1>2, <1>6

LEMMA ReadFailsStep ==
  ASSUME TypeOK, StageInv, ReadFails PROVE TypeOK' /\ StageInv'
<1>1. /\ pc' = "closed" /\ out' = out /\ lost /\ pc \in {"first", "request"}
      /\ UNCHANGED <<needed, local, server, in, upIn, upOut>>
  BY DEF ReadFails, closeSilently
<1>2. out = <<>> \/ out = Hello BY <1>1 DEF StageInv
<1>3. client' = client /\ peer' = peer BY <1>1 DEF local
<1>4. Hello' = Hello BY <1>3, SameClient, Zenon
<1>5. Finished' BY <1>1, <1>2, <1>3, <1>4 DEF Finished, lost
<1>6. out' \in Seq(Nat) BY <1>1, Streams
<1> QED BY <1>1, <1>5, <1>6, Closes, Zenon

LEMMA UnrecognizedStep ==
  ASSUME TypeOK, StageInv, Unrecognized PROVE TypeOK' /\ StageInv'
<1>1. /\ pc' = "closed" /\ out' = out /\ in = client.bytes
      /\ UNCHANGED <<needed, local, server, in, upIn, upOut>>
  BY DEF Unrecognized, closeSilently, StageInv
<1>2. in = <<>> \/ in[1] \notin {5, 67}
  BY DEF Unrecognized, startsWith, socksVersion
<1>3. client.host = NoHost BY <1>1, <1>2, Streams, OtherClient, Zenon
<1> QED BY <1>1, <1>3, Streams, Closes, Zenon

LEMMA GreetingStep ==
  ASSUME TypeOK, StageInv, Greeting PROVE TypeOK' /\ StageInv'
<1> DEFINE b == client.bytes
<1>1. /\ in = b /\ out = <<>> /\ upOut = <<>> /\ via = NoRoute
      /\ UNCHANGED <<needed, local, server, upIn, upOut>>
  BY DEF Greeting, StageInv
<1>2. b # <<>> /\ b[1] = 5 BY <1>1 DEF Greeting, startsWith, socksVersion
<1>3. b \in Seq(Nat) /\ client \in Clients /\ in \in Seq(Nat) BY <1>1, Streams
<1> HIDE DEF b
<1>4. Len(b) >= 2 => 2 + b[2] \in Nat
  <2>1. Len(b) >= 2 => 2 \in 1..Len(b) BY <1>3
  <2>2. Len(b) >= 2 => b[2] \in Nat BY <1>3, <2>1, ElementOfSeq
  <2> QED BY <2>2
<1>l. CASE GoodGreeting(b) /\ lost
  <2>1. out' = out /\ in' = After(in, 2 + in[2]) /\ pc' = "closed"
    BY <1>1, <1>l DEF Greeting, GoodGreeting, write, socksVersion, methodNoAuth
  <2>2. in' = Behind(b) BY <1>1, <2>1 DEF Behind
  <2>3. in' \in Seq(Nat) BY <1>3, <1>4, <1>l, <2>2, BehindIs DEF GoodGreeting
  <2>4. out' \in Seq(Nat) BY <1>1, <2>1
  <2>5. client' = client /\ peer' = peer BY <1>1 DEF local
  <2>6. TypeOK' BY <1>1, <2>1, <2>3, <2>4 DEF TypeOK, local
  <2>7. Finished' BY <1>1, <1>l, <2>1, <2>5 DEF Finished, lost
  <2>8. StageInv' BY <2>1, <2>7 DEF StageInv
  <2> QED BY <2>6, <2>8
<1>5. CASE GoodGreeting(b) /\ ~lost
  <2>1. out' = out \o <<5, 0>> /\ in' = After(in, 2 + in[2]) /\ pc' = "request"
    BY <1>1, <1>5 DEF Greeting, GoodGreeting, write, socksVersion, methodNoAuth
  <2>2. out' = <<5, 0>> BY <1>1, <2>1
  <2>3. IsSocks /\ client' = client /\ via' = via BY <1>1, <1>2 DEF IsSocks, socksVersion, local, b
  <2>4. IsSocks' /\ out' = Hello' BY <2>2, <2>3, SameClient, SocksGreeting, Zenon
  <2>5. in' = Behind(b) BY <1>1, <2>1 DEF Behind
  <2>6. in' \in Seq(Nat) /\ out' \in Seq(Nat)
    <3>1. in' \in Seq(Nat) BY <1>3, <1>4, <1>5, <2>5, BehindIs DEF GoodGreeting
    <3> QED BY <2>2, <3>1
  <2>7. TypeOK' BY <1>1, <2>1, <2>6 DEF TypeOK, local
  <2>8. StageInv' BY <1>1, <1>5, <2>1, <2>3, <2>4, <2>5 DEF StageInv, b
  <2> QED BY <2>7, <2>8
<1>6. CASE ~GoodGreeting(b)
  <2>1. pc' = "closed" /\ in' = in /\ (out' = out \/ out' = out \o <<5, 255>>)
    BY <1>1, <1>6 DEF Greeting, GoodGreeting, write, closeSilently, socksVersion, methodNoAuth
  <2>2. out' \in Seq(Nat)
    <3>1. out' = <<>> \/ out' = <<5, 255>> BY <1>1, <2>1
    <3>2. <<>> \in Seq(Nat) /\ <<5, 255>> \in Seq(Nat) OBVIOUS
    <3> QED BY <3>1, <3>2, Zenon
  <2>3. ~GoodSocks(b) BY <1>6, Zenon DEF GoodSocks, GoodGreeting
  <2>4. client.host = NoHost BY <1>2, <1>3, <2>3, NothingAsked, Zenon DEF b
  <2>5. UNCHANGED <<needed, local, server, in, upIn, upOut>> BY <1>1, <2>1
  <2> QED BY <2>1, <2>2, <2>4, <2>5, Closes, Zenon
<1> QED BY <1>5, <1>6, <1>l

LEMMA RefuseIs ==
  ASSUME TypeOK, NEW code \in Nat, refuse(code)
  PROVE  /\ pc' = "closed" /\ out' \in Seq(Nat)
         /\ out' = IF lost THEN out ELSE out \o (IF IsSocks THEN socksReply(code) ELSE <<502>>)
<1>1. out \in Seq(Nat) BY Streams
<1>2. socksReply(code) \in Seq(Nat) /\ <<502>> \in Seq(Nat) BY ReplyIsSeq
<1>3. /\ pc' = "closed"
      /\ out' = IF lost THEN out ELSE out \o (IF IsSocks THEN socksReply(code) ELSE <<502>>)
  BY DEF refuse, write
<1>4. out \o socksReply(code) \in Seq(Nat) /\ out \o <<502>> \in Seq(Nat)
  BY <1>1, <1>2, ConcatProperties
<1>5. out' \in Seq(Nat)
  <2>1. CASE lost BY <1>1, <1>3, <2>1, Zenon
  <2>2. CASE ~lost BY <1>3, <1>4, <2>2, Zenon
  <2> QED BY <2>1, <2>2
<1> QED BY <1>3, <1>5, Zenon

LEMMA HasPort ==
  ASSUME in \in Seq(Nat)
  PROVE  hasPort <=> Len(in) >= 4 /\ in[1] = 5 /\ SizeOf(in) + 6 <= Len(in)
<1>1. CASE Len(in) >= 4
  <2> DEFINE z == SizeOf(in)
  <2>1. z \in Nat /\ Len(in) \in Nat BY <1>1, SizeIsNat
  <2>2. hasPort <=> in[1] = 5 /\ z <= Len(in) - 4 /\ z + 2 <= Len(in) - 4
    BY <1>1, Zenon DEF hasPort, hasAddr, hasHeader, SizeOf, socksVersion
  <2> HIDE DEF z
  <2>3. z <= Len(in) - 4 /\ z + 2 <= Len(in) - 4 <=> z + 6 <= Len(in) BY <2>1
  <2>4. hasPort <=> Len(in) >= 4 /\ in[1] = 5 /\ z + 6 <= Len(in) BY <1>1, <2>2, <2>3, Zenon
  <2> QED BY <2>4 DEF z
<1>2. CASE ~(Len(in) >= 4) BY <1>2, Zenon DEF hasPort, hasAddr, hasHeader
<1> QED BY <1>1, <1>2

LEMMA BadRequestStep ==
  ASSUME TypeOK, StageInv, BadRequest PROVE TypeOK' /\ StageInv'
<1>1. /\ in = Behind(client.bytes) /\ GoodGreeting(client.bytes) /\ IsSocks
      /\ UNCHANGED <<needed, local, server, in, upIn, upOut>>
  BY DEF BadRequest, StageInv
<1>2. client \in Clients /\ in \in Seq(Nat) /\ out \in Seq(Nat) BY Streams
<1>3. pc' = "closed" /\ out' \in Seq(Nat)
  <2>1. closeSilently \/ refuse(8) \/ refuse(7)
    BY DEF BadRequest, addrNotSupported, commandNotSupported
  <2>2. CASE closeSilently BY <1>2, <2>2 DEF closeSilently
  <2>3. CASE refuse(8)
    <3>1. 8 \in Nat OBVIOUS
    <3> QED BY <2>3, <3>1, RefuseIs, Zenon
  <2>4. CASE refuse(7)
    <3>1. 7 \in Nat OBVIOUS
    <3> QED BY <2>4, <3>1, RefuseIs, Zenon
  <2> QED BY <2>1, <2>2, <2>3, <2>4
<1>4. ~hasPort \/ in[2] # 1 BY DEF BadRequest, hasPort, hasAddr, cmdConnect
<1>5. ~GoodSocks(client.bytes) BY <1>1, <1>2, <1>4, HasPort, Zenon DEF GoodSocks
<1>6. client.bytes # <<>> /\ client.bytes[1] = 5 BY <1>1 DEF IsSocks, socksVersion
<1>7. client.host = NoHost BY <1>2, <1>5, <1>6, NothingAsked, Zenon
<1> QED BY <1>1, <1>3, <1>7, Closes, Zenon

\* What a request that has been read leaves behind it.
LEMMA Reads ==
  ASSUME TypeOK, UNCHANGED <<needed, client, peer, via, server, upIn, upOut, out>>,
         client.host # NoHost, host' = client.host, port' = client.port, in' = client.payload,
         out = Hello, upOut = <<>>, via = NoRoute, pc' = "dial"
  PROVE  TypeOK' /\ StageInv'
<1>1. client' = client /\ client \in Clients BY Streams
<1>2. /\ client.host \in Texts /\ client.port \in 0..maxPort /\ client.payload \in Seq(Nat)
  BY <1>1, ClientTypes, Zenon
<1>3. TypeOK' BY <1>2 DEF TypeOK
<1>4. Hello' = Hello BY <1>1, SameClient, Zenon
<1>5. StageInv' BY <1>1, <1>4 DEF StageInv, Ready
<1> QED BY <1>3, <1>5

LEMMA ReadRequestStep ==
  ASSUME TypeOK, StageInv, ReadRequest PROVE TypeOK' /\ StageInv'
<1> DEFINE b == client.bytes
           r == Behind(b)
<1>1. /\ in = r /\ out = Hello /\ upOut = <<>> /\ via = NoRoute
      /\ GoodGreeting(b) /\ IsSocks
  BY DEF ReadRequest, StageInv
<1>2. client \in Clients /\ in \in Seq(Nat) BY Streams
<1>3. b # <<>> /\ b[1] = 5 BY <1>1 DEF IsSocks, socksVersion
<1> HIDE DEF b, r
<1>4. Len(r) >= 4 /\ r[1] = 5 /\ SizeOf(r) + 6 <= Len(r) /\ r[2] = 1
  BY <1>1, <1>2, HasPort, Zenon DEF ReadRequest, cmdConnect
<1>5. GoodSocks(b) BY <1>1, <1>4, Zenon DEF GoodSocks, GoodGreeting, r
<1>6. /\ client.host # NoHost /\ addrText(After(r, 4), r[4]) = client.host
      /\ LET tail == After(After(r, 4), SizeOf(r)) IN
         256 * tail[1] + tail[2] = client.port /\ After(tail, 2) = client.payload
  BY <1>2, <1>3, <1>5, SocksClient, Zenon DEF r, b
<1>7. /\ host' = client.host /\ port' = client.port /\ in' = client.payload
      /\ pc' = "dial" /\ UNCHANGED <<needed, client, peer, via, server, out, upIn, upOut>>
  BY <1>1, <1>6, Zenon DEF ReadRequest, SizeOf
<1>8. UNCHANGED <<needed, client, peer, via, server, upIn, upOut, out>> BY <1>7
<1> QED BY <1>1, <1>6, <1>7, <1>8, Reads, Zenon

LEMMA HasHTTP ==
  ASSUME NEW b \in Seq(Nat), in = b
  PROVE  GoodConnect(b) <=> hasHTTPHead /\ hasHTTPPort
  BY Zenon DEF GoodConnect, hasHTTPHead, hasHTTPPort

LEMMA BadHTTPRequestStep ==
  ASSUME TypeOK, StageInv, BadHTTPRequest PROVE TypeOK' /\ StageInv'
<1> DEFINE b == client.bytes
<1>1. in = b /\ out = <<>> /\ UNCHANGED <<needed, local, server, in, upIn, upOut>>
  BY DEF BadHTTPRequest, StageInv
<1>2. client \in Clients /\ b \in Seq(Nat) /\ out \in Seq(Nat) BY <1>1, Streams
<1> HIDE DEF b
<1>3. b # <<>> /\ b[1] \in 65..90 BY <1>1 DEF BadHTTPRequest, startsWith
<1>4. b[1] # 67 \/ ~GoodConnect(b) BY <1>1, <1>2, HasHTTP, Zenon DEF BadHTTPRequest
<1>5. pc' = "closed" /\ out' \in Seq(Nat)
  <2>1. /\ pc' = "closed"
        /\ out' = out \/ out' = out \o <<405>> \/ out' = out \o <<400>>
    BY DEF BadHTTPRequest, closeSilently, write
  <2>2. out' = <<>> \/ out' = <<405>> \/ out' = <<400>> BY <1>1, <2>1
  <2>3. <<>> \in Seq(Nat) /\ <<405>> \in Seq(Nat) /\ <<400>> \in Seq(Nat) OBVIOUS
  <2>4. out' \in Seq(Nat)
    <3>1. CASE out' = <<>> BY <2>3, <3>1, Zenon
    <3>2. CASE out' = <<405>> BY <2>3, <3>2, Zenon
    <3>3. CASE out' = <<400>> BY <2>3, <3>3, Zenon
    <3> QED BY <2>2, <3>1, <3>2, <3>3, Zenon
  <2> QED BY <2>1, <2>4, Zenon
<1>6. client.host = NoHost
  <2>0. \A k \in 65..90 : k # 5 OBVIOUS
  <2>1. b[1] # 5 BY <1>3, <2>0, Zenon
  <2> QED BY <1>2, <1>3, <1>4, <2>1, NothingAsked DEF b
<1> QED BY <1>1, <1>5, <1>6, Closes, Zenon

LEMMA HTTPConnectStep ==
  ASSUME TypeOK, StageInv, HTTPConnect PROVE TypeOK' /\ StageInv'
<1> DEFINE b == client.bytes
<1>1. in = b /\ out = <<>> /\ upOut = <<>> /\ via = NoRoute
  BY DEF HTTPConnect, StageInv
<1>2. client \in Clients /\ b \in Seq(Nat) BY <1>1, Streams
<1> HIDE DEF b
<1>3. b # <<>> /\ b[1] = 67 BY <1>1 DEF HTTPConnect, startsWith
<1>4. GoodConnect(b) BY <1>1, <1>2, HasHTTP, Zenon DEF HTTPConnect
<1>5. /\ client.host # NoHost /\ SubSeq(b, 3, 2 + b[2]) = client.host
      /\ b[3 + b[2]] = client.port /\ After(b, 3 + b[2]) = client.payload
  BY <1>2, <1>3, <1>4, HTTPClient, Zenon DEF b
<1>6. /\ host' = client.host /\ port' = client.port /\ in' = client.payload
      /\ pc' = "dial" /\ UNCHANGED <<needed, client, peer, via, server, out, upIn, upOut>>
  BY <1>1, <1>5, Zenon DEF HTTPConnect
<1>7. UNCHANGED <<needed, client, peer, via, server, upIn, upOut, out>> BY <1>6
<1>8. Hello = <<>>
  <2>1. ~IsSocks BY <1>3 DEF IsSocks, socksVersion, b
  <2> QED BY <2>1, PlainHello, Zenon
<1> QED BY <1>1, <1>5, <1>6, <1>7, <1>8, Reads, Zenon

LEMMA TakeDecisionStep ==
  ASSUME TypeOK, StageInv, TakeDecision PROVE TypeOK' /\ StageInv'
<1>1. /\ UNCHANGED <<needed, client, peer, host, port, server, in, out, upIn, upOut>>
      /\ pc' = "dialling" /\ Ready /\ upOut = <<>>
  BY DEF TakeDecision, StageInv
<1>2. via' \in Tunnelled \cup {NoRoute} BY DecideIsRoute DEF TakeDecision
<1>3. TypeOK' BY <1>1, <1>2 DEF TypeOK
<1>4. client' = client /\ Hello' = Hello BY <1>1, SameClient, Zenon
<1>5. StageInv' BY <1>1, <1>4 DEF StageInv, Ready
<1> QED BY <1>3, <1>5

\* The end of a request that cannot be served.
LEMMA Refuses ==
  ASSUME TypeOK, NEW code \in 1..255, refuse(code), out = Hello,
         UNCHANGED <<needed, local, server, in, upIn, upOut>>,
         ~lost /\ Len(upOut) > 3 =>
           server.code # 0 /\ (server.code # NoCode => server.code = code)
  PROVE  TypeOK' /\ StageInv'
<1>1. code \in Nat OBVIOUS
<1>2. /\ pc' = "closed" /\ out' \in Seq(Nat)
      /\ out' = IF lost THEN out ELSE out \o (IF IsSocks THEN socksReply(code) ELSE <<502>>)
  BY <1>1, RefuseIs, Zenon
<1>3. client' = client /\ peer' = peer /\ server' = server /\ upOut' = upOut BY DEF local
<1>4. (IsSocks <=> IsSocks') /\ Hello' = Hello BY <1>3, SameClient, Zenon
<1>l. CASE lost
  <2>1. Finished' BY <1>2, <1>3, <1>4, <1>l, Zenon DEF Finished, lost
  <2> QED BY <1>2, <2>1, Closes, Zenon
<1>n. CASE ~lost
  <2>1. out' = Refusal(code)' BY <1>2, <1>4, <1>n, Zenon DEF Refusal, socksReply
  <2>2. IsSocks => out' = Hello \o socksReply(code) BY <1>2, <1>n, Zenon
  <2>3. (Len(upOut) > 3 /\ IsSocks /\ server.code # NoCode)
          => out' = (Hello \o socksReply(server.code))'
    <3>1. (Hello \o socksReply(server.code))' = Hello \o socksReply(server.code)
      BY <1>3, <1>4, Zenon DEF socksReply
    <3> QED BY <1>n, <2>2, <3>1, Zenon
  <2>4. Refused' BY <1>3, <1>4, <1>n, <2>1, <2>3, Zenon DEF Refused
  <2>5. Finished' BY <1>3, <1>n, <2>4, Zenon DEF Finished, lost
  <2> QED BY <1>2, <2>5, Closes, Zenon
<1> QED BY <1>l, <1>n

LEMMA DialFailsStep ==
  ASSUME TypeOK, StageInv, DialFails PROVE TypeOK' /\ StageInv'
<1>1. /\ out = Hello /\ upOut = <<>> /\ UNCHANGED <<needed, local, server, in, upIn, upOut>>
  BY DEF DialFails, StageInv, Ready
<1>2. PICK code \in {1, 4, 5} : refuse(code)
  BY DEF DialFails, generalFailure, hostUnreachable, connectionRefused
<1>3. code \in 1..255 BY <1>2
<1>4. ~(Len(upOut) > 3) BY <1>1
<1> QED BY <1>1, <1>2, <1>3, <1>4, Refuses, Zenon

LEMMA DialDirectStep ==
  ASSUME TypeOK, StageInv, DialDirect PROVE TypeOK' /\ StageInv'
<1>1. /\ UNCHANGED <<needed, local, server, in, out, upOut>> /\ pc' = "answer"
      /\ Ready /\ upOut = <<>> /\ via = NoRoute /\ upIn' = server.payload
  BY DEF DialDirect, StageInv
<1>2. client' = client /\ via' = via /\ host' = host /\ port' = port /\ server' = server
      /\ peer' = peer
  BY <1>1 DEF local
<1>3. server.payload \in Seq(Nat) BY Streams, ServerTypes, Zenon
<1>4. TypeOK' BY <1>1, <1>2, <1>3 DEF TypeOK
<1>5. Hello' = Hello /\ Asked' = Asked BY <1>2, SameClient, Zenon
<1>6. Asked = <<>> BY <1>1 DEF Asked
<1>7. StageInv' BY <1>1, <1>2, <1>5, <1>6 DEF StageInv, Ready
<1> QED BY <1>4, <1>7

LEMMA DialTunnelStep ==
  ASSUME TypeOK, StageInv, DialTunnel PROVE TypeOK' /\ StageInv'
<1>1. /\ UNCHANGED <<needed, local, server, in, out>> /\ pc' = "upGreeting"
      /\ Ready /\ via # NoRoute /\ upIn' = server.bytes /\ upOut' = <<5, 1, 0>>
  BY DEF DialTunnel, StageInv, socksVersion, methodNoAuth
<1>2. client' = client /\ via' = via /\ host' = host /\ port' = port /\ server' = server
      /\ peer' = peer
  BY <1>1 DEF local
<1>3. server.bytes \in Seq(Nat) BY Streams, ServerTypes, Zenon
<1>4. <<5, 1, 0>> \in Seq(Nat) OBVIOUS
<1>5. TypeOK' BY <1>1, <1>2, <1>3, <1>4 DEF TypeOK
<1>6. Hello' = Hello BY <1>2, SameClient, Zenon
<1>7. StageInv' BY <1>1, <1>2, <1>6 DEF StageInv, Ready
<1> QED BY <1>5, <1>7

LEMMA UpRefusesStep ==
  ASSUME TypeOK, StageInv, UpRefuses PROVE TypeOK' /\ StageInv'
<1>1. out = Hello /\ UNCHANGED <<needed, local, server, in, upIn, upOut>>
  BY DEF UpRefuses, StageInv, Ready
<1>2. 1 \in 1..255 /\ 8 \in 1..255 OBVIOUS
<1>3. upFails => refuse(1) BY DEF upFails, generalFailure
<1>4. server \in Servers /\ upIn \in Seq(Nat) BY Streams
<1>5. CASE pc = "upGreeting"
  <2>1. refuse(1) \/ refuse(8)
    BY <1>3, <1>5 DEF UpRefuses, generalFailure, addrNotSupported
  <2>2. upOut = <<5, 1, 0>> BY <1>5 DEF StageInv
  <2>3. ~(Len(upOut) > 3) BY <2>2
  <2> QED BY <1>1, <1>2, <2>1, <2>3, Refuses, Zenon
<1>6. CASE pc = "upReply"
  <2> DEFINE r == After(server.bytes, 2)
  <2>1. Len(server.bytes) >= 2 /\ SubSeq(server.bytes, 1, 2) = <<5, 0>> /\ upIn = r
    BY <1>6 DEF StageInv
  <2>2. /\ Len(r) >= 4 => r[2] \in 0..255
        /\ server.code # NoCode => Len(r) >= 4 /\ r[2] = server.code /\ SizeOf(r) + 6 <= Len(r)
    BY <1>4, <2>1, ServerReply, Zenon
  <2> HIDE DEF r
  <2>3. CASE Len(r) >= 4 /\ r[2] # 0 /\ refuse(r[2])
    <3>1. r[2] \in 1..255 BY <2>2, <2>3
    <3>2. server.code # NoCode => server.code = r[2] BY <2>2
    <3>3. server.code # 0
      <4>1. NoCode # 0 BY DEF NoCode
      <4> QED BY <2>3, <3>2, <4>1, Zenon
    <3> QED BY <1>1, <2>3, <3>1, <3>2, <3>3, Refuses, Zenon
  <2>4. CASE upFails /\ server.code = NoCode
    <3>1. server.code # 0 BY <2>4 DEF NoCode
    <3> QED BY <1>1, <1>2, <1>3, <2>4, <3>1, Refuses, Zenon
  <2>5. CASE Len(r) < 4 /\ upFails
    <3>1. server.code = NoCode BY <1>4, <2>1, <2>2, <2>5
    <3> QED BY <2>4, <2>5, <3>1
  <2>6. CASE Len(r) >= 4 /\ SizeOf(r) + 2 > Len(r) - 4 /\ upFails
    <3>1. SizeOf(r) \in Nat BY <1>4, <2>1, <2>6, SizeIsNat
    <3>2. ~(SizeOf(r) + 6 <= Len(r)) BY <1>4, <2>1, <2>6, <3>1
    <3>3. server.code = NoCode BY <2>2, <3>2
    <3> QED BY <2>4, <2>6, <3>3
  <2>7. \/ Len(r) < 4 /\ upFails
        \/ Len(r) >= 4 /\ r[2] # 0 /\ refuse(r[2])
        \/ Len(r) >= 4 /\ SizeOf(r) + 2 > Len(r) - 4 /\ upFails
        \/ lost /\ upFails
    BY <1>6, <2>1 DEF UpRefuses, SizeOf
  <2>8. CASE lost /\ upFails BY <1>1, <1>2, <1>3, <2>8, Refuses, Zenon
  <2> QED BY <2>3, <2>5, <2>6, <2>7, <2>8
<1> QED BY <1>5, <1>6 DEF UpRefuses

LEMMA Associative ==
  ASSUME NEW s \in Seq(Nat), NEW t \in Seq(Nat), NEW u \in Seq(Nat)
  PROVE  (s \o t) \o u = s \o (t \o u)
  BY ConcatAssociative

LEMMA UpGreetingStep ==
  ASSUME TypeOK, StageInv, UpGreeting PROVE TypeOK' /\ StageInv'
<1> DEFINE e == encodeAddr(host)
           p == <<port \div 256, port % 256>>
           a == <<5, 1, 0>>
           q == <<5, 1, 0, 5, 1, 0>>
<1>1. /\ Ready /\ via # NoRoute /\ upIn = server.bytes /\ upOut = a
  BY DEF UpGreeting, StageInv
<1>2. /\ UNCHANGED <<needed, local, server, in, out>> /\ pc' = "upReply"
      /\ Len(upIn) >= 2 /\ SubSeq(upIn, 1, 2) = <<5, 0>> /\ upIn' = After(upIn, 2)
      /\ upOut' = upOut \o a \o e \o p
  BY DEF UpGreeting, socksVersion, methodNoAuth, cmdConnect
<1>3. client' = client /\ via' = via /\ host' = host /\ port' = port /\ server' = server
      /\ peer' = peer
  BY <1>2 DEF local
<1>4. upIn \in Seq(Nat) /\ host \in Texts /\ client \in Clients BY Streams
<1>5. upIn' \in Seq(Nat)
  <2>1. 2 \in Nat OBVIOUS
  <2> QED BY <1>2, <1>4, <2>1, AfterSize
<1>6. e \in Seq(Nat) /\ p \in Seq(Nat) /\ client.target = e \o p
  <2>1. e \in Seq(Nat) BY <1>4, EncodeAddrIsSeq
  <2>2. port \in Nat BY DEF TypeOK, maxPort
  <2>3. port \div 256 \in Nat /\ port % 256 \in Nat BY <2>2
  <2>4. p \in Seq(Nat) BY <2>3
  <2>5. client.target \in Seq(Nat) /\ Encodes(client.target, host, port)
    BY <1>1, <1>4, ClientTypes, Zenon DEF Ready
  <2>6. client.target = e \o p BY <1>4, <2>5, TargetIs, Zenon
  <2> QED BY <2>1, <2>4, <2>6
<1>7. a \in Seq(Nat) /\ q \in Seq(Nat) /\ a \o a = q
  <2>1. a \in Seq(Nat) /\ Len(a) = 3 /\ a[1] = 5 /\ a[2] = 1 /\ a[3] = 0 OBVIOUS
  <2>2. q \in Seq(Nat) /\ Len(q) = 6 OBVIOUS
  <2>3. q[1] = 5 /\ q[2] = 1 /\ q[3] = 0 /\ q[4] = 5 /\ q[5] = 1 /\ q[6] = 0 OBVIOUS
  <2> HIDE DEF a, q
  <2>4. a \o a \in Seq(Nat) /\ Len(a \o a) = 6
        /\ \A k \in 1..6 : (a \o a)[k] = IF k <= 3 THEN a[k] ELSE a[k - 3]
    BY <2>1, ConcatProperties
  <2>5. \A k \in 1..6 : (a \o a)[k] = q[k] BY <2>1, <2>3, <2>4
  <2> QED BY <2>1, <2>2, <2>4, <2>5, SeqEqual
<1> HIDE DEF e, p, a, q
<1>8. q \o e \in Seq(Nat) /\ (q \o e) \o p = q \o (e \o p) /\ (q \o e) \o p \in Seq(Nat)
  <2>1. q \o e \in Seq(Nat) BY <1>6, <1>7, ConcatProperties
  <2>0. q \in Seq(Nat) /\ e \in Seq(Nat) /\ p \in Seq(Nat) BY <1>6, <1>7, Zenon
  <2>2. (q \o e) \o p = q \o (e \o p) BY <2>0, Associative, Zenon
  <2>3. (q \o e) \o p \in Seq(Nat) BY <1>6, <2>1, ConcatProperties
  <2> QED BY <2>1, <2>2, <2>3, Zenon
<1>9. upOut' = q \o client.target /\ upOut' \in Seq(Nat)
  BY <1>1, <1>2, <1>6, <1>7, <1>8, Zenon
<1>10. TypeOK' BY <1>2, <1>3, <1>5, <1>9 DEF TypeOK
<1>11. Hello' = Hello /\ Asked' = Asked BY <1>3, SameClient, Zenon
<1>12. upOut' = Asked BY <1>1, <1>9, Zenon DEF Asked, q
<1>13. StageInv' BY <1>1, <1>2, <1>3, <1>11, <1>12 DEF StageInv, Ready
<1> QED BY <1>10, <1>13

LEMMA UpReplyStep ==
  ASSUME TypeOK, StageInv, UpReply PROVE TypeOK' /\ StageInv'
<1> DEFINE r == After(server.bytes, 2)
<1>1. /\ Ready /\ Len(server.bytes) >= 2 /\ SubSeq(server.bytes, 1, 2) = <<5, 0>>
      /\ upIn = r /\ upOut = Asked
  BY DEF UpReply, StageInv
<1>2. server \in Servers BY Streams
<1>3. /\ r \in Seq(Nat)
      /\ server.code = NoCode => ~(Len(r) >= 4 /\ r[2] = 0 /\ SizeOf(r) + 6 <= Len(r))
      /\ server.code # NoCode => After(After(r, 4), SizeOf(r) + 2) = server.payload
  BY <1>1, <1>2, ServerReply, Zenon
<1> HIDE DEF r
<1>4. /\ Len(r) >= 4 /\ r[2] = 0 /\ pc' = "answer"
      /\ SizeOf(r) + 2 <= Len(After(r, 4)) /\ upIn' = After(After(r, 4), SizeOf(r) + 2)
      /\ UNCHANGED <<needed, local, server, in, out, upOut>>
  BY <1>1 DEF UpReply, SizeOf
<1>5. SizeOf(r) + 6 <= Len(r)
  <2> DEFINE z == SizeOf(r)
  <2>1. 4 \in 0..Len(r) /\ z \in Nat BY <1>3, <1>4, SizeIsNat
  <2>2. Len(After(r, 4)) = Len(r) - 4 BY <1>3, <2>1, AfterIs
  <2>3. z \in Nat /\ Len(r) \in Nat /\ z + 2 <= Len(r) - 4 BY <1>3, <1>4, <2>1, <2>2
  <2> HIDE DEF z
  <2>4. z + 6 <= Len(r) BY <2>3
  <2> QED BY <2>4 DEF z
<1>6. upIn' = server.payload BY <1>3, <1>4, <1>5, Zenon
<1>7. client' = client /\ via' = via /\ host' = host /\ port' = port /\ server' = server
      /\ peer' = peer
  BY <1>4 DEF local
<1>8. server.payload \in Seq(Nat) BY <1>2, ServerTypes, Zenon
<1>9. TypeOK' BY <1>4, <1>6, <1>7, <1>8 DEF TypeOK
<1>10. Hello' = Hello /\ Asked' = Asked BY <1>7, SameClient, Zenon
<1>11. StageInv' BY <1>1, <1>4, <1>6, <1>7, <1>10 DEF StageInv, Ready
<1> QED BY <1>9, <1>11

LEMMA AnswerStep ==
  ASSUME TypeOK, StageInv, Answer PROVE TypeOK' /\ StageInv'
<1>1. /\ Ready /\ upOut = Asked /\ upIn = server.payload
      /\ UNCHANGED <<needed, local, server, in, upIn, upOut>>
      /\ (pc' = "relay" /\ (lost => IsSocks)) \/ (pc' = "closed" /\ lost)
      /\ out' = IF lost THEN out ELSE out \o success
  BY DEF Answer, StageInv, write, success
<1>2. client' = client /\ via' = via /\ host' = host /\ port' = port /\ server' = server
      /\ peer' = peer
  BY <1>1 DEF local
<1>3. success \in Seq(Nat)
  <2>1. 0 \in Nat /\ <<200>> \in Seq(Nat) OBVIOUS
  <2> QED BY <2>1, ReplyIsSeq, Zenon DEF success
<1>4. out \in Seq(Nat) /\ out = Hello BY <1>1, Streams DEF Ready
<1>5. out' \in Seq(Nat)
  <2>1. out \o success \in Seq(Nat) BY <1>3, <1>4, ConcatProperties
  <2> QED BY <1>1, <1>4, <2>1, Zenon
<1>6. TypeOK' BY <1>1, <1>2, <1>5 DEF TypeOK
<1>7. Answered' = Answered /\ Asked' = Asked /\ Hello' = Hello /\ (IsSocks <=> IsSocks')
  BY <1>2, SameClient, Zenon
<1>8. CASE pc' = "relay"
  <2>1. out' = Answered
    <3>1. Hello \o <<>> = Hello BY <1>4, ConcatEmptySeq
    <3> QED BY <1>1, <1>4, <3>1, Zenon DEF Answered
  <2>2. lost' => IsSocks' BY <1>1, <1>2, <1>7, <1>8, Zenon DEF lost
  <2> QED BY <1>1, <1>2, <1>6, <1>7, <1>8, <2>1, <2>2 DEF StageInv, Ready
<1>9. CASE pc' = "closed" /\ lost
  <2>1. Finished' BY <1>1, <1>2, <1>4, <1>7, <1>9, Zenon DEF Finished, lost
  <2>2. StageInv' BY <1>9, <2>1 DEF StageInv
  <2> QED BY <1>6, <2>2
<1> QED BY <1>1, <1>8, <1>9

LEMMA RelayUpStep ==
  ASSUME TypeOK, StageInv, RelayUp PROVE TypeOK' /\ StageInv'
<1>1. /\ client.host # NoHost /\ host = client.host /\ port = client.port
      /\ upOut \o in = Asked \o client.payload /\ out \o upIn = Answered \o server.payload
      /\ pc = "relay" /\ (lost => IsSocks)
      /\ UNCHANGED <<needed, local, server, out, upIn, pc>> /\ in # <<>>
      /\ upOut' = Append(upOut, Head(in)) /\ in' = Tail(in)
  BY DEF RelayUp, StageInv
<1>2. client' = client /\ via' = via /\ host' = host /\ port' = port /\ server' = server
      /\ peer' = peer
  BY <1>1 DEF local
<1>3. in \in Seq(Nat) /\ upOut \in Seq(Nat) BY Streams
<1>4. in' \in Seq(Nat) /\ upOut' \in Seq(Nat) /\ upOut' \o in' = upOut \o in
  BY <1>1, <1>3, ByteMoves, Zenon
<1>5. TypeOK' BY <1>1, <1>2, <1>4 DEF TypeOK
<1>6. Answered' = Answered /\ Asked' = Asked /\ (lost' => IsSocks')
  BY <1>1, <1>2, SameClient, Zenon DEF lost
<1>7. StageInv' BY <1>1, <1>2, <1>4, <1>6 DEF StageInv
<1> QED BY <1>5, <1>7

LEMMA RelayDownStep ==
  ASSUME TypeOK, StageInv, RelayDown PROVE TypeOK' /\ StageInv'
<1>1. /\ client.host # NoHost /\ host = client.host /\ port = client.port
      /\ upOut \o in = Asked \o client.payload /\ out \o upIn = Answered \o server.payload
      /\ pc = "relay" /\ (lost => IsSocks)
      /\ UNCHANGED <<needed, local, server, in, upOut, pc>> /\ upIn # <<>>
      /\ out' = Append(out, Head(upIn)) /\ upIn' = Tail(upIn)
  BY DEF RelayDown, StageInv
<1>2. client' = client /\ via' = via /\ host' = host /\ port' = port /\ server' = server
      /\ peer' = peer
  BY <1>1 DEF local
<1>3. upIn \in Seq(Nat) /\ out \in Seq(Nat) BY Streams
<1>4. upIn' \in Seq(Nat) /\ out' \in Seq(Nat) /\ out' \o upIn' = out \o upIn
  BY <1>1, <1>3, ByteMoves, Zenon
<1>5. TypeOK' BY <1>1, <1>2, <1>4 DEF TypeOK
<1>6. Answered' = Answered /\ Asked' = Asked /\ (lost' => IsSocks')
  BY <1>1, <1>2, SameClient, Zenon DEF lost
<1>7. StageInv' BY <1>1, <1>2, <1>4, <1>6 DEF StageInv
<1> QED BY <1>5, <1>7

LEMMA StageStep == TypeOK /\ StageInv /\ [Next]_vars => TypeOK' /\ StageInv'
<1> SUFFICES ASSUME TypeOK, StageInv, [Next]_vars PROVE TypeOK' /\ StageInv' OBVIOUS
<1>1. CASE UNCHANGED vars
  <2>1. UNCHANGED <<local, server, in, out, upIn, upOut, pc>> BY <1>1, Zenon DEF vars
  <2>2. TypeOK' BY <1>1, Zenon DEF TypeOK, vars, local
  <2> QED BY <2>1, <2>2, Unmoved, Zenon
<1>6. CASE Lose \/ ReadFails
  BY <1>6, LoseStep, ReadFailsStep, Zenon
<1>2. CASE Update \/ Unrecognized \/ Greeting \/ BadRequest \/ ReadRequest
  BY <1>2, UpdateStep, UnrecognizedStep, GreetingStep, BadRequestStep, ReadRequestStep, Zenon
<1>3. CASE BadHTTPRequest \/ HTTPConnect \/ TakeDecision \/ DialFails \/ DialDirect
  BY <1>3, BadHTTPRequestStep, HTTPConnectStep, TakeDecisionStep, DialFailsStep, DialDirectStep,
     Zenon
<1>4. CASE DialTunnel \/ UpRefuses \/ UpGreeting \/ UpReply
  BY <1>4, DialTunnelStep, UpRefusesStep, UpGreetingStep, UpReplyStep, Zenon
<1>5. CASE Answer \/ RelayUp \/ RelayDown
  BY <1>5, AnswerStep, RelayUpStep, RelayDownStep, Zenon
<1> QED BY <1>1, <1>2, <1>3, <1>4, <1>5, <1>6, Zenon DEF Next

LEMMA StageAlways == Spec => [](TypeOK /\ StageInv)
BY InitStage, StageStep, PTL DEF Spec

LEMMA RelayIsTransparent == StageInv => Transparent
<1> SUFFICES ASSUME StageInv, pc = "relay" PROVE Transparent BY DEF Transparent
<1>1. /\ host = client.host /\ port = client.port
      /\ upOut \o in = Asked \o client.payload /\ out \o upIn = Answered \o server.payload
  BY DEF StageInv
<1> QED BY <1>1, Zenon DEF Transparent, Asked, Answered, socksVersion, methodNoAuth, cmdConnect

LEMMA StageAnswersOnce == TypeOK /\ StageInv => OneAnswer
<1> SUFFICES ASSUME TypeOK, StageInv, client.host # NoHost PROVE OneAnswer BY DEF OneAnswer
<1>1. CASE pc = "closed"
  <2>1. Finished BY <1>1 DEF StageInv
  <2> QED BY <1>1, <2>1, Zenon DEF Finished, Refused, Refusal, OneAnswer
<1>2. CASE pc \in {"first", "request", "dial", "dialling", "upGreeting", "upReply", "answer"}
  <2>1. out \in {<<>>, Hello} BY <1>2 DEF StageInv, Ready
  <2> QED BY <1>2, <2>1, Zenon DEF OneAnswer
<1>3. CASE pc = "relay"
  <2>1. lost => IsSocks BY <1>3 DEF StageInv
  <2> QED BY <1>3, <2>1, Zenon DEF OneAnswer
<1> QED BY <1>1, <1>2, <1>3 DEF TypeOK

\* The four streams, the host and the port have their types, whatever clients
\* and servers send: what is read is never more than there is.
THEOREM TypeCorrect == Spec => []TypeOK
BY StageAlways, PTL

\* Whatever clients and servers send and however they cut it up, the relay
\* passes on what came behind the handshakes, and an ssh -D is asked for the
\* host and port the client named.
THEOREM TransparentAlways == Spec => []Transparent
BY StageAlways, RelayIsTransparent, PTL

\* Every request gets one answer, the success the relay follows, or a failure,
\* unless the client is lost, which gets none (proxy/server.go:148, 164-221).
THEOREM OneAnswerAlways == Spec => []OneAnswer
BY StageAlways, StageAnswersOnce, PTL

=============================================================================
