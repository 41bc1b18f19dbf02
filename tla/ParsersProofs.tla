--------------------------- MODULE ParsersProofs ----------------------------
(***************************************************************************)
(* Proofs about the parsers of the handshake for every width of a byte,    *)
(* every size of an address, whatever the client sends and however recv    *)
(* cuts it: a parser reads exactly one message of its grammar, no message  *)
(* that was read waits for an answer, and no byte is lost between the      *)
(* phases.                                                                 *)
(***************************************************************************)
EXTENDS Parsers, TLAPS, SequenceTheorems, WellFoundedInduction

-----------------------------------------------------------------------------
(* Induction over the naturals, by way of sets and functions.              *)

\* A set that holds 0 and the successor of each of its naturals holds all.
LEMMA NaturalsIn ==
  ASSUME NEW S, 0 \in S, \A n \in Nat : n \in S => n + 1 \in S
  PROVE  Nat \subseteq S
<1> SUFFICES ASSUME Nat \ S # {} PROVE FALSE
  OBVIOUS
<1> DEFINE R == {rs \in Nat \X Nat : rs[1] < rs[2]}
           T == Nat \ S
<1>1. IsWellFoundedOn(R, Nat)
  BY NatLessThanWellFounded DEF OpToRel
<1>2. \E x \in T : \A y \in T : ~(<<y, x>> \in R)
  <2>1. T \subseteq Nat /\ T # {}
    OBVIOUS
  <2> HIDE DEF T, R
  <2> QED BY <1>1, <2>1, WFMin, Zenon
<1>3. PICK m \in T : \A y \in T : ~(<<y, m>> \in R)
  BY <1>2
<1>4. m # 0
  OBVIOUS
<1>5. m - 1 \in Nat /\ m - 1 < m /\ m - 1 + 1 = m
  BY <1>4
<1>6. m - 1 \notin T
  BY <1>3, <1>5
<1> QED BY <1>5, <1>6

Iterates(g, V, first, step) ==
  g \in [Nat -> V] /\ g[0] = first /\ \A n \in Nat : g[n + 1] = step[g[n]]

\* A sequence of values of V defined by its first and by a step.
LEMMA Iterated ==
  ASSUME NEW V, NEW first \in V, NEW step \in [V -> V]
  PROVE  \E g : Iterates(g, V, first, step)
<1> DEFINE Upto(n) == {g \in [0 .. n -> V] : /\ g[0] = first
                        /\ \A i \in 0 .. n - 1 : g[i + 1] = step[g[i]]}
           S == {n \in Nat : \E g : g \in Upto(n)}
           h == [n \in Nat |-> CHOOSE g : g \in Upto(n)]
           f == [n \in Nat |-> h[n][n]]
<1>1. Nat \subseteq S
  <2>1. 0 \in S
    <3>1. [i \in 0 .. 0 |-> first] \in Upto(0)
      OBVIOUS
    <3> QED BY <3>1
  <2>2. ASSUME NEW n \in Nat, n \in S PROVE n + 1 \in S
    <3>1. PICK g : g \in Upto(n)
      BY <2>2
    <3>2. g[n] \in V /\ step[g[n]] \in V
      BY <3>1
    <3> DEFINE e == [i \in 0 .. n + 1 |-> IF i = n + 1 THEN step[g[n]] ELSE g[i]]
    <3>3. e \in [0 .. n + 1 -> V]
      BY <3>1, <3>2
    <3>4. e[0] = first
      BY <3>1
    <3>5. ASSUME NEW i \in 0 .. n + 1 - 1 PROVE e[i + 1] = step[e[i]]
      <4>1. CASE i = n
        BY <4>1
      <4>2. CASE i # n
        <5>1. i \in 0 .. n - 1 /\ i + 1 \in 0 .. n
          BY <4>2
        <5>2. e[i] = g[i] /\ e[i + 1] = g[i + 1]
          BY <5>1
        <5> HIDE DEF e
        <5> QED BY <3>1, <5>1, <5>2
      <4> QED BY <4>1, <4>2
    <3>6. e \in Upto(n + 1)
      <4> HIDE DEF e
      <4> QED BY <3>3, <3>4, <3>5
    <3> HIDE DEF e, Upto
    <3> QED BY <3>6
  <2> HIDE DEF S
  <2> QED BY <2>1, <2>2, NaturalsIn
<1>2. ASSUME NEW n \in Nat PROVE h[n] \in Upto(n)
  <2>1. \E g : g \in Upto(n)
    BY <1>1
  <2> HIDE DEF Upto
  <2> QED BY <2>1
<1>3. ASSUME NEW n \in Nat PROVE f[n + 1] = step[f[n]]
  <2> DEFINE Same == {i \in Nat : i <= n => h[n][i] = h[n + 1][i]}
  <2>1. h[n] \in Upto(n) /\ h[n + 1] \in Upto(n + 1)
    <3>1. n + 1 \in Nat
      OBVIOUS
    <3> HIDE DEF h, Upto
    <3> QED BY <1>2, <3>1
  <2> HIDE DEF h
  <2>2. 0 \in Same
    BY <2>1
  <2>3. ASSUME NEW i \in Nat, i \in Same PROVE i + 1 \in Same
    <3>1. SUFFICES ASSUME i + 1 <= n PROVE h[n][i + 1] = h[n + 1][i + 1]
      OBVIOUS
    <3>2. h[n][i] = h[n + 1][i]
      BY <2>3, <3>1
    <3>3. i \in 0 .. n - 1 /\ i \in 0 .. (n + 1) - 1
      BY <3>1
    <3>4. h[n][i + 1] = step[h[n][i]] /\ h[n + 1][i + 1] = step[h[n + 1][i]]
      BY <2>1, <3>3
    <3> QED BY <3>2, <3>4
  <2>4. h[n][n] = h[n + 1][n]
    <3>1. Nat \subseteq Same
      <4> HIDE DEF Same
      <4> QED BY <2>2, <2>3, NaturalsIn
    <3> QED BY <3>1
  <2>5. h[n + 1][n + 1] = step[h[n + 1][n]]
    BY <2>1
  <2> QED BY <2>4, <2>5
<1>4. f \in [Nat -> V] /\ f[0] = first
  <2>1. \A n \in Nat : h[n][n] \in V /\ h[n][0] = first
    <3> HIDE DEF h
    <3> QED BY <1>2
  <2> HIDE DEF h
  <2> QED BY <2>1
<1>5. Iterates(f, V, first, step)
  BY <1>3, <1>4 DEF Iterates
<1> HIDE DEF f
<1> QED BY <1>5

-----------------------------------------------------------------------------
(* Bytes, and sequences of them.                                           *)

Top == 2^Width

LEMMA Bytes == /\ Top \in Nat /\ Top > 8 /\ Byte = 0 .. Top - 1
               /\ NOT_ACCEPTABLE = Top - 1
               /\ IPv4Size \in 1 .. Top - 1 /\ IPv6Size \in 1 .. Top - 1
  BY ParsersAssumption DEF Top, Byte, NOT_ACCEPTABLE

LEMMA Counts ==
  /\ \A n \in Byte : Add(n, 1) = IF n = Top - 1 THEN 0 ELSE n + 1
  /\ \A n \in Byte \ {0} : Add(n, -1) = n - 1
<1>1. ASSUME NEW n \in 0 .. Top - 1, n # Top - 1 PROVE Add(n, 1) = n + 1
  <2>1. n + 1 \in 0 .. Top - 1
    BY <1>1, Bytes
  <2>. QED
    BY <2>1, Bytes DEF Add, Top
<1>2. Add(Top - 1, 1) = 0
  <2>1. Top - 1 + 1 = Top /\ Top % Top = 0
    BY Bytes
  <2>. QED
    BY <2>1 DEF Add, Top
<1>3. ASSUME NEW n \in 1 .. Top - 1 PROVE Add(n, -1) = n - 1
  <2>1. n + (-1) = n - 1 /\ n - 1 \in 0 .. Top - 1
    BY Bytes
  <2>. QED
    BY <2>1, Bytes DEF Add, Top
<1>4. Byte = 0 .. Top - 1 /\ Byte \ {0} = 1 .. Top - 1
  BY Bytes
<1>. QED
  BY <1>1, <1>2, <1>3, <1>4

LEMMA Appended ==
  ASSUME NEW m \in Seq(Byte), NEW b \in Byte
  PROVE  /\ Append(m, b) \in Seq(Byte) /\ Len(m) \in Nat
         /\ Append(m, b) # <<>> /\ Len(Append(m, b)) = Len(m) + 1
         /\ \A i \in 1 .. Len(m) : Append(m, b)[i] = m[i]
         /\ Append(m, b)[Len(m) + 1] = b
  OBVIOUS

\* A byte more leaves the fields before it and prolongs the last one.
LEMMA FieldBefore ==
  ASSUME NEW m \in Seq(Byte), NEW b \in Byte, NEW i \in Nat \ {0}, NEW j \in Nat,
         j <= Len(m)
  PROVE  SubSeq(Append(m, b), i, j) = SubSeq(m, i, j)
  OBVIOUS

LEMMA FieldMore ==
  ASSUME NEW m \in Seq(Byte), NEW b \in Byte, NEW i \in Nat \ {0}, i <= Len(m) + 1
  PROVE  SubSeq(Append(m, b), i, Len(m) + 1) = Append(SubSeq(m, i, Len(m)), b)
  OBVIOUS

LEMMA FieldOfField ==
  ASSUME NEW s \in Seq(Byte), NEW i \in Nat \ {0}, NEW n \in Nat, i + n - 1 <= Len(s)
  PROVE  SubSeq(SubSeq(s, i, Len(s)), 1, n) = SubSeq(s, i, i + n - 1)
  OBVIOUS

LEMMA FieldType ==
  ASSUME NEW m \in Seq(Byte), NEW i \in Nat \ {0}, NEW j \in Nat, j <= Len(m)
  PROVE  SubSeq(m, i, j) \in Seq(Byte)
  OBVIOUS

-----------------------------------------------------------------------------
(* What a parser has made of the bytes m that it has read.                 *)

NegParser == [state : {"NEG_VERSION", "NEG_METHOD_COUNT", "NEG_METHOD_LIST",
                       "NEG_DONE", "NEG_ERROR"},
              selected : {PASS, NOT_ACCEPTABLE}, quantity : Byte]

AuthParser == [state : {"AUTH_PARSE_VERSION", "AUTH_ULEN", "AUTH_UNAME", "AUTH_PLEN",
                        "AUTH_PASSWD", "AUTH_DONE", "AUTH_ERROR"},
               length : Byte, bytes_read : Byte, uname : Seq(Byte), passwd : Seq(Byte)]

ReqParser == [state : {"REQ_VERSION", "REQ_CMD", "REQ_RSV", "REQ_ATYP",
                       "REQ_DST_ADDR_LENGTH", "REQ_DST_ADDR", "REQ_DST_PORT",
                       "REQ_DONE", "REQ_ERROR"},
              status : {CON_SUCCEEDED, CON_SERVER_FAILURE, CON_COMMAND_NOT_SUPPORTED,
                        CON_ATYPE_NOT_SUPPORTED},
              atyp : Byte, addr_len : Byte, bytes_read : Byte, address : Seq(Byte),
              port : Nat]

Offered(m) == PASS \in {m[i] : i \in 3 .. Len(m)}

NegReads(p, m) ==
  \/ p.state = "NEG_VERSION" /\ m = <<>> /\ p.selected = NOT_ACCEPTABLE
  \/ /\ p.state = "NEG_METHOD_COUNT"
     /\ Len(m) = 1 /\ m[1] = SOCKS_VERSION /\ p.selected = NOT_ACCEPTABLE
  \/ /\ p.state = "NEG_METHOD_LIST"
     /\ Len(m) >= 2 /\ m[1] = SOCKS_VERSION
     /\ p.quantity > 0 /\ p.quantity + Len(m) = 2 + m[2]
     /\ p.selected = PASS <=> Offered(m)

NegEnds(p, m) ==
  /\ IsNegotiation(m)
  /\ p.state = "NEG_ERROR" <=> m[1] # SOCKS_VERSION
  /\ p.selected = PASS <=> Len(m) > 2 /\ Offered(m)

\* The bytes of the name, and those of the password so far.
Name(m) == SubSeq(m, 3, 2 + m[2])
Passwd(m) == SubSeq(m, 4 + m[2], Len(m))

AuthReads(p, m) ==
  \/ /\ p.state = "AUTH_PARSE_VERSION"
     /\ m = <<>> /\ p.bytes_read = 0 /\ p.uname = <<>> /\ p.passwd = <<>>
  \/ /\ Len(m) >= 1 /\ m[1] = AUTH_VERSION
     /\ \/ /\ p.state = "AUTH_ULEN"
           /\ Len(m) = 1 /\ p.bytes_read = 0 /\ p.uname = <<>> /\ p.passwd = <<>>
        \/ /\ p.state = "AUTH_UNAME"
           /\ Len(m) >= 2 /\ p.length = m[2] /\ p.bytes_read = Len(m) - 2
           /\ p.bytes_read < p.length
           /\ p.uname = SubSeq(m, 3, Len(m)) /\ p.passwd = <<>>
        \/ /\ p.state = "AUTH_PLEN"
           /\ Len(m) >= 2 /\ Len(m) = 2 + m[2] /\ p.bytes_read = 0
           /\ p.uname = Name(m) /\ p.passwd = <<>>
        \/ /\ p.state = "AUTH_PASSWD"
           /\ Len(m) >= 2 /\ Len(m) >= 3 + m[2] /\ p.length = m[3 + m[2]]
           /\ p.bytes_read = Len(m) - 3 - m[2] /\ p.bytes_read < Size(p.length)
           /\ p.uname = Name(m) /\ p.passwd = Passwd(m)

AuthEnds(p, m) ==
  /\ IsAuthentication(m)
  /\ p.state = "AUTH_ERROR" <=> m[1] # AUTH_VERSION
  /\ p.state = "AUTH_DONE" => p.uname = Name(m) /\ p.passwd = Passwd(m)

\* The length of the address is known.
Headed(p, m) ==
  /\ Len(m) >= 4 /\ FirstWrong(m) = 0
  /\ p.atyp = m[4]
  /\ m[4] = IPV4 => p.addr_len = IPv4Size
  /\ m[4] = IPV6 => p.addr_len = IPv6Size
  /\ m[4] = DN => Len(m) >= 5 /\ p.addr_len = m[5]

Address(p, m) == SubSeq(m, AddressAt(m), AddressAt(m) + p.addr_len - 1)

ReqReads(p, m) ==
  \/ /\ p.state \in {"REQ_VERSION", "REQ_CMD", "REQ_RSV", "REQ_ATYP", "REQ_DST_ADDR_LENGTH"}
     /\ FirstWrong(m) = 0
     /\ p.status = CON_SERVER_FAILURE /\ p.bytes_read = 0 /\ p.address = <<>>
     /\ Len(m) = CASE p.state = "REQ_VERSION" -> 0 [] p.state = "REQ_CMD" -> 1
                   [] p.state = "REQ_RSV" -> 2 [] p.state = "REQ_ATYP" -> 3
                   [] p.state = "REQ_DST_ADDR_LENGTH" -> 4
     /\ p.state = "REQ_DST_ADDR_LENGTH" => m[4] = DN /\ p.atyp = DN
  \/ /\ p.state = "REQ_DST_ADDR" /\ Headed(p, m)
     /\ p.bytes_read = Len(m) - (AddressAt(m) - 1) /\ p.bytes_read < Size(p.addr_len)
     /\ p.address = SubSeq(m, AddressAt(m), Len(m))
  \/ /\ p.state = "REQ_DST_PORT" /\ Headed(p, m)
     /\ p.bytes_read \in {0, 1}
     /\ Len(m) = AddressAt(m) - 1 + Size(p.addr_len) + p.bytes_read
     /\ p.address = Address(p, m)
     /\ p.bytes_read = 1 => p.port = m[Len(m)] * 2^Width

ReqEnds(p, m) ==
  /\ IsRequest(m)
  /\ p.state = "REQ_ERROR" <=> FirstWrong(m) # 0
  /\ p.state = "REQ_ERROR" =>
       p.status = CASE FirstWrong(m) \in {1, 3} -> CON_SERVER_FAILURE
                    [] FirstWrong(m) = 2 -> CON_COMMAND_NOT_SUPPORTED
                    [] FirstWrong(m) = 4 -> CON_ATYPE_NOT_SUPPORTED
  /\ p.state = "REQ_DONE" =>
       p.address = Address(p, m) /\ p.port = m[Len(m) - 1] * 2^Width + m[Len(m)]

-----------------------------------------------------------------------------
(* The inductive invariant.                                                *)

Reading == {"NEGOTIATION_READ", "AUTH_READ", "REQ_READ"}

\* The types of the parsers, and of a message of each phase.
PhaseParser(ph) == CASE ph = "NEGOTIATION_READ" -> NegParser
                     [] ph = "AUTH_READ" -> AuthParser
                     [] ph = "REQ_READ" -> ReqParser

Whole(ph, m) == CASE ph = "NEGOTIATION_READ" -> IsNegotiation(m)
                  [] ph = "AUTH_READ" -> IsAuthentication(m)
                  [] ph = "REQ_READ" -> IsRequest(m)

ReadsOf(ph, p, m) == CASE ph = "NEGOTIATION_READ" -> NegReads(p, m)
                       [] ph = "AUTH_READ" -> AuthReads(p, m)
                       [] ph = "REQ_READ" -> ReqReads(p, m)

EndsOf(ph, p, m) == CASE ph = "NEGOTIATION_READ" -> NegEnds(p, m)
                      [] ph = "AUTH_READ" -> AuthEnds(p, m)
                      [] ph = "REQ_READ" -> ReqEnds(p, m)

\* None of the first k bytes of m make a message.
NoneWhole(ph, m, k) == \A i \in 1 .. k : ~ Whole(ph, SubSeq(m, 1, i))

\* Where a parser is after m: it ended with the last byte, or not yet.
Follows(ph, p, m) ==
  /\ p \in PhaseParser(ph) /\ m \in Seq(Byte)
  /\ IF Ended(p) THEN m # <<>> /\ NoneWhole(ph, m, Len(m) - 1) /\ EndsOf(ph, p, m)
     ELSE NoneWhole(ph, m, Len(m)) /\ ReadsOf(ph, p, m)

PInv ==
  /\ PTypeOK /\ StreamTiled
  /\ stream \in Seq(Byte) /\ taken \in Seq(Byte) /\ messages \in Nat
  /\ phase \in Reading => ~ Ended(parser) /\ Follows(phase, parser, msg)
  /\ msg # <<>> => client_to_sv.q = <<>>
  /\ ParsedAsGrammar

-----------------------------------------------------------------------------
(* The negotiation, a byte at a time.                                      *)

LEMMA OfferedByteMore ==
  ASSUME NEW m \in Seq(Byte), NEW b \in Byte, Len(m) >= 2
  PROVE  Offered(Append(m, b)) <=> Offered(m) \/ b = PASS
<1> DEFINE a == Append(m, b)
<1>1. /\ Len(a) = Len(m) + 1 /\ a[Len(m) + 1] = b
      /\ \A i \in 1 .. Len(m) : a[i] = m[i]
  BY Appended
<1>. HIDE DEF a
<1>2. Offered(a) <=> \E i \in 3 .. Len(m) + 1 : a[i] = PASS
  BY <1>1 DEF Offered
<1>3. Offered(m) <=> \E i \in 3 .. Len(m) : m[i] = PASS
  BY DEF Offered
<1>4. Len(m) \in Nat /\ Len(m) + 1 \in 3 .. Len(m) + 1
  OBVIOUS
<1>5. ASSUME Offered(a) PROVE Offered(m) \/ b = PASS
  <2>1. PICK i \in 3 .. Len(m) + 1 : a[i] = PASS
    BY <1>2, <1>5
  <2>2. i = Len(m) + 1 \/ i \in 3 .. Len(m)
    BY <1>4, <2>1
  <2>. QED
    BY <1>1, <1>3, <1>4, <2>1, <2>2
<1>6. ASSUME Offered(m) PROVE Offered(a)
  <2>1. PICK i \in 3 .. Len(m) : m[i] = PASS
    BY <1>3, <1>6
  <2>2. i \in 3 .. Len(m) + 1 /\ i \in 1 .. Len(m)
    BY <1>4, <2>1
  <2>. QED
    BY <1>1, <1>2, <2>1, <2>2
<1>7. b = PASS => Offered(a)
  BY <1>1, <1>2, <1>4
<1>. QED
  BY <1>5, <1>6, <1>7 DEF a

\* A parser that has not ended has not read a whole negotiation.
LEMMA NegOpen ==
  ASSUME NEW p \in NegParser, NEW m \in Seq(Byte), m # <<>>, NegReads(p, m)
  PROVE  ~ IsNegotiation(m)
<1>1. Len(m) \in Nat /\ \A i \in 1 .. Len(m) : m[i] \in Nat
  BY Bytes
<1>2. CASE p.state = "NEG_METHOD_COUNT"
  BY <1>1, <1>2 DEF NegReads, IsNegotiation
<1>3. CASE p.state = "NEG_METHOD_LIST"
  <2>1. /\ Len(m) >= 2 /\ m[1] = SOCKS_VERSION
        /\ p.quantity > 0 /\ p.quantity + Len(m) = 2 + m[2] /\ p.quantity \in Nat
    BY <1>3, Bytes DEF NegReads, NegParser
  <2>2. m[2] \in Nat
    BY <1>1, <2>1
  <2>3. Len(m) # 2 + m[2]
    BY <1>1, <2>1, <2>2
  <2>. QED
    BY <2>1, <2>3 DEF IsNegotiation
<1>. QED
  BY <1>2, <1>3 DEF NegReads

LEMMA NegByte ==
  ASSUME NEW p \in NegParser, NEW m \in Seq(Byte), NEW b \in Byte,
         ~ Ended(p), NegReads(p, m),
         NEW r, r = negotiation_parse(p, b), NEW a, a = Append(m, b)
  PROVE  /\ r \in NegParser
         /\ IF Ended(r) THEN NegEnds(r, a) ELSE NegReads(r, a)
<1>0. /\ Len(m) \in Nat /\ Len(a) = Len(m) + 1 /\ a[Len(m) + 1] = b
      /\ \A i \in 1 .. Len(m) : a[i] = m[i] /\ m[i] \in Byte
  BY Appended
<1>1. CASE p.state = "NEG_VERSION"
  <2>1. Len(m) = 0 /\ Len(a) = 1 /\ a[1] = b /\ p.selected = NOT_ACCEPTABLE
    BY <1>0, <1>1 DEF NegReads
  <2>2. r = [p EXCEPT !.state = IF b = SOCKS_VERSION THEN "NEG_METHOD_COUNT" ELSE "NEG_ERROR"]
    BY <1>1 DEF negotiation_parse
  <2>3. PASS # NOT_ACCEPTABLE
    BY Bytes DEF PASS
  <2>. QED
    BY <2>1, <2>2, <2>3 DEF NegParser, Ended, NegReads, NegEnds, IsNegotiation
<1>2. CASE p.state = "NEG_METHOD_COUNT"
  <2>0. Len(m) = 1 /\ m[1] = SOCKS_VERSION /\ p.selected = NOT_ACCEPTABLE
    BY <1>2 DEF NegReads
  <2>1. /\ Len(a) = 2 /\ a[2] = b /\ a[1] = SOCKS_VERSION
        /\ p.selected = NOT_ACCEPTABLE
    BY <1>0, <2>0
  <2>2. r = IF b = 0 THEN [p EXCEPT !.state = "NEG_DONE"]
            ELSE [p EXCEPT !.state = "NEG_METHOD_LIST", !.quantity = b]
    BY <1>2 DEF negotiation_parse
  <2>3. PASS # NOT_ACCEPTABLE /\ b \in Nat
    BY Bytes DEF PASS
  <2>4. ~ Offered(a)
    BY <2>1 DEF Offered
  <2>5. r \in NegParser
    BY <2>2 DEF NegParser
  <2>6. r.selected = NOT_ACCEPTABLE
    BY <2>1, <2>2 DEF NegParser
  <2>7. CASE b = 0
    <3>1. r.state = "NEG_DONE"
      BY <2>2, <2>7 DEF NegParser
    <3>. QED
      BY <2>1, <2>3, <2>4, <2>5, <2>6, <2>7, <3>1 DEF Ended, NegEnds, IsNegotiation
  <2>8. CASE b # 0
    <3>1. r.state = "NEG_METHOD_LIST" /\ r.quantity = b
      BY <2>2, <2>8 DEF NegParser
    <3>. QED
      BY <2>1, <2>3, <2>4, <2>5, <2>6, <2>8, <3>1, Bytes DEF Ended, NegReads
  <2>. QED
    BY <2>7, <2>8
<1>3. CASE p.state = "NEG_METHOD_LIST"
  <2>1. /\ Len(m) >= 2 /\ m[1] = SOCKS_VERSION /\ p.quantity > 0
        /\ p.quantity + Len(m) = 2 + m[2] /\ (p.selected = PASS <=> Offered(m))
    BY <1>3 DEF NegReads
  <2>2. a[1] = SOCKS_VERSION /\ a[2] = m[2] /\ m[2] \in Nat
    BY <1>0, <2>1, Bytes
  <2>3. p.quantity \in Byte \ {0} /\ p.quantity - 1 \in Byte /\ p.quantity \in Nat
    BY <2>1, Bytes DEF NegParser
  <2>4. Add(p.quantity, -1) = p.quantity - 1
    BY <2>3, Counts
  <2>5. r = [state |-> IF p.quantity - 1 = 0 THEN "NEG_DONE" ELSE "NEG_METHOD_LIST",
             selected |-> IF b = PASS THEN b ELSE p.selected,
             quantity |-> p.quantity - 1]
    BY <1>3, <2>4 DEF negotiation_parse, negotiation_parse_methods
  <2>6. Offered(a) <=> Offered(m) \/ b = PASS
    BY <2>1, OfferedByteMore
  <2>7. r \in NegParser
    BY <2>3, <2>5 DEF NegParser
  <2>8. r.selected = PASS <=> Offered(a)
    BY <2>1, <2>5, <2>6
  <2>9. Len(a) >= 3 /\ r.quantity + Len(a) = 2 + a[2]
    <3>1. r.quantity = p.quantity - 1 /\ Len(a) = Len(m) + 1 /\ Len(m) \in Nat
      BY <1>0, <2>5
    <3>. QED
      BY <2>1, <2>2, <2>3, <3>1
  <2>10. CASE p.quantity - 1 = 0
    BY <1>0, <2>1, <2>2, <2>5, <2>7, <2>8, <2>9, <2>10 DEF Ended, NegEnds, IsNegotiation
  <2>11. CASE p.quantity - 1 # 0
    BY <1>0, <2>1, <2>2, <2>3, <2>5, <2>7, <2>8, <2>9, <2>11 DEF Ended, NegReads
  <2>. QED
    BY <2>10, <2>11
<1>. QED
  BY <1>1, <1>2, <1>3 DEF NegReads

-----------------------------------------------------------------------------
(* The authentication, a byte at a time.                                   *)

LEMMA AuthOpen ==
  ASSUME NEW p \in AuthParser, NEW m \in Seq(Byte), m # <<>>, AuthReads(p, m)
  PROVE  ~ IsAuthentication(m)
<1>1. Len(m) \in Nat /\ Len(m) >= 1 /\ m[1] = AUTH_VERSION
  BY DEF AuthReads
<1>2. CASE Len(m) < 2
  BY <1>1, <1>2 DEF IsAuthentication
<1>3. CASE Len(m) >= 2 /\ Len(m) < m[2] + 3
  <2>1. m[2] \in Nat
    BY <1>3, Bytes
  <2>. QED
    BY <1>1, <1>3, <2>1 DEF IsAuthentication
<1>4. CASE p.state = "AUTH_PASSWD"
  <2>1. /\ Len(m) >= 2 /\ Len(m) >= 3 + m[2] /\ p.length = m[3 + m[2]]
        /\ p.bytes_read = Len(m) - 3 - m[2] /\ p.bytes_read < Size(p.length)
    BY <1>4 DEF AuthReads
  <2>2. m[2] \in Nat
    BY <2>1, Bytes
  <2>3. p.length \in Nat /\ m[m[2] + 3] = p.length
    <3>1. p.length \in Nat
      BY Bytes DEF AuthParser
    <3>2. m[2] + 3 = 3 + m[2]
      BY <2>2
    <3>. QED
      BY <2>1, <3>1, <3>2
  <2>4. Size(p.length) \in Nat
    BY <2>3, Bytes DEF Size, Top
  <2>5. Len(m) # 3 + m[2] + Size(m[m[2] + 3])
    BY <1>1, <2>1, <2>2, <2>3, <2>4
  <2>. QED
    BY <1>1, <2>5 DEF IsAuthentication
<1>5. CASE p.state = "AUTH_UNAME"
  <2>1. Len(m) >= 2 /\ p.length = m[2] /\ p.bytes_read = Len(m) - 2 /\ p.bytes_read < p.length
    BY <1>5 DEF AuthReads
  <2>2. m[2] \in Nat
    BY <2>1, Bytes
  <2>. QED
    BY <1>1, <1>3, <2>1, <2>2
<1>6. CASE p.state = "AUTH_PLEN"
  <2>1. Len(m) >= 2 /\ Len(m) = 2 + m[2]
    BY <1>6 DEF AuthReads
  <2>2. m[2] \in Nat
    BY <2>1, Bytes
  <2>. QED
    BY <1>1, <1>3, <2>1, <2>2
<1>7. CASE p.state = "AUTH_ULEN"
  <2>1. Len(m) = 1
    BY <1>7 DEF AuthReads
  <2>. QED
    BY <1>2, <2>1
<1>. QED
  BY <1>4, <1>5, <1>6, <1>7 DEF AuthReads

LEMMA AuthByte ==
  ASSUME NEW p \in AuthParser, NEW m \in Seq(Byte), NEW b \in Byte,
         ~ Ended(p), AuthReads(p, m),
         NEW r, r = auth_parse(p, b), NEW a, a = Append(m, b)
  PROVE  /\ r \in AuthParser
         /\ IF Ended(r) THEN AuthEnds(r, a) ELSE AuthReads(r, a)
<1>0. /\ Len(m) \in Nat /\ Len(a) = Len(m) + 1 /\ a[Len(m) + 1] = b
      /\ \A i \in 1 .. Len(m) : a[i] = m[i] /\ m[i] \in Byte
  BY Appended
<1>b. /\ b \in Nat /\ \A i \in 1 .. Len(m) : m[i] \in Nat
      /\ p.length \in Nat /\ p.bytes_read \in Nat /\ p.bytes_read < Top
      /\ p.length < Top /\ 0 \in Byte
      /\ p.uname \in Seq(Byte) /\ p.passwd \in Seq(Byte)
  BY <1>0, Bytes DEF AuthParser
<1>1. CASE p.state = "AUTH_PARSE_VERSION"
  <2>1. /\ Len(m) = 0 /\ Len(a) = 1 /\ a[1] = b /\ p.bytes_read = 0
        /\ p.uname = <<>> /\ p.passwd = <<>>
    BY <1>0, <1>1 DEF AuthReads
  <2>2. r = [p EXCEPT !.state = IF b = AUTH_VERSION THEN "AUTH_ULEN" ELSE "AUTH_ERROR"]
    BY <1>1 DEF auth_parse
  <2>. QED
    BY <2>1, <2>2 DEF AuthParser, Ended, AuthReads, AuthEnds, IsAuthentication
<1>2. CASE p.state = "AUTH_ULEN"
  <2>1. /\ Len(m) = 1 /\ m[1] = AUTH_VERSION /\ p.bytes_read = 0
        /\ p.uname = <<>> /\ p.passwd = <<>>
    BY <1>2 DEF AuthReads
  <2>2. Len(a) = 2 /\ a[2] = b /\ a[1] = AUTH_VERSION
    BY <1>0, <2>1
  <2>3. r = IF b = 0 THEN [p EXCEPT !.state = "AUTH_PLEN"]
            ELSE [p EXCEPT !.state = "AUTH_UNAME", !.length = b]
    BY <1>2 DEF auth_parse, auth_parse_length
  <2>4. r \in AuthParser
    BY <2>3 DEF AuthParser
  <2>5. SubSeq(a, 3, 2) = <<>>
    BY SubSeqEmpty
  <2>6. CASE b = 0
    <3>1. r.state = "AUTH_PLEN" /\ r.bytes_read = 0 /\ r.uname = <<>> /\ r.passwd = <<>>
      BY <2>1, <2>3, <2>6 DEF AuthParser
    <3>2. Name(a) = <<>> /\ Len(a) = 2 + a[2]
      BY <2>2, <2>5, <2>6 DEF Name
    <3>. QED
      BY <2>2, <2>4, <3>1, <3>2 DEF Ended, AuthReads
  <2>7. CASE b # 0
    <3>1. /\ r.state = "AUTH_UNAME" /\ r.length = b /\ r.bytes_read = 0
          /\ r.uname = <<>> /\ r.passwd = <<>>
      BY <2>1, <2>3, <2>7 DEF AuthParser
    <3>. QED
      BY <1>b, <2>2, <2>4, <2>5, <2>7, <3>1 DEF Ended, AuthReads
  <2>. QED
    BY <2>6, <2>7
<1>3. CASE p.state = "AUTH_UNAME"
  <2>1. /\ m[1] = AUTH_VERSION /\ Len(m) >= 2 /\ p.length = m[2]
        /\ p.bytes_read = Len(m) - 2 /\ p.bytes_read < p.length
        /\ p.uname = SubSeq(m, 3, Len(m)) /\ p.passwd = <<>>
    BY <1>3 DEF AuthReads
  <2>2. a[1] = AUTH_VERSION /\ a[2] = m[2] /\ m[2] \in Nat
    BY <1>0, <1>b, <2>1
  <2>3. Add(p.bytes_read, 1) = p.bytes_read + 1 /\ p.bytes_read + 1 \in Byte
    <3>1. p.bytes_read \in Byte /\ p.bytes_read # Top - 1
      BY <1>b, <2>1, Bytes
    <3>2. Add(p.bytes_read, 1) = p.bytes_read + 1
      BY <3>1, Counts
    <3>3. p.bytes_read + 1 \in 0 .. Top - 1
      BY <1>b, <3>1, Bytes
    <3>. QED
      BY <3>2, <3>3, Bytes
  <2>4. Append(p.uname, b) = SubSeq(a, 3, Len(a))
    <3>1. SubSeq(Append(m, b), 3, Len(m) + 1) = Append(SubSeq(m, 3, Len(m)), b)
      <4>1. 3 \in Nat \ {0} /\ 3 <= Len(m) + 1
        BY <1>0, <2>1
      <4>. QED
        BY <4>1, FieldMore
    <3>. QED
      BY <1>0, <2>1, <3>1
  <2>5. Append(p.uname, b) \in Seq(Byte)
    BY <1>b
  <2>6. CASE p.bytes_read + 1 = p.length
    <3>1. r = [p EXCEPT !.bytes_read = 0, !.uname = Append(@, b), !.state = "AUTH_PLEN"]
      BY <1>3, <2>3, <2>6 DEF auth_parse, auth_parse_characters, AuthParser
    <3>2. r \in AuthParser
      BY <1>b, <2>5, <3>1 DEF AuthParser
    <3>3. /\ r.state = "AUTH_PLEN" /\ r.bytes_read = 0 /\ r.passwd = <<>>
          /\ r.uname = SubSeq(a, 3, Len(a))
      BY <2>1, <2>4, <3>1 DEF AuthParser
    <3>4. Len(a) = 2 + a[2] /\ Len(a) >= 2
      BY <1>0, <2>1, <2>2, <2>6
    <3>. QED
      BY <1>0, <2>2, <3>2, <3>3, <3>4 DEF Ended, AuthReads, Name
  <2>7. CASE p.bytes_read + 1 # p.length
    <3>1. r = [p EXCEPT !.bytes_read = p.bytes_read + 1, !.uname = Append(@, b)]
      BY <1>3, <2>3, <2>7 DEF auth_parse, auth_parse_characters, AuthParser
    <3>2. r \in AuthParser
      BY <2>3, <2>5, <3>1 DEF AuthParser
    <3>3. /\ r.state = "AUTH_UNAME" /\ r.bytes_read = p.bytes_read + 1 /\ r.passwd = <<>>
          /\ r.uname = SubSeq(a, 3, Len(a)) /\ r.length = p.length
      BY <1>3, <2>1, <2>4, <3>1 DEF AuthParser
    <3>4. r.bytes_read = Len(a) - 2 /\ r.bytes_read < r.length /\ Len(a) >= 2 /\ Len(a) >= 1
      BY <1>0, <1>b, <2>1, <2>2, <2>7, <3>3
    <3>. QED
      BY <2>1, <2>2, <3>2, <3>3, <3>4 DEF Ended, AuthReads
  <2>. QED
    BY <2>6, <2>7
<1>4. CASE p.state = "AUTH_PLEN"
  <2>1. /\ m[1] = AUTH_VERSION /\ Len(m) >= 2 /\ Len(m) = 2 + m[2] /\ p.bytes_read = 0
        /\ p.uname = Name(m) /\ p.passwd = <<>>
    BY <1>4 DEF AuthReads
  <2>2. /\ a[1] = AUTH_VERSION /\ a[2] = m[2] /\ m[2] \in Nat
        /\ Len(a) = 3 + a[2] /\ a[3 + a[2]] = b
    BY <1>0, <1>b, <2>1
  <2>3. r = [p EXCEPT !.state = "AUTH_PASSWD", !.length = b]
    BY <1>4 DEF auth_parse, auth_parse_length
  <2>4. r \in AuthParser
    BY <2>3 DEF AuthParser
  <2>5. Name(a) = Name(m)
    BY <1>0, <2>1, <2>2, FieldBefore DEF Name
  <2>6. Passwd(a) = <<>>
    BY <2>2, SubSeqEmpty DEF Passwd
  <2>7. /\ r.state = "AUTH_PASSWD" /\ r.length = b /\ r.bytes_read = 0
        /\ r.uname = Name(a) /\ r.passwd = Passwd(a)
    BY <2>1, <2>3, <2>5, <2>6 DEF AuthParser
  <2>8. 0 < Size(b) /\ Len(a) - 3 - a[2] = 0
    <3>1. Size(b) = IF b = 0 THEN Top ELSE b
      BY DEF Size, Top
    <3>. QED
      BY <1>0, <1>b, <2>1, <2>2, <3>1, Bytes
  <2>. QED
    BY <2>2, <2>4, <2>7, <2>8 DEF Ended, AuthReads
<1>5. CASE p.state = "AUTH_PASSWD"
  <2>1. /\ m[1] = AUTH_VERSION /\ Len(m) >= 2 /\ Len(m) >= 3 + m[2]
        /\ p.length = m[3 + m[2]]
        /\ p.bytes_read = Len(m) - 3 - m[2] /\ p.bytes_read < Size(p.length)
        /\ p.uname = Name(m) /\ p.passwd = Passwd(m)
    BY <1>5 DEF AuthReads
  <2>2. /\ a[1] = AUTH_VERSION /\ a[2] = m[2] /\ m[2] \in Nat
    BY <1>0, <1>b, <2>1
  <2>3. a[3 + a[2]] = p.length
    BY <1>0, <2>1, <2>2
  <2>4. Name(a) = Name(m)
    BY <1>0, <2>1, <2>2, FieldBefore DEF Name
  <2>5. Append(p.passwd, b) = Passwd(a)
    <3>1. 4 + m[2] \in Nat \ {0} /\ 4 + m[2] <= Len(m) + 1
      BY <1>0, <2>1, <2>2
    <3>2. SubSeq(Append(m, b), 4 + m[2], Len(m) + 1) = Append(SubSeq(m, 4 + m[2], Len(m)), b)
      BY <3>1, FieldMore
    <3>. QED
      BY <1>0, <2>1, <2>2, <3>2 DEF Passwd
  <2>6. Append(p.passwd, b) \in Seq(Byte)
    BY <1>b
  <2>7. /\ Size(p.length) \in Nat
        /\ Add(p.bytes_read, 1) = p.length <=> p.bytes_read + 1 = Size(p.length)
        /\ p.bytes_read + 1 # Size(p.length)
             => Add(p.bytes_read, 1) = p.bytes_read + 1 /\ p.bytes_read + 1 \in Byte
    <3>1. p.bytes_read \in Byte
      BY DEF AuthParser
    <3>2. Add(p.bytes_read, 1) = IF p.bytes_read = Top - 1 THEN 0 ELSE p.bytes_read + 1
      BY <3>1, Counts
    <3>3. Size(p.length) = IF p.length = 0 THEN Top ELSE p.length
      BY DEF Size, Top
    <3>4. p.bytes_read + 1 # Top => p.bytes_read + 1 \in Byte
      <4>1. p.bytes_read + 1 # Top => p.bytes_read + 1 \in 0 .. Top - 1
        <5>1. p.bytes_read \in Nat /\ p.bytes_read < Top
          BY <1>b
        <5>2. Top \in Nat
          BY Bytes
        <5>. QED
          BY <5>1, <5>2
      <4>. QED
        BY <4>1, Bytes
    <3>5. CASE p.length = 0
      BY <1>b, <3>2, <3>3, <3>4, <3>5, Bytes
    <3>6. CASE p.length # 0
      <4>1. p.bytes_read < p.length /\ Size(p.length) = p.length
        BY <2>1, <3>3, <3>6
      <4>2. Add(p.bytes_read, 1) = p.bytes_read + 1
        BY <1>b, <3>2, <4>1, Bytes
      <4>. QED
        BY <1>b, <3>4, <4>1, <4>2, Bytes
    <3>. QED
      BY <3>5, <3>6
  <2>8. Len(a) >= 2 /\ Len(a) >= 3 + a[2] /\ Len(a) - 3 - a[2] = p.bytes_read + 1
    BY <1>0, <2>1, <2>2
  <2>9. CASE p.bytes_read + 1 = Size(p.length)
    <3>1. r = [p EXCEPT !.bytes_read = 0, !.passwd = Append(@, b), !.state = "AUTH_DONE"]
      BY <1>5, <2>7, <2>9 DEF auth_parse, auth_parse_characters, AuthParser
    <3>2. r \in AuthParser
      BY <1>b, <2>6, <3>1 DEF AuthParser
    <3>3. r.state = "AUTH_DONE" /\ r.uname = Name(a) /\ r.passwd = Passwd(a)
      BY <2>1, <2>4, <2>5, <3>1 DEF AuthParser
    <3>4. Len(a) = 3 + a[2] + Size(a[a[2] + 3])
      <4>1. a[a[2] + 3] = p.length
        <5>1. a[2] + 3 = 3 + a[2]
          BY <2>2
        <5>. QED
          BY <2>3, <5>1
      <4>2. Len(a) = 3 + a[2] + Size(p.length)
        BY <1>0, <2>2, <2>7, <2>8, <2>9
      <4>. QED
        BY <4>1, <4>2
    <3>5. IsAuthentication(a)
      BY <1>0, <2>2, <2>8, <3>4 DEF IsAuthentication
    <3>. QED
      BY <2>2, <3>2, <3>3, <3>5 DEF Ended, AuthEnds
  <2>10. CASE p.bytes_read + 1 # Size(p.length)
    <3>1. r = [p EXCEPT !.bytes_read = p.bytes_read + 1, !.passwd = Append(@, b)]
      BY <1>5, <2>7, <2>10 DEF auth_parse, auth_parse_characters, AuthParser
    <3>2. r \in AuthParser
      BY <2>6, <2>7, <2>10, <3>1 DEF AuthParser
    <3>3. /\ r.state = "AUTH_PASSWD" /\ r.uname = Name(a) /\ r.passwd = Passwd(a)
          /\ r.bytes_read = p.bytes_read + 1 /\ r.length = p.length
      BY <1>5, <2>1, <2>4, <2>5, <3>1 DEF AuthParser
    <3>4. r.bytes_read < Size(r.length) /\ r.bytes_read = Len(a) - 3 - a[2]
      BY <1>b, <2>1, <2>7, <2>8, <2>10, <3>3
    <3>. QED
      BY <1>0, <2>2, <2>3, <2>8, <3>2, <3>3, <3>4 DEF Ended, AuthReads
  <2>. QED
    BY <2>9, <2>10
<1>. QED
  BY <1>1, <1>2, <1>3, <1>4, <1>5 DEF AuthReads

-----------------------------------------------------------------------------
(* The request, a byte at a time.                                          *)

LEMMA LeastIs ==
  ASSUME NEW S \in SUBSET Nat, NEW x \in S, \A y \in S : x <= y
  PROVE  Min(S) = x
<1>1. Min(S) \in S /\ \A y \in S : Min(S) <= y
  BY DEF Min
<1>2. Min(S) <= x /\ x <= Min(S) /\ x \in Nat /\ Min(S) \in Nat
  BY <1>1
<1>. QED
  BY <1>2

Wrong(m, i) == \/ i = 1 /\ m[1] # SOCKS_VERSION
               \/ i = 2 /\ m[2] # CONNECT
               \/ i = 3 /\ m[3] # RSV
               \/ i = 4 /\ m[4] \notin {IPV4, DN, IPV6}

\* FirstWrong says which of the first bytes is the first to be wrong.
LEMMA FirstWrongIs ==
  ASSUME NEW m \in Seq(Byte)
  PROVE  /\ FirstWrong(m) \in 0 .. 4
         /\ FirstWrong(m) # 0 => FirstWrong(m) <= Len(m) /\ Wrong(m, FirstWrong(m))
         /\ \A i \in 1 .. 4 : i <= Len(m) /\ (i < FirstWrong(m) \/ FirstWrong(m) = 0)
              => ~ Wrong(m, i)
<1> DEFINE wrong(i) == CASE i = 1 -> m[1] # SOCKS_VERSION
                         [] i = 2 -> m[2] # CONNECT
                         [] i = 3 -> m[3] # RSV
                         [] i = 4 -> m[4] \notin {IPV4, DN, IPV6}
           at == {i \in 1 .. Min({4, Len(m)}) : wrong(i)}
<1>1. FirstWrong(m) = IF at = {} THEN 0 ELSE Min(at)
  BY DEF FirstWrong
<1>2. Len(m) \in Nat
  OBVIOUS
<1>3. Min({4, Len(m)}) = IF Len(m) < 4 THEN Len(m) ELSE 4
  <2>1. CASE Len(m) < 4
    BY <1>2, <2>1, LeastIs
  <2>2. CASE ~(Len(m) < 4)
    BY <1>2, <2>2, LeastIs
  <2>. QED
    BY <2>1, <2>2
<1>4. at = {i \in 1 .. 4 : i <= Len(m) /\ Wrong(m, i)}
  <2>1. \A i \in 1 .. 4 : wrong(i) <=> Wrong(m, i)
    <3>1. (wrong(1) <=> Wrong(m, 1)) /\ (wrong(2) <=> Wrong(m, 2))
      BY DEF Wrong
    <3>2. (wrong(3) <=> Wrong(m, 3)) /\ (wrong(4) <=> Wrong(m, 4))
      BY DEF Wrong
    <3>. HIDE DEF wrong
    <3>. QED
      BY <3>1, <3>2
  <2>2. \A i : i \in 1 .. Min({4, Len(m)}) <=> i \in 1 .. 4 /\ i <= Len(m)
    BY <1>2, <1>3
  <2>. HIDE DEF wrong
  <2>. QED
    BY <2>1, <2>2
<1>. HIDE DEF at
<1>5. CASE at = {}
  BY <1>1, <1>4, <1>5
<1>6. CASE at # {}
  <2>1. PICK x \in at : \A y \in at : x <= y
    <3>1. at \subseteq 1 .. 4
      BY <1>4
    <3>2. 1 \in at \/ 2 \in at \/ 3 \in at \/ 4 \in at
      <4>1. PICK n \in at : TRUE
        BY <1>6
      <4>2. n = 1 \/ n = 2 \/ n = 3 \/ n = 4
        BY <3>1, <4>1
      <4>. QED
        BY <4>1, <4>2
    <3>3. \A n \in 1 .. 4 : n \in at /\ (\A k \in 1 .. 4 : k < n => k \notin at)
                          => \A y \in at : n <= y
      BY <3>1
    <3>4. \E n \in 1 .. 4 : n \in at /\ (\A k \in 1 .. 4 : k < n => k \notin at)
      BY <3>2
    <3>. QED
      BY <3>3, <3>4
  <2>2. at \in SUBSET Nat
    BY <1>4
  <2>3. FirstWrong(m) = x
    BY <1>1, <1>6, <2>1, <2>2, LeastIs
  <2>. QED
    BY <1>4, <2>1, <2>3
<1>. QED
  BY <1>5, <1>6

\* A byte more is wrong or not; one after the fourth is not a header's.
LEMMA FirstWrongByte ==
  ASSUME NEW m \in Seq(Byte), NEW b \in Byte, NEW a, a = Append(m, b), FirstWrong(m) = 0
  PROVE  /\ Wrong(a, Len(a)) <=> FirstWrong(a) # 0
         /\ FirstWrong(a) # 0 => FirstWrong(a) = Len(a) /\ Len(a) <= 4
<1>1. /\ Len(m) \in Nat /\ Len(a) = Len(m) + 1 /\ a \in Seq(Byte)
      /\ \A i \in 1 .. Len(m) : a[i] = m[i]
  BY Appended
<1>2. \A i \in 1 .. 4 : i <= Len(m) => ~ Wrong(m, i) /\ ~ Wrong(a, i)
  BY <1>1, FirstWrongIs DEF Wrong
<1>3. /\ FirstWrong(a) \in 0 .. 4
      /\ FirstWrong(a) # 0 => FirstWrong(a) <= Len(a) /\ Wrong(a, FirstWrong(a))
      /\ \A i \in 1 .. 4 : i <= Len(a) /\ (i < FirstWrong(a) \/ FirstWrong(a) = 0)
           => ~ Wrong(a, i)
  BY <1>1, FirstWrongIs
<1>4. Wrong(a, Len(a)) => Len(a) \in 1 .. 4
  BY <1>1 DEF Wrong
<1>5. ASSUME FirstWrong(a) # 0 PROVE FirstWrong(a) = Len(a) /\ Len(a) <= 4 /\ Wrong(a, Len(a))
  BY <1>1, <1>2, <1>3, <1>5
<1>. QED
  BY <1>1, <1>3, <1>4, <1>5

LEMMA HeadedIs ==
  ASSUME NEW p \in ReqParser, NEW m \in Seq(Byte), Headed(p, m)
  PROVE  /\ m[4] \in {IPV4, DN, IPV6}
         /\ AddressAt(m) = IF m[4] = DN THEN 6 ELSE 5
         /\ AddressSize(m) = Size(p.addr_len)
         /\ Size(p.addr_len) \in Nat /\ Size(p.addr_len) > 0
<1>1. Len(m) \in Nat /\ Len(m) >= 4 /\ FirstWrong(m) = 0
  BY DEF Headed
<1>2. ~ Wrong(m, 4)
  BY <1>1, FirstWrongIs
<1>3. m[4] \in {IPV4, DN, IPV6}
  BY <1>2 DEF Wrong
<1>4. p.addr_len \in Nat /\ p.addr_len < Top
  BY Bytes DEF ReqParser
<1>5. Size(p.addr_len) = IF p.addr_len = 0 THEN Top ELSE p.addr_len
  BY DEF Size, Top
<1>6. Size(p.addr_len) \in Nat /\ Size(p.addr_len) > 0
  BY <1>4, <1>5, Bytes
<1>7. AddressSize(m) = Size(p.addr_len)
  <2>1. CASE m[4] = IPV4
    <3>1. p.addr_len = IPv4Size /\ AddressSize(m) = IPv4Size
      BY <2>1 DEF Headed, AddressSize, IPV4, IPV6, DN
    <3>. QED
      BY <1>5, <3>1, Bytes
  <2>2. CASE m[4] = IPV6
    <3>1. p.addr_len = IPv6Size /\ AddressSize(m) = IPv6Size
      BY <2>2 DEF Headed, AddressSize, IPV4, IPV6, DN
    <3>. QED
      BY <1>5, <3>1, Bytes
  <2>3. CASE m[4] = DN
    BY <2>3 DEF Headed, AddressSize, IPV4, IPV6, DN
  <2>. QED
    BY <1>3, <2>1, <2>2, <2>3
<1>. QED
  BY <1>3, <1>6, <1>7 DEF AddressAt

LEMMA HeadedByte ==
  ASSUME NEW p \in ReqParser, NEW m \in Seq(Byte), Headed(p, m),
         NEW b \in Byte, NEW a, a = Append(m, b),
         NEW r, r.atyp = p.atyp, r.addr_len = p.addr_len
  PROVE  Headed(r, a) /\ AddressAt(a) = AddressAt(m) /\ a[4] = m[4]
<1>1. /\ Len(m) \in Nat /\ Len(a) = Len(m) + 1
      /\ \A i \in 1 .. Len(m) : a[i] = m[i]
  BY Appended
<1>2. FirstWrong(m) = 0 /\ Len(m) >= 4 /\ a[4] = m[4]
  BY <1>1 DEF Headed
<1>3. FirstWrong(a) = 0
  <2>1. FirstWrong(a) # 0 => Len(a) <= 4
    BY <1>2, FirstWrongByte
  <2>. QED
    BY <1>1, <1>2, <2>1
<1>4. m[4] = DN => a[5] = m[5] /\ Len(a) >= 5
  BY <1>1 DEF Headed
<1>. QED
  BY <1>1, <1>2, <1>3, <1>4 DEF Headed, AddressAt

LEMMA ReqOpen ==
  ASSUME NEW p \in ReqParser, NEW m \in Seq(Byte), m # <<>>, ReqReads(p, m)
  PROVE  ~ IsRequest(m)
<1>1. Len(m) \in Nat
  OBVIOUS
<1>2. CASE p.state \in {"REQ_VERSION", "REQ_CMD", "REQ_RSV", "REQ_ATYP", "REQ_DST_ADDR_LENGTH"}
  <2>1. FirstWrong(m) = 0 /\ Len(m) \in 0 .. 4
    BY <1>2 DEF ReqReads
  <2>. QED
    <3>1. ASSUME IsRequest(m) PROVE Len(m) >= 5
      BY <2>1, <3>1, Zenon DEF IsRequest
    <3>2. PICK n \in 0 .. 4 : Len(m) = n
      BY <2>1
    <3>3. ~(n >= 5)
      OBVIOUS
    <3>. QED
      BY <3>1, <3>2, <3>3, Zenon
<1>3. CASE p.state \in {"REQ_DST_ADDR", "REQ_DST_PORT"}
  <2>1. Headed(p, m) /\ Len(m) \in Nat /\ p.bytes_read \in Nat
    <3>1. Headed(p, m)
      BY <1>3 DEF ReqReads
    <3>2. p.bytes_read \in Nat
      BY Bytes DEF ReqParser
    <3>. QED
      BY <1>1, <3>1, <3>2
  <2>2. Len(m) < AddressAt(m) + Size(p.addr_len) + 1
    <3>1. AddressAt(m) \in Nat /\ Size(p.addr_len) \in Nat
      BY <2>1, HeadedIs
    <3>2. CASE p.state = "REQ_DST_ADDR"
      <4>1. p.bytes_read = Len(m) - (AddressAt(m) - 1) /\ p.bytes_read < Size(p.addr_len)
        BY <3>2 DEF ReqReads
      <4>. QED
        BY <2>1, <3>1, <4>1
    <3>3. CASE p.state = "REQ_DST_PORT"
      <4>1. /\ Len(m) = AddressAt(m) - 1 + Size(p.addr_len) + p.bytes_read
            /\ p.bytes_read \in {0, 1}
        BY <3>3 DEF ReqReads
      <4>. QED
        BY <2>1, <3>1, <4>1
    <3>. QED
      BY <1>3, <3>2, <3>3
  <2>3. /\ FirstWrong(m) = 0 /\ AddressSize(m) = Size(p.addr_len)
        /\ AddressAt(m) + Size(p.addr_len) + 1 \in Nat
    BY <2>1, HeadedIs DEF Headed
  <2>. QED
    BY <2>1, <2>2, <2>3 DEF IsRequest
<1>. QED
  BY <1>2, <1>3 DEF ReqReads

LEMMA ReqHeaderByte ==
  ASSUME NEW p \in ReqParser, NEW m \in Seq(Byte), NEW b \in Byte,
         p.state \in {"REQ_VERSION", "REQ_CMD", "REQ_RSV"}, ReqReads(p, m),
         NEW r, r = req_parse(p, b), NEW a, a = Append(m, b)
  PROVE  /\ r \in ReqParser
         /\ IF Ended(r) THEN ReqEnds(r, a) ELSE ReqReads(r, a)
<1>0. /\ Len(m) \in Nat /\ Len(a) = Len(m) + 1 /\ a[Len(m) + 1] = b
      /\ Len(m) = CASE p.state = "REQ_VERSION" -> 0 [] p.state = "REQ_CMD" -> 1
                    [] p.state = "REQ_RSV" -> 2
      /\ p.status = CON_SERVER_FAILURE /\ p.bytes_read = 0 /\ p.address = <<>>
      /\ FirstWrong(m) = 0
  BY Appended DEF ReqReads
<1>1. /\ Wrong(a, Len(a)) <=> FirstWrong(a) # 0
      /\ FirstWrong(a) # 0 => FirstWrong(a) = Len(a) /\ Len(a) <= 4
  BY <1>0, FirstWrongByte
<1>2. CASE p.state = "REQ_VERSION"
  <2>1. r = IF b = SOCKS_VERSION THEN [p EXCEPT !.state = "REQ_CMD"]
            ELSE [p EXCEPT !.state = "REQ_ERROR", !.status = p.status]
    BY <1>2 DEF req_parse, Failed
  <2>2. Len(a) = 1 /\ a[1] = b /\ (b # SOCKS_VERSION <=> Wrong(a, 1))
    BY <1>0, <1>2 DEF Wrong
  <2>3. CASE b = SOCKS_VERSION
    BY <1>0, <1>1, <2>1, <2>2, <2>3 DEF ReqParser, Ended, ReqReads
  <2>4. CASE b # SOCKS_VERSION
    <3>1. r \in ReqParser /\ r.state = "REQ_ERROR" /\ r.status = CON_SERVER_FAILURE
      BY <1>0, <2>1, <2>4 DEF ReqParser
    <3>. QED
      BY <1>1, <2>2, <2>4, <3>1 DEF Ended, ReqEnds, IsRequest
  <2>. QED
    BY <2>3, <2>4
<1>3. CASE p.state = "REQ_CMD"
  <2>1. r = IF b = CONNECT THEN [p EXCEPT !.state = "REQ_RSV"]
            ELSE [p EXCEPT !.state = "REQ_ERROR", !.status = CON_COMMAND_NOT_SUPPORTED]
    BY <1>3 DEF req_parse, Failed
  <2>2. Len(a) = 2 /\ a[2] = b /\ (b # CONNECT <=> Wrong(a, 2))
    BY <1>0, <1>3 DEF Wrong
  <2>3. CASE b = CONNECT
    BY <1>0, <1>1, <2>1, <2>2, <2>3 DEF ReqParser, Ended, ReqReads
  <2>4. CASE b # CONNECT
    <3>1. r \in ReqParser /\ r.state = "REQ_ERROR" /\ r.status = CON_COMMAND_NOT_SUPPORTED
      BY <1>0, <2>1, <2>4 DEF ReqParser
    <3>. QED
      BY <1>1, <2>2, <2>4, <3>1 DEF Ended, ReqEnds, IsRequest
  <2>. QED
    BY <2>3, <2>4
<1>4. CASE p.state = "REQ_RSV"
  <2>1. r = IF b = RSV THEN [p EXCEPT !.state = "REQ_ATYP"]
            ELSE [p EXCEPT !.state = "REQ_ERROR", !.status = CON_SERVER_FAILURE]
    BY <1>4 DEF req_parse, Failed
  <2>2. Len(a) = 3 /\ a[3] = b /\ (b # RSV <=> Wrong(a, 3))
    BY <1>0, <1>4 DEF Wrong
  <2>3. CASE b = RSV
    BY <1>0, <1>1, <2>1, <2>2, <2>3 DEF ReqParser, Ended, ReqReads
  <2>4. CASE b # RSV
    <3>1. r \in ReqParser /\ r.state = "REQ_ERROR" /\ r.status = CON_SERVER_FAILURE
      BY <1>0, <2>1, <2>4 DEF ReqParser
    <3>. QED
      BY <1>1, <2>2, <2>4, <3>1 DEF Ended, ReqEnds, IsRequest
  <2>. QED
    BY <2>3, <2>4
<1>. QED
  BY <1>2, <1>3, <1>4

LEMMA ReqTypeByte ==
  ASSUME NEW p \in ReqParser, NEW m \in Seq(Byte), NEW b \in Byte,
         p.state = "REQ_ATYP", ReqReads(p, m),
         NEW r, r = req_parse(p, b), NEW a, a = Append(m, b)
  PROVE  /\ r \in ReqParser
         /\ IF Ended(r) THEN ReqEnds(r, a) ELSE ReqReads(r, a)
<1>0. /\ Len(m) = 3 /\ p.status = CON_SERVER_FAILURE /\ p.bytes_read = 0
      /\ p.address = <<>> /\ FirstWrong(m) = 0
  BY DEF ReqReads
<1>1. Len(a) = 4 /\ a[4] = b
  <2>1. /\ Len(a) = Len(m) + 1 /\ a[Len(m) + 1] = b
        /\ \A i \in 1 .. Len(m) : a[i] = m[i]
    BY Appended
  <2>. QED
    BY <1>0, <2>1
<1>2. /\ Wrong(a, 4) <=> FirstWrong(a) # 0
      /\ FirstWrong(a) # 0 => FirstWrong(a) = 4
  BY <1>0, <1>1, FirstWrongByte
<1>3. Wrong(a, 4) <=> b \notin {IPV4, DN, IPV6}
  BY <1>1 DEF Wrong
<1>4. r = req_parse_atyp(p, b)
  BY DEF req_parse
<1>5. IPv4Size \in Byte /\ IPv6Size \in Byte
  BY Bytes
<1>6. CASE b \in {IPV4, IPV6}
  <2>1. r = [p EXCEPT !.atyp = b, !.state = "REQ_DST_ADDR",
                      !.addr_len = IF b = IPV4 THEN IPv4Size ELSE IPv6Size]
    <3>1. CASE b = IPV4
      BY <1>4, <3>1 DEF req_parse_atyp, IPV4, IPV6, DN, ReqParser
    <3>2. CASE b = IPV6
      BY <1>4, <3>2 DEF req_parse_atyp, IPV4, IPV6, DN, ReqParser
    <3>. QED
      BY <1>6, <3>1, <3>2
  <2>2. r \in ReqParser
    BY <1>5, <2>1 DEF ReqParser
  <2>3. /\ r.state = "REQ_DST_ADDR" /\ r.atyp = b /\ r.bytes_read = 0 /\ r.address = <<>>
        /\ r.addr_len = IF b = IPV4 THEN IPv4Size ELSE IPv6Size
    BY <1>0, <2>1 DEF ReqParser
  <2>4. Headed(r, a) /\ AddressAt(a) = 5
    BY <1>1, <1>2, <1>3, <1>6, <2>3 DEF Headed, AddressAt, IPV4, IPV6, DN
  <2>5. 0 < Size(r.addr_len)
    BY <2>3, Bytes DEF Size
  <2>6. SubSeq(a, 5, 4) = <<>>
    BY SubSeqEmpty
  <2>. QED
    BY <1>1, <2>2, <2>3, <2>4, <2>5, <2>6 DEF Ended, ReqReads
<1>7. CASE b = DN
  <2>1. r = [p EXCEPT !.atyp = b, !.state = "REQ_DST_ADDR_LENGTH"]
    BY <1>4, <1>7 DEF req_parse_atyp, IPV4, IPV6, DN, ReqParser
  <2>2. r \in ReqParser
    BY <2>1 DEF ReqParser
  <2>3. /\ r.state = "REQ_DST_ADDR_LENGTH" /\ r.atyp = DN /\ r.bytes_read = 0
        /\ r.address = <<>> /\ r.status = CON_SERVER_FAILURE
    BY <1>0, <1>7, <2>1 DEF ReqParser
  <2>. QED
    BY <1>1, <1>2, <1>3, <1>7, <2>2, <2>3 DEF Ended, ReqReads
<1>8. CASE b \notin {IPV4, DN, IPV6}
  <2>1. r = [p EXCEPT !.atyp = b, !.state = "REQ_ERROR", !.status = CON_ATYPE_NOT_SUPPORTED]
    BY <1>4, <1>8 DEF req_parse_atyp, Failed, IPV4, IPV6, DN, ReqParser
  <2>2. r \in ReqParser /\ r.state = "REQ_ERROR" /\ r.status = CON_ATYPE_NOT_SUPPORTED
    BY <2>1 DEF ReqParser
  <2>. QED
    BY <1>1, <1>2, <1>3, <1>8, <2>2 DEF Ended, ReqEnds, IsRequest
<1>. QED
  BY <1>6, <1>7, <1>8

LEMMA ReqLengthByte ==
  ASSUME NEW p \in ReqParser, NEW m \in Seq(Byte), NEW b \in Byte,
         p.state = "REQ_DST_ADDR_LENGTH", ReqReads(p, m),
         NEW r, r = req_parse(p, b), NEW a, a = Append(m, b)
  PROVE  /\ r \in ReqParser /\ ~ Ended(r) /\ ReqReads(r, a)
<1>0. /\ Len(m) = 4 /\ p.bytes_read = 0 /\ m[4] = DN /\ p.atyp = DN
      /\ p.address = <<>> /\ FirstWrong(m) = 0
  BY DEF ReqReads
<1>1. Len(a) = 5 /\ a[5] = b /\ a[4] = DN
  <2>1. /\ Len(a) = Len(m) + 1 /\ a[Len(m) + 1] = b
        /\ \A i \in 1 .. Len(m) : a[i] = m[i]
    BY Appended
  <2>. QED
    BY <1>0, <2>1
<1>2. FirstWrong(a) = 0
  <2>1. FirstWrong(a) # 0 => Len(a) <= 4
    BY <1>0, FirstWrongByte
  <2>. QED
    BY <1>1, <2>1
<1>3. r = [p EXCEPT !.state = "REQ_DST_ADDR", !.addr_len = b]
  BY DEF req_parse
<1>4. r \in ReqParser
  BY <1>3 DEF ReqParser
<1>5. /\ r.state = "REQ_DST_ADDR" /\ r.atyp = DN /\ r.bytes_read = 0 /\ r.address = <<>>
      /\ r.addr_len = b
  BY <1>0, <1>3 DEF ReqParser
<1>6. Headed(r, a) /\ AddressAt(a) = 6
  BY <1>1, <1>2, <1>5 DEF Headed, AddressAt, IPV4, IPV6, DN
<1>7. 0 < Size(r.addr_len)
  BY <1>4, <1>6, HeadedIs, Appended
<1>8. SubSeq(a, 6, 5) = <<>>
  BY SubSeqEmpty
<1>. QED
  BY <1>1, <1>4, <1>5, <1>6, <1>7, <1>8 DEF Ended, ReqReads

LEMMA ReqAddressByte ==
  ASSUME NEW p \in ReqParser, NEW m \in Seq(Byte), NEW b \in Byte,
         p.state = "REQ_DST_ADDR", ReqReads(p, m),
         NEW r, r = req_parse(p, b), NEW a, a = Append(m, b)
  PROVE  /\ r \in ReqParser /\ ~ Ended(r) /\ ReqReads(r, a)
<1> DEFINE A == AddressAt(m)
           n == p.bytes_read + 1
           S == Size(p.addr_len)
<1>0. /\ Headed(p, m) /\ p.bytes_read = Len(m) - (A - 1) /\ p.bytes_read < S
      /\ p.address = SubSeq(m, A, Len(m))
  BY DEF ReqReads
<1>1. /\ Len(m) \in Nat /\ Len(a) = Len(m) + 1 /\ a \in Seq(Byte)
  BY Appended
<1>2. /\ A \in {5, 6} /\ S \in Nat /\ S > 0
  BY <1>0, HeadedIs
<1>3. /\ p.bytes_read \in Nat /\ p.bytes_read \in Byte /\ p.bytes_read < Top
      /\ p.addr_len \in Nat /\ p.addr_len < Top /\ 0 \in Byte
  BY Bytes DEF ReqParser
<1>4. /\ Add(p.bytes_read, 1) = p.addr_len <=> n = S
      /\ n # S => Add(p.bytes_read, 1) = n /\ n \in Byte
  <2>1. Add(p.bytes_read, 1) = IF p.bytes_read = Top - 1 THEN 0 ELSE n
    BY <1>3, Counts
  <2>2. S = IF p.addr_len = 0 THEN Top ELSE p.addr_len
    BY DEF Size, Top
  <2>3. n # Top => n \in Byte
    BY <1>3, Bytes
  <2>4. CASE p.addr_len = 0
    BY <1>3, <2>1, <2>2, <2>3, <2>4, Bytes
  <2>5. CASE p.addr_len # 0
    <3>1. S = p.addr_len
      BY <2>2, <2>5
    <3>2. p.bytes_read < p.addr_len
      BY <1>0, <3>1
    <3>3. Add(p.bytes_read, 1) = n
      <4>1. p.bytes_read # Top - 1
        BY <1>3, <3>2, Bytes
      <4>. QED
        BY <2>1, <4>1
    <3>. QED
      BY <1>3, <2>3, <3>1, <3>2, <3>3
  <2>. QED
    BY <2>4, <2>5
<1>5. Append(p.address, b) = SubSeq(a, A, Len(a))
  <2>1. A \in Nat \ {0} /\ A <= Len(m) + 1
    BY <1>0, <1>1, <1>2, <1>3
  <2>2. SubSeq(Append(m, b), A, Len(m) + 1) = Append(SubSeq(m, A, Len(m)), b)
    <3>. HIDE DEF A
    <3>. QED
      BY <2>1, FieldMore
  <2>. QED
    BY <1>0, <1>1, <2>2
<1>6. Len(a) = A - 1 + n /\ n \in Nat
  BY <1>0, <1>1, <1>2, <1>3
<1>7. r = req_parse_dst_addr(p, b)
  BY DEF req_parse
<1>8. Append(p.address, b) \in Seq(Byte)
  BY DEF ReqParser
<1>h. ASSUME r.atyp = p.atyp, r.addr_len = p.addr_len
      PROVE  Headed(r, a) /\ AddressAt(a) = A
  BY <1>0, <1>h, HeadedByte
<1>. HIDE DEF A, n, S
<1>9. CASE n = S
  <2>1. Add(p.bytes_read, 1) = p.addr_len
    BY <1>4, <1>9
  <2> DEFINE F == SubSeq(Append(p.address, b), 1, p.addr_len)
  <2>2. r = [p EXCEPT !.address = F, !.bytes_read = 0, !.state = "REQ_DST_PORT"]
    BY <1>7, <2>1 DEF req_parse_dst_addr, ReqParser
  <2>3. Len(Append(p.address, b)) = n /\ p.addr_len <= n
    <3>1. Len(SubSeq(a, A, Len(a))) = n
      BY <1>1, <1>2, <1>6
    <3>2. n = S /\ S = IF p.addr_len = 0 THEN Top ELSE p.addr_len
      BY <1>9 DEF Size, Top, S
    <3>. QED
      BY <1>3, <1>5, <3>1, <3>2, Bytes
  <2>4. F = SubSeq(a, A, A + p.addr_len - 1)
    <3>1. SubSeq(SubSeq(a, A, Len(a)), 1, p.addr_len) = SubSeq(a, A, A + p.addr_len - 1)
      <4>1. A \in Nat \ {0} /\ p.addr_len \in Nat /\ A + p.addr_len - 1 <= Len(a)
        BY <1>1, <1>2, <1>3, <1>6, <2>3
      <4>. QED
        BY <1>1, <4>1, FieldOfField
    <3>. QED
      BY <1>5, <3>1
  <2>5. F \in Seq(Byte)
    BY <1>3, <1>8, <2>3
  <2>. HIDE DEF F
  <2>6. r \in ReqParser
    BY <1>3, <2>2, <2>5 DEF ReqParser
  <2>7. /\ r.state = "REQ_DST_PORT" /\ r.bytes_read = 0 /\ r.address = F
        /\ r.atyp = p.atyp /\ r.addr_len = p.addr_len
    BY <2>2 DEF ReqParser
  <2>8. Headed(r, a) /\ AddressAt(a) = A
    BY <1>h, <2>7
  <2>9. r.address = Address(r, a) /\ Len(a) = AddressAt(a) - 1 + Size(r.addr_len) + r.bytes_read
    BY <1>2, <1>6, <1>9, <2>4, <2>7, <2>8 DEF Address, S
  <2>. QED
    BY <2>6, <2>7, <2>8, <2>9 DEF Ended, ReqReads
<1>10. CASE n # S
  <2>1. Add(p.bytes_read, 1) = n /\ n \in Byte /\ n # p.addr_len
    BY <1>4, <1>10
  <2>2. r = [p EXCEPT !.address = Append(@, b), !.bytes_read = n]
    BY <1>7, <2>1 DEF req_parse_dst_addr, ReqParser
  <2>3. r \in ReqParser
    BY <1>8, <2>1, <2>2 DEF ReqParser
  <2>4. /\ r.state = "REQ_DST_ADDR" /\ r.bytes_read = n /\ r.address = Append(p.address, b)
        /\ r.atyp = p.atyp /\ r.addr_len = p.addr_len
    BY <2>2 DEF ReqParser
  <2>5. Headed(r, a) /\ AddressAt(a) = A
    BY <1>h, <2>4
  <2>6. n < S
    BY <1>0, <1>2, <1>3, <1>10 DEF n
  <2>7. r.bytes_read = Len(a) - (AddressAt(a) - 1) /\ r.bytes_read < Size(r.addr_len)
    BY <1>2, <1>6, <2>4, <2>5, <2>6 DEF S
  <2>8. r.address = SubSeq(a, AddressAt(a), Len(a))
    BY <1>5, <2>4, <2>5
  <2>. QED
    BY <2>3, <2>4, <2>5, <2>7, <2>8 DEF Ended, ReqReads
<1>. QED
  BY <1>9, <1>10

LEMMA ReqPortByte ==
  ASSUME NEW p \in ReqParser, NEW m \in Seq(Byte), NEW b \in Byte,
         p.state = "REQ_DST_PORT", ReqReads(p, m),
         NEW r, r = req_parse(p, b), NEW a, a = Append(m, b)
  PROVE  /\ r \in ReqParser
         /\ IF Ended(r) THEN ReqEnds(r, a) ELSE ReqReads(r, a)
<1> DEFINE A == AddressAt(m)
           S == Size(p.addr_len)
<1>0. /\ Headed(p, m) /\ p.bytes_read \in {0, 1} /\ Len(m) = A - 1 + S + p.bytes_read
      /\ p.address = Address(p, m)
      /\ p.bytes_read = 1 => p.port = m[Len(m)] * Top
  BY DEF ReqReads, Top
<1>1. /\ Len(m) \in Nat /\ Len(a) = Len(m) + 1 /\ a \in Seq(Byte)
      /\ a[Len(m) + 1] = b /\ \A i \in 1 .. Len(m) : a[i] = m[i]
  BY Appended
<1>2. /\ A \in {5, 6} /\ S \in Nat /\ S > 0 /\ p.addr_len \in Nat /\ p.addr_len <= S
  <2>1. p.addr_len \in Nat /\ p.addr_len <= S
    BY Bytes DEF ReqParser, Size, Top
  <2>. QED
    BY <1>0, <2>1, HeadedIs
<1>3. SubSeq(a, A, A + p.addr_len - 1) = SubSeq(m, A, A + p.addr_len - 1)
  <2>1. A \in Nat \ {0} /\ A + p.addr_len - 1 \in Nat /\ A + p.addr_len - 1 <= Len(m)
    BY <1>0, <1>1, <1>2
  <2>. HIDE DEF A
  <2>. QED
    BY <2>1, FieldBefore
<1>4. r = req_parse_dst_port(p, b)
  BY DEF req_parse
<1>5. b \in Nat /\ b * Top \in Nat /\ p.port \in Nat /\ p.port + b \in Nat /\ 1 \in Byte /\ 0 \in Byte
  BY Bytes DEF ReqParser
<1>6. ASSUME r.atyp = p.atyp, r.addr_len = p.addr_len, r.address = p.address
      PROVE  Headed(r, a) /\ AddressAt(a) = A /\ r.address = Address(r, a)
  <2>1. Headed(r, a) /\ AddressAt(a) = A
    BY <1>0, <1>6, HeadedByte
  <2>. QED
    BY <1>0, <1>3, <1>6, <2>1 DEF Address
<1>. HIDE DEF A, S
<1>7. CASE p.bytes_read = 0
  <2>1. r = [p EXCEPT !.bytes_read = 1, !.port = b * Top]
    BY <1>4, <1>7 DEF req_parse_dst_port, Top
  <2>2. r \in ReqParser
    BY <1>5, <2>1 DEF ReqParser
  <2>3. /\ r.state = "REQ_DST_PORT" /\ r.bytes_read = 1 /\ r.port = b * Top
        /\ r.atyp = p.atyp /\ r.addr_len = p.addr_len /\ r.address = p.address
    BY <2>1 DEF ReqParser
  <2>4. Headed(r, a) /\ AddressAt(a) = A /\ r.address = Address(r, a)
    BY <1>6, <2>3
  <2>5. Len(a) = AddressAt(a) - 1 + Size(r.addr_len) + r.bytes_read
    BY <1>0, <1>1, <1>2, <1>7, <2>3, <2>4 DEF S
  <2>6. r.port = a[Len(a)] * 2^Width
    BY <1>1, <2>3 DEF Top
  <2>. QED
    BY <2>2, <2>3, <2>4, <2>5, <2>6 DEF Ended, ReqReads
<1>8. CASE p.bytes_read = 1
  <2>1. r = [p EXCEPT !.bytes_read = 0, !.port = @ + b, !.state = "REQ_DONE"]
    BY <1>4, <1>8 DEF req_parse_dst_port
  <2>2. r \in ReqParser
    BY <1>5, <2>1 DEF ReqParser
  <2>3. /\ r.state = "REQ_DONE" /\ r.port = p.port + b
        /\ r.atyp = p.atyp /\ r.addr_len = p.addr_len /\ r.address = p.address
    BY <2>1 DEF ReqParser
  <2>4. Headed(r, a) /\ AddressAt(a) = A /\ r.address = Address(r, a)
    BY <1>6, <2>3
  <2>5. AddressSize(a) = S /\ FirstWrong(a) = 0
    BY <1>1, <2>2, <2>3, <2>4, HeadedIs DEF S, Headed
  <2>6. Len(a) = AddressAt(a) + AddressSize(a) + 1 /\ Len(a) >= 5
    BY <1>0, <1>1, <1>2, <1>8, <2>4, <2>5
  <2>7. r.port = a[Len(a) - 1] * 2^Width + a[Len(a)]
    <3>1. Len(m) >= 1 /\ Len(a) - 1 = Len(m)
      BY <1>0, <1>1, <1>2
    <3>2. a[Len(a) - 1] = m[Len(m)] /\ a[Len(a)] = b
      BY <1>1, <3>1
    <3>. QED
      BY <1>0, <1>8, <2>3, <3>2 DEF Top
  <2>8. IsRequest(a)
    BY <2>5, <2>6 DEF IsRequest
  <2>. QED
    BY <2>2, <2>3, <2>4, <2>5, <2>7, <2>8 DEF Ended, ReqEnds
<1>. QED
  BY <1>0, <1>7, <1>8

LEMMA ReqByte ==
  ASSUME NEW p \in ReqParser, NEW m \in Seq(Byte), NEW b \in Byte,
         ~ Ended(p), ReqReads(p, m),
         NEW r, r = req_parse(p, b), NEW a, a = Append(m, b)
  PROVE  /\ r \in ReqParser
         /\ IF Ended(r) THEN ReqEnds(r, a) ELSE ReqReads(r, a)
<1>1. p.state \in {"REQ_VERSION", "REQ_CMD", "REQ_RSV", "REQ_ATYP", "REQ_DST_ADDR_LENGTH",
                   "REQ_DST_ADDR", "REQ_DST_PORT"}
  BY DEF ReqReads
<1>. QED
  BY <1>1, ReqHeaderByte, ReqTypeByte, ReqLengthByte, ReqAddressByte, ReqPortByte

-----------------------------------------------------------------------------
(* The loop of the parser of the phase.                                    *)

LEMMA OpenOf ==
  ASSUME phase \in Reading, NEW p, NEW m, m # <<>>, Follows(phase, p, m), ~ Ended(p)
  PROVE  ~ Whole(phase, m)
<1>1. p \in PhaseParser(phase) /\ m \in Seq(Byte) /\ ReadsOf(phase, p, m)
  BY DEF Follows
<1>2. CASE phase = "NEGOTIATION_READ"
  BY <1>1, <1>2, NegOpen DEF PhaseParser, ReadsOf, Whole
<1>3. CASE phase = "AUTH_READ"
  BY <1>1, <1>3, AuthOpen DEF PhaseParser, ReadsOf, Whole
<1>4. CASE phase = "REQ_READ"
  BY <1>1, <1>4, ReqOpen DEF PhaseParser, ReadsOf, Whole
<1>. QED
  BY <1>2, <1>3, <1>4 DEF Reading

LEMMA FollowsByte ==
  ASSUME phase \in Reading, NEW p, NEW m, Follows(phase, p, m), ~ Ended(p),
         NEW b \in Byte, NEW r, r = parse(p, b), NEW a, a = Append(m, b)
  PROVE  Follows(phase, r, a)
<1>1. /\ p \in PhaseParser(phase) /\ m \in Seq(Byte) /\ ReadsOf(phase, p, m)
      /\ NoneWhole(phase, m, Len(m))
  BY DEF Follows
<1>2. /\ a \in Seq(Byte) /\ Len(m) \in Nat /\ a # <<>> /\ Len(a) = Len(m) + 1
  BY <1>1, Appended
<1>3. /\ r \in PhaseParser(phase)
      /\ IF Ended(r) THEN EndsOf(phase, r, a) ELSE ReadsOf(phase, r, a)
  <2>1. CASE phase = "NEGOTIATION_READ"
    <3>1. p \in NegParser /\ NegReads(p, m) /\ r = negotiation_parse(p, b)
      BY <1>1, <2>1 DEF PhaseParser, ReadsOf, parse
    <3>2. r \in NegParser /\ IF Ended(r) THEN NegEnds(r, a) ELSE NegReads(r, a)
      BY <1>1, <3>1, NegByte
    <3>. QED
      BY <2>1, <3>2 DEF PhaseParser, ReadsOf, EndsOf
  <2>2. CASE phase = "AUTH_READ"
    <3>1. p \in AuthParser /\ AuthReads(p, m) /\ r = auth_parse(p, b)
      BY <1>1, <2>2 DEF PhaseParser, ReadsOf, parse
    <3>2. r \in AuthParser /\ IF Ended(r) THEN AuthEnds(r, a) ELSE AuthReads(r, a)
      BY <1>1, <3>1, AuthByte
    <3>. QED
      BY <2>2, <3>2 DEF PhaseParser, ReadsOf, EndsOf
  <2>3. CASE phase = "REQ_READ"
    <3>1. p \in ReqParser /\ ReqReads(p, m) /\ r = req_parse(p, b)
      BY <1>1, <2>3 DEF PhaseParser, ReadsOf, parse
    <3>2. r \in ReqParser /\ IF Ended(r) THEN ReqEnds(r, a) ELSE ReqReads(r, a)
      BY <1>1, <3>1, ReqByte
    <3>. QED
      BY <2>3, <3>2 DEF PhaseParser, ReadsOf, EndsOf
  <2>. QED
    BY <2>1, <2>2, <2>3 DEF Reading
<1>4. ASSUME NEW i \in 1 .. Len(m) PROVE ~ Whole(phase, SubSeq(a, 1, i))
  <2>1. SubSeq(a, 1, i) = SubSeq(m, 1, i)
    BY <1>1, FieldBefore
  <2>. QED
    BY <1>1, <2>1 DEF NoneWhole
<1>5. NoneWhole(phase, a, Len(a) - 1)
  BY <1>2, <1>4 DEF NoneWhole
<1>6. CASE Ended(r)
  BY <1>2, <1>3, <1>5, <1>6 DEF Follows
<1>7. CASE ~ Ended(r)
  <2>1. ~ Whole(phase, a)
    <3>1. CASE phase = "NEGOTIATION_READ"
      BY <1>2, <1>3, <1>7, <3>1, NegOpen DEF PhaseParser, ReadsOf, Whole
    <3>2. CASE phase = "AUTH_READ"
      BY <1>2, <1>3, <1>7, <3>2, AuthOpen DEF PhaseParser, ReadsOf, Whole
    <3>3. CASE phase = "REQ_READ"
      BY <1>2, <1>3, <1>7, <3>3, ReqOpen DEF PhaseParser, ReadsOf, Whole
    <3>. QED
      BY <3>1, <3>2, <3>3 DEF Reading
  <2>2. SubSeq(a, 1, Len(a)) = a
    BY <1>2, SubSeqFull
  <2>3. \A i \in 1 .. Len(a) : i = Len(a) \/ i \in 1 .. Len(m)
    BY <1>2
  <2>4. NoneWhole(phase, a, Len(a))
    BY <1>4, <2>1, <2>2, <2>3 DEF NoneWhole
  <2>. QED
    BY <1>2, <1>3, <1>7, <2>4 DEF Follows
<1>. QED
  BY <1>6, <1>7

\* The loop reads up to the end of the message or of the buffer.
LEMMA LoopReads ==
  ASSUME phase \in Reading, Follows(phase, parser, msg), ~ Ended(parser),
         NEW q \in Seq(Byte), NEW d, d = Parsed(q)
  PROVE  /\ d.n \in 0 .. Len(q)
         /\ Follows(phase, d.p, msg \o SubSeq(q, 1, d.n))
         /\ ~ Ended(d.p) => d.n = Len(q)
<1> DEFINE V == {s \in [p : PhaseParser(phase), n : 0 .. Len(q)] :
                   Follows(phase, s.p, msg \o SubSeq(q, 1, s.n))}
           first == [p |-> parser, n |-> 0]
           next(s) == IF Ended(s.p) \/ s.n = Len(q) THEN s
                      ELSE [p |-> parse(s.p, q[s.n + 1]), n |-> s.n + 1]
           step == [s \in V |-> next(s)]
<1>0. Len(q) \in Nat /\ msg \in Seq(Byte)
  BY DEF Follows
<1>1. first \in V
  <2>1. SubSeq(q, 1, 0) = <<>>
    BY SubSeqEmpty
  <2>2. msg \o <<>> = msg
    BY <1>0, ConcatEmptySeq
  <2>3. parser \in PhaseParser(phase)
    BY DEF Follows
  <2>4. first.p = parser /\ first.n = 0 /\ 0 \in 0 .. Len(q)
    BY <1>0
  <2>5. Follows(phase, first.p, msg \o SubSeq(q, 1, first.n))
    BY <2>1, <2>2, <2>4
  <2>6. first \in [p : PhaseParser(phase), n : 0 .. Len(q)]
    BY <2>3, <2>4
  <2>. HIDE DEF first
  <2>. QED
    BY <2>5, <2>6
<1>2. ASSUME NEW s \in V, ~ Ended(s.p), s.n # Len(q)
      PROVE  [p |-> parse(s.p, q[s.n + 1]), n |-> s.n + 1] \in V
  <2>1. /\ s.n \in 0 .. Len(q) /\ s.n + 1 \in 1 .. Len(q)
        /\ Follows(phase, s.p, msg \o SubSeq(q, 1, s.n))
    BY <1>0, <1>2
  <2> DEFINE k == s.n + 1
             b == q[k]
             r == parse(s.p, b)
  <2>2. b \in Byte /\ k \in 1 .. Len(q)
    BY <2>1
  <2>3. SubSeq(q, 1, k) = Append(SubSeq(q, 1, s.n), b) /\ SubSeq(q, 1, s.n) \in Seq(Byte)
    BY <2>1
  <2>4. msg \o SubSeq(q, 1, k) = Append(msg \o SubSeq(q, 1, s.n), b)
    BY <1>0, <2>2, <2>3
  <2>. HIDE DEF b
  <2>5. Follows(phase, r, msg \o SubSeq(q, 1, k))
    <3>. HIDE DEF k, r
    <3>. QED
      BY <1>2, <2>1, <2>2, <2>4, FollowsByte DEF r
  <2>6. r \in PhaseParser(phase)
    BY <2>5 DEF Follows
  <2>. QED
    BY <2>2, <2>5, <2>6 DEF b
<1>3. step \in [V -> V]
  <2>1. ASSUME NEW s \in V PROVE next(s) \in V
    <3>. HIDE DEF V
    <3>. QED
      BY <1>2
  <2>. HIDE DEF V, next
  <2>. QED
    BY <2>1
<1>. HIDE DEF V
<1>4. PICK g : Iterates(g, V, first, step)
  <2>. HIDE DEF first, step
  <2>. QED
    BY <1>1, <1>3, Iterated
<1>5. /\ g \in [Nat -> V] /\ g[0] = first
      /\ \A i \in Nat : g[i + 1] = next(g[i])
  BY <1>4 DEF Iterates
<1> DEFINE run[i \in Nat] ==
             IF i = 0 THEN [p |-> parser, n |-> 0]
             ELSE LET s == run[i - 1]
                  IN IF Ended(s.p) \/ s.n = Len(q) THEN s
                     ELSE [p |-> parse(s.p, q[s.n + 1]), n |-> s.n + 1]
<1>6. g = [i \in Nat |-> IF i = 0 THEN first ELSE next(g[i - 1])]
  <2>1. \A i \in Nat \ {0} : g[i] = next(g[i - 1])
    <3>. HIDE DEF next
    <3>. QED
      BY <1>5
  <2>. HIDE DEF next, first
  <2>. QED
    BY <1>5, <2>1
<1>7. run = [i \in Nat |-> IF i = 0 THEN first ELSE next(run[i - 1])]
  BY <1>6
<1>8. d = run[Len(q)]
  BY DEF Parsed
<1>. HIDE DEF run
<1>9. run = g
  <2>. HIDE DEF next, first
  <2> DEFINE Same == {i \in Nat : run[i] = g[i]}
  <2>1. 0 \in Same
    BY <1>5, <1>7
  <2>2. ASSUME NEW i \in Nat, i \in Same PROVE i + 1 \in Same
    <3>1. run[i + 1] = next(run[i]) /\ g[i + 1] = next(g[i])
      <4>1. \A k \in Nat \ {0} : run[k] = next(run[k - 1])
        BY <1>7
      <4>2. PICK k \in Nat \ {0} : k = i + 1 /\ k - 1 = i
        OBVIOUS
      <4>3. run[k] = next(run[k - 1])
        BY <4>1, <4>2
      <4>. QED
        BY <1>5, <4>2, <4>3
    <3>. QED
      BY <2>2, <3>1
  <2>3. Nat \subseteq Same
    <3>. HIDE DEF Same
    <3>. QED
      BY <2>1, <2>2, NaturalsIn
  <2>. QED
    BY <1>5, <1>7, <2>3
<1>10. d \in V
  BY <1>0, <1>5, <1>8, <1>9
<1> DEFINE S == {i \in Nat : Ended(g[i].p) \/ g[i].n = Len(q) \/ g[i].n = i}
<1>11. Nat \subseteq S
  <2>1. 0 \in S
    BY <1>5
  <2>2. ASSUME NEW i \in Nat, i \in S PROVE i + 1 \in S
    <3>1. g[i + 1] = next(g[i])
      BY <1>5
    <3>2. CASE Ended(g[i].p) \/ g[i].n = Len(q)
      BY <3>1, <3>2
    <3>3. CASE ~ Ended(g[i].p) /\ g[i].n # Len(q)
      BY <2>2, <3>1, <3>3
    <3>. QED
      BY <3>2, <3>3
  <2>. HIDE DEF S
  <2>. QED
    BY <2>1, <2>2, NaturalsIn
<1>12. ~ Ended(d.p) => d.n = Len(q)
  BY <1>0, <1>8, <1>9, <1>11
<1>. QED
  BY <1>10, <1>12 DEF V

-----------------------------------------------------------------------------
(* The buffer and the stream.                                              *)

Sized(b) == b.q \in Seq(Byte) /\ b.gap \in 0 .. Capacity /\ Room(b) \in 0 .. Capacity

LEMMA Received ==
  ASSUME NEW c, Sized(c), NEW t \in Seq(Byte), Len(t) <= Room(c), NEW b, b = Extend(c, t)
  PROVE  Sized(b) /\ b.q = c.q \o t
<1>1. b.q = c.q \o t /\ b.gap = c.gap
  BY DEF Extend
<1>2. /\ c.q \in Seq(Byte) /\ c.gap \in Nat /\ c.gap <= Capacity /\ Capacity \in Nat
      /\ Room(c) = Capacity - c.gap - Len(c.q)
  BY ParsersAssumption DEF Sized, Room
<1>3. b.q \in Seq(Byte) /\ Len(b.q) = Len(c.q) + Len(t) /\ Len(c.q) \in Nat /\ Len(t) \in Nat
  BY <1>1, <1>2, ConcatProperties
<1>4. Room(b) = Capacity - c.gap - (Len(c.q) + Len(t))
  BY <1>1, <1>3 DEF Room
<1>. QED
  BY <1>1, <1>2, <1>3, <1>4 DEF Sized

LEMMA Consumed ==
  ASSUME NEW b, Sized(b), NEW n \in 0 .. Len(b.q), NEW c, c = Consume(b, n)
  PROVE  Sized(c) /\ c.q = SubSeq(b.q, n + 1, Len(b.q))
<1>1. b.q \in Seq(Byte) /\ b.gap \in Nat /\ Capacity \in Nat /\ Len(b.q) \in Nat /\ n \in Nat
  BY ParsersAssumption DEF Sized
<1>2. CASE n = Len(b.q)
  <2>1. c.q = <<>> /\ c.gap = 0 /\ Len(c.q) = 0
    BY <1>2 DEF Consume, EmptyQueue
  <2>2. SubSeq(b.q, n + 1, Len(b.q)) = <<>>
    BY <1>1, <1>2, SubSeqEmpty
  <2>3. Room(c) \in 0 .. Capacity /\ c.gap \in 0 .. Capacity /\ c.q \in Seq(Byte)
    BY <1>1, <2>1 DEF Room
  <2>. QED
    BY <2>1, <2>2, <2>3, Zenon DEF Sized
<1>3. CASE n # Len(b.q)
  <2>1. c.q = SubSeq(b.q, n + 1, Len(b.q)) /\ c.gap = b.gap + n
    BY <1>3 DEF Consume
  <2>2. c.q \in Seq(Byte) /\ Len(c.q) = Len(b.q) - n
    BY <1>1, <1>3, <2>1
  <2>3. Room(c) = Room(b) /\ Room(b) \in 0 .. Capacity /\ Room(b) = Capacity - b.gap - Len(b.q)
    BY <1>1, <2>1, <2>2 DEF Sized, Room
  <2>4. c.gap \in 0 .. Capacity
    BY <1>1, <2>1, <2>3
  <2>. QED
    BY <2>1, <2>2, <2>3, <2>4 DEF Sized
<1>. QED
  BY <1>2, <1>3

\* Concatenation, folded so that the provers reason by the lemmas alone.
Cat(a, b) == a \o b

LEMMA Associative ==
  ASSUME NEW a \in Seq(Byte), NEW b \in Seq(Byte), NEW c \in Seq(Byte)
  PROVE  Cat(Cat(a, b), c) = Cat(a, Cat(b, c))
<1>1. (a \o b) \o c = a \o (b \o c)
  BY ConcatAssociative
<1>. QED
  BY <1>1, Zenon DEF Cat

LEMMA Joined ==
  ASSUME NEW a \in Seq(Byte), NEW b \in Seq(Byte)
  PROVE  Cat(a, b) \in Seq(Byte)
  BY ConcatProperties, Zenon DEF Cat

LEMMA Halves ==
  ASSUME NEW s \in Seq(Byte), NEW n \in 0 .. Len(s)
  PROVE  /\ SubSeq(s, 1, n) \in Seq(Byte) /\ SubSeq(s, n + 1, Len(s)) \in Seq(Byte)
         /\ Cat(SubSeq(s, 1, n), SubSeq(s, n + 1, Len(s))) = s
<1>1. Len(s) \in Nat /\ n \in Nat
  OBVIOUS
<1>2. SubSeq(s, 1, n) \in Seq(Byte)
  BY <1>1
<1>3. SubSeq(s, n + 1, Len(s)) \in Seq(Byte)
  BY <1>1
<1>4. SubSeq(s, 1, n) \o SubSeq(s, n + 1, Len(s)) = s
  <2>1. 1 \in 1 .. Len(s) + 1 /\ n \in 1 - 1 .. Len(s) /\ Len(s) \in n .. Len(s)
    BY <1>1
  <2>2. SubSeq(s, 1, n) \o SubSeq(s, n + 1, Len(s)) = SubSeq(s, 1, Len(s))
    BY <2>1, ConcatAdjacentSubSeq, Zenon
  <2>3. SubSeq(s, 1, Len(s)) = s
    BY SubSeqFull
  <2>. QED
    BY <2>2, <2>3, Zenon
<1>. QED
  BY <1>2, <1>3, <1>4 DEF Cat

\* What moves from the socket to the buffer, and from there to the parser,
\* leaves the whole as it was.
LEMMA Tiles ==
  ASSUME NEW T \in Seq(Byte), NEW Q \in Seq(Byte), NEW N \in Seq(Byte),
         NEW k \in 0 .. Len(N), NEW B \in Seq(Byte), B = Cat(Q, SubSeq(N, 1, k)),
         NEW n \in 0 .. Len(B)
  PROVE  Cat(Cat(Cat(T, SubSeq(B, 1, n)), SubSeq(B, n + 1, Len(B))), SubSeq(N, k + 1, Len(N)))
           = Cat(Cat(T, Q), N)
<1>1. PICK N1 \in Seq(Byte), N2 \in Seq(Byte) :
        N1 = SubSeq(N, 1, k) /\ N2 = SubSeq(N, k + 1, Len(N)) /\ Cat(N1, N2) = N
  <2>1. /\ SubSeq(N, 1, k) \in Seq(Byte) /\ SubSeq(N, k + 1, Len(N)) \in Seq(Byte)
        /\ Cat(SubSeq(N, 1, k), SubSeq(N, k + 1, Len(N))) = N
    BY Halves
  <2>. QED
    BY <2>1, Zenon
<1>2. PICK B1 \in Seq(Byte), B2 \in Seq(Byte) :
        B1 = SubSeq(B, 1, n) /\ B2 = SubSeq(B, n + 1, Len(B)) /\ Cat(B1, B2) = B
  <2>1. /\ SubSeq(B, 1, n) \in Seq(Byte) /\ SubSeq(B, n + 1, Len(B)) \in Seq(Byte)
        /\ Cat(SubSeq(B, 1, n), SubSeq(B, n + 1, Len(B))) = B
    BY Halves
  <2>. QED
    BY <2>1, Zenon
<1>3. B = Cat(Q, N1)
  BY <1>1
<1>4. Cat(Cat(Cat(T, B1), B2), N2) = Cat(Cat(T, Q), N)
  <2>a. N1 \in Seq(Byte) /\ N2 \in Seq(Byte) /\ Cat(N1, N2) = N
    BY <1>1, Zenon
  <2>b. B1 \in Seq(Byte) /\ B2 \in Seq(Byte) /\ Cat(B1, B2) = B
    BY <1>2, Zenon
  <2>1. Cat(Cat(T, B1), B2) = Cat(T, B)
    BY <2>b, Associative
  <2>2. Cat(Cat(T, B), N2) = Cat(T, Cat(B, N2))
    BY Associative
  <2>3. Cat(B, N2) = Cat(Q, N)
    BY <1>3, <2>a, Associative
  <2>4. Cat(T, Cat(Q, N)) = Cat(Cat(T, Q), N)
    BY Associative
  <2>. QED
    BY <2>1, <2>2, <2>3, <2>4
<1>. QED
  BY <1>1, <1>2, <1>4

-----------------------------------------------------------------------------
(* Every step keeps the invariant.                                         *)

LEMMA Starts ==
  /\ Follows("NEGOTIATION_READ", initialize_negotiation_parser, <<>>)
  /\ Follows("AUTH_READ", initialize_auth_parser, <<>>)
  /\ Follows("REQ_READ", initialize_request_parser, <<>>)
  /\ ~ Ended(initialize_negotiation_parser) /\ ~ Ended(initialize_auth_parser)
  /\ ~ Ended(initialize_request_parser)
<1>1. /\ ~ Ended(initialize_negotiation_parser) /\ ~ Ended(initialize_auth_parser)
      /\ ~ Ended(initialize_request_parser)
  BY DEF Ended, initialize_negotiation_parser, initialize_auth_parser,
         initialize_request_parser
<1>2. /\ <<>> \in Seq(Byte) /\ Len(<<>>) = 0 /\ 0 \in Byte
      /\ \A ph : NoneWhole(ph, <<>>, 0)
  BY Bytes DEF NoneWhole
<1>3. initialize_negotiation_parser \in NegParser /\ NegReads(initialize_negotiation_parser, <<>>)
  BY <1>2 DEF initialize_negotiation_parser, NegParser, NegReads
<1>4. initialize_auth_parser \in AuthParser /\ AuthReads(initialize_auth_parser, <<>>)
  BY <1>2 DEF initialize_auth_parser, AuthParser, AuthReads
<1>5. initialize_request_parser \in ReqParser /\ ReqReads(initialize_request_parser, <<>>)
  <2>1. FirstWrong(<<>>) = 0
    <3>1. PICK e \in Seq(Byte) : e = <<>> /\ Len(e) = 0
      BY <1>2
    <3>2. FirstWrong(e) \in 0 .. 4 /\ (FirstWrong(e) # 0 => FirstWrong(e) <= Len(e))
      BY FirstWrongIs
    <3>3. FirstWrong(e) = 0
      BY <3>1, <3>2
    <3>. QED
      BY <3>1, <3>3
  <2>. QED
    BY <1>2, <2>1 DEF initialize_request_parser, ReqParser, ReqReads
<1>6. Follows("NEGOTIATION_READ", initialize_negotiation_parser, <<>>)
  BY <1>1, <1>2, <1>3 DEF Follows, PhaseParser, ReadsOf
<1>7. Follows("AUTH_READ", initialize_auth_parser, <<>>)
  BY <1>1, <1>2, <1>4 DEF Follows, PhaseParser, ReadsOf
<1>8. Follows("REQ_READ", initialize_request_parser, <<>>)
  BY <1>1, <1>2, <1>5 DEF Follows, PhaseParser, ReadsOf
<1>. QED
  BY <1>1, <1>6, <1>7, <1>8

LEMMA InitPInv == Init => PInv
<1> SUFFICES ASSUME Init PROVE PInv
  OBVIOUS
<1>1. /\ phase = "NEGOTIATION_READ" /\ parser = initialize_negotiation_parser
      /\ client_to_sv = EmptyQueue /\ net = <<>> /\ stream = <<>> /\ messages = 0
      /\ taken = <<>> /\ msg = <<>>
      /\ result = [p |-> parser, msg |-> <<>>, reply |-> <<>>]
  BY DEF Init
<1>2. <<>> \in Seq(Byte) /\ Len(<<>>) = 0 /\ Capacity \in Nat
  BY ParsersAssumption
<1>3. client_to_sv.q = <<>> /\ client_to_sv.gap = 0
  BY <1>1 DEF EmptyQueue
<1>4. PTypeOK
  <2>1. parser \in NegParser
    BY <1>1, Starts DEF Follows, PhaseParser
  <2>. QED
    BY <1>1, <1>2, <1>3, <2>1 DEF PTypeOK, Room, NegParser
<1>5. <<>> \o <<>> \o <<>> = <<>>
  BY <1>2, ConcatEmptySeq
<1>6. StreamTiled
  BY <1>1, <1>3, <1>5 DEF StreamTiled
<1>7. ParsedAsGrammar
  BY <1>1 DEF ParsedAsGrammar
<1>8. ~ Ended(parser) /\ Follows(phase, parser, msg)
  BY <1>1, Starts
<1>. QED
  BY <1>1, <1>2, <1>4, <1>6, <1>7, <1>8 DEF PInv

\* What recv and the loop of the parser do in each phase.
LEMMA ReadStep ==
  ASSUME PInv, phase \in Reading, NEW k \in Reads, NEW r, r = recv_and_parse(k), Read(k, r)
  PROVE  /\ Follows(phase, r.p, r.msg)
         /\ Sized(client_to_sv') /\ net' \in Seq(Byte) /\ taken' \in Seq(Byte)
         /\ stream' = stream /\ messages' = messages /\ StreamTiled'
         /\ IF Ended(r.p) THEN msg' = <<>> ELSE msg' = r.msg /\ client_to_sv'.q = <<>>
<1>1. /\ Sized(client_to_sv) /\ net \in Seq(Byte) /\ taken \in Seq(Byte)
      /\ client_to_sv.q \in Seq(Byte) /\ stream = taken \o client_to_sv.q \o net
      /\ ~ Ended(parser) /\ Follows(phase, parser, msg)
  BY DEF PInv, PTypeOK, StreamTiled, Sized
<1>2. k \in Nat /\ k <= Room(client_to_sv) /\ k \in 0 .. Len(net)
  <2>1. Room(client_to_sv) \in Nat /\ Len(net) \in Nat
    BY <1>1, ParsersAssumption DEF Sized
  <2>2. Min({Room(client_to_sv), Len(net)})
          = IF Room(client_to_sv) < Len(net) THEN Room(client_to_sv) ELSE Len(net)
    <3>1. CASE Room(client_to_sv) < Len(net)
      BY <2>1, <3>1, LeastIs
    <3>2. CASE ~(Room(client_to_sv) < Len(net))
      BY <2>1, <3>2, LeastIs
    <3>. QED
      BY <3>1, <3>2
  <2>. QED
    BY <2>1, <2>2 DEF Reads
<1> DEFINE t == SubSeq(net, 1, k)
           b == Extend(client_to_sv, t)
           d == Parsed(b.q)
<1>3. t \in Seq(Byte) /\ Len(t) = k
  BY <1>1, <1>2
<1>4. Sized(b) /\ b.q = client_to_sv.q \o t /\ b.q \in Seq(Byte)
  <2>. HIDE DEF t
  <2>1. Sized(b) /\ b.q = client_to_sv.q \o t
    BY <1>1, <1>2, <1>3, Received
  <2>. QED
    BY <2>1 DEF Sized
<1>5. r = [p |-> d.p, msg |-> msg \o SubSeq(b.q, 1, d.n), n |-> d.n, b |-> b]
  BY DEF recv_and_parse
<1>7. r.p = d.p /\ r.n = d.n /\ r.b = b /\ r.msg = msg \o SubSeq(b.q, 1, d.n)
  <2> DEFINE w == msg \o SubSeq(b.q, 1, d.n)
  <2>1. r = [p |-> d.p, msg |-> w, n |-> d.n, b |-> b]
    BY <1>5
  <2>. HIDE DEF d, b, w
  <2>2. r.p = d.p /\ r.n = d.n /\ r.b = b /\ r.msg = w
    BY <2>1
  <2>. QED
    BY <2>2, Zenon DEF w
<1>. HIDE DEF d, b
<1>6. /\ d.n \in 0 .. Len(b.q)
      /\ Follows(phase, d.p, msg \o SubSeq(b.q, 1, d.n))
      /\ ~ Ended(d.p) => d.n = Len(b.q)
  BY <1>1, <1>4, LoopReads DEF d
<1>8. client_to_sv' = Consume(b, d.n)
  BY <1>7 DEF Read, Rest
<1>9. Sized(client_to_sv') /\ client_to_sv'.q = SubSeq(b.q, d.n + 1, Len(b.q))
  BY <1>4, <1>6, <1>8, Consumed
<1>10. /\ net' = SubSeq(net, k + 1, Len(net)) /\ taken' = taken \o SubSeq(b.q, 1, d.n)
       /\ stream' = stream /\ messages' = messages
       /\ msg' = IF Ended(r.p) THEN <<>> ELSE r.msg
  BY <1>7 DEF Read
<1>11. net' \in Seq(Byte)
  BY <1>1, <1>2, <1>10
<1>12. taken' \in Seq(Byte)
  <2>1. SubSeq(b.q, 1, d.n) \in Seq(Byte)
    BY <1>4, <1>6, FieldType
  <2>. QED
    BY <1>1, <1>10, <2>1, ConcatProperties
<1>13. StreamTiled'
  <2>1. (taken \o SubSeq(b.q, 1, d.n)) \o SubSeq(b.q, d.n + 1, Len(b.q))
          \o SubSeq(net, k + 1, Len(net)) = taken \o client_to_sv.q \o net
    <3>1. b.q = Cat(client_to_sv.q, SubSeq(net, 1, k))
      BY <1>4, Zenon DEF Cat
    <3>2. PICK B \in Seq(Byte) : B = b.q /\ B = Cat(client_to_sv.q, SubSeq(net, 1, k))
      BY <1>4, <3>1
    <3>3. PICK n \in 0 .. Len(B) : n = d.n
      BY <1>6, <3>2
    <3>4. PICK Q \in Seq(Byte) : Q = client_to_sv.q
      BY <1>1
    <3>5. Cat(Cat(Cat(taken, SubSeq(B, 1, n)), SubSeq(B, n + 1, Len(B))),
              SubSeq(net, k + 1, Len(net))) = Cat(Cat(taken, Q), net)
      BY <1>1, <1>2, <3>2, <3>4, Tiles
    <3>. QED
      BY <3>2, <3>3, <3>4, <3>5, Zenon DEF Cat
  <2>. QED
    BY <1>1, <1>9, <1>10, <2>1 DEF StreamTiled
<1>14. d.n = Len(b.q) => client_to_sv'.q = <<>>
  <2>1. Len(b.q) \in Nat /\ SubSeq(b.q, Len(b.q) + 1, Len(b.q)) = <<>>
    BY <1>4, SubSeqEmpty
  <2>. QED
    BY <1>9, <2>1
<1>. QED
  BY <1>6, <1>7, <1>9, <1>10, <1>11, <1>12, <1>13, <1>14

\* PInv of the next state, when the parser of its phase is at work or none is.
LEMMA Kept ==
  ASSUME phase' \in Reading \cup {"REQ_WRITE", "SOCKS_ERROR"},
         Sized(client_to_sv'), net' \in Seq(Byte), taken' \in Seq(Byte),
         stream' \in Seq(Byte), messages' \in Nat, StreamTiled',
         phase' \in Reading => ~ Ended(parser') /\ Follows(phase', parser', msg'),
         msg' # <<>> => client_to_sv'.q = <<>>, ParsedAsGrammar'
  PROVE  PInv'
<1>1. /\ phase' = "NEGOTIATION_READ" => parser'.quantity \in Byte
      /\ phase' = "AUTH_READ" => parser'.length \in Byte /\ parser'.bytes_read \in Byte
      /\ phase' = "REQ_READ" => parser'.addr_len \in Byte /\ parser'.bytes_read \in Byte
  <2>1. ASSUME phase' = "NEGOTIATION_READ" PROVE parser'.quantity \in Byte
    <3>1. parser' \in NegParser
      BY <2>1 DEF Reading, Follows, PhaseParser
    <3>. QED
      BY <3>1 DEF NegParser
  <2>2. ASSUME phase' = "AUTH_READ"
        PROVE  parser'.length \in Byte /\ parser'.bytes_read \in Byte
    <3>1. parser' \in AuthParser
      BY <2>2 DEF Reading, Follows, PhaseParser
    <3>. QED
      BY <3>1 DEF AuthParser
  <2>3. ASSUME phase' = "REQ_READ"
        PROVE  parser'.addr_len \in Byte /\ parser'.bytes_read \in Byte
    <3>1. parser' \in ReqParser
      BY <2>3 DEF Reading, Follows, PhaseParser
    <3>. QED
      BY <3>1 DEF ReqParser
  <2>. QED
    BY <2>1, <2>2, <2>3
<1>2. /\ client_to_sv'.q \in Seq(Byte) /\ client_to_sv'.gap \in 0 .. Capacity
      /\ Room(client_to_sv') \in 0 .. Capacity
  BY DEF Sized
<1>3. PTypeOK'
  BY <1>1, <1>2 DEF PTypeOK, Reading
<1>. QED
  BY <1>3 DEF PInv

\* What a parser that has ended says is what the grammar says of its message.
LEMMA NegotiationParsed ==
  ASSUME NEW p \in NegParser, NEW m, NegEnds(p, m), NEW reply,
         result' = [p |-> p, msg |-> m, reply |-> reply]
  PROVE  ParsedAsGrammar'
<1>1. "selected" \in DOMAIN p
  BY DEF NegParser
<1>3. "uname" \notin DOMAIN p /\ "atyp" \notin DOMAIN p
  BY DEF NegParser
<1>2. result'.p = p /\ result'.msg = m
  OBVIOUS
<1>. QED
  BY <1>1, <1>2, <1>3, Zenon DEF ParsedAsGrammar, NegEnds, Offered

LEMMA AuthenticationParsed ==
  ASSUME NEW p \in AuthParser, NEW m, AuthEnds(p, m), NEW reply,
         result' = [p |-> p, msg |-> m, reply |-> reply]
  PROVE  ParsedAsGrammar'
<1>1. "selected" \notin DOMAIN p /\ "uname" \in DOMAIN p /\ "atyp" \notin DOMAIN p
  BY DEF AuthParser
<1>2. result'.p = p /\ result'.msg = m
  OBVIOUS
<1>. QED
  BY <1>1, <1>2, Zenon DEF ParsedAsGrammar, AuthEnds, Name, Passwd

\* A reply is as long as its address type announces.
LEMMA ReplySize ==
  ASSUME NEW status, NEW family, NEW reply, reply = req_generate_response(status, family)
  PROVE  /\ reply[2] = status
         /\ Len(reply) = 6 + (IF reply[4] = IPV4 THEN IPv4Size ELSE IPv6Size)
<1> DEFINE six == status = CON_SUCCEEDED /\ family = "AF_INET6"
           n == (IF six THEN IPv6Size ELSE IPv4Size) + 2
           head == <<SOCKS_VERSION, status, RSV, IF six THEN IPV6 ELSE IPV4>>
           zeros == [i \in 1 .. n |-> 0]
           V == {SOCKS_VERSION, status, RSV, IPV6, IPV4, 0}
<1>1. n \in Nat /\ n = (IF six THEN IPv6Size ELSE IPv4Size) + 2
  BY Bytes
<1>2. /\ head \in Seq(V) /\ Len(head) = 4 /\ head[2] = status
      /\ head[4] = IF six THEN IPV6 ELSE IPV4
  OBVIOUS
<1>3. zeros \in Seq(V) /\ Len(zeros) = n
  <2>1. zeros \in [1 .. n -> V]
    OBVIOUS
  <2>. HIDE DEF n, V
  <2>. QED
    BY <1>1, <2>1
<1>4. reply = head \o zeros
  BY DEF req_generate_response
<1>. HIDE DEF head, zeros, V, n
<1>5. Len(reply) = 4 + n /\ \A i \in 1 .. 4 : reply[i] = head[i]
  <2>1. /\ Len(head \o zeros) = Len(head) + Len(zeros)
        /\ \A i \in 1 .. Len(head) + Len(zeros) :
             (head \o zeros)[i] = IF i <= Len(head) THEN head[i] ELSE zeros[i - Len(head)]
    BY <1>2, <1>3, ConcatProperties, Zenon
  <2>. QED
    BY <1>1, <1>2, <1>3, <1>4, <2>1
<1>. QED
  BY <1>1, <1>2, <1>5, Bytes DEF IPV4, IPV6

LEMMA RequestParsed ==
  ASSUME NEW q \in ReqParser, NEW m, ReqEnds(q, m), Ended(q),
         NEW status, NEW family,
         status \in IF q.state = "REQ_ERROR" THEN {q.status}
                    ELSE {CON_SUCCEEDED, CON_SERVER_FAILURE},
         result' = [p |-> [q EXCEPT !.status = status], msg |-> m,
                    reply |-> req_generate_response(status, family)]
  PROVE  ParsedAsGrammar'
<1> DEFINE p == [q EXCEPT !.status = status]
           reply == req_generate_response(status, family)
<1>1. /\ "selected" \notin DOMAIN p /\ "uname" \notin DOMAIN p /\ "atyp" \in DOMAIN p
      /\ p.state = q.state /\ p.status = status /\ p.address = q.address
      /\ p.port = q.port /\ p.addr_len = q.addr_len
  BY DEF ReqParser
<1>2. reply[2] = status /\ Len(reply) = 6 + (IF reply[4] = IPV4 THEN IPv4Size ELSE IPv6Size)
  BY ReplySize
<1>3. result'.p = p /\ result'.msg = m /\ result'.reply = reply
  OBVIOUS
<1>. HIDE DEF p, reply
<1>4. /\ IsRequest(m)
      /\ p.state = "REQ_ERROR" <=> FirstWrong(m) # 0
      /\ p.state = "REQ_ERROR" => p.status = q.status
      /\ p.state = "REQ_DONE" =>
           /\ p.address = SubSeq(m, AddressAt(m), AddressAt(m) + p.addr_len - 1)
           /\ p.port = m[Len(m) - 1] * 2^Width + m[Len(m)]
  BY <1>1 DEF ReqEnds, Address
<1>5. p.state = "REQ_ERROR" =>
        p.status = CASE FirstWrong(m) \in {1, 3} -> CON_SERVER_FAILURE
                     [] FirstWrong(m) = 2 -> CON_COMMAND_NOT_SUPPORTED
                     [] FirstWrong(m) = 4 -> CON_ATYPE_NOT_SUPPORTED
  BY <1>1, <1>4, Zenon DEF ReqEnds
<1>. QED
  BY <1>1, <1>2, <1>3, <1>4, <1>5, Zenon DEF ParsedAsGrammar

LEMMA NegotiationRead == PInv /\ negotiation_read => PInv'
<1> SUFFICES ASSUME PInv, negotiation_read PROVE PInv'
  OBVIOUS
<1>1. phase = "NEGOTIATION_READ" /\ phase \in Reading
  BY DEF negotiation_read, Reading
<1>2. PICK k \in Reads :
        LET r == recv_and_parse(k)
            reply == <<SOCKS_VERSION, r.p.selected>>
        IN /\ Read(k, r)
           /\ \/ Continues(r)
              \/ r.p.state = "NEG_ERROR" /\ Ends(r, <<>>, "SOCKS_ERROR", r.p)
              \/ /\ r.p.state = "NEG_DONE" /\ r.p.selected = NOT_ACCEPTABLE
                 /\ Ends(r, reply, "SOCKS_ERROR", r.p)
              \/ /\ r.p.state = "NEG_DONE" /\ r.p.selected # NOT_ACCEPTABLE
                 /\ Ends(r, reply, "AUTH_READ", initialize_auth_parser)
  BY DEF negotiation_read
<1> DEFINE r == recv_and_parse(k)
           reply == <<SOCKS_VERSION, r.p.selected>>
<1>3. Read(k, r)
  BY <1>2
<1>4. \/ Continues(r)
      \/ \E said, next, initial :
           /\ Ends(r, said, next, initial)
           /\ next = "SOCKS_ERROR" \/ (next = "AUTH_READ" /\ initial = initialize_auth_parser)
  BY <1>2
<1>. HIDE DEF r, reply
<1>5. /\ Follows(phase, r.p, r.msg)
      /\ Sized(client_to_sv') /\ net' \in Seq(Byte) /\ taken' \in Seq(Byte)
      /\ stream' = stream /\ messages' = messages /\ StreamTiled'
      /\ IF Ended(r.p) THEN msg' = <<>> ELSE msg' = r.msg /\ client_to_sv'.q = <<>>
  BY <1>1, <1>3, ReadStep DEF r
<1>6. stream' \in Seq(Byte) /\ messages' \in Nat /\ ParsedAsGrammar
  BY <1>5 DEF PInv
<1>7. CASE Continues(r)
  <2>1. ~ Ended(r.p) /\ parser' = r.p /\ phase' = phase /\ result' = result
    BY <1>7 DEF Continues
  <2>2. ParsedAsGrammar'
    BY <1>6, <2>1 DEF ParsedAsGrammar
  <2>3. Follows(phase', parser', msg')
    BY <1>5, <2>1, Zenon
  <2>. QED
    BY <1>1, <1>5, <1>6, <2>1, <2>2, <2>3, Kept
<1>8. ASSUME NEW said, NEW next, NEW initial, Ends(r, said, next, initial),
             next = "SOCKS_ERROR" \/ (next = "AUTH_READ" /\ initial = initialize_auth_parser)
      PROVE  PInv'
  <2>1. /\ Ended(r.p) /\ result' = [p |-> r.p, msg |-> r.msg, reply |-> said]
        /\ phase' = next /\ parser' = initial
    BY <1>8 DEF Ends
  <2>2. msg' = <<>>
    BY <1>5, <2>1
  <2>3. r.p \in NegParser /\ NegEnds(r.p, r.msg)
    BY <1>1, <1>5, <2>1 DEF Follows, PhaseParser, EndsOf
  <2>4. ParsedAsGrammar'
    BY <2>1, <2>3, NegotiationParsed
  <2>5. phase' \in Reading => ~ Ended(parser') /\ Follows(phase', parser', msg')
    BY <1>8, <2>1, <2>2, Starts DEF Reading
  <2>6. phase' \in Reading \cup {"REQ_WRITE", "SOCKS_ERROR"}
    BY <1>8, <2>1 DEF Reading
  <2>. QED
    BY <1>5, <1>6, <2>2, <2>4, <2>5, <2>6, Kept
<1>. QED
  BY <1>4, <1>7, <1>8

LEMMA AuthenticationRead == PInv /\ authentication_read => PInv'
<1> SUFFICES ASSUME PInv, authentication_read PROVE PInv'
  OBVIOUS
<1>1. phase = "AUTH_READ" /\ phase \in Reading
  BY DEF authentication_read, Reading
<1>2. PICK k \in Reads :
        LET r == recv_and_parse(k)
        IN /\ Read(k, r)
           /\ \/ Continues(r)
              \/ \E authenticated \in {0, 1} :
                   Ends(r, <<AUTH_VERSION, authenticated>>, "REQ_READ", initialize_request_parser)
  BY DEF authentication_read
<1> DEFINE r == recv_and_parse(k)
<1>3. Read(k, r)
  BY <1>2
<1>4. Continues(r) \/ \E said : Ends(r, said, "REQ_READ", initialize_request_parser)
  BY <1>2
<1>. HIDE DEF r
<1>5. /\ Follows(phase, r.p, r.msg)
      /\ Sized(client_to_sv') /\ net' \in Seq(Byte) /\ taken' \in Seq(Byte)
      /\ stream' = stream /\ messages' = messages /\ StreamTiled'
      /\ IF Ended(r.p) THEN msg' = <<>> ELSE msg' = r.msg /\ client_to_sv'.q = <<>>
  BY <1>1, <1>3, ReadStep DEF r
<1>6. stream' \in Seq(Byte) /\ messages' \in Nat /\ ParsedAsGrammar
  BY <1>5 DEF PInv
<1>7. CASE Continues(r)
  <2>1. ~ Ended(r.p) /\ parser' = r.p /\ phase' = phase /\ result' = result
    BY <1>7 DEF Continues
  <2>2. ParsedAsGrammar'
    BY <1>6, <2>1 DEF ParsedAsGrammar
  <2>3. Follows(phase', parser', msg')
    BY <1>5, <2>1, Zenon
  <2>. QED
    BY <1>1, <1>5, <1>6, <2>1, <2>2, <2>3, Kept
<1>8. ASSUME NEW said, Ends(r, said, "REQ_READ", initialize_request_parser)
      PROVE  PInv'
  <2>1. /\ Ended(r.p) /\ result' = [p |-> r.p, msg |-> r.msg, reply |-> said]
        /\ phase' = "REQ_READ" /\ parser' = initialize_request_parser
    BY <1>8 DEF Ends
  <2>2. msg' = <<>>
    BY <1>5, <2>1
  <2>3. r.p \in AuthParser /\ AuthEnds(r.p, r.msg)
    BY <1>1, <1>5, <2>1 DEF Follows, PhaseParser, EndsOf
  <2>4. ParsedAsGrammar'
    BY <2>1, <2>3, AuthenticationParsed
  <2>5. ~ Ended(parser') /\ Follows(phase', parser', msg')
    BY <2>1, <2>2, Starts
  <2>6. phase' \in Reading
    BY <2>1 DEF Reading
  <2>. QED
    BY <1>5, <1>6, <2>2, <2>4, <2>5, <2>6, Kept
<1>. QED
  BY <1>4, <1>7, <1>8

LEMMA RequestRead == PInv /\ request_read => PInv'
<1> SUFFICES ASSUME PInv, request_read PROVE PInv'
  OBVIOUS
<1>1. phase = "REQ_READ" /\ phase \in Reading
  BY DEF request_read, Reading
<1>2. PICK k \in Reads :
        LET r == recv_and_parse(k)
            outcomes == IF r.p.state = "REQ_ERROR" THEN {r.p.status}
                        ELSE {CON_SUCCEEDED, CON_SERVER_FAILURE}
        IN /\ Read(k, r)
           /\ \/ Continues(r)
              \/ \E family \in Family, status \in outcomes :
                   Ends([r EXCEPT !.p.status = status], req_generate_response(status, family),
                        "REQ_WRITE", r.p)
  BY DEF request_read
<1> DEFINE r == recv_and_parse(k)
           q == r.p
           outcomes == IF q.state = "REQ_ERROR" THEN {q.status}
                       ELSE {CON_SUCCEEDED, CON_SERVER_FAILURE}
<1>3. Read(k, r)
  BY <1>2
<1>4. \/ Continues(r)
      \/ \E family \in Family, status \in outcomes :
           Ends([r EXCEPT !.p.status = status], req_generate_response(status, family),
                "REQ_WRITE", q)
  BY <1>2
<1>r. PICK n, b : r = [p |-> q, msg |-> r.msg, n |-> n, b |-> b]
  BY DEF recv_and_parse
<1>. HIDE DEF r
<1>5. /\ Follows(phase, q, r.msg)
      /\ Sized(client_to_sv') /\ net' \in Seq(Byte) /\ taken' \in Seq(Byte)
      /\ stream' = stream /\ messages' = messages /\ StreamTiled'
      /\ IF Ended(q) THEN msg' = <<>> ELSE msg' = r.msg /\ client_to_sv'.q = <<>>
  BY <1>1, <1>3, ReadStep DEF r
<1>6. stream' \in Seq(Byte) /\ messages' \in Nat /\ ParsedAsGrammar
  BY <1>5 DEF PInv
<1>. HIDE DEF q
<1>7. CASE Continues(r)
  <2>1. ~ Ended(q) /\ parser' = q /\ phase' = phase /\ result' = result
    BY <1>7 DEF Continues, q
  <2>2. ParsedAsGrammar'
    BY <1>6, <2>1 DEF ParsedAsGrammar
  <2>3. Follows(phase', parser', msg')
    BY <1>5, <2>1, Zenon
  <2>. QED
    BY <1>1, <1>5, <1>6, <2>1, <2>2, <2>3, Kept
<1>8. ASSUME NEW family \in Family, NEW status \in outcomes,
             Ends([r EXCEPT !.p.status = status], req_generate_response(status, family),
                  "REQ_WRITE", q)
      PROVE  PInv'
  <2> DEFINE p == [q EXCEPT !.status = status]
             said == req_generate_response(status, family)
             s == [r EXCEPT !.p.status = status]
  <2>1. q \in ReqParser
    BY <1>1, <1>5 DEF Follows, PhaseParser
  <2>2. s.p = p /\ s.msg = r.msg
    BY <1>r
  <2>3. p.state = q.state
    BY <2>1 DEF ReqParser
  <2>4. /\ Ended(s.p) /\ result' = [p |-> s.p, msg |-> s.msg, reply |-> said]
        /\ phase' = "REQ_WRITE"
    BY <1>8 DEF Ends
  <2>5. Ended(q) /\ result' = [p |-> p, msg |-> r.msg, reply |-> said]
    <3>. HIDE DEF s, p, said
    <3>. QED
      BY <2>2, <2>3, <2>4 DEF Ended
  <2>6. ReqEnds(q, r.msg)
    BY <1>1, <1>5, <2>5 DEF Follows, EndsOf
  <2>7. ParsedAsGrammar'
    BY <2>1, <2>5, <2>6, RequestParsed
  <2>8. msg' = <<>> /\ phase' = "REQ_WRITE"
    BY <1>5, <2>4, <2>5
  <2>9. phase' \notin Reading
    BY <2>8 DEF Reading
  <2>. QED
    BY <1>5, <1>6, <2>7, <2>8, <2>9, Kept
<1>. QED
  BY <1>4, <1>7, <1>8

LEMMA NextPInv == PInv /\ [Next]_vars => PInv'
<1> SUFFICES ASSUME PInv, [Next]_vars PROVE PInv'
  OBVIOUS
<1>0. /\ Sized(client_to_sv) /\ net \in Seq(Byte) /\ taken \in Seq(Byte)
      /\ stream \in Seq(Byte) /\ messages \in Nat /\ StreamTiled /\ ParsedAsGrammar
      /\ phase \in Reading \cup {"REQ_WRITE", "SOCKS_ERROR"}
      /\ phase \in Reading => ~ Ended(parser) /\ Follows(phase, parser, msg)
      /\ msg # <<>> => client_to_sv.q = <<>>
  BY DEF PInv, PTypeOK, Sized, Reading
<1>1. CASE recv_fails
  <2>1. phase' = "SOCKS_ERROR" /\ phase' \notin Reading
    BY <1>1 DEF recv_fails, Reading
  <2>2. UNCHANGED <<parser, client_to_sv, net, stream, messages, taken, msg, result>>
    BY <1>1 DEF recv_fails
  <2>3. StreamTiled' /\ ParsedAsGrammar'
    BY <1>0, <2>2 DEF StreamTiled, ParsedAsGrammar
  <2>. QED
    BY <1>0, <2>1, <2>2, <2>3, Kept
<1>2. CASE client_sends
  <2>1. PICK m \in Messages[messages + 1] : stream' = stream \o m /\ net' = net \o m
    BY <1>2 DEF client_sends
  <2>2. /\ messages < Len(Messages) /\ messages' = messages + 1
        /\ UNCHANGED <<phase, parser, client_to_sv, taken, msg, result>>
    BY <1>2 DEF client_sends
  <2>3. m \in Seq(Byte)
    <3>1. Messages \in Seq(SUBSET Seq(Byte))
      BY ParsersAssumption, Zenon
    <3>2. messages + 1 \in 1 .. Len(Messages)
      BY <1>0, <2>2, <3>1
    <3>3. Messages[messages + 1] \in SUBSET Seq(Byte)
      BY <3>1, <3>2
    <3>. QED
      BY <2>1, <3>3, Zenon
  <2>4. net' \in Seq(Byte) /\ stream' \in Seq(Byte) /\ messages' \in Nat
    BY <1>0, <2>1, <2>2, <2>3, ConcatProperties
  <2>5. StreamTiled'
    <3>1. PICK Q \in Seq(Byte) : Q = client_to_sv.q
      BY <1>0 DEF Sized
    <3>2. Cat(Cat(Cat(taken, Q), net), m) = Cat(Cat(taken, Q), Cat(net, m))
      <4>1. Cat(taken, Q) \in Seq(Byte)
        BY <1>0, Joined
      <4>. QED
        BY <1>0, <2>3, <4>1, Associative
    <3>3. stream = Cat(Cat(taken, Q), net)
      BY <1>0, <3>1, Zenon DEF StreamTiled, Cat
    <3>4. stream' = Cat(stream, m) /\ net' = Cat(net, m)
      BY <2>1, Zenon DEF Cat
    <3>5. stream' = Cat(Cat(taken, Q), net')
      BY <3>2, <3>3, <3>4, Zenon
    <3>6. taken' = taken /\ client_to_sv'.q = Q
      BY <2>2, <3>1
    <3>. QED
      BY <3>5, <3>6, Zenon DEF StreamTiled, Cat
  <2>6. ParsedAsGrammar'
    BY <1>0, <2>2 DEF ParsedAsGrammar
  <2>7. Sized(client_to_sv') /\ Follows(phase', parser', msg') = Follows(phase, parser, msg)
    BY <1>0, <2>2
  <2>. QED
    BY <1>0, <2>2, <2>4, <2>5, <2>6, <2>7, Kept
<1>3. CASE UNCHANGED vars
  <2>1. UNCHANGED <<phase, parser, client_to_sv, net, stream, messages, taken, msg, result>>
    BY <1>3 DEF vars
  <2>2. StreamTiled' /\ ParsedAsGrammar'
    BY <1>0, <2>1 DEF StreamTiled, ParsedAsGrammar
  <2>. QED
    BY <1>0, <2>1, <2>2, Kept
<1>. QED
  BY <1>1, <1>2, <1>3, NegotiationRead, AuthenticationRead, RequestRead DEF Next

LEMMA AlwaysPInv == Spec => []PInv
  BY InitPInv, NextPInv, PTL DEF Spec

-----------------------------------------------------------------------------

\* However recv cuts the stream and whatever the client pipelines, the
\* buffer keeps to its memory, and the counters and lengths of the parser
\* are bytes: the methods left, the length of a field and how much of it was
\* read never leave uint8_t, also when a length of 0 makes a count come round.
THEOREM ParsersTypeCorrect == Spec => []PTypeOK
<1>1. PInv => PTypeOK
  BY DEF PInv
<1>. QED
  BY <1>1, AlwaysPInv, PTL

\* Every parser that ends has read exactly one message of its grammar, with
\* the fields at their offsets and the error of the first wrong field, for
\* every length a byte can say (negotiation_parse, auth_parse, req_parse).
THEOREM MessagesParsedAsGrammar == Spec => []ParsedAsGrammar
<1>1. PInv => ParsedAsGrammar
  BY DEF PInv
<1>. QED
  BY <1>1, AlwaysPInv, PTL

\* No read leaves a whole message in the parser unanswered, nor bytes in
\* the buffer behind a message that has begun.
THEOREM ReadsUpToTheMessage == Spec => []NoCompleteMessageWaits
<1>1. PInv => NoCompleteMessageWaits
  <2> SUFFICES ASSUME PInv PROVE NoCompleteMessageWaits
    OBVIOUS
  <2>1. phase \in Reading => NoneWhole(phase, msg, Len(msg))
    BY DEF PInv, Follows
  <2>2. msg # <<>> => client_to_sv.q = <<>>
    BY DEF PInv
  <2>3. ASSUME NEW k \in 1 .. Len(msg), phase \in Reading
        PROVE  ~ Whole(phase, SubSeq(msg, 1, k))
    BY <2>1, <2>3 DEF NoneWhole
  <2>. QED
    BY <2>2, <2>3, Zenon DEF NoCompleteMessageWaits, Whole, Reading
<1>. QED
  BY <1>1, AlwaysPInv, PTL

\* No byte is lost, repeated or moved between the three phases, wherever a
\* message ends in the buffer (buffer_write_adv, buffer_read).
THEOREM NoByteLost == Spec => []StreamTiled
<1>1. PInv => StreamTiled
  BY DEF PInv
<1>. QED
  BY <1>1, AlwaysPInv, PTL

=============================================================================
