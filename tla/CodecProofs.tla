---------------------------- MODULE CodecProofs ----------------------------
(***************************************************************************)
(* What the network header carries is found again at the other end, for    *)
(* every header and whatever follows it (HeaderRoundTrip), and with it     *)
(* where a message came from and which request it answers, in every        *)
(* exchange of any devices and messages (HeadersAlwaysKept).  Who-Is,      *)
(* Who-Has, I-Am and I-Have are read as they were written, and whoever     *)
(* asks hears of the right devices (QuestionsAlwaysAnswered).              *)
(*                                                                         *)
(* Holds(o, at, s) says that the octets s stand in o from position at on:  *)
(* a concatenation stands there when its parts stand one after the other,  *)
(* and a reader that has got as far as `at` finds the next part.           *)
(***************************************************************************)
EXTENDS Announcements, SequenceTheorems, FiniteSetTheorems, WellFoundedInduction, TLAPS

-----------------------------------------------------------------------------
(* Octets and their places.                                                *)

\* The octets s stand in o from position at on.
Holds(o, at, s) ==
    /\ at \in Nat \ {0}
    /\ at + Len(s) - 1 <= Len(o)
    /\ \A i \in 1..Len(s) : o[at + i - 1] = s[i]

LEMMA HoldsWhole ==
    ASSUME NEW S, NEW s \in Seq(S)
    PROVE  Holds(s, 1, s)
  BY SMT DEF Holds

LEMMA HoldsConcat ==
    ASSUME NEW S, NEW o \in Seq(S), NEW at \in Nat \ {0}, NEW s \in Seq(S), NEW t \in Seq(S)
    PROVE  Holds(o, at, s \o t) <=> Holds(o, at, s) /\ Holds(o, at + Len(s), t)
  <1>1. /\ s \o t \in Seq(S) /\ Len(s \o t) = Len(s) + Len(t)
        /\ \A i \in 1..Len(s) : (s \o t)[i] = s[i]
        /\ \A i \in 1..Len(t) : (s \o t)[Len(s) + i] = t[i]
    BY SMT
  <1>2. ASSUME Holds(o, at, s \o t)
        PROVE  Holds(o, at, s) /\ Holds(o, at + Len(s), t)
    <2>1. \A i \in 1..Len(s) : o[at + i - 1] = s[i]
      BY <1>1, <1>2, SMT DEF Holds
    <2>2. ASSUME NEW i \in 1..Len(t)
          PROVE  o[at + Len(s) + i - 1] = t[i]
      <3>1. Len(s) + i \in 1..Len(s \o t)
        BY <1>1, SMT
      <3>2. o[at + (Len(s) + i) - 1] = (s \o t)[Len(s) + i]
        BY <1>2, <3>1 DEF Holds
      <3>3. at + (Len(s) + i) - 1 = at + Len(s) + i - 1
        BY SMT
      <3> QED  BY <1>1, <3>2, <3>3
    <2> QED  BY <1>1, <1>2, <2>1, <2>2, SMT DEF Holds
  <1>3. ASSUME Holds(o, at, s), Holds(o, at + Len(s), t)
        PROVE  Holds(o, at, s \o t)
    <2>1. ASSUME NEW i \in 1..Len(s \o t)
          PROVE  o[at + i - 1] = (s \o t)[i]
      <3>1. CASE i <= Len(s)
        BY <1>1, <1>3, <3>1, SMT DEF Holds
      <3>2. CASE i > Len(s)
        <4>1. i - Len(s) \in 1..Len(t) /\ Len(s) + (i - Len(s)) = i
          BY <1>1, <3>2, SMT
        <4>2. o[at + Len(s) + (i - Len(s)) - 1] = t[i - Len(s)]
          BY <1>3, <4>1 DEF Holds
        <4>3. at + Len(s) + (i - Len(s)) - 1 = at + i - 1
          BY <4>1, SMT
        <4>4. (s \o t)[i] = t[i - Len(s)]
          BY <1>1, <4>1
        <4> QED  BY <4>2, <4>3, <4>4
      <3> QED  BY <1>1, <3>1, <3>2, SMT
    <2> QED  BY <1>1, <1>3, <2>1, SMTT(30) DEF Holds
  <1> QED  BY <1>2, <1>3

\* What stands somewhere is cut out.
LEMMA HoldsSubSeq ==
    ASSUME NEW S, NEW o \in Seq(S), NEW at \in Nat \ {0}, NEW s \in Seq(S), Holds(o, at, s)
    PROVE  SubSeq(o, at, at + Len(s) - 1) = s
  <1>1. SubSeq(o, at, at + Len(s) - 1) \in Seq(S) /\ Len(SubSeq(o, at, at + Len(s) - 1)) = Len(s)
    BY SMT DEF Holds
  <1>2. \A i \in 1..Len(s) : SubSeq(o, at, at + Len(s) - 1)[i] = s[i]
    BY SMT DEF Holds
  <1> QED  BY <1>1, <1>2, SeqEqual

\* Five parts, one behind the other.
LEMMA FiveParts ==
    ASSUME NEW S, NEW a \in Seq(S), NEW b \in Seq(S), NEW c \in Seq(S), NEW d \in Seq(S), NEW e \in Seq(S)
    PROVE  /\ (((a \o b) \o c) \o d) \o e \in Seq(S)
           /\ Len((((a \o b) \o c) \o d) \o e) = Len(a) + Len(b) + Len(c) + Len(d) + Len(e)
  <1> DEFINE ab == a \o b
             abc == ab \o c
             abcd == abc \o d
  <1>1. ab \in Seq(S) /\ Len(ab) = Len(a) + Len(b)
    BY ConcatProperties, Zenon
  <1> HIDE DEF ab
  <1>2. abc \in Seq(S) /\ Len(abc) = Len(ab) + Len(c)
    BY <1>1, ConcatProperties, Zenon
  <1> HIDE DEF abc
  <1>3. abcd \in Seq(S) /\ Len(abcd) = Len(abc) + Len(d)
    BY <1>2, ConcatProperties, Zenon
  <1> HIDE DEF abcd
  <1>4. abcd \o e \in Seq(S) /\ Len(abcd \o e) = Len(abcd) + Len(e)
    BY <1>3, ConcatProperties, Zenon
  <1>5. Len(abcd \o e) = Len(a) + Len(b) + Len(c) + Len(d) + Len(e)
    BY <1>1, <1>2, <1>3, <1>4
  <1> QED  BY <1>4, <1>5, Zenon DEF ab, abc, abcd

LEMMA FivePlaces ==
    ASSUME NEW S, NEW o \in Seq(S), NEW at \in Nat \ {0},
           NEW a \in Seq(S), NEW b \in Seq(S), NEW c \in Seq(S), NEW d \in Seq(S), NEW e \in Seq(S),
           Holds(o, at, (((a \o b) \o c) \o d) \o e)
    PROVE  /\ Holds(o, at, a)
           /\ Holds(o, at + Len(a), b)
           /\ Holds(o, at + Len(a) + Len(b), c)
           /\ Holds(o, at + Len(a) + Len(b) + Len(c), d)
           /\ Holds(o, at + Len(a) + Len(b) + Len(c) + Len(d), e)
  <1> DEFINE ab == a \o b
             abc == ab \o c
             abcd == abc \o d
  <1>0. Len(a) \in Nat /\ Len(b) \in Nat /\ Len(c) \in Nat /\ Len(d) \in Nat
    BY LenProperties, Zenon
  <1>1. ab \in Seq(S) /\ Len(ab) = Len(a) + Len(b)
    BY ConcatProperties, Zenon
  <1>2. Holds(o, at, ab) => Holds(o, at, a) /\ Holds(o, at + Len(a), b)
    BY HoldsConcat, Zenon
  <1> HIDE DEF ab
  <1>3. abc \in Seq(S) /\ Len(abc) = Len(a) + Len(b) + Len(c)
    BY <1>1, ConcatProperties, Zenon
  <1>4. Holds(o, at, abc) => Holds(o, at, ab) /\ Holds(o, at + Len(ab), c)
    BY <1>1, HoldsConcat, Zenon
  <1> HIDE DEF abc
  <1>5. abcd \in Seq(S) /\ Len(abcd) = Len(a) + Len(b) + Len(c) + Len(d)
    BY <1>3, ConcatProperties, Zenon
  <1>6. Holds(o, at, abcd) => Holds(o, at, abc) /\ Holds(o, at + Len(abc), d)
    BY <1>3, HoldsConcat, Zenon
  <1> HIDE DEF abcd
  <1>7. Holds(o, at, abcd) /\ Holds(o, at + Len(abcd), e)
    BY <1>5, HoldsConcat, Zenon DEF ab, abc, abcd
  <1>8. /\ at + Len(ab) = at + Len(a) + Len(b)
        /\ at + Len(abc) = at + Len(a) + Len(b) + Len(c)
        /\ at + Len(abcd) = at + Len(a) + Len(b) + Len(c) + Len(d)
    BY <1>0, <1>1, <1>3, <1>5, SMT
  <1> QED  BY <1>2, <1>4, <1>6, <1>7, <1>8, Zenon
-----------------------------------------------------------------------------
(* Numbers in octets.                                                      *)

LEMMA Digits ==
    ASSUME NEW v \in Int
    PROVE  /\ v \div 256 \in Int /\ v % 256 \in Octets
           /\ v = 256 * (v \div 256) + (v % 256)
  BY SMT DEF Octets

LEMMA Weights ==
    /\ Weight[1] = 1 /\ Weight[2] = 256
    /\ Weight[3] = 65536 /\ Weight[4] = 16777216
  BY SMT DEF Weight

LEMMA OctetOf ==
    ASSUME NEW v \in Int
    PROVE  /\ Octet(v, 0) = v % 256
           /\ Octet(v, 1) = (v \div 256) % 256
           /\ Octet(v, 2) = ((v \div 256) \div 256) % 256
           /\ Octet(v, 3) = (((v \div 256) \div 256) \div 256) % 256
  <1>1. 0 + 1 = 1 /\ 1 + 1 = 2 /\ 2 + 1 = 3 /\ 3 + 1 = 4
    BY SMT
  <1>2. v \div 1 = v
    BY SMT
  <1>3. /\ Octet(v, 0) = (v \div Weight[1]) % 256
        /\ Octet(v, 1) = (v \div Weight[2]) % 256
        /\ Octet(v, 2) = (v \div Weight[3]) % 256
        /\ Octet(v, 3) = (v \div Weight[4]) % 256
    BY <1>1 DEF Octet
  <1>4. v \div Weight[3] = (v \div 256) \div 256
    BY Weights, SMT
  <1>5. v \div Weight[4] = ((v \div 256) \div 256) \div 256
    BY Weights, SMT
  <1>6. Weight[1] = 1 /\ Weight[2] = 256
    BY Weights, SMT
  <1> QED  BY <1>2, <1>3, <1>4, <1>5, <1>6

LEMMA OctetIsOctet ==
    ASSUME NEW v \in Int
    PROVE  /\ Octet(v, 0) \in Octets /\ Octet(v, 1) \in Octets
           /\ Octet(v, 2) \in Octets /\ Octet(v, 3) \in Octets
  <1>0. v \in Int
    OBVIOUS
  <1>1. v \div 256 \in Int
    BY Digits
  <1>2. (v \div 256) \div 256 \in Int
    BY <1>1, Digits
  <1>3. ((v \div 256) \div 256) \div 256 \in Int
    BY <1>2, Digits
  <1>4. Octet(v, 0) \in Octets
    <2>1. Octet(v, 0) = v % 256
      BY <1>0, OctetOf, ZenonT(40)
    <2> QED  BY <2>1, Digits
  <1>5. Octet(v, 1) \in Octets
    <2>1. Octet(v, 1) = (v \div 256) % 256
      BY <1>0, OctetOf
    <2> QED  BY <1>1, <2>1, Digits
  <1>6. Octet(v, 2) \in Octets
    <2>1. Octet(v, 2) = ((v \div 256) \div 256) % 256
      BY <1>0, OctetOf
    <2> QED  BY <1>2, <2>1, Digits
  <1>7. Octet(v, 3) \in Octets
    <2>1. Octet(v, 3) = (((v \div 256) \div 256) \div 256) % 256
      BY <1>0, OctetOf
    <2> QED  BY <1>3, <2>1, Digits
  <1> QED  BY <1>4, <1>5, <1>6, <1>7

LEMMA BigEndianIs ==
    ASSUME NEW v
    PROVE  /\ BigEndian(v, 1) = <<Octet(v, 0)>>
           /\ BigEndian(v, 2) = <<Octet(v, 1), Octet(v, 0)>>
           /\ BigEndian(v, 3) = <<Octet(v, 2), Octet(v, 1), Octet(v, 0)>>
           /\ BigEndian(v, 4) = <<Octet(v, 3), Octet(v, 2), Octet(v, 1), Octet(v, 0)>>
  <1>1. BigEndian(v, 1) = <<Octet(v, 0)>>
    BY SMT DEF BigEndian
  <1>2. BigEndian(v, 2) = <<Octet(v, 1), Octet(v, 0)>>
    BY SMT DEF BigEndian
  <1>3. BigEndian(v, 3) = <<Octet(v, 2), Octet(v, 1), Octet(v, 0)>>
    BY SMT DEF BigEndian
  <1>4. BigEndian(v, 4) = <<Octet(v, 3), Octet(v, 2), Octet(v, 1), Octet(v, 0)>>
    BY SMT DEF BigEndian
  <1> QED  BY <1>1, <1>2, <1>3, <1>4

\* The top octet of four has the sign.
Signed8(a) == IF a >= 128 THEN a - 256 ELSE a

LEMMA ValueOfOne ==
    ASSUME NEW a \in Octets
    PROVE  uint32fromVarLengthRaw(<<a>>) = a
  BY Weights, SMT DEF uint32fromVarLengthRaw, Octets

LEMMA ValueOfTwo ==
    ASSUME NEW a \in Octets, NEW b \in Octets
    PROVE  uint32fromVarLengthRaw(<<a, b>>) = 256 * a + b
  BY Weights, SMT DEF uint32fromVarLengthRaw, Octets

LEMMA ValueOfThree ==
    ASSUME NEW a \in Octets, NEW b \in Octets, NEW c \in Octets
    PROVE  uint32fromVarLengthRaw(<<a, b, c>>) = Weight[3] * a + 256 * b + c
  BY Weights, SMT DEF uint32fromVarLengthRaw, Octets

LEMMA ValueOfFour ==
    ASSUME NEW a \in Octets, NEW b \in Octets, NEW c \in Octets, NEW d \in Octets
    PROVE  uint32fromVarLengthRaw(<<a, b, c, d>>)
           = Weight[4] * Signed8(a) + Weight[3] * b + 256 * c + d
  <1> DEFINE o == <<a, b, c, d>>
             nth(k) == IF k <= Len(o) THEN o[Len(o) + 1 - k] ELSE 0
  <1>1. Len(o) = 4 /\ o[4] = d /\ o[3] = c /\ o[2] = b /\ o[1] = a
    OBVIOUS
  <1>2. nth(1) = d /\ nth(2) = c /\ nth(3) = b /\ nth(4) = a
    BY <1>1, SMT
  <1>3. uint32fromVarLengthRaw(o)
        = nth(1) + Weight[2] * nth(2) + Weight[3] * nth(3)
          + Weight[4] * (IF nth(4) >= 128 THEN nth(4) - 256 ELSE nth(4))
    BY Zenon DEF uint32fromVarLengthRaw
  <1>4. uint32fromVarLengthRaw(o) = d + Weight[2] * c + Weight[3] * b + Weight[4] * Signed8(a)
    BY <1>2, <1>3 DEF Signed8
  <1>5. Signed8(a) \in Int /\ a \in Int /\ b \in Int /\ c \in Int /\ d \in Int
    BY SMT DEF Octets, Signed8
  <1>6. d + Weight[2] * c + Weight[3] * b + Weight[4] * Signed8(a)
        = Weight[4] * Signed8(a) + Weight[3] * b + 256 * c + d
    BY <1>5, Weights, SMT
  <1> QED  BY <1>4, <1>6

\* One octet is read as itself, two as the quint16 they were made from.
LEMMA OneOctet ==
    ASSUME NEW v \in Octets
    PROVE  BigEndian(v, 1) = <<v>> /\ uint32fromVarLengthRaw(<<v>>) = v
  <1>1. v \in Int /\ v % 256 = v
    BY SMT DEF Octets
  <1>2. Octet(v, 0) = v
    BY <1>1, OctetOf, ZenonT(40)
  <1> QED  BY <1>2, BigEndianIs, ValueOfOne

LEMMA TwoOctetsBelow ==
    ASSUME NEW v \in Nat, v < Weight[3]
    PROVE  /\ BigEndian(v, 2) \in Seq(Octets) /\ Len(BigEndian(v, 2)) = 2
           /\ 256 * BigEndian(v, 2)[1] + BigEndian(v, 2)[2] = v
           /\ uint32fromVarLengthRaw(BigEndian(v, 2)) = v
  <1>0. v \in Int /\ 0 <= v /\ v <= 65535
    BY Weights, SMT
  <1> DEFINE q == v \div 256
             r == v % 256
  <1>1. q \in Int /\ v = 256 * q + r /\ r \in Octets
    BY <1>0, Digits
  <1>2. Octet(v, 1) = q % 256 /\ Octet(v, 0) = r
    BY <1>0, OctetOf
  <1> HIDE DEF q, r
  <1>3. q \in Octets /\ q % 256 = q
    BY <1>0, <1>1, SMT DEF Octets
  <1>4. BigEndian(v, 2) = <<q, r>>
    BY <1>2, <1>3, BigEndianIs
  <1>5. uint32fromVarLengthRaw(<<q, r>>) = 256 * q + r
    BY <1>1, <1>3, ValueOfTwo
  <1>6. <<q, r>> \in Seq(Octets) /\ Len(<<q, r>>) = 2 /\ <<q, r>>[1] = q /\ <<q, r>>[2] = r
    BY <1>1, <1>3, SMT
  <1> QED  BY <1>1, <1>4, <1>5, <1>6

LEMMA TwoOctets ==
    ASSUME NEW v \in Quint16
    PROVE  /\ BigEndian(v, 2) \in Seq(Octets) /\ Len(BigEndian(v, 2)) = 2
           /\ 256 * BigEndian(v, 2)[1] + BigEndian(v, 2)[2] = v
           /\ uint32fromVarLengthRaw(BigEndian(v, 2)) = v
  <1>0. Weight[3] = 65536
    BY Weights, SMTT(30)
  <1>1. v \in Nat /\ v < Weight[3]
    BY <1>0, SMTT(30) DEF Quint16
  <1> QED  BY <1>1, TwoOctetsBelow, Zenon

\* A quint32 above 2^31 - 1 stands as its two's complement.
Quint32 == {v \in Int : -2147483648 <= v /\ v <= 2147483647}

\* Four octets are read as the number they were made from.
LEMMA FourOctets ==
    ASSUME NEW v \in Quint32
    PROVE  /\ BigEndian(v, 4) \in Seq(Octets) /\ Len(BigEndian(v, 4)) = 4
           /\ uint32fromVarLengthRaw(BigEndian(v, 4)) = v
  <1>0. v \in Int /\ -2147483648 <= v /\ v <= 2147483647
    BY SMT DEF Quint32
  <1>v. v \in Int
    BY <1>0, SMT
  <1> DEFINE q1 == v \div 256
             q2 == q1 \div 256
             q3 == q2 \div 256
             d  == Octet(v, 0)
             c  == Octet(v, 1)
             b  == Octet(v, 2)
             a  == Octet(v, 3)
  <1>1. /\ q1 \in Int /\ v = 256 * q1 + d
        /\ q2 \in Int /\ q1 = 256 * q2 + c
        /\ q3 \in Int /\ q2 = 256 * q3 + b
        /\ a = q3 % 256
    <2>1. q1 \in Int /\ q2 \in Int /\ q3 \in Int
      BY <1>v, Digits
    <2>2. v = 256 * q1 + (v % 256) /\ q1 = 256 * q2 + (q1 % 256) /\ q2 = 256 * q3 + (q2 % 256)
      BY <1>v, <2>1, Digits
    <2>3. d = v % 256 /\ c = q1 % 256 /\ b = q2 % 256 /\ a = q3 % 256
      BY <1>v, OctetOf
    <2> HIDE DEF q1, q2, q3, a, b, c, d
    <2> QED  BY <2>1, <2>2, <2>3
  <1>2. a \in Octets /\ b \in Octets /\ c \in Octets /\ d \in Octets
    BY <1>v, OctetIsOctet
  <1>3. BigEndian(v, 4) = <<a, b, c, d>>
    BY BigEndianIs
  <1> HIDE DEF q1, q2, q3, a, b, c, d
  <1>4. /\ a \in Int /\ b \in Int /\ c \in Int /\ d \in Int
        /\ 0 <= b /\ b <= 255 /\ 0 <= c /\ c <= 255 /\ 0 <= d /\ d <= 255
    BY <1>2, SMT DEF Octets
  <1>5. q3 \in Int /\ -128 <= q3 /\ q3 <= 127
    BY <1>0, <1>1, <1>4, SMT
  <1>6. q3 = Signed8(a)
    BY <1>1, <1>5, SMT DEF Signed8
  <1>7. uint32fromVarLengthRaw(<<a, b, c, d>>) = Weight[4] * q3 + Weight[3] * b + 256 * c + d
    <2>1. uint32fromVarLengthRaw(<<a, b, c, d>>) = Weight[4] * Signed8(a) + Weight[3] * b + 256 * c + d
      BY <1>2, ValueOfFour
    <2> QED  BY <1>6, <2>1
  <1>8. v = Weight[4] * q3 + Weight[3] * b + 256 * c + d
    BY <1>v, <1>1, <1>4, <1>5, Weights, SMT
  <1>9. <<a, b, c, d>> \in Seq(Octets) /\ Len(<<a, b, c, d>>) = 4
    BY <1>2, SMT
  <1> QED  BY <1>3, <1>7, <1>8, <1>9
-----------------------------------------------------------------------------
(* The network header.                                                     *)

\* The octets of a host and a port are those of an address again.
LEMMA MacAddressRoundTrip ==
    ASSUME NEW a \in Address
    PROVE  /\ macAddressToRaw(a) \in Seq(Octets)
           /\ Len(macAddressToRaw(a)) \in {0, 4, 6}
           /\ ipAddress(macAddressToRaw(a)) = a.host
           /\ ipPort(macAddressToRaw(a)) = a.port
  <1>0. /\ a.host = <<>> \/ a.host \in Host
        /\ a.port \in Quint16
        /\ a.host = <<>> => a.port = 0
    BY DEF Address, NoPort
  <1>1. CASE a.host = <<>>
    <2>1. macAddressToRaw(a) = <<>>
      BY <1>1 DEF macAddressToRaw
    <2> QED  BY <1>0, <1>1, <2>1 DEF ipAddress, ipPort, NoPort, BipAddrLength, InternalAddressLength
  <1>2. CASE a.host \in Host /\ a.port = 0
    <2>1. macAddressToRaw(a) = a.host
      BY <1>2 DEF macAddressToRaw, NoPort
    <2>2. a.host \in Seq(Octets) /\ Len(a.host) = 4
      BY <1>2 DEF Host, InternalAddressLength
    <2>3. SubSeq(a.host, 1, 4) = a.host
      BY <2>2, HoldsWhole, HoldsSubSeq, 1 + 4 - 1 = 4, 1 \in Nat \ {0}, SMT
    <2> QED  BY <1>2, <2>1, <2>2, <2>3 DEF ipAddress, ipPort, NoPort, BipAddrLength, InternalAddressLength
  <1>3. CASE a.host \in Host /\ a.port # 0
    <2> DEFINE p == BigEndian(a.port, 2)
               m == a.host \o p
    <2>1. a.host \in Seq(Octets) /\ Len(a.host) = 4 /\ a.host # <<>>
      BY <1>3 DEF Host, InternalAddressLength
    <2>2. macAddressToRaw(a) = m
      BY <1>3, <2>1 DEF macAddressToRaw, NoPort, ipAddrToRaw
    <2>3. p \in Seq(Octets) /\ Len(p) = 2 /\ uint32fromVarLengthRaw(p) = a.port
      BY <1>0, TwoOctets
    <2> HIDE DEF p
    <2>4. m \in Seq(Octets) /\ Len(m) = 6
      <3>1. m \in Seq(Octets) /\ Len(m) = Len(a.host) + Len(p)
        BY <2>1, <2>3, ConcatProperties, Zenon
      <3> QED  BY <2>1, <2>3, <3>1, SMT
    <2>5. Holds(m, 1, m)
      BY <2>4, HoldsWhole
    <2> HIDE DEF m
    <2>6. Holds(m, 1, a.host) /\ Holds(m, 5, p)
      <3>1. Holds(m, 1, a.host) /\ Holds(m, 1 + Len(a.host), p)
        BY <2>1, <2>3, <2>4, <2>5, HoldsConcat, 1 \in Nat \ {0} DEF m
      <3> QED  BY <2>1, <3>1, 1 + 4 = 5
    <2>7. SubSeq(m, 1, 4) = a.host
      <3>1. SubSeq(m, 1, 1 + Len(a.host) - 1) = a.host
        BY <2>1, <2>4, <2>6, HoldsSubSeq, 1 \in Nat \ {0}
      <3> QED  BY <2>1, <3>1, 1 + 4 - 1 = 4
    <2>8. SubSeq(m, 5, 6) = p
      <3>1. SubSeq(m, 5, 5 + Len(p) - 1) = p
        BY <2>3, <2>4, <2>6, HoldsSubSeq, 5 \in Nat \ {0}
      <3> QED  BY <2>3, <3>1, 5 + 2 - 1 = 6
    <2> QED  BY <2>2, <2>3, <2>4, <2>7, <2>8 DEF ipAddress, ipPort, BipAddrLength, InternalAddressLength
  <1> QED  BY <1>0, <1>1, <1>2, <1>3

LEMMA AddressOctets ==
    ASSUME NEW a \in Address
    PROVE  encodeAddress(a) \in Seq(Octets)
  <1> DEFINE n == networkNumToRaw(a.net)
             m == macAddressToRaw(a)
             k == <<Len(m)>>
  <1>1. n \in Seq(Octets)
    BY TwoOctets DEF networkNumToRaw, Address
  <1>2. m \in Seq(Octets) /\ Len(m) \in {0, 4, 6}
    BY MacAddressRoundTrip
  <1> HIDE DEF n, m
  <1>3. k \in Seq(Octets)
    BY <1>2, SMT DEF Octets
  <1> HIDE DEF k
  <1>4. n \o k \in Seq(Octets)
    BY <1>1, <1>3, ConcatProperties, Zenon
  <1> QED  BY <1>2, <1>4, ConcatProperties, Zenon DEF encodeAddress, n, m, k

\* An address that was written somewhere is found there.
LEMMA AddressRoundTrip ==
    ASSUME NEW a \in Address, NEW o \in Seq(Octets), NEW at \in Nat \ {0},
           Holds(o, at, encodeAddress(a))
    PROVE  decodeAddress(o, at) = [a |-> a, next |-> at + Len(encodeAddress(a))]
  <1> DEFINE n == networkNumToRaw(a.net)
             m == macAddressToRaw(a)
             k == <<Len(m)>>
  <1>1. n \in Seq(Octets) /\ Len(n) = 2 /\ uint32fromVarLengthRaw(n) = a.net
    <2>1. a.net \in Quint16
      BY DEF Address
    <2> QED  BY <2>1, TwoOctets DEF networkNumToRaw
  <1>2. m \in Seq(Octets) /\ Len(m) \in {0, 4, 6} /\ ipAddress(m) = a.host /\ ipPort(m) = a.port
    BY MacAddressRoundTrip
  <1>3. encodeAddress(a) = (n \o k) \o m
    BY DEF encodeAddress
  <1> HIDE DEF n, m
  <1>4. k \in Seq(Octets) /\ Len(k) = 1 /\ k[1] = Len(m)
    BY <1>2, SMT DEF Octets
  <1> HIDE DEF k
  <1>5. n \o k \in Seq(Octets) /\ Len(n \o k) = 3 /\ (n \o k) \o m \in Seq(Octets)
        /\ Len((n \o k) \o m) = 3 + Len(m)
    <2>1. n \o k \in Seq(Octets) /\ Len(n \o k) = 3
      <3>1. n \o k \in Seq(Octets) /\ Len(n \o k) = Len(n) + Len(k)
        BY <1>1, <1>4, ConcatProperties, Zenon
      <3> QED  BY <1>1, <1>4, <3>1, SMT
    <2> QED  BY <1>2, <2>1, ConcatProperties
  <1>6. Holds(o, at, n) /\ Holds(o, at + 2, k) /\ Holds(o, at + 3, m)
    <2>1. Holds(o, at, n \o k) /\ Holds(o, at + Len(n \o k), m)
      BY <1>2, <1>3, <1>5, HoldsConcat
    <2>2. Holds(o, at, n) /\ Holds(o, at + Len(n), k)
      BY <1>1, <1>4, <2>1, HoldsConcat
    <2> QED  BY <1>1, <1>5, <2>1, <2>2
  <1>7. networkNumFromRaw(o, at) = a.net
    <2>1. SubSeq(o, at, at + Len(n) - 1) = n
      BY <1>1, <1>6, HoldsSubSeq
    <2>2. at + 2 - 1 = at + 1
      BY SMT
    <2> QED  BY <1>1, <2>1, <2>2 DEF networkNumFromRaw
  <1>8. o[at + 2] = Len(m)
    <2>1. o[at + 2 + 1 - 1] = k[1]
      BY <1>4, <1>6, SMT DEF Holds
    <2>2. at + 2 + 1 - 1 = at + 2
      BY SMT
    <2> QED  BY <1>4, <2>1, <2>2
  <1>9. SubSeq(o, at + 3, at + 2 + o[at + 2]) = m
    <2>1. at + 3 \in Nat \ {0} /\ at + 3 + Len(m) - 1 = at + 2 + Len(m)
      BY <1>2, SMT
    <2>2. SubSeq(o, at + 3, at + 3 + Len(m) - 1) = m
      BY <1>2, <1>6, <2>1, HoldsSubSeq
    <2> QED  BY <1>8, <2>1, <2>2
  <1>10. a = [net |-> a.net, host |-> a.host, port |-> a.port]
    BY DEF Address
  <1>11. at + 3 + Len(m) = at + (3 + Len(m))
    BY <1>2, SMT
  <1>12. decodeAddress(o, at) = [a |-> [net |-> a.net, host |-> a.host, port |-> a.port],
                                 next |-> at + 3 + Len(m)]
    BY <1>2, <1>7, <1>9, Zenon DEF decodeAddress
  <1> QED  BY <1>3, <1>5, <1>10, <1>11, <1>12, Zenon

LEMMA ControlBits ==
    ASSUME NEW t \in {0, 1}, NEW d \in {0, 1}, NEW s \in {0, 1}, NEW r \in {0, 1}, NEW p \in 0..3,
           NEW c, c = 128 * t + 32 * d + 8 * s + 4 * r + p
    PROVE  /\ c \in Octets /\ c % 4 = p
           /\ Bit(c, 128) = t /\ Bit(c, 64) = 0 /\ Bit(c, 32) = d
           /\ Bit(c, 16) = 0 /\ Bit(c, 8) = s /\ Bit(c, 4) = r
  BY SMT DEF Octets, Bit

\* The parts of a header, and where they stand.
controlPart(h) == <<ProtocolVersion, controlOctet(h)>>
destPart(h) == IF h.dest = NoAddress THEN <<>> ELSE encodeAddress(h.dest)
srcPart(h)  == IF h.src = NoAddress THEN <<>> ELSE encodeAddress(h.src)
hopsPart(h) == IF h.dest = NoAddress THEN <<>> ELSE <<(h.hops - 1) % 256>>
typePart(h) == IF h.type = ApduType THEN <<>> ELSE <<h.type>>

LEMMA ControlOf ==
    ASSUME NEW h \in Header
    PROVE  /\ controlOctet(h) \in Octets /\ controlOctet(h) % 4 = h.prio
           /\ Bit(controlOctet(h), 128) = IF h.type = ApduType THEN 0 ELSE 1
           /\ Bit(controlOctet(h), 64) = 0 /\ Bit(controlOctet(h), 16) = 0
           /\ Bit(controlOctet(h), 32) = IF h.dest = NoAddress THEN 0 ELSE 1
           /\ Bit(controlOctet(h), 8) = IF h.src = NoAddress THEN 0 ELSE 1
           /\ Bit(controlOctet(h), 4) = IF h.reply THEN 1 ELSE 0
  <1> DEFINE c == controlOctet(h)
             p == h.prio
             t == IF h.type = ApduType THEN 0 ELSE 1
             d == IF h.dest = NoAddress THEN 0 ELSE 1
             s == IF h.src = NoAddress THEN 0 ELSE 1
             r == IF h.reply THEN 1 ELSE 0
  <1>1. c = 128 * t + 32 * d + 8 * s + 4 * r + p
    BY DEF controlOctet
  <1>2. t \in {0, 1} /\ d \in {0, 1} /\ s \in {0, 1} /\ r \in {0, 1} /\ p \in 0..3
    BY DEF Header
  <1> HIDE DEF c, p, t, d, s, r
  <1>3. /\ c \in Octets /\ c % 4 = p
        /\ Bit(c, 128) = t /\ Bit(c, 64) = 0 /\ Bit(c, 32) = d
        /\ Bit(c, 16) = 0 /\ Bit(c, 8) = s /\ Bit(c, 4) = r
    BY <1>1, <1>2, ControlBits
  <1> QED  BY <1>3 DEF c, p, t, d, s, r

LEMMA HeaderType ==
    ASSUME NEW h \in Header
    PROVE  h.type = ApduType \/ (h.type \in Octets /\ ~(h.type > 127))
  <1>1. h.type \in 0..127 \cup {ApduType}
    BY DEF Header
  <1> QED  BY <1>1, SMT DEF Octets

LEMMA HeaderParts ==
    ASSUME NEW h \in Header
    PROVE  /\ setToRaw(h) = (((controlPart(h) \o destPart(h)) \o srcPart(h)) \o hopsPart(h)) \o typePart(h)
           /\ controlPart(h) \in Seq(Octets) /\ Len(controlPart(h)) = 2
           /\ destPart(h) \in Seq(Octets) /\ srcPart(h) \in Seq(Octets)
           /\ hopsPart(h) \in Seq(Octets) /\ typePart(h) \in Seq(Octets)
  <1>1. setToRaw(h) = (((controlPart(h) \o destPart(h)) \o srcPart(h)) \o hopsPart(h)) \o typePart(h)
    BY DEF setToRaw, controlPart, destPart, srcPart, hopsPart, typePart
  <1>2. controlPart(h) \in Seq(Octets) /\ Len(controlPart(h)) = 2
    <2>1. controlOctet(h) \in Octets
      BY ControlOf, Zenon
    <2> QED  BY <2>1, SMT DEF controlPart, ProtocolVersion, Octets
  <1>3. destPart(h) \in Seq(Octets)
    BY AddressOctets DEF destPart, Header
  <1>4. srcPart(h) \in Seq(Octets)
    BY AddressOctets DEF srcPart, Header
  <1>5. hopsPart(h) \in Seq(Octets)
    <2>1. (h.hops - 1) % 256 \in Octets
      BY SMT DEF Header, Octets
    <2> QED  BY <2>1, SMT DEF hopsPart
  <1>6. typePart(h) \in Seq(Octets)
    <2>1. h.type # ApduType => h.type \in Octets
      BY SMT DEF Header, Octets, ApduType
    <2> QED  BY <2>1, SMT DEF typePart
  <1> QED  BY <1>1, <1>2, <1>3, <1>4, <1>5, <1>6, Zenon

LEMMA HeaderLength ==
    ASSUME NEW h \in Header
    PROVE  /\ setToRaw(h) \in Seq(Octets)
           /\ Len(setToRaw(h)) = 2 + Len(destPart(h)) + Len(srcPart(h)) + Len(hopsPart(h)) + Len(typePart(h))
  <1> DEFINE whole == (((controlPart(h) \o destPart(h)) \o srcPart(h)) \o hopsPart(h)) \o typePart(h)
  <1>0. /\ controlPart(h) \in Seq(Octets) /\ destPart(h) \in Seq(Octets) /\ srcPart(h) \in Seq(Octets)
        /\ hopsPart(h) \in Seq(Octets) /\ typePart(h) \in Seq(Octets)
    BY HeaderParts, Zenon
  <1>1. /\ whole \in Seq(Octets)
        /\ Len(whole) = Len(controlPart(h)) + Len(destPart(h)) + Len(srcPart(h)) + Len(hopsPart(h))
                        + Len(typePart(h))
    BY <1>0, FiveParts
  <1>2. setToRaw(h) = whole /\ Len(controlPart(h)) = 2
    BY HeaderParts, Zenon
  <1> HIDE DEF whole
  <1> QED  BY <1>1, <1>2

LEMMA HeaderPlaces ==
    ASSUME NEW h \in Header, NEW o \in Seq(Octets), Holds(o, 1, setToRaw(h))
    PROVE  /\ o[1] = ProtocolVersion /\ o[2] = controlOctet(h)
           /\ Holds(o, 3, destPart(h))
           /\ Holds(o, 3 + Len(destPart(h)), srcPart(h))
           /\ Holds(o, 3 + Len(destPart(h)) + Len(srcPart(h)), hopsPart(h))
           /\ Holds(o, 3 + Len(destPart(h)) + Len(srcPart(h)) + Len(hopsPart(h)), typePart(h))
  <1> 1 \in Nat \ {0}
    BY SMT
  <1>1. /\ Holds(o, 1, controlPart(h))
        /\ Holds(o, 1 + Len(controlPart(h)), destPart(h))
        /\ Holds(o, 1 + Len(controlPart(h)) + Len(destPart(h)), srcPart(h))
        /\ Holds(o, 1 + Len(controlPart(h)) + Len(destPart(h)) + Len(srcPart(h)), hopsPart(h))
        /\ Holds(o, 1 + Len(controlPart(h)) + Len(destPart(h)) + Len(srcPart(h)) + Len(hopsPart(h)), typePart(h))
    <2> DEFINE whole == (((controlPart(h) \o destPart(h)) \o srcPart(h)) \o hopsPart(h)) \o typePart(h)
    <2>1. Holds(o, 1, whole)
      BY HeaderParts, Zenon
    <2> QED  BY <2>1, HeaderParts, FivePlaces, Zenon
  <1>2. Len(controlPart(h)) = 2
    BY HeaderParts, Zenon
  <1>3. 1 + 2 = 3
    BY SMT
  <1>4. o[1] = controlPart(h)[1] /\ o[2] = controlPart(h)[2]
    BY <1>1, <1>2, SMT DEF Holds
  <1>5. controlPart(h)[1] = ProtocolVersion /\ controlPart(h)[2] = controlOctet(h)
    BY DEF controlPart
  <1> QED  BY <1>1, <1>2, <1>3, <1>4, <1>5, Zenon

\* The header with one hop less, if it was routed.
oneHopLess(h) ==
    [h EXCEPT !.hops = IF h.dest = NoAddress THEN @ ELSE (@ - 1) % 256]

\* What is read where a header was written is that header, with one hop less if
\* it has a destination network, and its length: setFromRaw() undoes setToRaw()
\* for every address, priority, type and hop count.
THEOREM HeaderRoundTrip ==
    ASSUME NEW h \in Header, NEW o \in Seq(Octets), Holds(o, 1, setToRaw(h))
    PROVE  /\ ~Insane(o)
           /\ setFromRaw(o) = [h |-> oneHopLess(h), n |-> Len(setToRaw(h))]
  <1> DEFINE c == o[2]
             t == IF h.type = ApduType THEN 0 ELSE 1
             d == IF h.dest = NoAddress THEN 0 ELSE 1
             s == IF h.src = NoAddress THEN 0 ELSE 1
             r == IF h.reply THEN 1 ELSE 0
             hops == IF h.dest = NoAddress THEN DefaultHops ELSE (h.hops - 1) % 256
             srcAt == 3 + Len(destPart(h))
             hopsAt == srcAt + Len(srcPart(h))
             end == hopsAt + d
  <1>1. /\ o[1] = ProtocolVersion /\ c = controlOctet(h)
        /\ Holds(o, 3, destPart(h))
        /\ Holds(o, srcAt, srcPart(h))
        /\ Holds(o, hopsAt, hopsPart(h))
        /\ Holds(o, hopsAt + Len(hopsPart(h)), typePart(h))
    BY HeaderPlaces, Zenon
  <1>2. /\ c % 4 = h.prio
        /\ Bit(c, 128) = t /\ Bit(c, 64) = 0 /\ Bit(c, 32) = d
        /\ Bit(c, 16) = 0 /\ Bit(c, 8) = s /\ Bit(c, 4) = r
    BY <1>1, ControlOf
  <1>3. /\ destPart(h) \in Seq(Octets) /\ srcPart(h) \in Seq(Octets)
        /\ hopsPart(h) \in Seq(Octets) /\ typePart(h) \in Seq(Octets)
        /\ Len(setToRaw(h)) = 2 + Len(destPart(h)) + Len(srcPart(h)) + Len(hopsPart(h)) + Len(typePart(h))
    BY HeaderParts, HeaderLength, Zenon
  <1>4. Len(destPart(h)) \in Nat /\ Len(srcPart(h)) \in Nat /\ Len(hopsPart(h)) \in Nat /\ Len(typePart(h)) \in Nat
    BY <1>3, LenProperties, Zenon
  <1>5. srcAt \in Nat \ {0} /\ hopsAt \in Nat \ {0} /\ 3 \in Nat \ {0}
    <2> QED  BY <1>4, SMT
  <1>6. Len(hopsPart(h)) = d /\ Len(typePart(h)) = t
    BY SMT DEF hopsPart, typePart
  <1>7. (IF Bit(o[2], 32) = 1 THEN decodeAddress(o, 3) ELSE [a |-> NoAddress, next |-> 3])
        = [a |-> h.dest, next |-> srcAt]
    <2>1. CASE h.dest = NoAddress
      <3>1. Bit(o[2], 32) = 0 /\ Len(destPart(h)) = 0 /\ srcAt = 3
        BY <1>2, <2>1, SMT DEF destPart
      <3> QED  BY <2>1, <3>1, SMT
    <2>2. CASE h.dest # NoAddress
      <3>1. Bit(o[2], 32) = 1 /\ destPart(h) = encodeAddress(h.dest) /\ h.dest \in Address
        BY <1>2, <2>2 DEF destPart, Header
      <3>2. Holds(o, 3, encodeAddress(h.dest))
        BY <1>1, <3>1, Zenon
      <3>3. decodeAddress(o, 3) = [a |-> h.dest, next |-> 3 + Len(encodeAddress(h.dest))]
        BY <1>5, <3>1, <3>2, AddressRoundTrip, Zenon
      <3> QED  BY <3>1, <3>3
    <2> QED  BY <2>1, <2>2, Zenon
  <1>8. (IF Bit(o[2], 8) = 1 THEN decodeAddress(o, srcAt) ELSE [a |-> NoAddress, next |-> srcAt])
        = [a |-> h.src, next |-> hopsAt]
    <2>1. CASE h.src = NoAddress
      <3>1. Bit(o[2], 8) = 0 /\ Len(srcPart(h)) = 0
        BY <1>2, <2>1, SMT DEF srcPart
      <3>2. hopsAt = srcAt
        BY <1>5, <3>1, SMT
      <3> QED  BY <2>1, <3>1, <3>2, SMT
    <2>2. CASE h.src # NoAddress
      <3>1. Bit(o[2], 8) = 1 /\ srcPart(h) = encodeAddress(h.src) /\ h.src \in Address
        BY <1>2, <2>2 DEF srcPart, Header
      <3>2. Holds(o, srcAt, encodeAddress(h.src))
        BY <1>1, <3>1, Zenon
      <3> HIDE DEF srcAt
      <3>3. decodeAddress(o, srcAt) = [a |-> h.src, next |-> srcAt + Len(encodeAddress(h.src))]
        BY <1>5, <3>1, <3>2, AddressRoundTrip, Zenon
      <3> QED  BY <3>1, <3>3
    <2> QED  BY <2>1, <2>2, Zenon
  <1> HIDE DEF srcAt, hopsAt
  <1>9. (IF Bit(o[2], 32) = 1 THEN o[hopsAt] ELSE DefaultHops) = hops
    <2>1. CASE h.dest = NoAddress
      BY <1>2, <2>1
    <2>2. CASE h.dest # NoAddress
      <3>1. hopsPart(h) = <<(h.hops - 1) % 256>> /\ Len(hopsPart(h)) = 1
        BY <2>2 DEF hopsPart
      <3>2. o[hopsAt + 1 - 1] = hopsPart(h)[1]
        BY <1>1, <3>1, SMT DEF Holds
      <3>3. hopsAt + 1 - 1 = hopsAt
        BY <1>5, SMT
      <3> QED  BY <1>2, <2>2, <3>1, <3>2, <3>3
    <2> QED  BY <2>1, <2>2, Zenon
  <1>10. (IF Bit(o[2], 128) = 1 THEN o[end] ELSE ApduType) = h.type
    <2>1. CASE h.type = ApduType
      BY <1>2, <2>1
    <2>2. CASE h.type # ApduType
      <3>1. typePart(h) = <<h.type>> /\ Len(typePart(h)) = 1
        BY <2>2 DEF typePart
      <3>2. d \in Nat
        OBVIOUS
      <3> HIDE DEF d
      <3>5. Holds(o, hopsAt + d, typePart(h))
        BY <1>1, <1>6, Zenon
      <3>3. o[hopsAt + d + 1 - 1] = typePart(h)[1]
        BY <3>1, <3>5, SMT DEF Holds
      <3>4. hopsAt + d + 1 - 1 = end
        BY <1>5, <3>2, SMT
      <3> QED  BY <1>2, <2>2, <3>1, <3>3, <3>4
    <2> QED  BY <2>1, <2>2, Zenon
  <1>11. h.type = ApduType \/ ~(h.type > 127)
    BY HeaderType
  <1>12. end - 1 + Bit(o[2], 128) + 0 = Len(setToRaw(h))
    <2>1. d \in Nat /\ t \in Nat
      OBVIOUS
    <2> HIDE DEF d, t
    <2> QED  BY <1>2, <1>3, <1>4, <1>6, <2>1, SMT DEF srcAt, hopsAt
  <1>13. hopsAt + Bit(o[2], 32) = end
    BY <1>2
  <1>14. (Bit(o[2], 4) = 1) = h.reply
    BY <1>2 DEF Header
  <1>15. ~Insane(o)
    BY <1>1, <1>2, SMT DEF Insane
  <1>16. setFromRaw(o) = [h |-> [reply |-> h.reply, prio |-> h.prio, dest |-> h.dest, src |-> h.src,
                                 type |-> h.type, hops |-> hops],
                          n |-> Len(setToRaw(h))]
    <2> DEFINE dest == IF Bit(o[2], 32) = 1 THEN decodeAddress(o, 3) ELSE [a |-> NoAddress, next |-> 3]
               src  == IF Bit(o[2], 8) = 1 THEN decodeAddress(o, dest.next)
                       ELSE [a |-> NoAddress, next |-> dest.next]
               last == src.next + Bit(o[2], 32)
               type == IF Bit(o[2], 128) = 1 THEN o[last] ELSE ApduType
               vendor == IF type # ApduType /\ type > 127 THEN 2 ELSE 0
               least == IF Bit(o[2], 32) = 1 THEN o[src.next] ELSE DefaultHops
    <2>1. setFromRaw(o) = [h |-> [reply |-> Bit(o[2], 4) = 1, prio |-> o[2] % 4, dest |-> dest.a,
                                  src |-> src.a, type |-> type, hops |-> least],
                           n |-> last - 1 + Bit(o[2], 128) + vendor]
      BY Zenon DEF setFromRaw
    <2>2. dest.a = h.dest /\ dest.next = srcAt
      <3> HIDE DEF dest
      <3> QED  BY <1>7 DEF dest
    <2>3. src.a = h.src /\ src.next = hopsAt
      <3> HIDE DEF dest
      <3>1. src = [a |-> h.src, next |-> hopsAt]
        BY <1>8, <2>2, Zenon
      <3> HIDE DEF src
      <3> QED  BY <3>1
    <2> HIDE DEF dest, src, end
    <2>4. last = end
      BY <1>13, <2>3, Zenon
    <2> HIDE DEF last
    <2>5. type = h.type
      BY <1>10, <2>4, Zenon
    <2>6. least = hops
      <3> HIDE DEF hops
      <3> QED  BY <1>9, <2>3, Zenon
    <2> HIDE DEF type, least, hops, d, t, s, r
    <2>7. vendor = 0
      BY <1>11, <2>5, Zenon
    <2> HIDE DEF vendor
    <2>8. last - 1 + Bit(o[2], 128) + vendor = Len(setToRaw(h))
      BY <1>12, <2>4, <2>7, Zenon
    <2> QED  BY <1>2, <1>14, <2>1, <2>2, <2>3, <2>5, <2>6, <2>8, Zenon
  <1>17. [reply |-> h.reply, prio |-> h.prio, dest |-> h.dest, src |-> h.src,
          type |-> h.type, hops |-> hops] = oneHopLess(h)
    BY SMT DEF oneHopLess, Header
  <1> QED  BY <1>15, <1>16, <1>17, Zenon
-----------------------------------------------------------------------------
(* The header of the application layer.                                    *)

LEMMA PduTypeOf ==
    ASSUME NEW k \in DOMAIN PduType, NEW c \in {0, 8}, NEW o, o[1] = 16 * PduType[k] + c
    PROVE  pduType(o) = k
  <1>1. /\ PduType[k] \in 0..7
        /\ \A j \in DOMAIN PduType : PduType[j] = PduType[k] => j = k
    BY SMT DEF PduType
  <1> DEFINE n == PduType[k]
  <1> HIDE DEF n
  <1>2. n \in 0..7 /\ o[1] = 16 * n + c
    BY <1>1, Zenon DEF n
  <1>3. ~(o[1] > 127) /\ o[1] \div 16 = n
    BY <1>2, SMT
  <1>4. (CHOOSE j \in DOMAIN PduType : PduType[j] = n) = k
    BY <1>1, Zenon DEF n
  <1> QED  BY <1>3, <1>4, Zenon DEF pduType

kindOf(m) == Service[m.s][1]
idOf(m) == IF m.s = "Network" \/ Service[m.s][1] = "Unconfirmed" THEN 0 ELSE InvokeId

LEMMA KindIs ==
    ASSUME NEW m, m.s \in DOMAIN Service
    PROVE  /\ kindOf(m) \in DOMAIN PduType
           /\ Service[m.s][2] \in Octets
           /\ m.s = "Abort" <=> kindOf(m) = "Abort"
           /\ m.s = "Reject" <=> kindOf(m) = "Reject"
           /\ m.s # "Network"
  BY SMT DEF Service, PduType, kindOf, Octets


\* What comes first in a sequence stays where it is when more follows.
LEMMA Followed ==
    ASSUME NEW S, NEW s \in Seq(S), NEW t \in Seq(S)
    PROVE  /\ s \o t \in Seq(S) /\ Len(s \o t) >= Len(s)
           /\ \A i \in 1..Len(s) : (s \o t)[i] = s[i]
  <1>1. /\ s \o t \in Seq(S) /\ Len(s \o t) = Len(s) + Len(t)
        /\ \A i \in 1..Len(s) + Len(t) : (s \o t)[i] = IF i <= Len(s) THEN s[i] ELSE t[i - Len(s)]
    BY ConcatProperties, Zenon
  <1>2. Len(s) \in Nat /\ Len(t) \in Nat
    BY LenProperties, Zenon
  <1> QED  BY <1>1, <1>2, SMT

\* A header of this kind: the first octet has the kind, the third or the second
\* one the invoke id.
HeaderOf(kind, first, h) ==
    /\ h \in Seq(Octets)
    /\ Len(h) >= 2
    /\ kind # "Abort" => h[1] = first
    /\ kind = "Confirmed" => Len(h) >= 3 /\ h[3] = InvokeId
    /\ kind \notin {"Confirmed", "Unconfirmed", "Abort"} => h[2] = InvokeId

LEMMA FirstOctets ==
    ASSUME NEW m, m.s \in DOMAIN Service
    PROVE  /\ FirstOctet(kindOf(m), m) \in Octets
           /\ \E c \in {0, 8} : FirstOctet(kindOf(m), m) = 16 * PduType[kindOf(m)] + c
  <1> DEFINE n == PduType[kindOf(m)]
             c == IF Segment(m) = <<>> THEN 0 ELSE 8
  <1>1. kindOf(m) \in DOMAIN PduType
    BY KindIs
  <1>2. n \in 0..7
    BY <1>1, SMT DEF PduType
  <1>3. c \in {0, 8}
    OBVIOUS
  <1>4. FirstOctet(kindOf(m), m) = 16 * n + c
    BY DEF FirstOctet
  <1> HIDE DEF n, c
  <1>5. 16 * n + c \in Octets
    BY <1>2, <1>3, SMT DEF Octets
  <1> QED  BY <1>3, <1>4, <1>5 DEF n

LEMMA Tuples ==
    ASSUME NEW S, NEW a \in S, NEW b \in S, NEW c \in S, NEW d \in S
    PROVE  /\ <<a>> \in Seq(S) /\ Len(<<a>>) = 1 /\ <<a>>[1] = a
           /\ <<a, b>> \in Seq(S) /\ Len(<<a, b>>) = 2 /\ <<a, b>>[1] = a /\ <<a, b>>[2] = b
           /\ <<a, b, c>> \in Seq(S) /\ Len(<<a, b, c>>) = 3
           /\ <<a, b, c>>[1] = a /\ <<a, b, c>>[2] = b /\ <<a, b, c>>[3] = c
           /\ <<a, b, c, d>> \in Seq(S) /\ Len(<<a, b, c, d>>) = 4
           /\ <<a, b, c, d>>[1] = a /\ <<a, b, c, d>>[2] = b
           /\ <<a, b, c, d>>[3] = c /\ <<a, b, c, d>>[4] = d
  BY SMT

LEMMA EmptyTuple == ASSUME NEW S PROVE <<>> \in Seq(S) /\ Len(<<>>) = 0
  BY SMT

LEMMA ThreeThenMore ==
    ASSUME NEW S, NEW a \in S, NEW b \in S, NEW c \in S, NEW t \in Seq(S), NEW u \in Seq(S),
           NEW h, h = (<<a, b, c>> \o t) \o u
    PROVE  h \in Seq(S) /\ Len(h) >= 3 /\ h[1] = a /\ h[2] = b /\ h[3] = c
  <1> DEFINE e == <<a, b, c>>
             et == e \o t
  <1>1. e \in Seq(S) /\ Len(e) = 3 /\ e[1] = a /\ e[2] = b /\ e[3] = c
    BY Tuples, Zenon
  <1> HIDE DEF e
  <1>2. et \in Seq(S) /\ Len(et) >= Len(e) /\ \A i \in 1..Len(e) : et[i] = e[i]
    BY <1>1, Followed, Zenon
  <1> HIDE DEF et
  <1>3. h \in Seq(S) /\ Len(h) >= Len(et) /\ \A i \in 1..Len(et) : h[i] = et[i]
    <2>1. h = et \o u
      BY Zenon DEF et, e
    <2>2. et \o u \in Seq(S) /\ Len(et \o u) >= Len(et) /\ \A i \in 1..Len(et) : (et \o u)[i] = et[i]
      BY <1>2, Followed, Zenon
    <2> QED  BY <2>1, <2>2, Zenon
  <1>4. Len(h) \in Nat /\ Len(et) \in Nat
    BY <1>2, <1>3, LenProperties, Zenon
  <1>5. Len(et) >= 3 /\ et[1] = a /\ et[2] = b /\ et[3] = c
    BY <1>1, <1>2, <1>4, SMT
  <1> QED  BY <1>3, <1>4, <1>5, SMT

LEMMA TwoThenMore ==
    ASSUME NEW S, NEW a \in S, NEW b \in S, NEW t \in Seq(S), NEW u \in Seq(S),
           NEW h, h = (<<a, b>> \o t) \o u
    PROVE  h \in Seq(S) /\ Len(h) >= 2 /\ h[1] = a /\ h[2] = b
  <1> DEFINE e == <<a, b>>
             et == e \o t
  <1>1. e \in Seq(S) /\ Len(e) = 2 /\ e[1] = a /\ e[2] = b
    BY Tuples, Zenon
  <1> HIDE DEF e
  <1>2. et \in Seq(S) /\ Len(et) >= Len(e) /\ \A i \in 1..Len(e) : et[i] = e[i]
    BY <1>1, Followed, Zenon
  <1> HIDE DEF et
  <1>3. h \in Seq(S) /\ Len(h) >= Len(et) /\ \A i \in 1..Len(et) : h[i] = et[i]
    <2>1. h = et \o u
      BY Zenon DEF et, e
    <2>2. et \o u \in Seq(S) /\ Len(et \o u) >= Len(et) /\ \A i \in 1..Len(et) : (et \o u)[i] = et[i]
      BY <1>2, Followed, Zenon
    <2> QED  BY <2>1, <2>2, Zenon
  <1>4. Len(h) \in Nat /\ Len(et) \in Nat
    BY <1>2, <1>3, LenProperties, Zenon
  <1>5. Len(et) >= 2 /\ et[1] = a /\ et[2] = b
    BY <1>1, <1>2, <1>4, SMT
  <1> QED  BY <1>3, <1>4, <1>5, SMT

LEMMA HeaderOctets ==
    ASSUME NEW m, m.s \in DOMAIN Service, WellFormed(m), NEW x \in Octets
    PROVE  HeaderOf(kindOf(m), FirstOctet(kindOf(m), m), headerToRaw(m, x))
  <1> DEFINE kind == kindOf(m)
             first == FirstOctet(kind, m)
             service == Service[m.s][2]
             part == Segment(m)
             h == headerToRaw(m, x)
             start(n) == h \in Seq(Octets) /\ Len(h) >= n /\ h[1] = first
  <1>1. kind \in DOMAIN PduType /\ service \in Octets
    BY KindIs
  <1>2. first \in Octets
    BY FirstOctets
  <1>3. part \in Seq(Octets)
    <2>1. part = <<>> \/ part \in Seq(Octets)
      BY DEF Segment, WellFormed
    <2> HIDE DEF part
    <2> QED  BY <2>1, EmptyTuple, Zenon
  <1>4. InvokeId \in Octets /\ 0 \in Octets /\ 1 \in Octets
    BY SMT DEF InvokeId, Octets
  <1>5. kind = "Reject" => m.f.reason[1] \in Octets
    BY KindIs DEF WellFormed
  <1>6. kind = "Confirmed" => h = (<<first, 0, InvokeId>> \o part) \o <<service>>
    BY SMT DEF headerToRaw, kindOf, ConfirmedRequestData
  <1>7. kind = "Unconfirmed" => h = <<first, service>>
    BY SMT DEF headerToRaw, kindOf, UnconfirmedRequestData
  <1>8. kind = "SimpleAck" => h = <<first, InvokeId, service>>
    BY SMT DEF headerToRaw, kindOf, SimpleAckData
  <1>9. kind = "ComplexAck" => h = (<<first, InvokeId>> \o part) \o <<service>>
    BY SMT DEF headerToRaw, kindOf, ComplexAckData
  <1>10. kind = "SegmentAck" => h = <<first, InvokeId, 0, 1>>
    BY SMT DEF headerToRaw, kindOf
  <1>11. kind = "Error" => h = <<first, InvokeId, service>>
    BY SMT DEF headerToRaw, kindOf, ErrorData
  <1>12. kind = "Reject" => h = <<first, InvokeId, m.f.reason[1]>>
    BY SMT DEF headerToRaw, kindOf, RejectData
  <1>13. kind = "Abort" => h = Leftover(3, x)
    BY SMT DEF headerToRaw, kindOf, AbortData
  <1>14. \/ kind = "Confirmed" \/ kind = "Unconfirmed" \/ kind = "SimpleAck" \/ kind = "ComplexAck"
         \/ kind = "SegmentAck" \/ kind = "Error" \/ kind = "Reject" \/ kind = "Abort"
    BY <1>1, SMT DEF PduType
  <1> HIDE DEF kind, first, service, part, h
  <1>15. <<service>> \in Seq(Octets) /\ 3 >= 2 /\ 4 >= 2 /\ 2 >= 2
    BY <1>1, Tuples, SMT
  <1>16. kind = "Confirmed" => start(3) /\ h[3] = InvokeId
    <2> DEFINE c == (<<first, 0, InvokeId>> \o part) \o <<service>>
    <2> HIDE DEF c
    <2>0. c = (<<first, 0, InvokeId>> \o part) \o <<service>>
      BY Zenon DEF c
    <2>1. c \in Seq(Octets) /\ Len(c) >= 3 /\ c[1] = first /\ c[3] = InvokeId
      BY <1>2, <1>3, <1>4, <1>15, <2>0, ThreeThenMore
    <2>2. kind = "Confirmed" => h = c
      BY <1>6, Zenon DEF c
    <2> QED  BY <2>1, <2>2, Zenon
  <1>17. kind = "ComplexAck" => start(2) /\ h[2] = InvokeId
    <2> DEFINE c == (<<first, InvokeId>> \o part) \o <<service>>
    <2> HIDE DEF c
    <2>0. c = (<<first, InvokeId>> \o part) \o <<service>>
      BY Zenon DEF c
    <2>1. c \in Seq(Octets) /\ Len(c) >= 2 /\ c[1] = first /\ c[2] = InvokeId
      BY <1>2, <1>3, <1>4, <1>15, <2>0, TwoThenMore
    <2>2. kind = "ComplexAck" => h = c
      BY <1>9, Zenon DEF c
    <2> QED  BY <2>1, <2>2, Zenon
  <1>18. kind = "Unconfirmed" => start(2)
    <2>1. /\ <<first, service>> \in Seq(Octets) /\ Len(<<first, service>>) = 2
          /\ <<first, service>>[1] = first
      BY <1>1, <1>2, Tuples, Zenon
    <2> QED  BY <1>7, <1>15, <2>1, Zenon
  <1>19. kind \in {"SimpleAck", "Error"} => start(2) /\ h[2] = InvokeId
    <2>1. /\ <<first, InvokeId, service>> \in Seq(Octets) /\ Len(<<first, InvokeId, service>>) = 3
          /\ <<first, InvokeId, service>>[1] = first /\ <<first, InvokeId, service>>[2] = InvokeId
      BY <1>1, <1>2, <1>4, Tuples, Zenon
    <2> QED  BY <1>8, <1>11, <1>15, <2>1, Zenon
  <1>20. kind = "SegmentAck" => start(2) /\ h[2] = InvokeId
    <2>1. /\ <<first, InvokeId, 0, 1>> \in Seq(Octets) /\ Len(<<first, InvokeId, 0, 1>>) = 4
          /\ <<first, InvokeId, 0, 1>>[1] = first /\ <<first, InvokeId, 0, 1>>[2] = InvokeId
      BY <1>2, <1>4, Tuples, Zenon
    <2> QED  BY <1>10, <1>15, <2>1, Zenon
  <1>21. kind = "Reject" => start(2) /\ h[2] = InvokeId
    <2> DEFINE reason == m.f.reason[1]
    <2> HIDE DEF reason
    <2>1. ASSUME reason \in Octets
          PROVE  /\ <<first, InvokeId, reason>> \in Seq(Octets) /\ Len(<<first, InvokeId, reason>>) = 3
                 /\ <<first, InvokeId, reason>>[1] = first /\ <<first, InvokeId, reason>>[2] = InvokeId
      BY <1>2, <1>4, <2>1, Tuples, Zenon
    <2> QED  BY <1>5, <1>12, <1>15, <2>1, Zenon DEF reason
  <1>22. kind = "Abort" => h \in Seq(Octets) /\ Len(h) >= 2
    <2> DEFINE three == [k \in 1..3 |-> x]
    <2>1. three \in Seq(Octets) /\ Len(three) = 3
      BY SMT
    <2>2. Leftover(3, x) = three
      BY DEF Leftover
    <2> HIDE DEF three
    <2> QED  BY <1>13, <1>15, <2>1, <2>2, Zenon
  <1> HIDE DEF start
  <1>23. HeaderOf(kind, first, h)
    <2>1. start(2) => h \in Seq(Octets) /\ Len(h) >= 2 /\ h[1] = first
      BY Zenon DEF start
    <2>2. start(3) => h \in Seq(Octets) /\ Len(h) >= 2 /\ Len(h) >= 3 /\ h[1] = first
      <3>1. h \in Seq(Octets) => Len(h) \in Nat
        BY LenProperties, Zenon
      <3> QED  BY <3>1, SMT DEF start
    <2> QED  BY <1>14, <1>16, <1>17, <1>18, <1>19, <1>20, <1>21, <1>22, <2>1, <2>2, Zenon DEF HeaderOf
  <1> QED  BY <1>23, Zenon DEF kind, first, h

\* A message of the application layer that is not refused has the invoke id it
\* was written with.
LEMMA ReceivedId ==
    ASSUME NEW m, m.s \in DOMAIN Service, WellFormed(m), m.s # "Abort", NEW x \in Octets,
           NEW o \in Seq(Octets), Holds(o, 1, headerToRaw(m, x)), receive(o).r.ok
    PROVE  receive(o).id = idOf(m)
  <1> DEFINE kind == kindOf(m)
             a == headerToRaw(m, x)
             h == headerFromRaw(kind, o)
  <1>1. kind \in DOMAIN PduType /\ kind # "Abort" /\ m.s # "Network"
    BY KindIs, Zenon
  <1>2. HeaderOf(kind, FirstOctet(kind, m), a)
    BY HeaderOctets, Zenon
  <1>3. idOf(m) = IF kind = "Unconfirmed" THEN 0 ELSE InvokeId
    BY <1>1, Zenon DEF idOf, kindOf
  <1> HIDE DEF kind, a
  <1>4. /\ o[1] = FirstOctet(kind, m)
        /\ kind = "Confirmed" => o[3] = InvokeId
        /\ kind \notin {"Confirmed", "Unconfirmed"} => o[2] = InvokeId
    <2>1. Holds(o, 1, a)
      BY Zenon DEF a
    <2>2. Len(a) \in Nat
      BY <1>2, LenProperties, Zenon DEF HeaderOf
    <2>3. \A i \in 1..Len(a) : o[i] = a[i]
      BY <2>1, <2>2, SMT DEF Holds
    <2>4. o[1] = a[1] /\ o[2] = a[2] /\ (Len(a) >= 3 => o[3] = a[3])
      BY <1>2, <2>2, <2>3, SMT DEF HeaderOf
    <2> QED  BY <1>1, <1>2, <2>4, Zenon DEF HeaderOf
  <1>5. pduType(o) = kind
    <2>1. PICK c \in {0, 8} : FirstOctet(kind, m) = 16 * PduType[kind] + c
      BY FirstOctets, Zenon DEF kind
    <2> QED  BY <1>1, <1>4, <2>1, PduTypeOf, Zenon
  <1>6. receive(o) = [r |-> handed(kind, h, o), id |-> h.id]
    BY <1>5, Zenon DEF receive, answered
  <1>7. h # NoHeader
    <2>1. ASSUME h = NoHeader
          PROVE  handed(kind, h, o).ok = FALSE
      <3> HIDE DEF h
      <3>1. handed(kind, h, o) = refuseIf(reader(<<>>), TRUE)
        BY <2>1, Zenon DEF handed
      <3>2. refuseIf(reader(<<>>), TRUE).ok = FALSE
        BY Zenon DEF refuseIf, reader
      <3> QED  BY <3>1, <3>2, Zenon
    <2>2. receive(o).r = handed(kind, h, o)
      BY <1>6
    <2> QED  BY <2>1, <2>2, Zenon
  <1>8. h # NoHeader => h.id = IF kind = "Unconfirmed" THEN 0 ELSE InvokeId
    <2>1. CASE kind = "Confirmed"
      BY <1>4, <2>1, SMT DEF headerFromRaw, ConfirmedRequestFromRaw
    <2>2. CASE kind = "Unconfirmed"
      BY <1>4, <2>2, SMT DEF headerFromRaw, UnconfirmedRequestFromRaw
    <2>3. CASE kind = "SimpleAck"
      BY <1>4, <2>3, SMT DEF headerFromRaw, SimpleAckFromRaw, header
    <2>4. CASE kind = "ComplexAck"
      BY <1>4, <2>4, SMT DEF headerFromRaw, ComplexAckFromRaw
    <2>5. CASE kind = "SegmentAck"
      BY <1>4, <2>5, SMT DEF headerFromRaw, SegmentedAckFromRaw, header
    <2>6. CASE kind = "Error"
      BY <1>4, <2>6, SMT DEF headerFromRaw, ErrorDataFromRaw, header
    <2>7. CASE kind = "Reject"
      BY <1>4, <2>7, SMT DEF headerFromRaw, RejectFromRaw, header
    <2>8. \/ kind = "Confirmed" \/ kind = "Unconfirmed" \/ kind = "SimpleAck" \/ kind = "ComplexAck"
          \/ kind = "SegmentAck" \/ kind = "Error" \/ kind = "Reject"
      BY <1>1, SMT DEF PduType
    <2> QED  BY <2>1, <2>2, <2>3, <2>4, <2>5, <2>6, <2>7, <2>8, Zenon
  <1> QED  BY <1>3, <1>6, <1>7, <1>8, SMT

-----------------------------------------------------------------------------
(* The answers are octets.                                                 *)

LEMMA PairOf ==
    ASSUME NEW A, NEW B, NEW v \in A \X B
    PROVE  v[1] \in A /\ v[2] \in B /\ v = <<v[1], v[2]>>
  BY SMT

LEMMA LeastOctet ==
    ASSUME NEW v \in Octets
    PROVE  Octet(v, 0) = v
  <1>1. v \in Int /\ v % 256 = v
    BY SMT DEF Octets
  <1> QED  BY <1>1, OctetOf, ZenonT(40)

LEMMA NumberOctets ==
    ASSUME NEW v \in Int
    PROVE  /\ BigEndian(v, 4) \in Seq(Octets) /\ Len(BigEndian(v, 4)) = 4
           /\ uint32ToVarLengthRaw(v) \in Seq(Octets) /\ Len(uint32ToVarLengthRaw(v)) \in 1..4
  <1>1. /\ Octet(v, 0) \in Octets /\ Octet(v, 1) \in Octets
        /\ Octet(v, 2) \in Octets /\ Octet(v, 3) \in Octets
    BY OctetIsOctet
  <1>2. /\ BigEndian(v, 1) \in Seq(Octets) /\ Len(BigEndian(v, 1)) = 1
        /\ BigEndian(v, 2) \in Seq(Octets) /\ Len(BigEndian(v, 2)) = 2
        /\ BigEndian(v, 3) \in Seq(Octets) /\ Len(BigEndian(v, 3)) = 3
        /\ BigEndian(v, 4) \in Seq(Octets) /\ Len(BigEndian(v, 4)) = 4
    <2> DEFINE a == Octet(v, 3)
               b == Octet(v, 2)
               c == Octet(v, 1)
               d == Octet(v, 0)
    <2>1. /\ BigEndian(v, 1) = <<d>> /\ BigEndian(v, 2) = <<c, d>>
          /\ BigEndian(v, 3) = <<b, c, d>> /\ BigEndian(v, 4) = <<a, b, c, d>>
      BY BigEndianIs, Zenon
    <2> HIDE DEF a, b, c, d
    <2>2. a \in Octets /\ b \in Octets /\ c \in Octets /\ d \in Octets
      BY <1>1, Zenon DEF a, b, c, d
    <2>3. /\ <<d>> \in Seq(Octets) /\ Len(<<d>>) = 1
      BY <2>2, Tuples, Zenon
    <2>4. /\ <<c, d>> \in Seq(Octets) /\ Len(<<c, d>>) = 2
      BY <2>2, Tuples, Zenon
    <2>5. /\ <<b, c, d>> \in Seq(Octets) /\ Len(<<b, c, d>>) = 3
      BY <2>2, Tuples, Zenon
    <2>6. /\ <<a, b, c, d>> \in Seq(Octets) /\ Len(<<a, b, c, d>>) = 4
      BY <2>2, Tuples, Zenon
    <2> QED  BY <2>1, <2>3, <2>4, <2>5, <2>6, Zenon
  <1>3. (IF v < 0 THEN 4 ELSE Width(v)) \in 1..4
    <2> DEFINE a == IF v < 0 THEN -v ELSE v
               fits(n) == (n = 4 \/ a < Weight[n + 1]) /\ (n = 1 \/ a >= Weight[n])
    <2>1. a \in Nat
      BY SMT
    <2>2. \E n \in 1..4 : fits(n)
      <3>1. fits(1) \/ fits(2) \/ fits(3) \/ fits(4)
        <4> HIDE DEF a
        <4> QED  BY <2>1, Weights, SMT
      <3>2. 1 \in 1..4 /\ 2 \in 1..4 /\ 3 \in 1..4 /\ 4 \in 1..4
        BY SMT
      <3> HIDE DEF fits
      <3> QED  BY <3>1, <3>2
    <2>3. Width(v) = CHOOSE n \in 1..4 : fits(n)
      BY Zenon DEF Width
    <2> HIDE DEF fits, a
    <2>4. Width(v) \in 1..4
      BY <2>2, <2>3, Zenon
    <2> QED  BY <2>4, SMT
  <1>4. \A n \in 1..4 : BigEndian(v, n) \in Seq(Octets) /\ Len(BigEndian(v, n)) \in 1..4
    BY <1>2, SMT
  <1> QED  BY <1>2, <1>3, <1>4, Zenon DEF uint32ToVarLengthRaw

LEMMA TaggedOctets ==
    ASSUME NEW tag \in 0..14, NEW ctx \in BOOLEAN, NEW data \in Seq(Octets)
    PROVE  Tagged(tag, ctx, data) \in Seq(Octets)
  <1> DEFINE n == Len(data)
             first == 16 * (IF tag <= 14 THEN tag ELSE 15) + (IF ctx THEN 8 ELSE 0)
                      + (IF n <= 4 THEN n ELSE 5)
             number == IF tag <= 14 THEN <<>> ELSE <<tag>>
             length == CASE n <= 4 -> <<>>
                         [] n \in 5..253 -> <<n>>
                         [] OTHER -> <<254>> \o BigEndian(n, 2)
  <1>1. n \in Nat
    BY LenProperties, Zenon
  <1>2. first \in Octets
    <2> HIDE DEF n
    <2> QED  BY <1>1, SMT DEF Octets
  <1>3. number = <<>>
    BY SMT
  <1>4. length \in Seq(Octets)
    <2>1. CASE n <= 4
      <3>1. ~(n \in 5..253)
        <4> HIDE DEF n, length
        <4> QED  BY <1>1, <2>1, SMT
      <3>2. length = <<>>
        BY <2>1, <3>1, Zenon
      <3> HIDE DEF length
      <3> QED  BY <3>2, EmptyTuple, Zenon
    <2>2. CASE ~(n <= 4) /\ n \in 5..253
      <3>1. length = <<n>>
        BY <2>2, Zenon
      <3>2. n \in Octets
        BY <2>2, SMT DEF Octets
      <3>3. <<n>> \in Seq(Octets)
        BY <3>2, Tuples, Zenon
      <3> QED  BY <3>1, <3>3, Zenon
    <2>3. CASE ~(n <= 4) /\ ~(n \in 5..253)
      <3>1. length = <<254>> \o BigEndian(n, 2)
        BY <2>3, Zenon
      <3>2. n \in Int /\ 254 \in Octets
        BY <1>1, SMT DEF Octets
      <3>3. Octet(n, 1) \in Octets /\ Octet(n, 0) \in Octets
        BY <3>2, OctetIsOctet
      <3>4. <<Octet(n, 1), Octet(n, 0)>> \in Seq(Octets)
        BY <3>3, Tuples, Zenon
      <3>5. BigEndian(n, 2) \in Seq(Octets)
        BY <3>4, BigEndianIs, Zenon
      <3>6. <<254>> \in Seq(Octets)
        BY <3>2, SMT
      <3> HIDE DEF n, length
      <3>7. <<254>> \o BigEndian(n, 2) \in Seq(Octets)
        BY <3>5, <3>6, ConcatProperties, Zenon
      <3> QED  BY <3>1, <3>7, Zenon
    <2> QED  BY <2>1, <2>2, <2>3, Zenon
  <1>5. Tagged(tag, ctx, data) = ((<<first>> \o number) \o length) \o data
    BY Zenon DEF Tagged, encodeTagAndLength
  <1> HIDE DEF first, number, length
  <1>6. <<first>> \in Seq(Octets)
    BY <1>2, Tuples, Zenon
  <1>7. number \in Seq(Octets)
    BY <1>3, EmptyTuple, Zenon
  <1>8. <<first>> \o number \in Seq(Octets)
    BY <1>6, <1>7, ConcatProperties, Zenon
  <1>9. (<<first>> \o number) \o length \in Seq(Octets)
    BY <1>4, <1>8, ConcatProperties, Zenon
  <1> QED  BY <1>5, <1>9, ConcatProperties, Zenon

LEMMA NumberFieldOctets ==
    ASSUME NEW v \in Int, NEW x
    PROVE  /\ application("Unsigned", <<v>>, x) \in Seq(Octets)
           /\ application("Enum", <<v>>, x) \in Seq(Octets)
  <1>1. uint32ToVarLengthRaw(v) \in Seq(Octets)
    BY NumberOctets, Zenon
  <1>2. 2 \in 0..14 /\ 9 \in 0..14 /\ <<v>>[1] = v
    BY SMT
  <1>3. /\ application("Unsigned", <<v>>, x) = Tagged(2, FALSE, uint32ToVarLengthRaw(<<v>>[1]))
        /\ application("Enum", <<v>>, x) = Tagged(9, FALSE, uint32ToVarLengthRaw(<<v>>[1]))
    BY SMT DEF application, toRaw, AppTag, UnsignedIntegerToRaw, uintToRaw
  <1> QED  BY <1>1, <1>2, <1>3, TaggedOctets, Zenon

LEMMA ObjectIdFieldOctets ==
    ASSUME NEW v \in ObjectIds, NEW x
    PROVE  application("ObjectId", v, x) \in Seq(Octets)
  <1>1. objIdToNum(v) \in Int
    <2>1. v[1] \in 0..1023 /\ v[2] \in 0..InvalidInstanceNumber
      <3>1. v \in (0..1023) \X (0..InvalidInstanceNumber)
        BY Zenon DEF ObjectIds
      <3> QED  BY <3>1, PairOf
    <2>2. InvalidInstanceNumber \in Int
      BY SMT DEF InvalidInstanceNumber
    <2>3. v[1] \in Int /\ v[2] \in Int
      BY <2>1, <2>2, SMT
    <2> QED  BY <2>3, SMT DEF objIdToNum
  <1>2. BigEndian(objIdToNum(v), 4) \in Seq(Octets)
    BY <1>1, NumberOctets, Zenon
  <1>3. application("ObjectId", v, x) = Tagged(12, FALSE, BigEndian(objIdToNum(v), 4))
    BY SMT DEF application, toRaw, AppTag, objectIdentifierToRaw
  <1>4. 12 \in 0..14
    BY SMT
  <1> QED  BY <1>2, <1>3, <1>4, TaggedOctets, Zenon

\* A name of the character set 0: its letters are octets, and all are written.
LEMMA NameOctets ==
    ASSUME NEW v \in Seq(Octets), Len(v) \in 1..252, NEW tag, NEW ctx
    PROVE  stringToRaw(tag, ctx, v, 0) = Tagged(tag, ctx, <<0>> \o v)
  <1> DEFINE letters == [k \in 1..Len(v) |-> Octet(v[((k - 1) \div 1) + 1], (1 * Len(v) - k) % 1)]
  <1>1. letterSize(0) = 1
    BY SMT DEF letterSize
  <1>2. 1 * Len(v) = Len(v)
    BY SMT
  <1>3. stringToRaw(tag, ctx, v, 0)
        = Tagged(tag, ctx, <<0>> \o SubSeq(letters, 1, Len(letters) % 256))
    BY <1>1, <1>2, Zenon DEF stringToRaw
  <1>4. \A k \in 1..Len(v) : letters[k] = v[k]
    <2> TAKE k \in 1..Len(v)
    <2>1. ((k - 1) \div 1) + 1 = k /\ (1 * Len(v) - k) % 1 = 0 /\ v[k] \in Octets
      BY SMT
    <2>2. letters[k] = Octet(v[k], 0)
      BY <2>1, Zenon
    <2> QED  BY <2>1, <2>2, LeastOctet, Zenon
  <1>5. letters = v
    <2>1. letters = [k \in 1..Len(v) |-> v[k]]
      BY <1>4, Zenon
    <2> HIDE DEF letters
    <2> QED  BY <2>1, SMT
  <1> HIDE DEF letters
  <1>6. Len(v) % 256 = Len(v) /\ SubSeq(v, 1, Len(v)) = v
    <2>1. \A n \in 1..252 : (n % 256) = n /\ 1 + n - 1 = n
      BY SMT
    <2>2. Len(v) % 256 = Len(v) /\ 1 + Len(v) - 1 = Len(v) /\ 1 \in Nat \ {0}
      <3>1. 1 \in Nat \ {0}
        BY SMT
      <3> QED  BY <2>1, <3>1, Zenon
    <2>3. SubSeq(v, 1, 1 + Len(v) - 1) = v
      BY <2>2, HoldsWhole, HoldsSubSeq, Zenon
    <2> QED  BY <2>2, <2>3, Zenon
  <1> QED  BY <1>3, <1>5, <1>6, Zenon

LEMMA NameFieldOctets ==
    ASSUME NEW v \in Seq(Octets), Len(v) \in 1..252
    PROVE  stringToRaw(AppTag.CharacterString, FALSE, v, 0) \in Seq(Octets)
  <1>1. 0 \in Octets /\ 7 \in 0..14
    BY SMT DEF Octets
  <1>2. <<0>> \in Seq(Octets)
    BY <1>1, Tuples, Zenon
  <1>3. <<0>> \o v \in Seq(Octets)
    BY <1>2, ConcatProperties, Zenon
  <1>4. AppTag.CharacterString = 7
    BY SMT DEF AppTag
  <1> DEFINE d == <<0>> \o v
  <1>5. stringToRaw(7, FALSE, v, 0) = Tagged(7, FALSE, d)
    BY NameOctets, Zenon
  <1>6. d \in Seq(Octets) /\ FALSE \in BOOLEAN
    BY <1>3, Zenon
  <1> HIDE DEF d
  <1>7. Tagged(7, FALSE, d) \in Seq(Octets)
    BY <1>1, <1>6, TaggedOctets, Zenon
  <1> QED  BY <1>4, <1>5, <1>7, Zenon

LEMMA IAmOctets ==
    ASSUME NEW d \in Device0, NEW requester, NEW x
    PROVE  dataOf(iAmOf(d, requester), x) \in Seq(Octets)
  <1> DEFINE m == iAmOf(d, requester)
             a == application("ObjectId", deviceId(d), x)
             b == application("Unsigned", <<ApduMaxSize>>, x)
             c == application("Enum", <<SegmentedNOT>>, x)
             e == application("Unsigned", <<SNGVendorIdentifier>>, x)
  <1>1. deviceId(d) \in ObjectIds
    <2>1. d.instance \in 0..InvalidInstanceNumber
      BY DEF Device0
    <2>2. ObjectType.Device \in 0..1023
      BY SMT DEF ObjectType
    <2> QED  BY <2>1, <2>2, SMT DEF deviceId, ObjectIds
  <1>2. /\ m.s = "IAm"
        /\ DOMAIN m.f = {"dev", "maxApdu", "segmentation", "vendor"}
        /\ m.f.dev = deviceId(d) /\ m.f.maxApdu = <<ApduMaxSize>>
        /\ m.f.segmentation = <<SegmentedNOT>> /\ m.f.vendor = <<SNGVendorIdentifier>>
    BY SMT DEF iAmOf, unconfirmed
  <1>3. dataOf(m, x) = IAmToRaw(m, x)
    <2> HIDE DEF m
    <2> QED  BY <1>2, SMT DEF dataOf
  <1>4. IAmToRaw(m, x) = ((a \o b) \o c) \o e
    <2> HIDE DEF m
    <2>1. /\ appField(m, "dev", "ObjectId", x) = a
          /\ appField(m, "maxApdu", "Unsigned", x) = b
          /\ appField(m, "segmentation", "Enum", x) = c
          /\ appField(m, "vendor", "Unsigned", x) = e
      BY <1>2, SMT DEF appField
    <2> QED  BY <2>1, Zenon DEF IAmToRaw
  <1>5. a \in Seq(Octets)
    BY <1>1, ObjectIdFieldOctets, Zenon
  <1>6. ApduMaxSize \in Int /\ SegmentedNOT \in Int /\ SNGVendorIdentifier \in Int
    BY SMT DEF ApduMaxSize, SegmentedNOT, SNGVendorIdentifier
  <1>7. b \in Seq(Octets) /\ c \in Seq(Octets) /\ e \in Seq(Octets)
    BY <1>6, NumberFieldOctets, Zenon
  <1> HIDE DEF m, a, b, c, e
  <1>8. a \o b \in Seq(Octets)
    BY <1>5, <1>7, ConcatProperties, Zenon
  <1>9. (a \o b) \o c \in Seq(Octets)
    BY <1>7, <1>8, ConcatProperties, Zenon
  <1>10. ((a \o b) \o c) \o e \in Seq(Octets)
    BY <1>7, <1>9, ConcatProperties, Zenon
  <1> QED  BY <1>3, <1>4, <1>10, Zenon DEF m

LEMMA ChildId ==
    ASSUME NEW d \in Device0, NEW o \in childObjects(d)
    PROVE  o.id \in ObjectIds
  <1>1. d.instance \in 0..InvalidInstanceNumber /\ d.objects \subseteq Object0
    BY DEF Device0
  <1>2. ObjectType.Device \in 0..1023
    BY SMT DEF ObjectType
  <1>3. deviceId(d) \in ObjectIds
    BY <1>1, <1>2, SMT DEF deviceId, ObjectIds
  <1>4. CASE o \in d.objects
    BY <1>1, <1>4 DEF Object0
  <1>5. CASE o = [id |-> deviceId(d), name |-> d.name]
    BY <1>3, <1>5
  <1> QED  BY <1>4, <1>5 DEF childObjects

LEMMA IHaveOctets ==
    ASSUME NEW d \in Device0, NEW o \in childObjects(d), NEW requester, NEW x,
           objectName(o) \in Seq(Octets), Len(objectName(o)) \in 1..252
    PROVE  dataOf(iHaveOf(d, o, requester), x) \in Seq(Octets)
  <1> DEFINE m == iHaveOf(d, o, requester)
             a == application("ObjectId", deviceId(d), x)
             b == application("ObjectId", o.id, x)
             c == stringToRaw(AppTag.CharacterString, FALSE, objectName(o), 0)
  <1>1. deviceId(d) \in ObjectIds
    <2>1. [id |-> deviceId(d), name |-> d.name] \in childObjects(d)
      BY DEF childObjects
    <2> QED  BY <2>1, ChildId
  <1>2. o.id \in ObjectIds
    BY ChildId
  <1>3. /\ m.s = "IHave" /\ "set" \notin DOMAIN m
        /\ DOMAIN m.f = {"dev", "obj", "name"}
        /\ m.f.dev = deviceId(d) /\ m.f.obj = o.id /\ m.f.name = objectName(o)
    BY SMT DEF iHaveOf, unconfirmed
  <1>4. dataOf(m, x) = IHaveToRaw(m, x)
    <2> HIDE DEF m
    <2> QED  BY <1>3, SMT DEF dataOf
  <1>5. IHaveToRaw(m, x) = (a \o b) \o c
    <2> HIDE DEF m
    <2>1. /\ appField(m, "dev", "ObjectId", x) = a
          /\ appField(m, "obj", "ObjectId", x) = b
      BY <1>3, SMT DEF appField
    <2>2. charSet(m) = 0
      BY <1>3, Zenon DEF charSet
    <2>3. "name" \in DOMAIN m.f
      BY <1>3
    <2> QED  BY <1>3, <2>1, <2>2, <2>3, Zenon DEF IHaveToRaw
  <1>6. a \in Seq(Octets) /\ b \in Seq(Octets)
    BY <1>1, <1>2, ObjectIdFieldOctets, Zenon
  <1>7. c \in Seq(Octets)
    BY NameFieldOctets, Zenon
  <1> HIDE DEF m, a, b, c
  <1>8. a \o b \in Seq(Octets)
    BY <1>6, ConcatProperties, Zenon
  <1>9. (a \o b) \o c \in Seq(Octets)
    BY <1>7, <1>8, ConcatProperties, Zenon
  <1> QED  BY <1>4, <1>5, <1>9, Zenon DEF m

\* An answer is a message of the application layer with a header and octets.
LEMMA AnswerWellFormed ==
    ASSUME NEW m, NEW s \in {"IAm", "IHave"}, NEW f, NEW d \in Device0,
           NEW requester \in {NoAddress} \cup Address,
           m = unconfirmed(s, f, d, requester),
           \A x \in Leftover0 : dataOf(m, x) \in Seq(Octets)
    PROVE  WellFormed(m)
  <1>1. d.address \in Address
    BY DEF Device0
  <1>2. /\ m.s = s /\ DOMAIN m = {"s", "f", "net"}
        /\ m.net = [reply |-> FALSE, prio |-> 0, dest |-> requester, src |-> d.address,
                    type |-> ApduType, hops |-> DefaultHops]
    BY SMT DEF unconfirmed
  <1>3. m.net.type = ApduType
    BY <1>2
  <1>4. m.net \in Header
    <2>1. DefaultHops \in Octets /\ 0 \in 0..3
      BY SMT DEF DefaultHops, Octets
    <2>2. m.net \in [reply : BOOLEAN, prio : 0..3, dest : {NoAddress} \cup Address,
                     src : {NoAddress} \cup Address, type : 0..127 \cup {ApduType}, hops : Octets]
      BY <1>1, <1>2, <2>1
    <2> QED  BY <1>2, <2>2 DEF Header
  <1>5. m.s \in DOMAIN Service /\ m.s # "Network" /\ m.s # "Reject"
    BY <1>2, SMT DEF Service
  <1> QED  BY <1>2, <1>3, <1>4, <1>5, Zenon DEF WellFormed

LEMMA AnswersWellFormed ==
    ASSUME got.net.src \in {NoAddress} \cup Address, NEW a \in answers
    PROVE  WellFormed(a[2])
  <1> DEFINE r == got.net.src
  <1>1. \A k \in DOMAIN Devices : Devices[k] \in Device0
    BY DevicesAssumption
  <1>2. ASSUME a \in whoIsAnswers(got.f, r)
        PROVE  WellFormed(a[2])
    <2>1. PICK k \in DOMAIN Devices : a = <<k, iAmOf(Devices[k], r)>>
      BY <1>2 DEF whoIsAnswers
    <2>2. a[2] = iAmOf(Devices[k], r)
      BY <2>1
    <2>3. \A x \in Leftover0 : dataOf(a[2], x) \in Seq(Octets)
      BY <1>1, <2>2, IAmOctets, Zenon
    <2>4. \E f : a[2] = unconfirmed("IAm", f, Devices[k], r)
      BY <2>2, Zenon DEF iAmOf
    <2> QED  BY <1>1, <2>3, <2>4, AnswerWellFormed
  <1>3. ASSUME a \in whoHasAnswers(got.f, r)
        PROVE  WellFormed(a[2])
    <2>0. PICK k \in DOMAIN Devices : \E o \in childObjects(Devices[k]) :
             a = <<k, iHaveOf(Devices[k], o, r)>>
      BY <1>3, Zenon DEF whoHasAnswers
    <2>1. PICK o \in childObjects(Devices[k]) : a = <<k, iHaveOf(Devices[k], o, r)>>
      BY <2>0
    <2>2. a[2] = iHaveOf(Devices[k], o, r)
      BY <2>1
    <2>3. objectName(o) \in Seq(Octets) /\ Len(objectName(o)) \in 1..252
      BY DevicesAssumption, Zenon
    <2>4. \A x \in Leftover0 : dataOf(a[2], x) \in Seq(Octets)
      BY <1>1, <2>2, <2>3, IHaveOctets, Zenon
    <2>5. \E f : a[2] = unconfirmed("IHave", f, Devices[k], r)
      BY <2>2, Zenon DEF iHaveOf
    <2> QED  BY <1>1, <2>4, <2>5, AnswerWellFormed
  <1>4. a \in whoIsAnswers(got.f, r) \/ a \in whoHasAnswers(got.f, r)
    BY Zenon DEF answers
  <1> QED  BY <1>2, <1>3, <1>4

\* The octets of a message, and what is found in octets.
wireOf(m, x) ==
    (IF "spoilt" \in DOMAIN m THEN m.spoilt \o Tail(Tail(setToRaw(m.net))) ELSE setToRaw(m.net))
    \o (IF m.s = "Network" THEN <<>> ELSE headerToRaw(m, x)) \o dataOf(m, x)
readFrom(o) ==
    IF Insane(o) THEN [Unread EXCEPT !.verdict = "refused"] ELSE understood(o, setFromRaw(o))

\* A protocol version or a control octet that is wrong is noticed.
LEMMA SpoiltRefused ==
    ASSUME NEW m, WellFormed(m), "spoilt" \in DOMAIN m, NEW x \in Leftover0
    PROVE  Insane(wireOf(m, x))
  <1> DEFINE s == m.spoilt
             t == Tail(Tail(setToRaw(m.net)))
             a == IF m.s = "Network" THEN <<>> ELSE headerToRaw(m, x)
             d == dataOf(m, x)
             o == wireOf(m, x)
  <1>1. x \in Octets
    BY SentAssumption
  <1>2. s \in Seq(Octets) /\ Len(s) = 2 /\ Insane(s)
    BY DEF WellFormed
  <1>3. t \in Seq(Octets)
    <2>1. m.net \in Header
      BY DEF WellFormed
    <2> DEFINE h == setToRaw(m.net)
    <2>2. h \in Seq(Octets) /\ Len(h) >= 2
      <3>1. /\ h \in Seq(Octets)
            /\ Len(h) = 2 + Len(destPart(m.net)) + Len(srcPart(m.net)) + Len(hopsPart(m.net))
                        + Len(typePart(m.net))
        BY <2>1, HeaderLength, Zenon
      <3>2. /\ Len(destPart(m.net)) \in Nat /\ Len(srcPart(m.net)) \in Nat
            /\ Len(hopsPart(m.net)) \in Nat /\ Len(typePart(m.net)) \in Nat
        BY <2>1, HeaderParts, LenProperties, Zenon
      <3> HIDE DEF h
      <3> QED  BY <3>1, <3>2, SMT
    <2> HIDE DEF h
    <2> QED  BY <2>2, SMTT(30) DEF h
  <1>4. a \in Seq(Octets)
    <2>1. CASE m.s = "Network"
      BY <2>1, EmptyTuple, Zenon
    <2>2. CASE m.s # "Network"
      <3>1. m.s \in DOMAIN Service
        BY <2>2 DEF WellFormed
      <3>2. HeaderOf(kindOf(m), FirstOctet(kindOf(m), m), headerToRaw(m, x))
        BY <1>1, <3>1, HeaderOctets
      <3> QED  BY <2>2, <3>2, Zenon DEF HeaderOf
    <2> QED  BY <2>1, <2>2
  <1>5. d \in Seq(Octets)
    BY DEF WellFormed
  <1>6. o = ((s \o t) \o a) \o d
    BY Zenon DEF wireOf
  <1> HIDE DEF s, t, a, d, o
  <1>7. s \o t \in Seq(Octets) /\ Len(s \o t) >= 2 /\ (s \o t)[1] = s[1] /\ (s \o t)[2] = s[2]
    <2>1. s \o t \in Seq(Octets) /\ Len(s \o t) >= Len(s) /\ \A i \in 1..Len(s) : (s \o t)[i] = s[i]
      BY <1>2, <1>3, Followed, Zenon
    <2> QED  BY <1>2, <2>1, SMT
  <1> DEFINE u == s \o t
  <1> HIDE DEF u
  <1>8. u \o a \in Seq(Octets) /\ Len(u \o a) >= 2 /\ (u \o a)[1] = s[1] /\ (u \o a)[2] = s[2]
    <2>0. u \in Seq(Octets) /\ Len(u) >= 2 /\ u[1] = s[1] /\ u[2] = s[2]
      BY <1>7, Zenon DEF u
    <2>1. u \o a \in Seq(Octets) /\ Len(u \o a) >= Len(u) /\ \A i \in 1..Len(u) : (u \o a)[i] = u[i]
      BY <1>4, <2>0, Followed, Zenon
    <2>2. Len(u) \in Nat /\ Len(u \o a) \in Nat
      BY <2>0, <2>1, LenProperties, Zenon
    <2> QED  BY <2>0, <2>1, <2>2, SMT
  <1> DEFINE w == u \o a
  <1> HIDE DEF w
  <1>9. (w \o d)[1] = s[1] /\ (w \o d)[2] = s[2]
    <2>0. w \in Seq(Octets) /\ Len(w) >= 2 /\ w[1] = s[1] /\ w[2] = s[2]
      BY <1>8, Zenon DEF w
    <2>1. \A i \in 1..Len(w) : (w \o d)[i] = w[i]
      BY <1>5, <2>0, Followed, Zenon
    <2>2. Len(w) \in Nat
      BY <2>0, LenProperties, Zenon
    <2> QED  BY <2>0, <2>1, <2>2, SMT
  <1>10. o[1] = s[1] /\ o[2] = s[2]
    BY <1>6, <1>9, Zenon DEF u, w
  <1>11. Insane(o)
    BY <1>2, <1>10 DEF Insane
  <1> QED  BY <1>11, Zenon DEF o

\* What is read of a message that is accepted: its network header, with one hop
\* less if it has a destination network, and its invoke id.
LEMMA ReadBack ==
    ASSUME NEW m, WellFormed(m), NEW x \in Leftover0, readFrom(wireOf(m, x)).verdict = "accepted"
    PROVE  /\ readFrom(wireOf(m, x)).net = oneHopLess(m.net)
           /\ m.s # "Abort" => readFrom(wireOf(m, x)).id = idOf(m)
  <1> DEFINE h == setToRaw(m.net)
             a == IF m.s = "Network" THEN <<>> ELSE headerToRaw(m, x)
             d == dataOf(m, x)
             o == wireOf(m, x)
             n == setFromRaw(o)
             rest == SubSeq(o, Len(h) + 1, Len(o))
  <1>0. /\ x \in Octets /\ m.net \in Header
        /\ m.s = "Network" <=> m.net.type # ApduType
        /\ m.s # "Network" => m.s \in DOMAIN Service
    BY SentAssumption DEF WellFormed
  <1>1. "spoilt" \notin DOMAIN m
    <2>1. ASSUME "spoilt" \in DOMAIN m
          PROVE  readFrom(o).verdict = "refused"
      <3>1. Insane(o)
        BY <2>1, SpoiltRefused, Zenon
      <3>2. readFrom(o) = [Unread EXCEPT !.verdict = "refused"]
        BY <3>1, Zenon DEF readFrom
      <3>3. [Unread EXCEPT !.verdict = "refused"].verdict = "refused"
        BY SMT DEF Unread
      <3> HIDE DEF o
      <3> QED  BY <3>2, <3>3, Zenon
    <2> HIDE DEF o
    <2> QED  BY <2>1, Zenon DEF o
  <1>2. h \in Seq(Octets)
    BY <1>0, HeaderLength, Zenon
  <1>3. a \in Seq(Octets)
    <2>1. CASE m.s = "Network"
      BY <2>1, EmptyTuple, Zenon
    <2>2. CASE m.s # "Network"
      <3>1. HeaderOf(kindOf(m), FirstOctet(kindOf(m), m), headerToRaw(m, x))
        BY <1>0, <2>2, HeaderOctets
      <3> QED  BY <2>2, <3>1, Zenon DEF HeaderOf
    <2> QED  BY <2>1, <2>2
  <1>4. d \in Seq(Octets)
    BY DEF WellFormed
  <1>5. o = (h \o a) \o d
    BY <1>1, Zenon DEF wireOf
  <1>6. a = IF m.s = "Network" THEN <<>> ELSE headerToRaw(m, x)
    OBVIOUS
  <1> HIDE DEF a, d
  <1>7. /\ o \in Seq(Octets) /\ Holds(o, 1, h)
        /\ rest \in Seq(Octets) /\ Holds(rest, 1, a)
    <2> HIDE DEF h, o, rest
    <2>1. h \o a \in Seq(Octets) /\ Len(h \o a) = Len(h) + Len(a) /\ Len(h) \in Nat
      BY <1>2, <1>3, ConcatProperties, LenProperties, Zenon
    <2>2. o \in Seq(Octets) /\ Len(o) = Len(h \o a) + Len(d)
      BY <1>4, <1>5, <2>1, ConcatProperties, Zenon
    <2>3. Holds(o, 1, o)
      BY <2>2, HoldsWhole, Zenon
    <2>4. 1 \in Nat \ {0} /\ 1 + Len(h) = Len(h) + 1
      BY <2>1, SMT
    <2>5. Holds(o, 1, h \o a)
      BY <1>4, <1>5, <2>1, <2>2, <2>3, <2>4, HoldsConcat, Zenon
    <2>6. Holds(o, 1, h) /\ Holds(o, 1 + Len(h), a)
      BY <1>2, <1>3, <2>2, <2>4, <2>5, HoldsConcat, Zenon
    <2>7. Len(a) \in Nat /\ Len(d) \in Nat
      BY <1>3, <1>4, LenProperties, Zenon
    <2>8. /\ rest \in Seq(Octets) /\ Len(rest) = Len(a) + Len(d)
          /\ \A i \in 1..Len(rest) : rest[i] = o[Len(h) + i]
      BY <2>1, <2>2, <2>7, SMT DEF rest
    <2>9. Holds(rest, 1, a)
      <3>1. \A i \in 1..Len(a) : o[1 + Len(h) + i - 1] = a[i]
        BY <2>6 DEF Holds
      <3>2. \A i \in 1..Len(a) : i \in 1..Len(rest) /\ 1 + Len(h) + i - 1 = Len(h) + i /\ 1 + i - 1 = i
        BY <2>1, <2>7, <2>8, SMT
      <3>3. \A i \in 1..Len(a) : rest[1 + i - 1] = a[i]
        BY <2>8, <3>1, <3>2, Zenon
      <3>4. 1 + Len(a) - 1 <= Len(rest)
        BY <2>7, <2>8, SMT
      <3> QED  BY <2>4, <3>3, <3>4, Zenon DEF Holds
    <2> QED  BY <2>2, <2>6, <2>8, <2>9, Zenon
  <1>8. ~Insane(o) /\ n = [h |-> oneHopLess(m.net), n |-> Len(h)]
    BY <1>0, <1>7, HeaderRoundTrip, Zenon
  <1>9. n.h = oneHopLess(m.net) /\ n.n = Len(h)
    BY <1>8
  <1>10. n.h.type = m.net.type
    <2>1. oneHopLess(m.net).type = m.net.type
      BY <1>0, SMT DEF oneHopLess, Header
    <2> QED  BY <1>9, <2>1
  <1>11. readFrom(o) = understood(o, n)
    BY <1>8, Zenon DEF readFrom
  <1> HIDE DEF n, o, h, rest
  <1>12. CASE m.s = "Network"
    <2>1. readFrom(o) = [Unread EXCEPT !.verdict = "accepted", !.net = n.h]
      BY <1>0, <1>10, <1>11, <1>12, Zenon DEF understood
    <2>2. readFrom(o).net = n.h /\ readFrom(o).id = 0
      BY <2>1, SMT DEF Unread
    <2>3. idOf(m) = 0
      BY <1>12, Zenon DEF idOf
    <2> QED  BY <1>9, <2>2, <2>3, Zenon DEF o
  <1>13. CASE m.s # "Network"
    <2>1. m.net.type = ApduType /\ m.s \in DOMAIN Service /\ a = headerToRaw(m, x)
      BY <1>0, <1>6, <1>13, Zenon
    <2>2. readFrom(o) = found(n.h, receive(rest))
      BY <1>9, <1>10, <1>11, <2>1, Zenon DEF understood, rest
    <2>3. /\ readFrom(o).net = n.h
          /\ readFrom(o).id = receive(rest).id
          /\ readFrom(o).verdict = Verdict(receive(rest).r)
      <3> DEFINE r == receive(rest)
                 v == Verdict(r.r)
      <3>1. readFrom(o) = [verdict |-> v, f |-> r.r.got, net |-> n.h, id |-> r.id, used |-> r.r.used]
        BY <2>2, Zenon DEF found
      <3> HIDE DEF r, v
      <3>2. readFrom(o).net = n.h /\ readFrom(o).id = r.id /\ readFrom(o).verdict = v
        BY <3>1
      <3> QED  BY <3>2, Zenon DEF r, v
    <2>4. readFrom(o).verdict = "accepted"
      BY Zenon DEF o
    <2>5. receive(rest).r.ok
      BY <2>3, <2>4 DEF Verdict
    <2>6. m.s # "Abort" => receive(rest).id = idOf(m)
      BY <1>0, <1>7, <2>1, <2>5, ReceivedId, Zenon
    <2> QED  BY <1>9, <2>3, <2>6, Zenon DEF o
  <1> QED  BY <1>12, <1>13

-----------------------------------------------------------------------------
(* Every message that is accepted has its header.                          *)

\* The message on its way is one with a header and octets, and so are the
\* answers that follow; a message that was accepted had the header found.
CodecInv ==
    /\ \A a \in due : WellFormed(a[2])
    /\ wire = <<>> \/ \E x \in Leftover0 : WellFormed(sent) /\ wire = wireOf(sent, x)
    /\ Accepted => /\ WellFormed(sent)
                   /\ got.net = oneHopLess(sent.net)
                   /\ sent.s # "Abort" => got.id = idOf(sent)

LEMMA CodecInit == AllInit => CodecInv
  BY DEF AllInit, Init, CodecInv, Accepted, Unread

LEMMA WrittenInv ==
    ASSUME NEW m, WellFormed(m), NEW x \in Leftover0, Write(m, x),
           \A a \in due' : WellFormed(a[2])
    PROVE  CodecInv'
  <1>1. sent' = m /\ wire' = wireOf(m, x) /\ got' = Unread
    BY Zenon DEF Write, wireOf
  <1>2. ~Accepted'
    BY <1>1 DEF Accepted, Unread
  <1> QED  BY <1>1, <1>2, Zenon DEF CodecInv

LEMMA CodecStep == CodecInv /\ [AllNext]_allVars => CodecInv'
  <1> SUFFICES ASSUME CodecInv, [AllNext]_allVars
               PROVE  CodecInv'
    OBVIOUS
  <1>1. ASSUME NEW x \in Leftover0, NEW m \in Sent, Ask(m, x)
        PROVE  CodecInv'
    <2>1. WellFormed(m)
      BY SentAssumption
    <2>2. \A a \in due' : WellFormed(a[2])
      BY <1>1 DEF CodecInv, Ask
    <2>3. Write(m, x)
      BY <1>1 DEF Ask
    <2> QED  BY <2>1, <2>2, <2>3, WrittenInv
  <1>2. ASSUME NEW x \in Leftover0, Answer(x)
        PROVE  CodecInv'
    <2>1. PICK a \in due : Write(a[2], x) /\ due' = due \ {a}
      BY <1>2 DEF Answer
    <2>2. WellFormed(a[2]) /\ \A b \in due' : WellFormed(b[2])
      BY <2>1 DEF CodecInv
    <2> QED  BY <2>1, <2>2, WrittenInv
  <1>3. ASSUME Hear
        PROVE  CodecInv'
    <2>1. wire # <<>> /\ got' = readFrom(wire) /\ wire' = <<>> /\ sent' = sent /\ due' = due
      BY <1>3, Zenon DEF Hear, Read, readFrom
    <2>2. PICK x \in Leftover0 : WellFormed(sent) /\ wire = wireOf(sent, x)
      BY <2>1 DEF CodecInv
    <2>3. got'.verdict = "accepted" => /\ got'.net = oneHopLess(sent.net)
                                       /\ sent.s # "Abort" => got'.id = idOf(sent)
      BY <2>1, <2>2, ReadBack, Zenon
    <2> QED  BY <2>1, <2>2, <2>3, Zenon DEF CodecInv, Accepted
  <1>4. ASSUME Handle
        PROVE  CodecInv'
    <2>1. wire = <<>> /\ wire' = wire /\ got' = Unread /\ due' = due \cup answers
      BY <1>4 DEF Handle, Release
    <2>2. ~Accepted'
      BY <2>1 DEF Accepted, Unread
    <2>3. ASSUME NEW a \in answers
          PROVE  WellFormed(a[2])
      <3>1. Accepted
        BY <2>3 DEF answers
      <3>2. got.net = oneHopLess(sent.net) /\ sent.net \in Header
        BY <3>1 DEF CodecInv, WellFormed
      <3>3. got.net.src \in {NoAddress} \cup Address
        BY <3>2, Zenon DEF oneHopLess, Header
      <3> QED  BY <2>3, <3>3, AnswersWellFormed
    <2> QED  BY <2>1, <2>2, <2>3, Zenon DEF CodecInv
  <1>5. CASE UNCHANGED allVars
    BY <1>5, Zenon DEF allVars, vars, CodecInv, Accepted
  <1> QED  BY <1>1, <1>2, <1>3, <1>4, <1>5 DEF AllNext

\* Whoever accepts a message knows where it came from, whom it is for and which
\* request it answers, whatever else it holds and whatever the buffer held.
THEOREM HeadersAlwaysKept == AllSpec => []HeadersKept
  <1>1. CodecInv => HeadersKept
    BY DEF CodecInv, HeadersKept, oneHopLess, idOf
  <1> QED  BY <1>1, CodecInit, CodecStep, PTL DEF AllSpec

-----------------------------------------------------------------------------
(* Values in octets and back.                                              *)

LEMMA ThreeOctets ==
    ASSUME NEW v \in Int, 0 <= v, v < Weight[4]
    PROVE  uint32fromVarLengthRaw(BigEndian(v, 3)) = v
  <1>o. /\ Octet(v, 0) = v % 256
        /\ Octet(v, 1) = (v \div 256) % 256
        /\ Octet(v, 2) = ((v \div 256) \div 256) % 256
    <2>1. Octet(v, 0) = v % 256
      BY OctetOf, ZenonT(40)
    <2>2. Octet(v, 1) = (v \div 256) % 256
      BY OctetOf, ZenonT(40)
    <2>3. Octet(v, 2) = ((v \div 256) \div 256) % 256
      BY OctetOf, ZenonT(40)
    <2> QED  BY <2>1, <2>2, <2>3, Zenon
  <1> DEFINE q1 == v \div 256
             q2 == q1 \div 256
             c  == Octet(v, 0)
             b  == Octet(v, 1)
             a  == Octet(v, 2)
  <1>v. v \in Int
    OBVIOUS
  <1>1. /\ q1 \in Int /\ v = 256 * q1 + c
        /\ q2 \in Int /\ q1 = 256 * q2 + b
        /\ a = q2 % 256
    <2>1. q1 \in Int /\ q2 \in Int
      BY <1>v, Digits
    <2>2. v = 256 * q1 + (v % 256) /\ q1 = 256 * q2 + (q1 % 256)
      BY <1>v, <2>1, Digits
    <2>3. c = v % 256 /\ b = q1 % 256 /\ a = q2 % 256
      BY <1>o, Zenon
    <2> HIDE DEF q1, q2, a, b, c
    <2> QED  BY <2>1, <2>2, <2>3
  <1>2. a \in Octets /\ b \in Octets /\ c \in Octets
    BY <1>v, OctetIsOctet
  <1>3. BigEndian(v, 3) = <<a, b, c>>
    BY BigEndianIs
  <1> HIDE DEF q1, q2, a, b, c
  <1>4. a \in Int /\ 0 <= b /\ b <= 255 /\ b \in Int /\ 0 <= c /\ c <= 255 /\ c \in Int
    BY <1>2, SMT DEF Octets
  <1>5. q2 \in 0..255
    BY <1>1, <1>4, Weights, SMT
  <1>6. q2 = a
    BY <1>1, <1>5, SMT
  <1>7. uint32fromVarLengthRaw(<<a, b, c>>) = Weight[3] * a + 256 * b + c
    BY <1>2, ValueOfThree
  <1>8. v = Weight[3] * a + 256 * b + c
    BY <1>1, <1>4, <1>6, Weights, SMT
  <1> QED  BY <1>3, <1>7, <1>8

LEMMA WidthIs ==
    ASSUME NEW v \in Nat
    PROVE  /\ v < Weight[2] => Width(v) = 1
           /\ v >= Weight[2] /\ v < Weight[3] => Width(v) = 2
           /\ v >= Weight[3] /\ v < Weight[4] => Width(v) = 3
           /\ v >= Weight[4] => Width(v) = 4
  <1> DEFINE a == IF v < 0 THEN -v ELSE v
             fits(n) == (n = 4 \/ a < Weight[n + 1]) /\ (n = 1 \/ a >= Weight[n])
  <1>1. a = v
    BY SMT
  <1>2. Width(v) = CHOOSE n \in 1..4 : fits(n)
    BY Zenon DEF Width
  <1>3. /\ fits(1) <=> v < Weight[2]
        /\ fits(2) <=> v >= Weight[2] /\ v < Weight[3]
        /\ fits(3) <=> v >= Weight[3] /\ v < Weight[4]
        /\ fits(4) <=> v >= Weight[4]
    <2> HIDE DEF a
    <2> QED  BY <1>1, Weights, SMT
  <1>4. \A n \in 1..4 : n = 1 \/ n = 2 \/ n = 3 \/ n = 4
    BY SMT
  <1>5. 1 \in 1..4 /\ 2 \in 1..4 /\ 3 \in 1..4 /\ 4 \in 1..4
    BY SMT
  <1> HIDE DEF fits
  <1>6. v < Weight[2] => fits(1) /\ \A n \in 1..4 : fits(n) => n = 1
    <2>1. v < Weight[2] => fits(1) /\ ~fits(2) /\ ~fits(3) /\ ~fits(4)
      BY <1>3, Weights, SMT
    <2> QED  BY <1>4, <2>1, Zenon
  <1>7. v >= Weight[2] /\ v < Weight[3] => fits(2) /\ \A n \in 1..4 : fits(n) => n = 2
    <2>1. v >= Weight[2] /\ v < Weight[3] => fits(2) /\ ~fits(1) /\ ~fits(3) /\ ~fits(4)
      BY <1>3, Weights, SMT
    <2> QED  BY <1>4, <2>1, SMT
  <1>8. v >= Weight[3] /\ v < Weight[4] => fits(3) /\ \A n \in 1..4 : fits(n) => n = 3
    <2>1. v >= Weight[3] /\ v < Weight[4] => fits(3) /\ ~fits(1) /\ ~fits(2) /\ ~fits(4)
      BY <1>3, Weights, SMT
    <2> QED  BY <1>4, <2>1, SMT
  <1>9. v >= Weight[4] => fits(4) /\ \A n \in 1..4 : fits(n) => n = 4
    <2>1. v >= Weight[4] => fits(4) /\ ~fits(1) /\ ~fits(2) /\ ~fits(3)
      BY <1>3, Weights, SMT
    <2> QED  BY <1>4, <2>1, SMT
  <1>10. \A k \in 1..4 : (fits(k) /\ \A n \in 1..4 : fits(n) => n = k) => Width(v) = k
    BY <1>2, Zenon
  <1>11. /\ (fits(1) /\ \A n \in 1..4 : fits(n) => n = 1) => Width(v) = 1
         /\ (fits(2) /\ \A n \in 1..4 : fits(n) => n = 2) => Width(v) = 2
         /\ (fits(3) /\ \A n \in 1..4 : fits(n) => n = 3) => Width(v) = 3
         /\ (fits(4) /\ \A n \in 1..4 : fits(n) => n = 4) => Width(v) = 4
    BY <1>5, <1>10, Zenon
  <1> HIDE DEF fits
  <1> QED  BY <1>6, <1>7, <1>8, <1>9, <1>11, Zenon

\* Every quint32 comes back from the octets it is given.
LEMMA UnsignedRoundTrip ==
    ASSUME NEW v \in Quint32
    PROVE  uint32fromVarLengthRaw(uint32ToVarLengthRaw(v)) = v
  <1>0. v \in Int
    BY SMT DEF Quint32
  <1>1. CASE v < 0
    <2>1. uint32ToVarLengthRaw(v) = BigEndian(v, 4)
      BY <1>1, Zenon DEF uint32ToVarLengthRaw
    <2> QED  BY <2>1, FourOctets
  <1>2. CASE v >= 0
    <2>1. v \in Nat /\ ~(v < 0)
      BY <1>0, <1>2, SMT
    <2>2. uint32ToVarLengthRaw(v) = BigEndian(v, Width(v))
      BY <2>1, Zenon DEF uint32ToVarLengthRaw
    <2>3. CASE v < Weight[2]
      <3>1. v \in Octets
        BY <2>1, <2>3, Weights, SMT DEF Octets
      <3>2. Width(v) = 1
        BY <2>1, <2>3, WidthIs, Weights, SMT
      <3> QED  BY <2>2, <3>1, <3>2, OneOctet
    <2>4. CASE v >= Weight[2] /\ v < Weight[3]
      <3>1. v < Weight[3]
        BY <2>4, SMT
      <3>2. Width(v) = 2
        BY <2>1, <2>4, WidthIs, Weights, SMT
      <3> QED  BY <2>2, <2>1, <3>1, <3>2, TwoOctetsBelow
    <2>5. CASE v >= Weight[3] /\ v < Weight[4]
      <3>1. Width(v) = 3
        BY <2>1, <2>5, WidthIs, Weights, SMT
      <3>2. v < Weight[4]
        BY <2>5, SMT
      <3>3. uint32fromVarLengthRaw(BigEndian(v, 3)) = v
        BY <2>1, <3>2, ThreeOctets, SMT
      <3> QED  BY <2>2, <3>1, <3>3
    <2>6. CASE v >= Weight[4]
      <3>1. Width(v) = 4
        BY <2>1, <2>6, WidthIs, Weights, SMT
      <3> QED  BY <2>2, <3>1, FourOctets
    <2>7. v < Weight[2] \/ (v >= Weight[2] /\ v < Weight[3]) \/ (v >= Weight[3] /\ v < Weight[4]) \/ v >= Weight[4]
      BY <2>1, Weights, SMT
    <2> QED  BY <2>3, <2>4, <2>5, <2>6, <2>7, SMT
  <1> QED  BY <1>0, <1>1, <1>2, SMT

LEMMA FourOctetsOf ==
    ASSUME NEW v \in Int, 0 <= v, v < 256 * Weight[4]
    PROVE  \E a, b, c, d \in Octets :
              /\ BigEndian(v, 4) = <<a, b, c, d>>
              /\ v = Weight[4] * a + Weight[3] * b + 256 * c + d
  <1>o. /\ Octet(v, 0) = v % 256
        /\ Octet(v, 1) = (v \div 256) % 256
        /\ Octet(v, 2) = ((v \div 256) \div 256) % 256
        /\ Octet(v, 3) = (((v \div 256) \div 256) \div 256) % 256
    BY OctetOf, ZenonT(40)
  <1> DEFINE q1 == v \div 256
             q2 == q1 \div 256
             q3 == q2 \div 256
             d  == Octet(v, 0)
             c  == Octet(v, 1)
             b  == Octet(v, 2)
             a  == Octet(v, 3)
  <1>v. v \in Int
    OBVIOUS
  <1>1. /\ q1 \in Int /\ v = 256 * q1 + d
        /\ q2 \in Int /\ q1 = 256 * q2 + c
        /\ q3 \in Int /\ q2 = 256 * q3 + b
        /\ a = q3 % 256
    <2>1. q1 \in Int /\ q2 \in Int /\ q3 \in Int
      BY <1>v, Digits
    <2>2. v = 256 * q1 + (v % 256) /\ q1 = 256 * q2 + (q1 % 256) /\ q2 = 256 * q3 + (q2 % 256)
      BY <1>v, <2>1, Digits
    <2>3. d = v % 256 /\ c = q1 % 256 /\ b = q2 % 256 /\ a = q3 % 256
      BY <1>o, Zenon
    <2> HIDE DEF q1, q2, q3, a, b, c, d
    <2> QED  BY <2>1, <2>2, <2>3
  <1>2. a \in Octets /\ b \in Octets /\ c \in Octets /\ d \in Octets
    BY <1>v, OctetIsOctet
  <1>3. BigEndian(v, 4) = <<a, b, c, d>>
    BY BigEndianIs
  <1> HIDE DEF q1, q2, q3, a, b, c, d
  <1>4. /\ a \in Int /\ b \in Int /\ c \in Int /\ d \in Int
        /\ 0 <= b /\ b <= 255 /\ 0 <= c /\ c <= 255 /\ 0 <= d /\ d <= 255
    BY <1>2, SMT DEF Octets
  <1>5. 0 <= q3 /\ q3 <= 255
    BY <1>1, <1>4, Weights, SMT
  <1>6. q3 = a
    BY <1>1, <1>5, SMT
  <1>7. v = Weight[4] * a + Weight[3] * b + 256 * c + d
    BY <1>1, <1>4, <1>6, Weights, SMT
  <1> QED  BY <1>2, <1>3, <1>7, SMT

LEMMA InvalidNumber == InvalidInstanceNumber \in Int
  BY SMT DEF InvalidInstanceNumber

LEMMA IdentifierRoundTrip ==
    ASSUME NEW v \in ObjectIds
    PROVE  /\ BigEndian(objIdToNum(v), 4) \in Seq(Octets)
           /\ Len(BigEndian(objIdToNum(v), 4)) = 4
           /\ valueOf("ObjectId", BigEndian(objIdToNum(v), 4)) = v
  <1>0. v[1] \in 0..1023 /\ v[2] \in 0..InvalidInstanceNumber /\ v = <<v[1], v[2]>>
    <2>1. v \in (0..1023) \X (0..InvalidInstanceNumber)
      BY Zenon DEF ObjectIds
    <2> QED  BY <2>1, PairOf
  <1> DEFINE t == v[1]
             i == v[2]
             n == (64 * Weight[3]) * t + i
             o == BigEndian(n, 4)
  <1>1. t \in 0..1023 /\ i \in 0..InvalidInstanceNumber /\ v = <<t, i>>
    BY <1>0, Zenon
  <1>2. objIdToNum(v) = n
    BY Weights, SMT DEF objIdToNum
  <1> HIDE DEF t, i
  <1>3. i \in Int /\ 0 <= i /\ i < 64 * Weight[3]
    <2>1. i \in Int /\ 0 <= i /\ i <= InvalidInstanceNumber
      <3>1. InvalidInstanceNumber \in Int
        BY InvalidNumber, Zenon
      <3> QED  BY <1>1, <3>1, SMT
    <2>2. InvalidInstanceNumber < 64 * Weight[3] /\ 64 * Weight[3] \in Int /\ InvalidInstanceNumber \in Int
      BY Weights, SMT DEF InvalidInstanceNumber
    <2> DEFINE w == 64 * Weight[3]
    <2> HIDE DEF w
    <2>3. i < w
      BY <2>1, <2>2, SMT DEF w
    <2> QED  BY <2>1, <2>3, Zenon DEF w
  <1>4. n \in Int /\ 0 <= n /\ n < 256 * Weight[4]
    BY <1>1, <1>3, Weights, SMT
  <1>5. n = (64 * Weight[3]) * t + i
    BY Zenon
  <1> HIDE DEF n
  <1>6. PICK a, b, c, d \in Octets : o = <<a, b, c, d>> /\ n = Weight[4] * a + Weight[3] * b + 256 * c + d
    BY <1>4, FourOctetsOf, ZenonT(40)
  <1>7. t = 4 * a + (b \div 64) /\ i = Weight[3] * (b % 64) + 256 * c + d
    <2> DEFINE h == b \div 64
               l == b % 64
    <2>1. b = 64 * h + l /\ h \in Int /\ l \in Int /\ 0 <= l /\ l <= 63
      BY SMT DEF Octets
    <2>2. /\ a \in Int /\ c \in Int /\ d \in Int /\ t \in Int
          /\ 0 <= c /\ c <= 255 /\ 0 <= d /\ d <= 255
      BY <1>1, SMT DEF Octets
    <2> HIDE DEF h, l
    <2>3. t = 4 * a + h /\ i = Weight[3] * l + 256 * c + d
      BY <1>3, <1>5, <1>6, <2>1, <2>2, Weights, SMT
    <2> QED  BY <2>3, Zenon DEF h, l
  <1>8. valueOf("ObjectId", o) = <<4 * o[1] + (o[2] \div 64), Weight[3] * (o[2] % 64) + 256 * o[3] + o[4]>>
    <2> HIDE DEF o
    <2> QED  BY Weights, SMT DEF valueOf
  <1>9. o \in Seq(Octets) /\ Len(o) = 4 /\ o[1] = a /\ o[2] = b /\ o[3] = c /\ o[4] = d
    <2> HIDE DEF o
    <2> QED  BY <1>6, Tuples, SMT
  <1>10. valueOf("ObjectId", o) = <<t, i>>
    <2> HIDE DEF o
    <2> QED  BY <1>7, <1>8, <1>9, SMT
  <1> HIDE DEF o
  <1> QED  BY <1>1, <1>2, <1>9, <1>10, Zenon DEF o

LEMMA OneCutOut ==
    ASSUME NEW S, NEW s \in Seq(S), NEW j \in 1..Len(s)
    PROVE  SubSeq(s, j, j) = <<s[j]>>
  <1>1. SubSeq(s, j, j) \in Seq(S) /\ Len(SubSeq(s, j, j)) = 1 /\ SubSeq(s, j, j)[1] = s[j]
    BY SMT
  <1> DEFINE u == SubSeq(s, j, j)
  <1> HIDE DEF u
  <1>2. u \in Seq(S) /\ Len(u) = 1 /\ u[1] = s[j]
    BY <1>1, Zenon DEF u
  <1>3. u = <<s[j]>>
    BY <1>2, SMT
  <1> QED  BY <1>3, Zenon DEF u

\* A name of the character set 0.
LEMMA NameRoundTrip ==
    ASSUME NEW v \in Seq(Octets), Len(v) \in 1..252
    PROVE  /\ <<0>> \o v \in Seq(Octets)
           /\ Len(<<0>> \o v) = 1 + Len(v)
           /\ (<<0>> \o v)[1] = 0
           /\ toString(<<0>> \o v) = v
  <1> DEFINE s == <<0>> \o v
             n == Len(v)
  <1>0. n \in 1..252
    OBVIOUS
  <1>1. <<0>> \in Seq(Octets) /\ Len(<<0>>) = 1 /\ <<0>>[1] = 0
    BY SMT DEF Octets
  <1>2. s \in Seq(Octets) /\ Len(s) = 1 + n /\ s[1] = 0 /\ \A k \in 1..n : s[1 + k] = v[k]
    BY <1>1, SMT
  <1>3. letterSize(0) = 1
    BY SMT DEF letterSize
  <1> HIDE DEF s, n
  <1>4. toString(s) = [k \in 1..((Len(s) - 1) \div 1) |->
                         uint32fromVarLengthRaw(SubSeq(s, 2 + 1 * (k - 1), 1 + 1 * k))]
    <2>1. 1 # 0
      BY SMT
    <2> QED  BY <1>2, <1>3, <2>1, Zenon DEF toString
  <1>5. (Len(s) - 1) \div 1 = n
    BY <1>0, <1>2, SMT
  <1>6. ASSUME NEW k \in 1..n
        PROVE  uint32fromVarLengthRaw(SubSeq(s, 2 + 1 * (k - 1), 1 + 1 * k)) = v[k]
    <2>1. v[k] \in Octets
      BY <1>6 DEF n
    <2>2. SubSeq(s, 2 + 1 * (k - 1), 1 + 1 * k) = <<v[k]>>
      <3> DEFINE u == SubSeq(s, 2 + 1 * (k - 1), 1 + 1 * k)
      <3>1. 2 + 1 * (k - 1) = 1 + k /\ 1 + 1 * k = 1 + k /\ 1 + k \in 1..Len(s) /\ k \in Int
        BY <1>0, <1>2, <1>6, SMT
      <3>2. SubSeq(s, 1 + k, 1 + k) = <<s[1 + k]>>
        BY <1>2, <3>1, OneCutOut, Zenon
      <3>3. s[1 + k] = v[k]
        BY <1>2, <1>6
      <3> QED  BY <3>1, <3>2, <3>3
    <2> QED  BY <2>1, <2>2, ValueOfOne
  <1>7. toString(s) = [k \in 1..n |-> v[k]]
    BY <1>4, <1>5, <1>6, Zenon
  <1>8. [k \in 1..n |-> v[k]] = v
    BY SMT DEF n
  <1> QED  BY <1>2, <1>7, <1>8, Zenon DEF s, n

-----------------------------------------------------------------------------
(* The octets of one value: its tag, its length and its data.              *)

\* The octets before the value: the tag with a short length, or with a length of
\* its own.
tagLength(d) == IF Len(d) <= 4 THEN 1 ELSE 2
firstOctet(t, ctx, d) ==
    16 * t + (IF ctx THEN 8 ELSE 0) + (IF Len(d) <= 4 THEN Len(d) ELSE 5)
tagOctets(t, ctx, d) ==
    IF Len(d) <= 4 THEN <<firstOctet(t, ctx, d)>> ELSE <<firstOctet(t, ctx, d), Len(d)>>

LEMMA AppendOne ==
    ASSUME NEW S, NEW a \in S, NEW b \in S
    PROVE  <<a>> \o <<>> = <<a>> /\ <<a>> \o <<b>> = <<a, b>>
  <1>1. <<a>> \o <<>> = <<a>>
    BY SMT
  <1>2. <<a>> \o <<b>> = <<a, b>>
    <2> DEFINE u == <<a>> \o <<b>>
               v == <<a, b>>
    <2>1. u \in Seq(S) /\ Len(u) = 2 /\ u[1] = a /\ u[2] = b
      BY SMT
    <2>2. v \in Seq(S) /\ Len(v) = 2 /\ v[1] = a /\ v[2] = b
      BY Tuples, Zenon
    <2> HIDE DEF u, v
    <2>3. Len(u) = Len(v) /\ \A i \in 1..Len(u) : u[i] = v[i]
      BY <2>1, <2>2, SMT
    <2>4. u = v
      BY <2>1, <2>2, <2>3, SeqEqual
    <2> QED  BY <2>4, Zenon DEF u, v
  <1> QED  BY <1>1, <1>2

LEMMA TaggedIs ==
    ASSUME NEW t \in 0..14, NEW ctx \in BOOLEAN, NEW d \in Seq(Octets), Len(d) <= 253
    PROVE  /\ Tagged(t, ctx, d) = tagOctets(t, ctx, d) \o d
           /\ tagOctets(t, ctx, d) \in Seq(Octets)
           /\ Len(tagOctets(t, ctx, d)) = tagLength(d)
           /\ Tagged(t, ctx, d) \in Seq(Octets)
           /\ Len(Tagged(t, ctx, d)) = tagLength(d) + Len(d)
  <1> DEFINE n == Len(d)
             first == 16 * (IF t <= 14 THEN t ELSE 15) + (IF ctx THEN 8 ELSE 0)
                      + (IF n <= 4 THEN n ELSE 5)
             number == IF t <= 14 THEN <<>> ELSE <<t>>
             length == CASE n <= 4 -> <<>>
                         [] n \in 5..253 -> <<n>>
                         [] OTHER -> <<254>> \o BigEndian(n, 2)
             tag == tagOctets(t, ctx, d)
  <1>1. n \in Nat /\ n <= 253
    BY LenProperties, Zenon
  <1>2. Tagged(t, ctx, d) = ((<<first>> \o number) \o length) \o d
    BY Zenon DEF Tagged, encodeTagAndLength
  <1>3. t <= 14 /\ number = <<>>
    BY SMT
  <1>4. first = firstOctet(t, ctx, d)
    BY <1>3, Zenon DEF firstOctet
  <1>5. first \in Octets
    <2> HIDE DEF n
    <2> QED  BY <1>1, SMT DEF Octets
  <1>6. n <= 4 => length = <<>>
    <2>1. n <= 4 => ~(n \in 5..253)
      <3> HIDE DEF n, length
      <3> QED  BY <1>1, SMT
    <2> QED  BY <2>1, Zenon
  <1>7. ~(n <= 4) => length = <<n>> /\ n \in Octets
    <2>1. ~(n <= 4) => n \in 5..253 /\ n \in Octets
      <3> HIDE DEF n, length
      <3> QED  BY <1>1, SMT DEF Octets
    <2> QED  BY <2>1, Zenon
  <1>8. /\ n <= 4 => tag = <<first>> /\ tagLength(d) = 1
        /\ ~(n <= 4) => tag = <<first, n>> /\ tagLength(d) = 2
    BY <1>4, Zenon DEF tagOctets, tagLength
  <1> HIDE DEF n, first, number, length, tag
  <1>9. (<<first>> \o number) \o length = tag /\ tag \in Seq(Octets) /\ Len(tag) = tagLength(d)
    <2>1. CASE n <= 4
      <3>1. (<<first>> \o <<>>) \o <<>> = <<first>> /\ <<first>> \in Seq(Octets) /\ Len(<<first>>) = 1
        BY <1>5, SMT
      <3> QED  BY <1>3, <1>6, <1>8, <2>1, <3>1
    <2>2. CASE ~(n <= 4)
      <3>1. /\ (<<first>> \o <<>>) \o <<n>> = <<first, n>>
            /\ <<first, n>> \in Seq(Octets) /\ Len(<<first, n>>) = 2
        <4>1. <<first>> \o <<>> = <<first>> /\ <<first>> \o <<n>> = <<first, n>>
          BY <1>5, <1>7, <2>2, AppendOne, Zenon
        <4>2. <<first, n>> \in Seq(Octets) /\ Len(<<first, n>>) = 2
          BY <1>5, <1>7, <2>2, Tuples, Zenon
        <4> QED  BY <4>1, <4>2, Zenon
      <3> QED  BY <1>3, <1>7, <1>8, <2>2, <3>1
    <2> QED  BY <2>1, <2>2
  <1>10. Tagged(t, ctx, d) = tag \o d
    BY <1>2, <1>9
  <1>11. tag \o d \in Seq(Octets) /\ Len(tag \o d) = Len(tag) + Len(d)
    BY <1>9, ConcatProperties, Zenon
  <1> QED  BY <1>9, <1>10, <1>11, Zenon DEF tag

\* The parts of the first octet of a tag.
LEMMA FirstOctetParts ==
    ASSUME NEW t \in 0..14, NEW c \in {0, 1}, NEW l \in 0..5
    PROVE  /\ (16 * t + 8 * c + l) \div 16 = t
           /\ ((16 * t + 8 * c + l) \div 8) % 2 = c
           /\ (16 * t + 8 * c + l) % 8 = l
  BY SMT

\* A tag and its value, of a class the parser does not take for a Null or a
\* Boolean, are what parser p meets next.
Ahead(o, at, t, ctx, d, p) ==
    /\ o \in Seq(Octets) /\ at \in Nat \ {0} /\ t \in 0..14 /\ ctx \in BOOLEAN
    /\ d \in Seq(Octets) /\ Len(d) <= 253
    /\ ctx \/ t > 1
    /\ Holds(o, at, Tagged(t, ctx, d))
    /\ p.val + p.len = at /\ p.left \in Nat /\ p.left >= tagLength(d) + Len(d)

\* The parser finds the tag and the value where they were written.
LEMMA ParseTagged ==
    ASSUME NEW o, NEW at, NEW t, NEW ctx, NEW d, NEW p, Ahead(o, at, t, ctx, d, p)
    PROVE  /\ parseNext(o, p) = [at |-> at, val |-> at + tagLength(d), len |-> Len(d),
                                 left |-> p.left - (tagLength(d) + Len(d)),
                                 ctx |-> ctx, tag |-> t, ret |-> tagLength(d) + Len(d)]
           /\ SubSeq(o, at + tagLength(d), at + tagLength(d) + Len(d) - 1) = d
           /\ o[at] \div 16 = t /\ (o[at] \div 8) % 2 = (IF ctx THEN 1 ELSE 0)
  <1> DEFINE n == Len(d)
             k == tagLength(d)
             first == firstOctet(t, ctx, d)
             c == IF ctx THEN 1 ELSE 0
             l == IF n <= 4 THEN n ELSE 5
             dl == decodeDataLength(o, at)
  <1>0. /\ o \in Seq(Octets) /\ at \in Nat \ {0} /\ t \in 0..14 /\ ctx \in BOOLEAN
        /\ d \in Seq(Octets) /\ Len(d) <= 253
        /\ ctx \/ t > 1
        /\ Holds(o, at, Tagged(t, ctx, d))
        /\ p.val + p.len = at /\ p.left \in Nat /\ p.left >= tagLength(d) + Len(d)
    BY Zenon DEF Ahead
  <1>k. at \in Nat \ {0} /\ t \in 0..14 /\ p.left \in Nat
    BY <1>0, Zenon
  <1>1. n \in Nat /\ n <= 253
    BY <1>0, LenProperties, Zenon
  <1>2. /\ Holds(o, at, tagOctets(t, ctx, d)) /\ Holds(o, at + k, d)
        /\ tagOctets(t, ctx, d) \in Seq(Octets) /\ Len(tagOctets(t, ctx, d)) = k
    <2>1. /\ Tagged(t, ctx, d) = tagOctets(t, ctx, d) \o d
          /\ tagOctets(t, ctx, d) \in Seq(Octets)
          /\ Len(tagOctets(t, ctx, d)) = tagLength(d)
      BY <1>0, TaggedIs, Zenon
    <2>2. Holds(o, at, tagOctets(t, ctx, d) \o d)
      BY <1>0, <2>1, Zenon
    <2>3. Holds(o, at, tagOctets(t, ctx, d)) /\ Holds(o, at + Len(tagOctets(t, ctx, d)), d)
      BY <1>0, <2>1, <2>2, HoldsConcat, Zenon
    <2> QED  BY <2>1, <2>3, Zenon
  <1>3. /\ n <= 4 => tagOctets(t, ctx, d) = <<first>> /\ k = 1
        /\ ~(n <= 4) => tagOctets(t, ctx, d) = <<first, n>> /\ k = 2
    BY Zenon DEF tagOctets, tagLength
  <1>4. k \in {1, 2}
    BY <1>3, Zenon
  <1>5. first = 16 * t + 8 * c + l
    BY <1>0, SMT DEF firstOctet
  <1> HIDE DEF n, k, first, l, dl
  <1>6. o[at] = first /\ (~(n <= 4) => o[at + 1] = n)
    <2>1. \A i \in 1..k : o[at + i - 1] = tagOctets(t, ctx, d)[i]
      BY <1>2, Zenon DEF Holds
    <2>2. CASE n <= 4
      BY <1>k, <1>3, <2>1, <2>2, SMT
    <2>3. CASE ~(n <= 4)
      <3>1. at + 1 - 1 = at /\ at + 2 - 1 = at + 1 /\ 1 \in 1..2 /\ 2 \in 1..2
        BY <1>k, SMT
      <3>2. <<first, n>>[1] = first /\ <<first, n>>[2] = n
        OBVIOUS
      <3> QED  BY <1>k, <1>3, <2>1, <2>3, <3>1, <3>2, SMT
    <2> QED  BY <2>2, <2>3
  <1>7. l \in 0..5 /\ (n <= 4 => l = n /\ l < 5) /\ (~(n <= 4) => l = 5)
    BY <1>1, SMT DEF l
  <1>8. o[at] \div 16 = t /\ (o[at] \div 8) % 2 = c /\ o[at] % 8 = l
    <2>1. c \in {0, 1}
      BY Zenon
    <2> HIDE DEF c
    <2>2. /\ (16 * t + 8 * c + l) \div 16 = t
          /\ ((16 * t + 8 * c + l) \div 8) % 2 = c
          /\ (16 * t + 8 * c + l) % 8 = l
      BY <1>7, <2>1, <1>0, FirstOctetParts, Zenon
    <2>3. o[at] = 16 * t + 8 * c + l
      BY <1>5, <1>6, Zenon
    <2> QED  BY <2>2, <2>3, Zenon
  <1>9. ~(o[at] \div 16 = 15) /\ ~isOpeningOrClosingTag(o[at])
    BY <1>0, <1>7, <1>8, SMT DEF isOpeningOrClosingTag
  <1>10. dl = [len |-> n, said |-> k - 1, taken |-> k - 1]
    <2>1. CASE n <= 4
      <3>1. dl = [len |-> l, said |-> 0, taken |-> 0]
        BY <1>7, <1>8, <1>9, <2>1, SMT DEF dl, decodeDataLength
      <3>2. k - 1 = 0
        BY <1>3, <2>1, SMT
      <3> QED  BY <1>7, <2>1, <3>1, <3>2
    <2>2. CASE ~(n <= 4)
      <3>1. l = 5 /\ ~(l < 5) /\ n < 254 /\ o[at + 1] = n
        BY <1>1, <1>6, <1>7, <2>2, SMT
      <3>2. dl = [len |-> n, said |-> 1, taken |-> 1]
        BY <1>8, <1>9, <3>1, Zenon DEF dl, decodeDataLength
      <3>3. k - 1 = 1
        BY <1>3, <2>2, SMT
      <3> QED  BY <3>2, <3>3
    <2> QED  BY <2>1, <2>2
  <1>11. parseNext(o, p) = [at |-> at, val |-> at + 1 + (k - 1), len |-> n,
                            left |-> p.left - 1 - (k - 1) - n,
                            ctx |-> c = 1, tag |-> t, ret |-> 1 + (k - 1) + n]
    <2>1. /\ dl.len = n /\ dl.said = k - 1 /\ dl.taken = k - 1
      BY <1>10
    <2>2. ~(n > p.left - 1 - (k - 1)) /\ p.left # 0
      BY <1>0, <1>1, <1>4, SMT DEF n, k
    <2>3. ~(~(c = 1) /\ t <= 1)
      <3>1. t > 1 => ~(t <= 1)
        BY <1>k, SMT
      <3>2. c = 1 \/ t > 1
        BY <1>0, Zenon
      <3> QED  BY <3>1, <3>2, Zenon
    <2> HIDE DEF c
    <2> QED  BY <1>0, <1>8, <1>9, <2>1, <2>2, <2>3, Zenon DEF parseNext, dl
  <1>12. /\ at + 1 + (k - 1) = at + k /\ 1 + (k - 1) + n = k + n
         /\ p.left - 1 - (k - 1) - n = p.left - (k + n)
         /\ (c = 1) = ctx
    <2>1. /\ at + 1 + (k - 1) = at + k /\ 1 + (k - 1) + n = k + n
          /\ p.left - 1 - (k - 1) - n = p.left - (k + n)
      BY <1>k, <1>1, <1>4, SMT
    <2>2. (c = 1) = ctx
      <3>1. 0 # 1
        BY SMT
      <3>2. CASE ctx = TRUE
        BY <3>2, Zenon
      <3>3. CASE ctx = FALSE
        BY <3>1, <3>3, Zenon
      <3> QED  BY <1>0, <3>2, <3>3, Zenon
    <2> QED  BY <2>1, <2>2, Zenon
  <1>13. parseNext(o, p) = [at |-> at, val |-> at + k, len |-> n, left |-> p.left - (k + n),
                            ctx |-> ctx, tag |-> t, ret |-> k + n]
    <2> HIDE DEF c
    <2> QED  BY <1>11, <1>12
  <1>14. SubSeq(o, at + k, at + k + n - 1) = d
    <2>1. at + k \in Nat \ {0}
      BY <1>0, <1>4, SMT
    <2> QED  BY <1>2, <2>1, <1>0, HoldsSubSeq, Zenon DEF n
  <1> QED  BY <1>8, <1>13, <1>14, Zenon DEF n, k

-----------------------------------------------------------------------------
(* Fields: a value of one of these types, with the tag of its type (App)   *)
(* or with a context tag.                                                  *)

FieldTypes == {"Unsigned", "Enum", "ObjectId", "CharacterString"}
FieldTags  == {App} \cup 0..3

Number(v) == \E n \in Quint32 : v = <<n>>

Valid(type, v) ==
    \/ type \in {"Unsigned", "Enum"} /\ Number(v)
    \/ type = "ObjectId" /\ v \in ObjectIds
    \/ type = "CharacterString" /\ v \in Seq(Octets) /\ Len(v) \in 1..252

octetsOf(type, v) ==
    IF type = "ObjectId" THEN BigEndian(objIdToNum(v), 4)
    ELSE IF type = "CharacterString" THEN <<0>> \o v
    ELSE uint32ToVarLengthRaw(v[1])

tagOf(type, tag) == IF tag = App THEN AppTag[type] ELSE tag
fieldOctets(type, tag, v) == Tagged(tagOf(type, tag), tag # App, octetsOf(type, v))

\* The octets of a field are those of its value, which is found in them again.
LEMMA FieldData ==
    ASSUME NEW type \in FieldTypes, NEW v, Valid(type, v)
    PROVE  /\ octetsOf(type, v) \in Seq(Octets) /\ Len(octetsOf(type, v)) \in 1..253
           /\ conversion(TRUE, type, octetsOf(type, v)) = [ok |-> TRUE, v |-> v]
  <1> DEFINE d == octetsOf(type, v)
  <1>0. /\ "Unsigned" # "ObjectId" /\ "Unsigned" # "CharacterString" /\ "Enum" # "ObjectId"
        /\ "Enum" # "CharacterString" /\ "ObjectId" # "CharacterString"
        /\ "Unsigned" # "Enum"
    OBVIOUS
  <1>1. CASE type \in {"Unsigned", "Enum"}
    <2>1. PICK n \in Quint32 : v = <<n>>
      BY <1>0, <1>1, Zenon DEF Valid, Number
    <2>2. v[1] = n /\ n \in Int
      BY <2>1, SMT DEF Quint32
    <2>3. d = uint32ToVarLengthRaw(n)
      BY <1>0, <1>1, <2>2, Zenon DEF octetsOf
    <2>4. d \in Seq(Octets) /\ Len(d) \in 1..4
      BY <2>2, <2>3, NumberOctets, Zenon
    <2>5. uint32fromVarLengthRaw(d) = n
      BY <2>3, UnsignedRoundTrip, Zenon
    <2> HIDE DEF d
    <2> DEFINE l == Len(d)
    <2>6. convertible(type, d)
      <3>1. l <= 4
        <4>1. l \in 1..4
          BY <2>4, Zenon
        <4> HIDE DEF l
        <4> QED  BY <4>1, SMT
      <3>2. convertible(type, d) = (l <= 4)
        <4> HIDE DEF l
        <4>1. CASE type = "Unsigned"
          BY <4>1, SMT DEF convertible, l
        <4>2. CASE type = "Enum"
          BY <4>2, SMT DEF convertible, l
        <4> QED  BY <1>1, <4>1, <4>2, Zenon
      <3> QED  BY <3>1, <3>2, Zenon
    <2>7. valueOf(type, d) = <<n>>
      BY <1>1, <2>5, SMT DEF valueOf
    <2>8. Len(d) \in 1..253
      <3>1. l \in 1..4
        BY <2>4, Zenon
      <3>2. l \in 1..253
        <4> HIDE DEF l
        <4> QED  BY <3>1, SMT
      <3> QED  BY <3>2, Zenon
    <2>9. conversion(TRUE, type, d) = [ok |-> TRUE, v |-> v]
      BY <2>1, <2>6, <2>7, Zenon DEF conversion
    <2> QED  BY <2>4, <2>8, <2>9, Zenon DEF d
  <1>2. CASE type = "ObjectId"
    <2>1. v \in ObjectIds
      BY <1>0, <1>2, Zenon DEF Valid
    <2>2. d = BigEndian(objIdToNum(v), 4)
      BY <1>2, Zenon DEF octetsOf
    <2>3. d \in Seq(Octets) /\ Len(d) = 4 /\ valueOf(type, d) = v
      BY <1>2, <2>1, <2>2, IdentifierRoundTrip, Zenon
    <2> HIDE DEF d
    <2>4. convertible(type, d)
      BY <1>2, <2>3, SMT DEF convertible
    <2>5. Len(d) \in 1..253
      BY <2>3, SMT
    <2>6. conversion(TRUE, type, d) = [ok |-> TRUE, v |-> v]
      BY <2>3, <2>4, Zenon DEF conversion
    <2> QED  BY <2>3, <2>5, <2>6, Zenon DEF d
  <1>3. CASE type = "CharacterString"
    <2>1. v \in Seq(Octets) /\ Len(v) \in 1..252
      BY <1>0, <1>3, Zenon DEF Valid
    <2>2. d = <<0>> \o v
      BY <1>0, <1>3, Zenon DEF octetsOf
    <2>3. d \in Seq(Octets) /\ Len(d) = 1 + Len(v) /\ d[1] = 0 /\ toString(d) = v
      BY <2>1, <2>2, NameRoundTrip, Zenon
    <2> HIDE DEF d
    <2>4. letterSize(0) = 1 /\ 1 > 0
      BY SMT DEF letterSize
    <2>5. Len(d) >= 2 /\ Len(d) \in 1..253
      <3> DEFINE l == Len(d)
                 k == Len(v)
      <3>1. l = 1 + k /\ k \in 1..252
        BY <2>1, <2>3, Zenon
      <3>2. l >= 2 /\ l \in 1..253
        <4> HIDE DEF l, k
        <4> QED  BY <3>1, SMT
      <3> QED  BY <3>2, Zenon
    <2>6. convertible(type, d)
      <3>1. letterSize(d[1]) > 0
        BY <2>3, <2>4, Zenon
      <3>2. convertible(type, d) = (Len(d) >= 2 /\ letterSize(d[1]) > 0)
        BY <1>3, SMT DEF convertible
      <3> QED  BY <2>5, <3>1, <3>2, Zenon
    <2>7. valueOf(type, d) = v
      BY <1>3, <2>3, SMT DEF valueOf
    <2>8. conversion(TRUE, type, d) = [ok |-> TRUE, v |-> v]
      BY <2>6, <2>7, Zenon DEF conversion
    <2> QED  BY <2>3, <2>5, <2>8, Zenon DEF d
  <1> QED  BY <1>1, <1>2, <1>3, Zenon DEF FieldTypes

LEMMA FieldTag ==
    ASSUME NEW type \in FieldTypes, NEW tag \in FieldTags
    PROVE  /\ tagOf(type, tag) \in 0..14
           /\ tag # App \/ tagOf(type, tag) > 1
           /\ tag = App <=> tag < 0
           /\ tag = App => tagOf(type, tag) = AppTag[type]
           /\ tag # App => tagOf(type, tag) = tag
  BY SMT DEF FieldTypes, FieldTags, tagOf, AppTag, App

LEMMA FieldLength ==
    ASSUME NEW type \in FieldTypes, NEW tag \in FieldTags, NEW v, Valid(type, v)
    PROVE  /\ fieldOctets(type, tag, v) \in Seq(Octets)
           /\ Len(fieldOctets(type, tag, v)) = tagLength(octetsOf(type, v)) + Len(octetsOf(type, v))
           /\ Len(fieldOctets(type, tag, v)) \in Nat \ {0}
  <1> DEFINE d == octetsOf(type, v)
             t == tagOf(type, tag)
             c == tag # App
  <1>1. d \in Seq(Octets) /\ Len(d) \in 1..253
    BY FieldData, Zenon
  <1>2. t \in 0..14 /\ c \in BOOLEAN
    BY FieldTag, Zenon
  <1>3. fieldOctets(type, tag, v) = Tagged(t, c, d)
    BY Zenon DEF fieldOctets
  <1> HIDE DEF d, t, c
  <1>4. Len(d) <= 253
    <2> DEFINE l == Len(d)
    <2>1. l \in 1..253
      BY <1>1, Zenon
    <2>2. l <= 253
      <3> HIDE DEF l
      <3> QED  BY <2>1, SMT
    <2> QED  BY <2>2, Zenon
  <1>5. Tagged(t, c, d) \in Seq(Octets) /\ Len(Tagged(t, c, d)) = tagLength(d) + Len(d)
    BY <1>1, <1>2, <1>4, TaggedIs, Zenon
  <1>6. tagLength(d) + Len(d) \in Nat \ {0}
    BY <1>1, SMT DEF tagLength
  <1> QED  BY <1>3, <1>5, <1>6, Zenon DEF d

-----------------------------------------------------------------------------
(* Reading a field.                                                        *)

IsReader(r) == DOMAIN r = {"o", "p", "got", "used", "ok", "stuck"}

\* All went well so far, and the reader has got as far as position at.
Ready(r, o, at) ==
    /\ IsReader(r)
    /\ r.o = o
    /\ r.p.val + r.p.len = at
    /\ r.p.left = Len(o) - at + 1
    /\ r.used = at - 1
    /\ r.ok = TRUE
    /\ r.stuck = FALSE

\* The reader behind the element that parser p has found.
advanced(r, p, w, g) == [r EXCEPT !.p = p, !.used = w, !.got = g, !.ok = TRUE]

\* The reader has got to a field.
FieldAt(r, o, at, type, tag, v) ==
    /\ o \in Seq(Octets) /\ at \in Nat \ {0} /\ Ready(r, o, at)
    /\ type \in FieldTypes /\ tag \in FieldTags /\ Valid(type, v)
    /\ Holds(o, at, fieldOctets(type, tag, v))

\* The reader finds it, and the parser its tag.
ElementFound(r, o, at, type, tag, v, name, tests) ==
    LET p == parseNext(r.o, r.p)
        e == element(r, name, type, tag, tests, p)
    IN  /\ Ready(e, o, at + Len(fieldOctets(type, tag, v)))
        /\ e.got = with(r.got, name, v)
        /\ p.ctx = (tag # App) /\ p.tag = tagOf(type, tag)
        /\ r.p.left > 0
        /\ (o[at] \div 8) % 2 = (IF tag # App THEN 1 ELSE 0)
        /\ o[at] \div 16 = tagOf(type, tag)

LEMMA ElementRead ==
    ASSUME NEW r, NEW o, NEW at, NEW type, NEW tag, NEW v, FieldAt(r, o, at, type, tag, v),
           NEW name, NEW tests
    PROVE  ElementFound(r, o, at, type, tag, v, name, tests)
  <1> DEFINE d == octetsOf(type, v)
             t == tagOf(type, tag)
             c == tag # App
             n == Len(fieldOctets(type, tag, v))
             k == tagLength(d)
             p == parseNext(r.o, r.p)
             e == element(r, name, type, tag, tests, p)
  <1>0. /\ o \in Seq(Octets) /\ at \in Nat \ {0} /\ Ready(r, o, at)
        /\ type \in FieldTypes /\ tag \in FieldTags /\ Valid(type, v)
        /\ Holds(o, at, fieldOctets(type, tag, v))
    BY Zenon DEF FieldAt
  <1>i. at \in Nat \ {0}
    BY <1>0, Zenon
  <1>1. d \in Seq(Octets) /\ Len(d) \in 1..253 /\ conversion(TRUE, type, d) = [ok |-> TRUE, v |-> v]
    BY <1>0, FieldData, Zenon
  <1>2. t \in 0..14 /\ c \in BOOLEAN /\ (c \/ t > 1)
    BY <1>0, FieldTag, Zenon
  <1>3. n = k + Len(d) /\ n \in Nat \ {0}
    BY <1>0, FieldLength, Zenon
  <1>4. Holds(o, at, Tagged(t, c, d))
    BY <1>0, Zenon DEF fieldOctets
  <1>5. /\ r.o = o /\ r.p.val + r.p.len = at /\ r.p.left = Len(o) - at + 1
        /\ r.used = at - 1 /\ r.ok = TRUE /\ r.stuck = FALSE /\ IsReader(r)
    BY <1>0, Zenon DEF Ready
  <1>6. at + n - 1 <= Len(o)
    BY <1>0, Zenon DEF Holds
  <1>7. Len(o) \in Nat
    BY <1>0, LenProperties, Zenon
  <1> HIDE DEF d, t, c, n, k
  <1>8. r.p.left \in Nat /\ r.p.left >= k + Len(d) /\ Len(d) <= 253 /\ r.p.left > 0
    <2> DEFINE left == r.p.left
               l == Len(d)
               all == Len(o)
    <2>1. left = all - at + 1 /\ at + n - 1 <= all /\ all \in Nat /\ n = k + l /\ n \in Nat \ {0} /\ l \in 1..253
      BY <1>1, <1>3, <1>5, <1>6, <1>7, Zenon
    <2>2. left \in Nat /\ left >= k + l /\ l <= 253 /\ left > 0
      <3> HIDE DEF left, l, all
      <3>1. left \in Int /\ left >= n /\ n > 0
        BY <1>i, <2>1, SMT
      <3> QED  BY <1>i, <2>1, <3>1, SMT
    <2> QED  BY <2>2, Zenon
  <1>9. /\ p = [at |-> at, val |-> at + k, len |-> Len(d), left |-> r.p.left - (k + Len(d)),
                ctx |-> c, tag |-> t, ret |-> k + Len(d)]
        /\ SubSeq(o, at + k, at + k + Len(d) - 1) = d
        /\ o[at] \div 16 = t /\ (o[at] \div 8) % 2 = (IF c THEN 1 ELSE 0)
    <2> DEFINE q == r.p
    <2> HIDE DEF q
    <2>1. q.val + q.len = at /\ q.left \in Nat /\ q.left >= tagLength(d) + Len(d)
      BY <1>5, <1>8, Zenon DEF q, k
    <2>2. Ahead(o, at, t, c, d, q)
      BY <1>0, <1>1, <1>2, <1>4, <1>8, <2>1, Zenon DEF Ahead
    <2>3. /\ parseNext(o, q) = [at |-> at, val |-> at + tagLength(d), len |-> Len(d),
                                left |-> q.left - (tagLength(d) + Len(d)),
                                ctx |-> c, tag |-> t, ret |-> tagLength(d) + Len(d)]
          /\ SubSeq(o, at + tagLength(d), at + tagLength(d) + Len(d) - 1) = d
          /\ o[at] \div 16 = t /\ (o[at] \div 8) % 2 = (IF c THEN 1 ELSE 0)
      BY <2>2, ParseTagged, Zenon
    <2>4. p = parseNext(o, q)
      BY <1>5, Zenon DEF q
    <2> HIDE DEF p
    <2> QED  BY <2>3, <2>4, Zenon DEF q, k
  <1>10. /\ p.at = at /\ p.val = at + k /\ p.len = Len(d) /\ p.left = r.p.left - (k + Len(d))
         /\ p.ctx = c /\ p.tag = t /\ p.ret = k + Len(d)
    <2> HIDE DEF p
    <2> QED  BY <1>9
  <1> HIDE DEF p
  <1>11. converted(r.o, p, type) = [ok |-> TRUE, v |-> v]
    <2>1. SubSeq(r.o, p.val, p.val + p.len - 1) = d
      BY <1>5, <1>9, <1>10, Zenon
    <2>2. checkCorrectAppOrCtxTag(p, type) = TRUE
      <3>1. c \/ t = AppTag[type]
        BY <1>0, <1>0, FieldTag, Zenon DEF c, t
      <3>2. c = TRUE \/ c = FALSE
        BY <1>2, Zenon
      <3> QED  BY <1>10, <3>1, <3>2, Zenon DEF checkCorrectAppOrCtxTag
    <2> QED  BY <1>1, <2>1, <2>2, Zenon DEF converted
  <1>12. rightTag(p, type, tag)
    <2>1. type # "OctetString"
      BY <1>0, SMT DEF FieldTypes
    <2>2. CASE tag < 0
      <3>1. ~c /\ t = AppTag[type]
        BY <2>2, <1>0, FieldTag, Zenon DEF c, t
      <3> QED  BY <1>10, <2>1, <2>2, <3>1, Zenon DEF rightTag, isApplicationTag
    <2>3. CASE ~(tag < 0)
      <3>1. c /\ t = tag
        BY <2>3, <1>0, FieldTag, Zenon DEF c, t
      <3> QED  BY <1>10, <2>1, <2>3, <3>1, Zenon DEF rightTag, isContextTag
    <2> QED  BY <2>2, <2>3
  <1>13. e = [r EXCEPT !.p = p, !.used = r.used + p.ret, !.got = with(r.got, name, v), !.ok = TRUE]
    <2>1. ~(p.ret < 0) /\ p.ret > 0
      BY <1>3, <1>10, SMT
    <2> DEFINE a == [ok |-> TRUE, v |-> v]
    <2>2. a.ok /\ a.v = v
      OBVIOUS
    <2> HIDE DEF a
    <2>3. e = taken(r, name, p, a, rightTag(p, type, tag), tests)
      BY <1>11, Zenon DEF element, a
    <2>4. (/\ "empty" \in tests => p.ret > 0
           /\ "tag" \in tests => rightTag(p, type, tag)
           /\ "value" \in tests => a.ok) = TRUE
      BY <1>12, <2>1, <2>2, Zenon
    <2> HIDE DEF e
    <2> QED  BY <2>1, <2>2, <2>3, <2>4, Zenon DEF taken
  <1>14. /\ IsReader(e) /\ e.o = r.o /\ e.p = p /\ e.used = r.used + p.ret
         /\ e.got = with(r.got, name, v) /\ e.stuck = r.stuck /\ e.ok = TRUE
    <2> DEFINE w == r.used + p.ret
               g == with(r.got, name, v)
    <2>1. e = advanced(r, p, w, g) /\ IsReader(r)
      BY <1>5, <1>13, Zenon DEF advanced
    <2> HIDE DEF e, w, g
    <2> DEFINE a == advanced(r, p, w, g)
    <2>0. IsReader(r)
      BY <1>5, Zenon
    <2>2. /\ IsReader(a) /\ a.o = r.o /\ a.p = p /\ a.used = w
          /\ a.got = g /\ a.ok = TRUE /\ a.stuck = r.stuck
      BY <2>0, SMT DEF IsReader, advanced
    <2>3. e = a
      BY <2>1, Zenon
    <2> HIDE DEF a
    <2> QED  BY <2>2, <2>3, Zenon DEF w, g
  <1> HIDE DEF e
  <1>15. Ready(e, o, at + n)
    <2>1. e.p.val + e.p.len = at + n
      BY <1>3, <1>10, <1>14, <1>1, <1>i, SMT DEF k, tagLength
    <2>2. e.p.left = Len(o) - (at + n) + 1
      BY <1>3, <1>5, <1>7, <1>10, <1>14, <1>i, SMT
    <2>3. e.used = (at + n) - 1
      BY <1>3, <1>5, <1>10, <1>14, <1>i, SMT
    <2> QED  BY <1>5, <1>14, <2>1, <2>2, <2>3, Zenon DEF Ready
  <1> QED  BY <1>8, <1>9, <1>10, <1>14, <1>15, Zenon DEF c, t, n, p, e, ElementFound

-----------------------------------------------------------------------------
(* A reader of octets o that has the last of them, s, before it.           *)

Rest(r, o, s) ==
    /\ o \in Seq(Octets) /\ s \in Seq(Octets) /\ Len(s) <= Len(o)
    /\ Ready(r, o, Len(o) - Len(s) + 1)
    /\ Holds(o, Len(o) - Len(s) + 1, s)

\* A field that can be read, with octets behind it.
FieldThen(r, o, type, tag, v, s) ==
    /\ type \in FieldTypes /\ tag \in FieldTags /\ Valid(type, v)
    /\ s \in Seq(Octets)
    /\ Rest(r, o, fieldOctets(type, tag, v) \o s)

LEMMA RestOfAll ==
    ASSUME NEW o \in Seq(Octets)
    PROVE  Rest(reader(o), o, o) /\ reader(o).got = <<>>
  <1> DEFINE n == Len(o)
  <1>1. n \in Nat
    BY LenProperties, Zenon
  <1>2. n - n + 1 = 1 /\ n <= n /\ 1 + 0 = 1 /\ n = n - 1 + 1 /\ 0 = 1 - 1
    <2> HIDE DEF n
    <2> QED  BY <1>1, SMT
  <1>3. setData(1, n) = [at |-> 1, val |-> 1, len |-> 0, left |-> n, ctx |-> FALSE, tag |-> 0, ret |-> 0]
    BY Zenon DEF setData
  <1> DEFINE p == setData(1, n)
  <1>4. p.val = 1 /\ p.len = 0 /\ p.left = n
    <2> HIDE DEF n
    <2> QED  BY <1>3
  <1>5. reader(o) = [o |-> o, p |-> p, got |-> <<>>, used |-> 0, ok |-> TRUE, stuck |-> FALSE]
    BY Zenon DEF reader
  <1> DEFINE r == reader(o)
  <1>6. /\ IsReader(r) /\ r.o = o /\ r.p = p /\ r.got = <<>> /\ r.used = 0 /\ r.ok = TRUE
        /\ r.stuck = FALSE
    <2> HIDE DEF p
    <2> QED  BY <1>5, SMT DEF IsReader
  <1>7. Ready(r, o, 1)
    <2> HIDE DEF p, r
    <2> QED  BY <1>2, <1>4, <1>6, Zenon DEF Ready, n
  <1>8. Holds(o, 1, o)
    BY HoldsWhole, Zenon
  <1>9. Rest(r, o, o)
    <2> HIDE DEF r
    <2> QED  BY <1>2, <1>7, <1>8, Zenon DEF Rest, n
  <1> QED  BY <1>6, <1>9, Zenon

FieldFound(r, o, type, tag, v, s, name, tests) ==
    LET p == parseNext(r.o, r.p)
        e == element(r, name, type, tag, tests, p)
        at == r.p.val + r.p.len
    IN  /\ Rest(e, o, s)
        /\ e.got = with(r.got, name, v)
        /\ p.ctx = (tag # App) /\ p.tag = tagOf(type, tag)
        /\ r.p.left > 0
        /\ (o[at] \div 8) % 2 = (IF tag # App THEN 1 ELSE 0)
        /\ o[at] \div 16 = tagOf(type, tag)
        /\ r.o = o /\ r.ok = TRUE

LEMMA FieldElement ==
    ASSUME NEW r, NEW o, NEW type, NEW tag, NEW v, NEW s, FieldThen(r, o, type, tag, v, s),
           NEW name, NEW tests
    PROVE  FieldFound(r, o, type, tag, v, s, name, tests)
  <1> DEFINE f == fieldOctets(type, tag, v)
             at == Len(o) - Len(f \o s) + 1
             p == parseNext(r.o, r.p)
             e == element(r, name, type, tag, tests, p)
  <1>0. /\ type \in FieldTypes /\ tag \in FieldTags /\ Valid(type, v) /\ s \in Seq(Octets)
        /\ o \in Seq(Octets) /\ Len(f \o s) <= Len(o) /\ Ready(r, o, at) /\ Holds(o, at, f \o s)
    BY Zenon DEF FieldThen, Rest
  <1>1. f \in Seq(Octets) /\ Len(f) \in Nat \ {0}
    BY <1>0, FieldLength, Zenon
  <1>2. Len(f \o s) = Len(f) + Len(s) /\ Len(s) \in Nat /\ Len(o) \in Nat
    BY <1>0, <1>1, ConcatProperties, LenProperties, Zenon
  <1>3. at \in Nat \ {0} /\ at + Len(f) = Len(o) - Len(s) + 1 /\ Len(s) <= Len(o)
    <2> DEFINE a == Len(f)
               b == Len(s)
               c == Len(f \o s)
               n == Len(o)
    <2>1. a \in Nat /\ b \in Nat /\ n \in Nat /\ c = a + b /\ c <= n
      BY <1>0, <1>1, <1>2, Zenon
    <2>2. n - c + 1 \in Nat \ {0} /\ (n - c + 1) + a = n - b + 1 /\ b <= n
      <3> HIDE DEF a, b, c, n
      <3> QED  BY <2>1, SMT
    <2> QED  BY <2>2, Zenon
  <1> HIDE DEF f, at
  <1>4. Holds(o, at, f) /\ Holds(o, at + Len(f), s)
    BY <1>0, <1>1, <1>3, HoldsConcat, Zenon
  <1>5. /\ Ready(e, o, at + Len(f)) /\ e.got = with(r.got, name, v)
        /\ p.ctx = (tag # App) /\ p.tag = tagOf(type, tag)
        /\ r.p.left > 0
        /\ (o[at] \div 8) % 2 = (IF tag # App THEN 1 ELSE 0)
        /\ o[at] \div 16 = tagOf(type, tag)
    <2>1. Holds(o, at, fieldOctets(type, tag, v))
      BY <1>4, Zenon DEF f
    <2>2. FieldAt(r, o, at, type, tag, v)
      BY <1>0, <1>3, <2>1, Zenon DEF FieldAt
    <2>3. ElementFound(r, o, at, type, tag, v, name, tests)
      BY <2>2, ElementRead, Zenon
    <2> QED  BY <2>3, Zenon DEF f, ElementFound
  <1>6. r.p.val + r.p.len = at /\ r.o = o /\ r.ok = TRUE
    BY <1>0, Zenon DEF Ready
  <1> HIDE DEF e
  <1>7. Rest(e, o, s)
    BY <1>0, <1>3, <1>4, <1>5, Zenon DEF Rest
  <1> QED  BY <1>5, <1>6, <1>7, Zenon DEF e, FieldFound

FieldReads(r, o, type, tag, v, s, name, tests) ==
    /\ Rest(read(r, name, type, tag, tests), o, s)
    /\ read(r, name, type, tag, tests).got = with(r.got, name, v)

LEMMA FieldRead ==
    ASSUME NEW r, NEW o, NEW type, NEW tag, NEW v, NEW s, FieldThen(r, o, type, tag, v, s),
           NEW name, NEW tests
    PROVE  FieldReads(r, o, type, tag, v, s, name, tests)
  <1>0. FieldFound(r, o, type, tag, v, s, name, tests)
    BY FieldElement, Zenon
  <1>1. r.ok = TRUE
    BY <1>0, Zenon DEF FieldFound
  <1> DEFINE e == element(r, name, type, tag, tests, parseNext(r.o, r.p))
  <1>2. read(r, name, type, tag, tests) = e
    BY <1>1, Zenon DEF read
  <1>3. Rest(e, o, s) /\ e.got = with(r.got, name, v)
    BY <1>0, Zenon DEF FieldFound
  <1> HIDE DEF e
  <1> QED  BY <1>2, <1>3 DEF FieldReads

\* The parser tells which context tag is ahead.
TagIs(r, tag) ==
    /\ \A u : nextIs(r.o, r.p, u) <=> u = tag
    /\ \A u : isContextTag(parseNext(r.o, r.p), u) <=> u = tag

LEMMA TagAhead ==
    ASSUME NEW r, NEW o, NEW type, NEW tag \in 0..3, NEW v, NEW s, FieldThen(r, o, type, tag, v, s)
    PROVE  TagIs(r, tag)
  <1>1. tag # App /\ tag # 15
    BY SMT DEF App
  <1>2. tagOf(type, tag) = tag
    BY <1>1, Zenon DEF tagOf
  <1> DEFINE p == parseNext(r.o, r.p)
             at == r.p.val + r.p.len
  <1>3. /\ p.ctx = (tag # App) /\ p.tag = tagOf(type, tag)
        /\ r.p.left > 0
        /\ (o[at] \div 8) % 2 = (IF tag # App THEN 1 ELSE 0)
        /\ o[at] \div 16 = tagOf(type, tag)
        /\ r.o = o
    <2>1. FieldFound(r, o, type, tag, v, s, "", {})
      BY FieldElement, Zenon
    <2> QED  BY <2>1, Zenon DEF FieldFound
  <1>4. p.ctx /\ p.tag = tag
    <2> HIDE DEF p
    <2> QED  BY <1>1, <1>2, <1>3, Zenon
  <1>5. r.p.left > 0 /\ (r.o[at] \div 8) % 2 = 1 /\ r.o[at] \div 16 = tag /\ r.o[at] \div 16 # 15
    BY <1>1, <1>2, <1>3, Zenon
  <1>6. \A u : nextIs(r.o, r.p, u) <=> u = tag
    BY <1>5, Zenon DEF nextIs
  <1>7. \A u : isContextTag(p, u) <=> u = tag
    <2> HIDE DEF p
    <2> QED  BY <1>4, Zenon DEF isContextTag
  <1> QED  BY <1>6, <1>7, Zenon DEF TagIs

\* Nothing left: the reader is done.
Done(r) == IsReader(r) /\ r.ok = TRUE /\ r.stuck = FALSE /\ r.p.left = 0

LEMMA RestDone ==
    ASSUME NEW r, NEW o, Rest(r, o, <<>>)
    PROVE  Done(r) /\ r.used = Len(o)
  <1> DEFINE n == Len(o)
             l == r.p.left
             e == Len(<<>>)
             u == r.used
  <1>1. o \in Seq(Octets) /\ Ready(r, o, n - e + 1)
    BY Zenon DEF Rest
  <1>2. n \in Nat /\ e = 0
    BY <1>1, LenProperties, EmptyTuple, Zenon
  <1>3. /\ IsReader(r) /\ r.ok = TRUE /\ r.stuck = FALSE
        /\ l = n - (n - e + 1) + 1 /\ u = (n - e + 1) - 1
    BY <1>1, Zenon DEF Ready
  <1>4. l = 0 /\ u = n
    <2> HIDE DEF n, l, e, u
    <2> QED  BY <1>2, <1>3, SMT
  <1> QED  BY <1>3, <1>4, Zenon DEF Done

LEMMA NothingLeft ==
    ASSUME NEW r, Done(r)
    PROVE  /\ nothingLeft(r).ok = TRUE /\ nothingLeft(r).stuck = FALSE
           /\ nothingLeft(r).got = r.got /\ nothingLeft(r).used = r.used
  <1>1. ~hasNext(r)
    <2>1. ~(0 > 0)
      BY SMT
    <2> QED  BY <2>1, Zenon DEF hasNext, Done
  <1>2. nothingLeft(r) = [r EXCEPT !.ok = @ /\ TRUE]
    BY <1>1, Zenon DEF nothingLeft, refuseIf
  <1>3. IsReader(r) /\ r.ok = TRUE /\ r.stuck = FALSE
    BY Zenon DEF Done
  <1>4. nothingLeft(r) = [r EXCEPT !.ok = TRUE]
    BY <1>2, <1>3, Zenon
  <1> QED  BY <1>3, <1>4, SMT DEF IsReader

\* The last field.
LEMMA LastField ==
    ASSUME NEW r, NEW o, NEW type \in FieldTypes, NEW tag \in FieldTags, NEW v, Valid(type, v),
           Rest(r, o, fieldOctets(type, tag, v))
    PROVE  FieldThen(r, o, type, tag, v, <<>>)
  <1>1. fieldOctets(type, tag, v) \in Seq(Octets)
    BY FieldLength, Zenon
  <1>2. fieldOctets(type, tag, v) \o <<>> = fieldOctets(type, tag, v)
    BY <1>1, ConcatEmptySeq, Zenon
  <1>3. <<>> \in Seq(Octets)
    BY EmptyTuple, Zenon
  <1> QED  BY <1>2, <1>3, Zenon DEF FieldThen

\* What is written of a field are its octets.
LEMMA FieldWritten ==
    ASSUME NEW type \in FieldTypes, NEW tag \in FieldTags, NEW v, Valid(type, v), NEW x
    PROVE  toRaw(type, tagOf(type, tag), tag # App, v, x) = fieldOctets(type, tag, v)
  <1> DEFINE t == tagOf(type, tag)
             c == tag # App
  <1>1. fieldOctets(type, tag, v) = Tagged(t, c, octetsOf(type, v))
    BY Zenon DEF fieldOctets
  <1> HIDE DEF t, c
  <1>2. CASE type = "Unsigned"
    <2>1. octetsOf(type, v) = uint32ToVarLengthRaw(v[1])
      BY <1>2, SMT DEF octetsOf
    <2>2. toRaw(type, t, c, v, x) = UnsignedIntegerToRaw(t, c, v)
      BY <1>2, SMT DEF toRaw
    <2> QED  BY <1>1, <2>1, <2>2, Zenon DEF UnsignedIntegerToRaw, uintToRaw, t, c
  <1>3. CASE type = "Enum"
    <2>1. octetsOf(type, v) = uint32ToVarLengthRaw(v[1])
      BY <1>3, SMT DEF octetsOf
    <2>2. toRaw(type, t, c, v, x) = uintToRaw(t, c, v)
      BY <1>3, SMT DEF toRaw
    <2> QED  BY <1>1, <2>1, <2>2, Zenon DEF uintToRaw, t, c
  <1>4. CASE type = "ObjectId"
    <2>1. octetsOf(type, v) = BigEndian(objIdToNum(v), 4)
      BY <1>4, SMT DEF octetsOf
    <2>2. toRaw(type, t, c, v, x) = objectIdentifierToRaw(t, c, v)
      BY <1>4, SMT DEF toRaw
    <2> QED  BY <1>1, <2>1, <2>2, Zenon DEF objectIdentifierToRaw, t, c
  <1>5. CASE type = "CharacterString"
    <2>1. octetsOf(type, v) = <<0>> \o v
      <3>1. "CharacterString" # "ObjectId"
        OBVIOUS
      <3> QED  BY <1>5, <3>1, Zenon DEF octetsOf
    <2>2. toRaw(type, t, c, v, x) = CharacterStringToRaw(t, c, v)
      BY <1>5, SMT DEF toRaw
    <2>3. v \in Seq(Octets) /\ Len(v) \in 1..252
      <3>1. "CharacterString" # "ObjectId" /\ "CharacterString" # "Unsigned" /\ "CharacterString" # "Enum"
        OBVIOUS
      <3> QED  BY <1>5, <3>1, Zenon DEF Valid
    <2>4. CharacterStringToRaw(t, c, v) = Tagged(t, c, <<0>> \o v)
      BY <2>3, NameOctets, Zenon DEF CharacterStringToRaw
    <2> QED  BY <1>1, <2>1, <2>2, <2>4, Zenon DEF t, c
  <1> QED  BY <1>2, <1>3, <1>4, <1>5, Zenon DEF FieldTypes

LEMMA AppFieldWritten ==
    ASSUME NEW type \in FieldTypes, NEW v, Valid(type, v), NEW x
    PROVE  application(type, v, x) = fieldOctets(type, App, v)
  <1>1. App \in FieldTags
    BY Zenon DEF FieldTags
  <1>2. toRaw(type, tagOf(type, App), App # App, v, x) = fieldOctets(type, App, v)
    BY <1>1, FieldWritten, Zenon
  <1>3. tagOf(type, App) = AppTag[type]
    BY Zenon DEF tagOf
  <1>4. (App # App) = FALSE
    BY Zenon
  <1> QED  BY <1>2, <1>3, <1>4, Zenon DEF application

LEMMA ContextFieldWritten ==
    ASSUME NEW m, NEW name, name \in DOMAIN m.f, NEW type \in FieldTypes, NEW tag \in 0..3,
           Valid(type, m.f[name]), NEW x
    PROVE  field(m, name, type, tag, x) = fieldOctets(type, tag, m.f[name])
  <1>1. tag \in FieldTags /\ tag # App
    BY SMT DEF FieldTags, App
  <1>2. toRaw(type, tagOf(type, tag), tag # App, m.f[name], x) = fieldOctets(type, tag, m.f[name])
    BY <1>1, FieldWritten, Zenon
  <1>3. tagOf(type, tag) = tag
    BY <1>1, Zenon DEF tagOf
  <1>4. (tag # App) = TRUE
    BY <1>1, Zenon
  <1> QED  BY <1>2, <1>3, <1>4, Zenon DEF field

-----------------------------------------------------------------------------
(* Octets one field after the other.                                       *)

Associated(a, b, c) == (a \o b) \o c = a \o (b \o c)

LEMMA ThreeJoined ==
    ASSUME NEW S, NEW a \in Seq(S), NEW b \in Seq(S), NEW c \in Seq(S)
    PROVE  Associated(a, b, c) /\ b \o c \in Seq(S) /\ (a \o b) \o c \in Seq(S)
  <1>1. b \o c \in Seq(S) /\ a \o b \in Seq(S)
    BY ConcatProperties, Zenon
  <1>2. (a \o b) \o c \in Seq(S)
    BY <1>1, ConcatProperties, Zenon
  <1>3. (a \o b) \o c = a \o (b \o c)
    BY ConcatAssociative
  <1> QED  BY <1>1, <1>2, <1>3, Zenon DEF Associated

\* However they were put together, the octets follow one after the other.
Regrouped(a, b, c, d) == ((a \o b) \o c) \o d = a \o (b \o (c \o d))

LEMMA FourJoined ==
    ASSUME NEW S, NEW a \in Seq(S), NEW b \in Seq(S), NEW c \in Seq(S), NEW d \in Seq(S)
    PROVE  /\ Regrouped(a, b, c, d)
           /\ b \o (c \o d) \in Seq(S) /\ c \o d \in Seq(S) /\ ((a \o b) \o c) \o d \in Seq(S)
  <1> DEFINE u == a \o b
             v == c \o d
  <1>1. u \in Seq(S) /\ v \in Seq(S)
    BY ConcatProperties, Zenon
  <1> HIDE DEF u, v
  <1>2. Associated(u, c, d)
    BY <1>1, ThreeJoined, Zenon
  <1>3. Associated(a, b, v)
    BY <1>1, ThreeJoined, Zenon
  <1>4. (u \o c) \o d \in Seq(S) /\ b \o v \in Seq(S)
    BY <1>1, ThreeJoined, Zenon
  <1> QED  BY <1>1, <1>2, <1>3, <1>4, Zenon DEF u, v, Regrouped, Associated

-----------------------------------------------------------------------------
(* Fields found one after the other.                                       *)

LEMMA WithFour ==
    ASSUME NEW a, NEW b, NEW c, NEW e
    PROVE  with(with(with(with(<<>>, "dev", a), "maxApdu", b), "segmentation", c), "vendor", e)
           = [dev |-> a, maxApdu |-> b, segmentation |-> c, vendor |-> e]
  BY SMT DEF with

LEMMA WithThree ==
    ASSUME NEW a, NEW b, NEW c
    PROVE  with(with(with(<<>>, "dev", a), "obj", b), "name", c) = [dev |-> a, obj |-> b, name |-> c]
  BY SMT DEF with

LEMMA WithRange ==
    ASSUME NEW a, NEW b
    PROVE  with(with(<<>>, "low", a), "high", b) = [low |-> a, high |-> b]
  BY SMT DEF with

-----------------------------------------------------------------------------
(* The answers are read as they were sent.                                 *)

\* A reader that has accepted all octets and found the fields f.
FoundAll(r, f) == r.ok = TRUE /\ r.stuck = FALSE /\ r.got = f

LEMMA ThisDevice ==
    ASSUME NEW d \in Device0
    PROVE  Valid("ObjectId", deviceId(d))
  <1>1. [id |-> deviceId(d), name |-> d.name] \in childObjects(d)
    BY DEF childObjects
  <1>2. deviceId(d) \in ObjectIds
    BY <1>1, ChildId
  <1> QED  BY <1>2, Zenon DEF Valid

LEMMA SmallNumber ==
    ASSUME NEW n \in Nat, n < 65536
    PROVE  Valid("Unsigned", <<n>>) /\ Valid("Enum", <<n>>)
  <1>1. n \in Quint32
    BY SMT DEF Quint32
  <1>2. Number(<<n>>)
    BY <1>1, SMT DEF Number
  <1>3. "Unsigned" \in {"Unsigned", "Enum"} /\ "Enum" \in {"Unsigned", "Enum"}
    OBVIOUS
  <1>4. Valid("Unsigned", <<n>>)
    BY <1>2, <1>3 DEF Valid
  <1>5. Valid("Enum", <<n>>)
    BY <1>2, <1>3 DEF Valid
  <1> QED  BY <1>4, <1>5

LEMMA IAmRead ==
    ASSUME NEW d \in Device0, NEW requester, NEW x
    PROVE  FoundAll(IAmFromRaw(dataOf(iAmOf(d, requester), x)), iAmOf(d, requester).f)
  <1> DEFINE m == iAmOf(d, requester)
             both == {"tag", "value"}
             a == fieldOctets("ObjectId", App, deviceId(d))
             b == fieldOctets("Unsigned", App, <<ApduMaxSize>>)
             c == fieldOctets("Enum", App, <<SegmentedNOT>>)
             e == fieldOctets("Unsigned", App, <<SNGVendorIdentifier>>)
             o == ((a \o b) \o c) \o e
  <1>1. /\ m.s = "IAm"
        /\ DOMAIN m.f = {"dev", "maxApdu", "segmentation", "vendor"}
        /\ m.f.dev = deviceId(d) /\ m.f.maxApdu = <<ApduMaxSize>>
        /\ m.f.segmentation = <<SegmentedNOT>> /\ m.f.vendor = <<SNGVendorIdentifier>>
        /\ m.f = [dev |-> deviceId(d), maxApdu |-> <<ApduMaxSize>>,
                  segmentation |-> <<SegmentedNOT>>, vendor |-> <<SNGVendorIdentifier>>]
    BY SMT DEF iAmOf, unconfirmed
  <1>2. /\ "Unsigned" \in FieldTypes /\ "Enum" \in FieldTypes /\ "ObjectId" \in FieldTypes
        /\ App \in FieldTags
    BY SMT DEF FieldTypes, FieldTags
  <1>3. /\ Valid("ObjectId", deviceId(d)) /\ Valid("Unsigned", <<ApduMaxSize>>)
        /\ Valid("Enum", <<SegmentedNOT>>) /\ Valid("Unsigned", <<SNGVendorIdentifier>>)
    <2>1. /\ ApduMaxSize \in Nat /\ ApduMaxSize < 65536
          /\ SegmentedNOT \in Nat /\ SegmentedNOT < 65536
          /\ SNGVendorIdentifier \in Nat /\ SNGVendorIdentifier < 65536
      BY SMT DEF ApduMaxSize, SegmentedNOT, SNGVendorIdentifier
    <2> QED  BY <2>1, ThisDevice, SmallNumber
  <1>4. /\ application("ObjectId", deviceId(d), x) = a
        /\ application("Unsigned", <<ApduMaxSize>>, x) = b
        /\ application("Enum", <<SegmentedNOT>>, x) = c
        /\ application("Unsigned", <<SNGVendorIdentifier>>, x) = e
    BY <1>2, <1>3, AppFieldWritten, Zenon
  <1>5. dataOf(m, x) = o
    <2>1. dataOf(m, x) = IAmToRaw(m, x)
      <3> HIDE DEF m
      <3> QED  BY <1>1, SMT DEF dataOf
    <2>2. /\ appField(m, "dev", "ObjectId", x) = a
          /\ appField(m, "maxApdu", "Unsigned", x) = b
          /\ appField(m, "segmentation", "Enum", x) = c
          /\ appField(m, "vendor", "Unsigned", x) = e
      <3> HIDE DEF m, a, b, c, e
      <3> QED  BY <1>1, <1>4, SMT DEF appField
    <2> HIDE DEF m, a, b, c, e
    <2> QED  BY <2>1, <2>2, Zenon DEF IAmToRaw
  <1>6. a \in Seq(Octets) /\ b \in Seq(Octets) /\ c \in Seq(Octets) /\ e \in Seq(Octets)
    BY <1>2, <1>3, FieldLength, Zenon
  <1> DEFINE r0 == reader(o)
             r1 == read(r0, "dev", "ObjectId", App, both)
             r2 == read(r1, "maxApdu", "Unsigned", App, both)
             r3 == read(r2, "segmentation", "Enum", App, both)
             r4 == read(r3, "vendor", "Unsigned", App, both)
  <1>7. /\ o = a \o (b \o (c \o e)) /\ o \in Seq(Octets)
        /\ b \o (c \o e) \in Seq(Octets) /\ c \o e \in Seq(Octets)
    <2> HIDE DEF a, b, c, e
    <2>1. ((a \o b) \o c) \o e = a \o (b \o (c \o e))
      <3>1. Regrouped(a, b, c, e)
        BY <1>6, FourJoined, Zenon
      <3> QED  BY <3>1, Zenon DEF Regrouped
    <2>2. ((a \o b) \o c) \o e \in Seq(Octets) /\ b \o (c \o e) \in Seq(Octets) /\ c \o e \in Seq(Octets)
      BY <1>6, FourJoined, Zenon
    <2> QED  BY <2>1, <2>2, Zenon
  <1>8. IAmFromRaw(o) = nothingLeft(r4)
    BY Zenon DEF IAmFromRaw
  <1> HIDE DEF both, o
  <1>9. Rest(r0, o, o) /\ r0.got = <<>>
    BY <1>7, RestOfAll, Zenon
  <1>10. FieldThen(r0, o, "ObjectId", App, deviceId(d), b \o (c \o e))
    BY <1>2, <1>3, <1>7, <1>9, Zenon DEF FieldThen
  <1> HIDE DEF r0
  <1>11. Rest(r1, o, b \o (c \o e)) /\ r1.got = with(r0.got, "dev", deviceId(d))
    <2>1. FieldReads(r0, o, "ObjectId", App, deviceId(d), b \o (c \o e), "dev", both)
      BY <1>10, FieldRead, Zenon
    <2> QED  BY <2>1, Zenon DEF FieldReads
  <1> HIDE DEF r1
  <1>12. FieldThen(r1, o, "Unsigned", App, <<ApduMaxSize>>, c \o e)
    BY <1>2, <1>3, <1>7, <1>11, Zenon DEF FieldThen
  <1>13. Rest(r2, o, c \o e) /\ r2.got = with(r1.got, "maxApdu", <<ApduMaxSize>>)
    <2>1. FieldReads(r1, o, "Unsigned", App, <<ApduMaxSize>>, c \o e, "maxApdu", both)
      BY <1>12, FieldRead, Zenon
    <2> QED  BY <2>1, Zenon DEF FieldReads
  <1> HIDE DEF r2
  <1>14. FieldThen(r2, o, "Enum", App, <<SegmentedNOT>>, e)
    BY <1>2, <1>3, <1>6, <1>13, Zenon DEF FieldThen
  <1>15. Rest(r3, o, e) /\ r3.got = with(r2.got, "segmentation", <<SegmentedNOT>>)
    <2>1. FieldReads(r2, o, "Enum", App, <<SegmentedNOT>>, e, "segmentation", both)
      BY <1>14, FieldRead, Zenon
    <2> QED  BY <2>1, Zenon DEF FieldReads
  <1> HIDE DEF r3
  <1>16. FieldThen(r3, o, "Unsigned", App, <<SNGVendorIdentifier>>, <<>>)
    BY <1>2, <1>3, <1>15, LastField, Zenon
  <1>17. Rest(r4, o, <<>>) /\ r4.got = with(r3.got, "vendor", <<SNGVendorIdentifier>>)
    <2>1. FieldReads(r3, o, "Unsigned", App, <<SNGVendorIdentifier>>, <<>>, "vendor", both)
      BY <1>16, FieldRead, Zenon
    <2> QED  BY <2>1, Zenon DEF FieldReads
  <1> HIDE DEF r4
  <1>18. /\ nothingLeft(r4).ok = TRUE /\ nothingLeft(r4).stuck = FALSE
         /\ nothingLeft(r4).got = r4.got
    <2>1. Done(r4)
      BY <1>17, RestDone, Zenon
    <2> QED  BY <2>1, NothingLeft
  <1>19. r4.got = m.f
    <2>1. r4.got = with(with(with(with(<<>>, "dev", deviceId(d)), "maxApdu", <<ApduMaxSize>>),
                             "segmentation", <<SegmentedNOT>>), "vendor", <<SNGVendorIdentifier>>)
      BY <1>9, <1>11, <1>13, <1>15, <1>17, Zenon
    <2> HIDE DEF m
    <2> QED  BY <1>1, <2>1, WithFour
  <1>20. FoundAll(nothingLeft(r4), m.f)
    BY <1>18, <1>19, Zenon DEF FoundAll
  <1> HIDE DEF m
  <1> QED  BY <1>5, <1>8, <1>20, Zenon DEF m

LEMMA Uncounted ==
    ASSUME NEW r, Done(r), NEW u
    PROVE  Done([r EXCEPT !.used = u]) /\ [r EXCEPT !.used = u].got = r.got
  BY SMT DEF Done, IsReader

LEMMA IHaveRead ==
    ASSUME NEW d \in Device0, NEW j \in childObjects(d), NEW requester, NEW x,
           objectName(j) \in Seq(Octets), Len(objectName(j)) \in 1..252
    PROVE  FoundAll(IHaveFromRaw(dataOf(iHaveOf(d, j, requester), x)), iHaveOf(d, j, requester).f)
  <1> DEFINE m == iHaveOf(d, j, requester)
             both == {"tag", "value"}
             name == objectName(j)
             a == fieldOctets("ObjectId", App, deviceId(d))
             b == fieldOctets("ObjectId", App, j.id)
             c == fieldOctets("CharacterString", App, name)
             o == (a \o b) \o c
  <1>0. name \in Seq(Octets) /\ Len(name) \in 1..252
    OBVIOUS
  <1>1. /\ m.s = "IHave" /\ "set" \notin DOMAIN m
        /\ DOMAIN m.f = {"dev", "obj", "name"}
        /\ m.f.dev = deviceId(d) /\ m.f.obj = j.id /\ m.f.name = name
        /\ m.f = [dev |-> deviceId(d), obj |-> j.id, name |-> name]
    BY SMT DEF iHaveOf, unconfirmed
  <1>2. "ObjectId" \in FieldTypes /\ "CharacterString" \in FieldTypes /\ App \in FieldTags
    BY SMT DEF FieldTypes, FieldTags
  <1>3. /\ Valid("ObjectId", deviceId(d)) /\ Valid("ObjectId", j.id)
        /\ Valid("CharacterString", name)
    <2>1. j.id \in ObjectIds
      BY ChildId
    <2>2. Valid("ObjectId", j.id)
      BY <2>1, Zenon DEF Valid
    <2>3. Valid("CharacterString", name)
      BY Zenon DEF Valid
    <2> QED  BY <2>2, <2>3, ThisDevice, Zenon
  <1> HIDE DEF name
  <1>4. /\ application("ObjectId", deviceId(d), x) = a
        /\ application("ObjectId", j.id, x) = b
        /\ application("CharacterString", name, x) = c
    BY <1>2, <1>3, AppFieldWritten, Zenon
  <1>5. stringToRaw(AppTag.CharacterString, FALSE, name, 0) = c
    <2>1. application("CharacterString", name, x) = CharacterStringToRaw(AppTag["CharacterString"], FALSE, name)
      BY SMT DEF application, toRaw
    <2> HIDE DEF c
    <2> QED  BY <1>4, <2>1, Zenon DEF CharacterStringToRaw
  <1>6. dataOf(m, x) = o
    <2>1. dataOf(m, x) = IHaveToRaw(m, x)
      <3> HIDE DEF m
      <3> QED  BY <1>1, SMT DEF dataOf
    <2>2. /\ appField(m, "dev", "ObjectId", x) = a
          /\ appField(m, "obj", "ObjectId", x) = b
      <3> HIDE DEF m, a, b, c
      <3> QED  BY <1>1, <1>4, SMT DEF appField
    <2>3. charSet(m) = 0 /\ "name" \in DOMAIN m.f
      <3> HIDE DEF m
      <3> QED  BY <1>1, Zenon DEF charSet
    <2> HIDE DEF m, a, b, c
    <2> QED  BY <1>1, <1>5, <2>1, <2>2, <2>3, Zenon DEF IHaveToRaw
  <1>7. a \in Seq(Octets) /\ b \in Seq(Octets) /\ c \in Seq(Octets)
    BY <1>2, <1>3, FieldLength, Zenon
  <1> DEFINE r0 == reader(o)
             r1 == read(r0, "dev", "ObjectId", App, both)
             r2 == read(r1, "obj", "ObjectId", App, both)
             r3 == read(r2, "name", "CharacterString", App, both)
             r4 == uncounted(r2, "name")
  <1>8. /\ o = a \o (b \o c) /\ o \in Seq(Octets) /\ b \o c \in Seq(Octets)
    <2> HIDE DEF a, b, c
    <2>1. Associated(a, b, c) /\ (a \o b) \o c \in Seq(Octets) /\ b \o c \in Seq(Octets)
      BY <1>7, ThreeJoined, Zenon
    <2> QED  BY <2>1, Zenon DEF Associated
  <1>9. IHaveFromRaw(o) = nothingLeft(r4) /\ r4 = [r3 EXCEPT !.used = r2.used]
    BY Zenon DEF IHaveFromRaw, uncounted
  <1> HIDE DEF both, o
  <1>10. Rest(r0, o, o) /\ r0.got = <<>>
    BY <1>8, RestOfAll, Zenon
  <1>11. FieldThen(r0, o, "ObjectId", App, deviceId(d), b \o c)
    BY <1>2, <1>3, <1>8, <1>10, Zenon DEF FieldThen
  <1> HIDE DEF r0
  <1>12. Rest(r1, o, b \o c) /\ r1.got = with(r0.got, "dev", deviceId(d))
    <2>1. FieldReads(r0, o, "ObjectId", App, deviceId(d), b \o c, "dev", both)
      BY <1>11, FieldRead, Zenon
    <2> QED  BY <2>1, Zenon DEF FieldReads
  <1> HIDE DEF r1
  <1>13. FieldThen(r1, o, "ObjectId", App, j.id, c)
    BY <1>2, <1>3, <1>7, <1>12, Zenon DEF FieldThen
  <1>14. Rest(r2, o, c) /\ r2.got = with(r1.got, "obj", j.id)
    <2>1. FieldReads(r1, o, "ObjectId", App, j.id, c, "obj", both)
      BY <1>13, FieldRead, Zenon
    <2> QED  BY <2>1, Zenon DEF FieldReads
  <1> HIDE DEF r2
  <1>15. FieldThen(r2, o, "CharacterString", App, name, <<>>)
    BY <1>2, <1>3, <1>14, LastField, Zenon
  <1>16. Rest(r3, o, <<>>) /\ r3.got = with(r2.got, "name", name)
    <2>1. FieldReads(r2, o, "CharacterString", App, name, <<>>, "name", both)
      BY <1>15, FieldRead, Zenon
    <2> QED  BY <2>1, Zenon DEF FieldReads
  <1> HIDE DEF r3, r4
  <1>17. Done(r4) /\ r4.got = r3.got
    <2>1. Done(r3)
      BY <1>16, RestDone, Zenon
    <2> QED  BY <1>9, <2>1, Uncounted
  <1>18. /\ nothingLeft(r4).ok = TRUE /\ nothingLeft(r4).stuck = FALSE
         /\ nothingLeft(r4).got = r4.got
    BY <1>17, NothingLeft
  <1>19. r4.got = m.f
    <2>1. r4.got = with(with(with(<<>>, "dev", deviceId(d)), "obj", j.id), "name", name)
      BY <1>10, <1>12, <1>14, <1>16, <1>17, Zenon
    <2> HIDE DEF m
    <2> QED  BY <1>1, <2>1, WithThree
  <1>20. FoundAll(nothingLeft(r4), m.f)
    BY <1>18, <1>19, Zenon DEF FoundAll
  <1> HIDE DEF m
  <1> QED  BY <1>6, <1>9, <1>20, Zenon DEF m

-----------------------------------------------------------------------------
(* The questions are understood as they were asked.                        *)

\* The limits of a range, one after the other.
RangeFound(r, o, a, b, s) == Rest(range(r), o, s) /\ range(r).got = [low |-> a, high |-> b]

LEMMA RangeRead ==
    ASSUME NEW r, NEW o, r.got = <<>>, NEW a, Number(a), NEW b, Number(b), NEW s \in Seq(Octets),
           Rest(r, o, fieldOctets("Unsigned", 0, a) \o (fieldOctets("Unsigned", 1, b) \o s))
    PROVE  RangeFound(r, o, a, b, s)
  <1> DEFINE f == fieldOctets("Unsigned", 0, a)
             g == fieldOctets("Unsigned", 1, b)
             t == g \o s
             value == {"value"}
             r1 == read(r, "low", "Unsigned", 0, value)
             r2 == read(r1, "high", "Unsigned", 1, value)
  <1>1. "Unsigned" \in FieldTypes /\ 0 \in FieldTags /\ 1 \in FieldTags /\ 0 \in 0..3
    BY SMT DEF FieldTypes, FieldTags
  <1>2. Valid("Unsigned", a) /\ Valid("Unsigned", b)
    <2>1. "Unsigned" \in {"Unsigned", "Enum"}
      OBVIOUS
    <2>2. Valid("Unsigned", a)
      BY <2>1 DEF Valid
    <2>3. Valid("Unsigned", b)
      BY <2>1 DEF Valid
    <2> QED  BY <2>2, <2>3
  <1>3. g \in Seq(Octets)
    BY <1>1, <1>2, FieldLength, Zenon
  <1>4. t \in Seq(Octets)
    <2> HIDE DEF g
    <2> QED  BY <1>3, ConcatProperties, Zenon
  <1>5. FieldThen(r, o, "Unsigned", 0, a, t)
    BY <1>1, <1>2, <1>4, Zenon DEF FieldThen
  <1>6. nextIs(r.o, r.p, 0)
    <2>1. TagIs(r, 0)
      BY <1>1, <1>5, TagAhead, Zenon
    <2> QED  BY <2>1, Zenon DEF TagIs
  <1>7. range(r) = r2
    BY <1>6, Zenon DEF range
  <1> HIDE DEF value
  <1>8. Rest(r1, o, t) /\ r1.got = with(r.got, "low", a)
    <2>1. FieldReads(r, o, "Unsigned", 0, a, t, "low", value)
      BY <1>5, FieldRead, Zenon
    <2> QED  BY <2>1, Zenon DEF FieldReads
  <1> HIDE DEF r1
  <1>9. FieldThen(r1, o, "Unsigned", 1, b, s)
    BY <1>1, <1>2, <1>8, Zenon DEF FieldThen
  <1>10. Rest(r2, o, s) /\ r2.got = with(r1.got, "high", b)
    <2>1. FieldReads(r1, o, "Unsigned", 1, b, s, "high", value)
      BY <1>9, FieldRead, Zenon
    <2> QED  BY <2>1, Zenon DEF FieldReads
  <1> HIDE DEF r2
  <1>11. r2.got = [low |-> a, high |-> b]
    <2>1. r2.got = with(with(<<>>, "low", a), "high", b)
      BY <1>8, <1>10, Zenon
    <2> QED  BY <2>1, WithRange
  <1> QED  BY <1>7, <1>10, <1>11, Zenon DEF RangeFound

\* What a Who-Has asks for behind its range, if there is one.
Wanted(type, tag, name) ==
    \/ type = "ObjectId" /\ tag = 2 /\ name = "obj"
    \/ type = "CharacterString" /\ tag = 3 /\ name = "name"

WantedAhead(r, o, type, tag, name, v) ==
    /\ Rest(objectOrName(r), o, <<>>)
    /\ objectOrName(r).got = with(r.got, name, v)
    /\ range(r) = r

LEMMA WantedRead ==
    ASSUME NEW r, NEW o, NEW type, NEW tag, NEW name, Wanted(type, tag, name), NEW v, Valid(type, v),
           Rest(r, o, fieldOctets(type, tag, v))
    PROVE  WantedAhead(r, o, type, tag, name, v)
  <1> DEFINE p == parseNext(r.o, r.p)
             e == element(r, name, type, tag, {"value"}, p)
  <1>1. type \in FieldTypes /\ tag \in FieldTags /\ tag \in 0..3 /\ tag # 0 /\ (tag = 2 \/ tag = 3)
    <2>1. CASE type = "ObjectId" /\ tag = 2
      BY <2>1, SMT DEF FieldTypes, FieldTags
    <2>2. CASE type = "CharacterString" /\ tag = 3
      BY <2>2, SMT DEF FieldTypes, FieldTags
    <2> QED  BY <2>1, <2>2, Zenon DEF Wanted
  <1>2. FieldThen(r, o, type, tag, v, <<>>)
    BY <1>1, LastField, Zenon
  <1>3. FieldFound(r, o, type, tag, v, <<>>, name, {"value"})
    BY <1>2, FieldElement, Zenon
  <1>4. Rest(e, o, <<>>) /\ e.got = with(r.got, name, v) /\ r.ok = TRUE
    BY <1>3, Zenon DEF FieldFound
  <1>5. TagIs(r, tag)
    BY <1>1, <1>2, TagAhead, Zenon
  <1>6. ~nextIs(r.o, r.p, 0) /\ \A u : isContextTag(p, u) <=> u = tag
    BY <1>1, <1>5, Zenon DEF TagIs
  <1>7. range(r) = r
    BY <1>6, Zenon DEF range
  <1> HIDE DEF p, e
  <1>8. objectOrName(r) = e
    <2>1. CASE type = "ObjectId" /\ tag = 2 /\ name = "obj"
      <3>1. isContextTag(p, 2) /\ ~isContextTag(p, 3)
        <4>1. 2 # 3
          BY SMT
        <4> QED  BY <1>6, <2>1, <4>1, Zenon
      <3> QED  BY <1>4, <2>1, <3>1, Zenon DEF objectOrName, which, p, e
    <2>2. CASE type = "CharacterString" /\ tag = 3 /\ name = "name"
      <3>1. ~isContextTag(p, 2) /\ isContextTag(p, 3)
        <4>1. 2 # 3
          BY SMT
        <4> QED  BY <1>6, <2>2, <4>1, Zenon
      <3> QED  BY <1>4, <2>2, <3>1, Zenon DEF objectOrName, which, p, e
    <2> QED  BY <2>1, <2>2, Zenon DEF Wanted
  <1> QED  BY <1>4, <1>7, <1>8, Zenon DEF WantedAhead

-----------------------------------------------------------------------------
(* The data of the questions.                                              *)

LEMMA LimitValid ==
    ASSUME NEW v, Limit(v)
    PROVE  Number(v) /\ Valid("Unsigned", v)
  <1>1. v[1] \in Quint32 /\ v = <<v[1]>>
    BY SMT DEF Limit, Quint32
  <1>2. Number(v)
    BY <1>1 DEF Number
  <1> QED  BY <1>2 DEF Valid

\* The octets of the range, if there is one.
rangeOctets(f) ==
    IF "low" \in DOMAIN f
    THEN fieldOctets("Unsigned", 0, f.low) \o fieldOctets("Unsigned", 1, f.high)
    ELSE <<>>

LEMMA RangeOctets ==
    ASSUME NEW f, {"low", "high"} \subseteq DOMAIN f, Limit(f.low), Limit(f.high)
    PROVE  /\ fieldOctets("Unsigned", 0, f.low) \in Seq(Octets)
           /\ fieldOctets("Unsigned", 1, f.high) \in Seq(Octets)
           /\ rangeOctets(f) = fieldOctets("Unsigned", 0, f.low) \o fieldOctets("Unsigned", 1, f.high)
           /\ rangeOctets(f) \in Seq(Octets)
           /\ Len(rangeOctets(f)) > 0
  <1> DEFINE a == fieldOctets("Unsigned", 0, f.low)
             b == fieldOctets("Unsigned", 1, f.high)
  <1>1. "Unsigned" \in FieldTypes /\ 0 \in FieldTags /\ 1 \in FieldTags
    BY SMT DEF FieldTypes, FieldTags
  <1>2. a \in Seq(Octets) /\ b \in Seq(Octets) /\ Len(a) \in Nat \ {0} /\ Len(b) \in Nat \ {0}
    BY <1>1, LimitValid, FieldLength, Zenon
  <1>3. rangeOctets(f) = a \o b
    BY Zenon DEF rangeOctets
  <1> HIDE DEF a, b
  <1>4. a \o b \in Seq(Octets) /\ Len(a \o b) = Len(a) + Len(b)
    BY <1>2, ConcatProperties, Zenon
  <1>5. Len(a) + Len(b) > 0
    BY <1>2, SMT
  <1> QED  BY <1>2, <1>3, <1>4, <1>5, Zenon DEF a, b

LEMMA LimitWritten ==
    ASSUME NEW m, {"low", "high"} \subseteq DOMAIN m.f, Limit(m.f.low), Limit(m.f.high), NEW x
    PROVE  field(m, "low", "Unsigned", 0, x) \o field(m, "high", "Unsigned", 1, x) = rangeOctets(m.f)
  <1>1. "Unsigned" \in FieldTypes /\ 0 \in 0..3 /\ 1 \in 0..3
    BY SMT DEF FieldTypes
  <1>2. field(m, "low", "Unsigned", 0, x) = fieldOctets("Unsigned", 0, m.f["low"])
    BY <1>1, LimitValid, ContextFieldWritten, Zenon
  <1>3. field(m, "high", "Unsigned", 1, x) = fieldOctets("Unsigned", 1, m.f["high"])
    BY <1>1, LimitValid, ContextFieldWritten, Zenon
  <1> QED  BY <1>2, <1>3, Zenon DEF rangeOctets

\* A reader that has understood a question.
Understood(r, f) == FoundAll(r, f) /\ r.used > 0

LEMMA WhoIsRead ==
    ASSUME NEW m, m.s = "WhoIs", Question(m.f), {"low", "high"} \subseteq DOMAIN m.f,
           dataOf(m, 0) # <<>>, NEW x
    PROVE  Understood(WhoIsFromRaw(dataOf(m, x)), [low |-> m.f.low, high |-> m.f.high])
  <1> DEFINE f == m.f
             a == fieldOctets("Unsigned", 0, f.low)
             b == fieldOctets("Unsigned", 1, f.high)
             o == rangeOctets(f)
             r == reader(o)
             r1 == range(r)
  <1>1. Limit(f.low) /\ Limit(f.high)
    BY Zenon DEF Question
  <1>2. a \in Seq(Octets) /\ b \in Seq(Octets) /\ o = a \o b /\ o \in Seq(Octets) /\ Len(o) > 0
    BY <1>1, RangeOctets, Zenon
  <1>3. dataOf(m, x) = o
    <2>1. dataOf(m, x) = WhoIsToRaw(m, x) /\ dataOf(m, 0) = WhoIsToRaw(m, 0)
      BY SMT DEF dataOf
    <2>2. ~({"low", "high"} \subseteq DOMAIN m.f
            /\ (m.f.low = <<0>> \/ m.f.high = <<MaximumInstanceNumber>>))
      BY <2>1, Zenon DEF WhoIsToRaw
    <2>3. dataOf(m, x) = field(m, "low", "Unsigned", 0, x) \o field(m, "high", "Unsigned", 1, x)
      BY <2>1, <2>2, Zenon DEF WhoIsToRaw
    <2> QED  BY <1>1, <2>3, LimitWritten, Zenon
  <1> HIDE DEF a, b, o
  <1>4. WhoIsFromRaw(o) = nothingLeft(r1)
    <2>1. o # <<>>
      <3>1. Len(<<>>) = 0 /\ ~(0 > 0)
        BY EmptyTuple, SMT
      <3> QED  BY <1>2, <3>1, Zenon
    <2> QED  BY <2>1, Zenon DEF WhoIsFromRaw
  <1>5. Rest(r, o, o) /\ r.got = <<>>
    BY <1>2, RestOfAll, Zenon
  <1> HIDE DEF r
  <1>6. Rest(r, o, a \o (b \o <<>>)) /\ <<>> \in Seq(Octets)
    <2>1. b \o <<>> = b
      BY <1>2, ConcatEmptySeq, Zenon
    <2> QED  BY <1>2, <1>5, <2>1, EmptyTuple, Zenon
  <1>7. Rest(r1, o, <<>>) /\ r1.got = [low |-> f.low, high |-> f.high]
    <2>1. Number(f.low) /\ Number(f.high)
      BY <1>1, LimitValid, Zenon
    <2>2. RangeFound(r, o, f.low, f.high, <<>>)
      BY <1>5, <1>6, <2>1, RangeRead, Zenon DEF a, b
    <2> QED  BY <2>2, Zenon DEF RangeFound
  <1> HIDE DEF r1
  <1>8. Done(r1) /\ r1.used = Len(o)
    BY <1>7, RestDone, Zenon
  <1>9. /\ nothingLeft(r1).ok = TRUE /\ nothingLeft(r1).stuck = FALSE
        /\ nothingLeft(r1).got = r1.got /\ nothingLeft(r1).used = r1.used
    BY <1>8, NothingLeft
  <1>10. Understood(nothingLeft(r1), [low |-> f.low, high |-> f.high])
    BY <1>2, <1>7, <1>8, <1>9, Zenon DEF Understood, FoundAll
  <1> QED  BY <1>3, <1>4, <1>10, Zenon

\* What is found of a question about an object.
foundRange(f) == IF "low" \in DOMAIN f THEN [low |-> f.low, high |-> f.high] ELSE <<>>

LEMMA WantedFound ==
    ASSUME NEW f, "low" \in DOMAIN f <=> "high" \in DOMAIN f,
           \A n \in {"low", "high"} \cap DOMAIN f : Limit(f[n]),
           NEW type, NEW tag, NEW name, Wanted(type, tag, name), Valid(type, f[name])
    PROVE  LET o == rangeOctets(f) \o fieldOctets(type, tag, f[name])
           IN  Understood(WhoHasFromRaw(o), with(foundRange(f), name, f[name]))
  <1> DEFINE h == fieldOctets(type, tag, f[name])
             s == rangeOctets(f)
             o == s \o h
             r0 == reader(o)
             r1 == range(r0)
             r2 == objectOrName(r1)
             v == f[name]
  <1>1. type \in FieldTypes /\ tag \in FieldTags
    <2>1. CASE type = "ObjectId" /\ tag = 2
      BY <2>1, SMT DEF FieldTypes, FieldTags
    <2>2. CASE type = "CharacterString" /\ tag = 3
      BY <2>2, SMT DEF FieldTypes, FieldTags
    <2> QED  BY <2>1, <2>2, Zenon DEF Wanted
  <1>2. h \in Seq(Octets) /\ Len(h) \in Nat \ {0}
    BY <1>1, FieldLength, Zenon
  <1>3. s \in Seq(Octets)
    <2>1. CASE "low" \in DOMAIN f
      <3>1. Limit(f.low) /\ Limit(f.high) /\ {"low", "high"} \subseteq DOMAIN f
        BY <2>1, Zenon
      <3> QED  BY <3>1, RangeOctets, Zenon
    <2>2. CASE "low" \notin DOMAIN f
      BY <2>2, EmptyTuple, Zenon DEF rangeOctets
    <2> QED  BY <2>1, <2>2
  <1>4. WhoHasFromRaw(o) = nothingLeft(r2)
    BY Zenon DEF WhoHasFromRaw
  <1>s. s = rangeOctets(f)
    OBVIOUS
  <1> HIDE DEF h, s, r2
  <1>5. o \in Seq(Octets) /\ Len(o) = Len(s) + Len(h) /\ Len(o) > 0
    <2>1. o \in Seq(Octets) /\ Len(o) = Len(s) + Len(h) /\ Len(s) \in Nat
      BY <1>2, <1>3, ConcatProperties, LenProperties, Zenon
    <2>2. Len(s) + Len(h) > 0
      BY <1>2, <2>1, SMT
    <2> QED  BY <2>1, <2>2, Zenon
  <1>6. Rest(r0, o, o) /\ r0.got = <<>>
    BY <1>5, RestOfAll, Zenon
  <1> HIDE DEF r0
  <1>7. Rest(r1, o, h) /\ r1.got = foundRange(f)
    <2>1. CASE "low" \in DOMAIN f
      <3> DEFINE a == fieldOctets("Unsigned", 0, f.low)
                 b == fieldOctets("Unsigned", 1, f.high)
      <3>1. Limit(f.low) /\ Limit(f.high) /\ {"low", "high"} \subseteq DOMAIN f
        BY <2>1, Zenon
      <3>2. s = a \o b /\ a \in Seq(Octets) /\ b \in Seq(Octets)
        BY <1>s, <3>1, RangeOctets, Zenon
      <3>3. o = a \o (b \o h)
        <4> HIDE DEF a, b
        <4>1. Associated(a, b, h)
          BY <1>2, <3>2, ThreeJoined, Zenon
        <4> QED  BY <3>2, <4>1, Zenon DEF Associated
      <3>4. RangeFound(r0, o, f.low, f.high, h)
        <4>1. Number(f.low) /\ Number(f.high)
          BY <3>1, LimitValid, Zenon
        <4>2. Rest(r0, o, a \o (b \o h))
          BY <1>6, <3>3, Zenon
        <4> HIDE DEF o
        <4> QED  BY <1>2, <1>6, <4>1, <4>2, RangeRead, Zenon DEF a, b
      <3> QED  BY <2>1, <3>4, Zenon DEF RangeFound, foundRange
    <2>2. CASE "low" \notin DOMAIN f
      <3>1. s = <<>>
        BY <1>s, <2>2, Zenon DEF rangeOctets
      <3>2. o = h
        BY <1>2, <3>1, ConcatEmptySeq, Zenon
      <3>3. Rest(r0, o, h)
        BY <1>6, <3>2, Zenon
      <3> HIDE DEF o
      <3>4. WantedAhead(r0, o, type, tag, name, v)
        BY <3>3, WantedRead, Zenon DEF h
      <3>5. r1 = r0
        BY <3>4, Zenon DEF WantedAhead
      <3> QED  BY <1>6, <2>2, <3>3, <3>5, Zenon DEF foundRange
    <2> QED  BY <2>1, <2>2
  <1> HIDE DEF o, r1
  <1>8. Rest(r2, o, <<>>) /\ r2.got = with(foundRange(f), name, v)
    <2>1. WantedAhead(r1, o, type, tag, name, v)
      BY <1>7, WantedRead, Zenon DEF h
    <2> QED  BY <1>7, <2>1, Zenon DEF WantedAhead, r2
  <1>9. Done(r2) /\ r2.used = Len(o)
    BY <1>8, RestDone, Zenon
  <1>10. /\ nothingLeft(r2).ok = TRUE /\ nothingLeft(r2).stuck = FALSE
         /\ nothingLeft(r2).got = r2.got /\ nothingLeft(r2).used = r2.used
    BY <1>9, NothingLeft
  <1>11. Understood(nothingLeft(r2), with(foundRange(f), name, v))
    BY <1>5, <1>8, <1>9, <1>10, Zenon DEF Understood, FoundAll
  <1> QED  BY <1>4, <1>11, Zenon DEF o, s, h

\* A question about an object names it in one way only.
LEMMA OneIsWanted ==
    ASSUME NEW D, Cardinality({"obj", "name"} \cap D) = 1
    PROVE  \/ "obj" \in D /\ "name" \notin D
           \/ "obj" \notin D /\ "name" \in D
  <1> DEFINE S == {"obj", "name"} \cap D
  <1>1. IsFiniteSet({"obj", "name"})
    <2>1. IsFiniteSet({"obj"})
      BY FS_Singleton, Zenon
    <2>2. {"obj", "name"} = {"obj"} \cup {"name"}
      OBVIOUS
    <2>3. IsFiniteSet({"obj"} \cup {"name"})
      BY <2>1, FS_AddElement, Zenon
    <2> QED  BY <2>2, <2>3, Zenon
  <1>2. IsFiniteSet(S)
    BY <1>1, FS_Subset, Zenon
  <1>3. PICK n : S = {n}
    BY <1>2, FS_Singleton, Zenon
  <1>4. "obj" # "name"
    OBVIOUS
  <1> QED  BY <1>3, <1>4

LEMMA AskedRange ==
    ASSUME NEW m, "low" \in DOMAIN m.f <=> "high" \in DOMAIN m.f,
           \A n \in {"low", "high"} \cap DOMAIN m.f : Limit(m.f[n]), NEW x
    PROVE  /\ field(m, "low", "Unsigned", 0, x) \o field(m, "high", "Unsigned", 1, x) = rangeOctets(m.f)
           /\ rangeOctets(m.f) \in Seq(Octets)
  <1>1. CASE "low" \in DOMAIN m.f
    <2>1. {"low", "high"} \subseteq DOMAIN m.f /\ Limit(m.f.low) /\ Limit(m.f.high)
      BY <1>1, Zenon
    <2> QED  BY <2>1, LimitWritten, RangeOctets, Zenon
  <1>2. CASE "low" \notin DOMAIN m.f
    <2>1. field(m, "low", "Unsigned", 0, x) = <<>> /\ field(m, "high", "Unsigned", 1, x) = <<>>
      BY <1>2, Zenon DEF field
    <2>2. rangeOctets(m.f) = <<>> /\ <<>> \in Seq(Octets)
      BY <1>2, EmptyTuple, Zenon DEF rangeOctets
    <2>3. <<>> \o <<>> = <<>>
      BY <2>2, ConcatEmptySeq, Zenon
    <2> QED  BY <2>1, <2>2, <2>3, Zenon
  <1> QED  BY <1>1, <1>2

LEMMA QuestionNames == "WhoIs" # "WhoHas"
  BY SMT

LEMMA LettersFit ==
    ASSUME NEW n \in Nat, NEW k \in {0, 1, 2, 4}, n * k \in 1..252
    PROVE  n \in 1..252
  <1>1. CASE k = 0
    BY <1>1, SMT
  <1>2. CASE k = 1
    BY <1>2, SMT
  <1>3. CASE k = 2
    BY <1>3, SMT
  <1>4. CASE k = 4
    BY <1>4, SMT
  <1> QED  BY <1>1, <1>2, <1>3, <1>4, Zenon

LEMMA WhoHasRead ==
    ASSUME NEW m, m.s = "WhoHas", Question(m.f), Carried(m), NEW x
    PROVE  Understood(WhoHasFromRaw(dataOf(m, x)), m.f)
  <1> DEFINE f == m.f
             s == rangeOctets(f)
             h == fieldOctets("ObjectId", 2, f["obj"])
             g == fieldOctets("CharacterString", 3, f["name"])
             lo == field(m, "low", "Unsigned", 0, x)
             hi == field(m, "high", "Unsigned", 1, x)
             ob == field(m, "obj", "ObjectId", 2, x)
             na == field(m, "name", "CharacterString", 3, x)
  <1>1. /\ DOMAIN f \subseteq {"low", "high", "obj", "name"} /\ f = [n \in DOMAIN f |-> f[n]]
        /\ \A n \in {"low", "high"} \cap DOMAIN f : Limit(f[n])
        /\ "obj" \in DOMAIN f => f["obj"] \in ObjectIds
        /\ "name" \in DOMAIN f => f["name"] \in Seq(Octets)
    BY Zenon DEF Question
  <1>2. /\ "low" \in DOMAIN f <=> "high" \in DOMAIN f
        /\ Cardinality({"obj", "name"} \cap DOMAIN f) = 1
        /\ "name" \in DOMAIN f => Len(f["name"]) * letterSize(charSet(m)) \in 1..252
    BY DEF Carried
  <1>3. \/ "obj" \in DOMAIN f /\ "name" \notin DOMAIN f
        \/ "obj" \notin DOMAIN f /\ "name" \in DOMAIN f
    BY <1>2, OneIsWanted, Zenon
  <1>4. lo \o hi = s /\ s \in Seq(Octets)
    BY <1>1, <1>2, AskedRange, Zenon
  <1>5. dataOf(m, x) = ((lo \o hi) \o ob) \o na
    <2>1. dataOf(m, x) = WhoHasToRaw(m, x)
      BY SMT DEF dataOf
    <2> QED  BY <2>1, Zenon DEF WhoHasToRaw
  <1>6. CASE "obj" \in DOMAIN f /\ "name" \notin DOMAIN f
    <2>1. Valid("ObjectId", f["obj"]) /\ Wanted("ObjectId", 2, "obj")
      BY <1>1, <1>6, Zenon DEF Valid, Wanted
    <2>2. ob = h /\ h \in Seq(Octets)
      <3>1. "ObjectId" \in FieldTypes /\ 2 \in 0..3 /\ 2 \in FieldTags
        BY SMT DEF FieldTypes, FieldTags
      <3> QED  BY <1>6, <2>1, <3>1, ContextFieldWritten, FieldLength, Zenon
    <2>3. na = <<>>
      BY <1>6, Zenon DEF field
    <2>4. dataOf(m, x) = s \o h
      <3> HIDE DEF s, h, lo, hi, ob, na
      <3>1. s \o h \in Seq(Octets)
        BY <1>4, <2>2, ConcatProperties, Zenon
      <3>2. (s \o h) \o <<>> = s \o h
        BY <3>1, ConcatEmptySeq, Zenon
      <3> QED  BY <1>4, <1>5, <2>2, <2>3, <3>2, Zenon
    <2>5. with(foundRange(f), "obj", f["obj"]) = f
      <3>1. CASE "low" \in DOMAIN f
        <4>1. DOMAIN f = {"low", "high", "obj"}
          BY <1>1, <1>2, <1>6, <3>1
        <4>2. f = [n \in {"low", "high", "obj"} |-> f[n]]
          BY <1>1, <4>1, Zenon
        <4>3. foundRange(f) = [low |-> f["low"], high |-> f["high"]]
          BY <3>1, Zenon DEF foundRange
        <4> HIDE DEF f
        <4> QED  BY <4>2, <4>3, SMT DEF with
      <3>2. CASE "low" \notin DOMAIN f
        <4>1. DOMAIN f = {"obj"}
          BY <1>1, <1>2, <1>6, <3>2
        <4>2. f = [n \in {"obj"} |-> f[n]]
          BY <1>1, <4>1, Zenon
        <4>3. foundRange(f) = <<>>
          BY <3>2, Zenon DEF foundRange
        <4> HIDE DEF f
        <4> QED  BY <4>2, <4>3, SMT DEF with
      <3> QED  BY <3>1, <3>2
    <2>6. Understood(WhoHasFromRaw(s \o h), with(foundRange(f), "obj", f["obj"]))
      BY <1>1, <1>2, <2>1, WantedFound, Zenon
    <2> QED  BY <2>4, <2>5, <2>6, Zenon
  <1>7. CASE "obj" \notin DOMAIN f /\ "name" \in DOMAIN f
    <2>1. Valid("CharacterString", f["name"]) /\ Wanted("CharacterString", 3, "name")
      <3> DEFINE n == Len(f["name"])
                 k == letterSize(charSet(m))
      <3>1. f["name"] \in Seq(Octets) /\ n * k \in 1..252
        BY <1>1, <1>2, <1>7, Zenon
      <3>2. n \in Nat
        BY <3>1, LenProperties, Zenon
      <3>3. k \in {0, 1, 2, 4}
        BY SMT DEF letterSize
      <3> HIDE DEF n, k
      <3>4. n \in 1..252
        BY <3>1, <3>2, <3>3, LettersFit, Zenon
      <3> QED  BY <3>1, <3>4, Zenon DEF Valid, Wanted, n
    <2>2. na = g /\ g \in Seq(Octets)
      <3>1. "CharacterString" \in FieldTypes /\ 3 \in 0..3 /\ 3 \in FieldTags
        BY SMT DEF FieldTypes, FieldTags
      <3> QED  BY <1>7, <2>1, <3>1, ContextFieldWritten, FieldLength, Zenon
    <2>3. ob = <<>>
      BY <1>7, Zenon DEF field
    <2>4. dataOf(m, x) = s \o g
      <3> HIDE DEF s, g, lo, hi, ob, na
      <3>2. s \o <<>> = s
        BY <1>4, ConcatEmptySeq, Zenon
      <3> QED  BY <1>4, <1>5, <2>2, <2>3, <3>2, Zenon
    <2>5. with(foundRange(f), "name", f["name"]) = f
      <3>1. CASE "low" \in DOMAIN f
        <4>1. DOMAIN f = {"low", "high", "name"}
          BY <1>1, <1>2, <1>7, <3>1
        <4>2. f = [n \in {"low", "high", "name"} |-> f[n]]
          BY <1>1, <4>1, Zenon
        <4>3. foundRange(f) = [low |-> f["low"], high |-> f["high"]]
          BY <3>1, Zenon DEF foundRange
        <4> HIDE DEF f
        <4> QED  BY <4>2, <4>3, SMT DEF with
      <3>2. CASE "low" \notin DOMAIN f
        <4>1. DOMAIN f = {"name"}
          BY <1>1, <1>2, <1>7, <3>2
        <4>2. f = [n \in {"name"} |-> f[n]]
          BY <1>1, <4>1, Zenon
        <4>3. foundRange(f) = <<>>
          BY <3>2, Zenon DEF foundRange
        <4> HIDE DEF f
        <4> QED  BY <4>2, <4>3, SMT DEF with
      <3> QED  BY <3>1, <3>2
    <2>6. Understood(WhoHasFromRaw(s \o g), with(foundRange(f), "name", f["name"]))
      BY <1>1, <1>2, <2>1, WantedFound, Zenon
    <2> QED  BY <2>4, <2>5, <2>6, Zenon
  <1> QED  BY <1>3, <1>6, <1>7

-----------------------------------------------------------------------------
(* The way of a message through its headers.                               *)

\* What stands behind the first octets.
LEMMA Behind ==
    ASSUME NEW S, NEW h \in Seq(S), NEW t \in Seq(S)
    PROVE  SubSeq(h \o t, Len(h) + 1, Len(h \o t)) = t
  <1> DEFINE o == h \o t
             at == Len(h) + 1
  <1>1. o \in Seq(S) /\ Len(o) = Len(h) + Len(t) /\ Len(h) \in Nat /\ Len(t) \in Nat
    BY ConcatProperties, LenProperties, Zenon
  <1>2. Holds(o, 1, o)
    BY <1>1, HoldsWhole, Zenon
  <1>3. 1 \in Nat \ {0} /\ 1 + Len(h) = at /\ at \in Nat \ {0} /\ at + Len(t) - 1 = Len(o)
    <2> DEFINE a == Len(h)
               b == Len(t)
               c == Len(o)
    <2>1. a \in Nat /\ b \in Nat /\ c = a + b
      BY <1>1, Zenon
    <2> HIDE DEF a, b, c
    <2>2. 1 \in Nat \ {0} /\ 1 + a = a + 1 /\ a + 1 \in Nat \ {0} /\ (a + 1) + b - 1 = c
      BY <2>1, SMT
    <2> QED  BY <2>2, Zenon DEF a, b, c
  <1>4. Holds(o, at, t)
    <2>1. Holds(o, 1, h \o t)
      BY <1>2, Zenon
    <2> HIDE DEF o
    <2>2. Holds(o, 1 + Len(h), t)
      BY <1>1, <1>3, <2>1, HoldsConcat, Zenon
    <2> QED  BY <1>3, <2>2, Zenon
  <1>5. SubSeq(o, at, at + Len(t) - 1) = t
    <2> HIDE DEF o, at
    <2> QED  BY <1>1, <1>3, <1>4, HoldsSubSeq, Zenon
  <1> QED  BY <1>3, <1>5, Zenon

\* The services of the exchange.
Exchanged == {"WhoIs", "WhoHas", "IAm", "IHave"}

\* What a reader finds in the data of a message, and what becomes of it.
fromDevice(m, r) ==
    [verdict |-> Verdict(r), f |-> r.got, net |-> oneHopLess(m.net), id |-> 0, used |-> r.used]

LEMMA ServiceNamed ==
    ASSUME NEW s \in Exchanged
    PROVE  /\ s \in DOMAIN Service /\ s # "Network"
           /\ Service[s][1] = "Unconfirmed" /\ Service[s][2] \in Octets
           /\ Service[s] = <<"Unconfirmed", Service[s][2]>>
           /\ (CHOOSE u \in DOMAIN Service : Service[u] = <<"Unconfirmed", Service[s][2]>>) = s
  <1>1. /\ s \in DOMAIN Service /\ s # "Network"
        /\ Service[s][1] = "Unconfirmed" /\ Service[s][2] \in Octets
        /\ Service[s] = <<"Unconfirmed", Service[s][2]>>
    BY SMT DEF Exchanged, Service, Octets
  <1>2. \A u \in DOMAIN Service : Service[u] = Service[s] => u = s
    BY SMT DEF Exchanged, Service
  <1> QED  BY <1>1, <1>2, Zenon

LEMMA ServiceReceived ==
    ASSUME NEW m, m.s \in Exchanged, "part" \notin DOMAIN m, NEW x, NEW d \in Seq(Octets)
    PROVE  /\ headerToRaw(m, x) \in Seq(Octets)
           /\ receive(headerToRaw(m, x) \o d) = [r |-> serviceFromRaw(m.s, d), id |-> 0]
  <1> DEFINE a == headerToRaw(m, x)
             o == a \o d
             n == Service[m.s][2]
             h == [n |-> 2, id |-> 0, last |-> n, segment |-> FALSE]
  <1>1. /\ m.s \in DOMAIN Service /\ Service[m.s][1] = "Unconfirmed" /\ n \in Octets
        /\ (CHOOSE u \in DOMAIN Service : Service[u] = <<"Unconfirmed", n>>) = m.s
    BY ServiceNamed, Zenon
  <1>2. a = <<16, n>>
    <2>1. a = UnconfirmedRequestData(m)
      BY <1>1, SMT DEF headerToRaw
    <2>2. FirstOctet("Unconfirmed", m) = 16
      <3>1. Segment(m) = <<>>
        BY Zenon DEF Segment
      <3>2. PduType["Unconfirmed"] = 1
        BY SMT DEF PduType
      <3> QED  BY <3>1, <3>2, SMT DEF FirstOctet
    <2> QED  BY <2>1, <2>2, Zenon DEF UnconfirmedRequestData
  <1>3. 16 \in Octets
    BY SMT DEF Octets
  <1> HIDE DEF n
  <1>4. a \in Seq(Octets) /\ Len(a) = 2 /\ a[1] = 16 /\ a[2] = n
    <2> DEFINE c == 16
               e == <<c, n>>
    <2> HIDE DEF c
    <2>1. c \in Octets /\ n \in Octets
      BY <1>1, <1>3, Zenon DEF c
    <2>2. e \in Seq(Octets) /\ Len(e) = 2 /\ e[1] = c /\ e[2] = n
      BY <2>1, Tuples
    <2> HIDE DEF e
    <2>3. a = e
      BY <1>2, Zenon DEF e, c
    <2> HIDE DEF a
    <2> QED  BY <2>2, <2>3, Zenon DEF c
  <1> HIDE DEF a
  <1>5. o[1] = 16 /\ o[2] = n
    <2>1. \A i \in 1..Len(a) : (a \o d)[i] = a[i]
      BY <1>4, Followed, Zenon
    <2>2. 1 \in 1..2 /\ 2 \in 1..2
      BY SMT
    <2> QED  BY <1>4, <2>1, <2>2, Zenon
  <1>6. SubSeq(o, 2 + 1, Len(o)) = d
    BY <1>4, Behind, Zenon
  <1> HIDE DEF o
  <1>7. pduType(o) = "Unconfirmed"
    <2>1. "Unconfirmed" \in DOMAIN PduType /\ 0 \in {0, 8} /\ 16 = 16 * PduType["Unconfirmed"] + 0
      BY SMT DEF PduType
    <2> QED  BY <1>5, <2>1, PduTypeOf, Zenon
  <1>8. headerFromRaw("Unconfirmed", o) = h
    <2>1. headerFromRaw("Unconfirmed", o) = UnconfirmedRequestFromRaw(o)
      BY SMT DEF headerFromRaw
    <2> QED  BY <1>5, <2>1, Zenon DEF UnconfirmedRequestFromRaw
  <1>9. handed("Unconfirmed", h, o) = serviceFromRaw(m.s, d)
    <2>1. h.n = 2 /\ h.last = n /\ h.segment = FALSE /\ h # NoHeader
      BY SMT DEF NoHeader
    <2>2. "Unconfirmed" # "SegmentAck" /\ "Unconfirmed" \notin {"Reject", "Abort"} /\ "Unconfirmed" # "Error"
      OBVIOUS
    <2>3. ~(h = NoHeader \/ h.segment \/ "Unconfirmed" = "SegmentAck")
      BY <2>1, <2>2
    <2> HIDE DEF h
    <2>4. handed("Unconfirmed", h, o)
          = serviceFromRaw(CHOOSE u \in DOMAIN Service :
                               IF "Unconfirmed" = "Error" THEN u = "Error" ELSE Service[u] = <<"Unconfirmed", h.last>>,
                           SubSeq(o, h.n + 1, Len(o)))
      BY <2>2, <2>3, Zenon DEF handed
    <2>5. (CHOOSE u \in DOMAIN Service :
              IF "Unconfirmed" = "Error" THEN u = "Error" ELSE Service[u] = <<"Unconfirmed", h.last>>)
          = (CHOOSE u \in DOMAIN Service : Service[u] = <<"Unconfirmed", h.last>>)
      BY <2>2, Zenon
    <2> QED  BY <1>1, <1>6, <2>1, <2>4, <2>5, Zenon DEF n
  <1>10. h.id = 0
    BY SMT
  <1> HIDE DEF h
  <1> QED  BY <1>4, <1>7, <1>8, <1>9, <1>10, Zenon DEF receive, answered, a, o

\* A message of these services that has not been spoilt comes to the reader of
\* its service, which gets its data.
LEMMA ServiceRead ==
    ASSUME NEW m, WellFormed(m), m.s \in Exchanged, {"part", "spoilt"} \cap DOMAIN m = {},
           NEW x \in Leftover0
    PROVE  /\ readFrom(wireOf(m, x)) = fromDevice(m, serviceFromRaw(m.s, dataOf(m, x)))
           /\ wireOf(m, x) # <<>>
  <1> DEFINE h == setToRaw(m.net)
             a == headerToRaw(m, x)
             d == dataOf(m, x)
             t == a \o d
             o == wireOf(m, x)
             n == setFromRaw(o)
             r == serviceFromRaw(m.s, d)
  <1>1. m.net \in Header /\ d \in Seq(Octets) /\ m.net.type = ApduType /\ m.s # "Network"
    BY ServiceNamed DEF WellFormed
  <1>2. "part" \notin DOMAIN m /\ "spoilt" \notin DOMAIN m
    OBVIOUS
  <1>3. a \in Seq(Octets) /\ receive(t) = [r |-> r, id |-> 0]
    BY <1>1, <1>2, ServiceReceived, Zenon
  <1>4. o = (h \o a) \o d
    BY <1>1, <1>2, Zenon DEF wireOf
  <1>5. h \in Seq(Octets) /\ Len(h) >= 2
    <2>1. /\ h \in Seq(Octets)
          /\ Len(h) = 2 + Len(destPart(m.net)) + Len(srcPart(m.net)) + Len(hopsPart(m.net))
                      + Len(typePart(m.net))
      BY <1>1, HeaderLength, Zenon
    <2>2. /\ Len(destPart(m.net)) \in Nat /\ Len(srcPart(m.net)) \in Nat
          /\ Len(hopsPart(m.net)) \in Nat /\ Len(typePart(m.net)) \in Nat
      BY <1>1, HeaderParts, LenProperties, Zenon
    <2> HIDE DEF h
    <2> QED  BY <2>1, <2>2, SMT
  <1> HIDE DEF h, a, d, r
  <1>6. o = h \o t /\ t \in Seq(Octets)
    <2>1. Associated(h, a, d) /\ a \o d \in Seq(Octets)
      BY <1>1, <1>3, <1>5, ThreeJoined, Zenon
    <2> QED  BY <1>4, <2>1, Zenon DEF Associated
  <1> HIDE DEF t, o
  <1>7. o \in Seq(Octets) /\ Len(o) >= 2
    <2>1. o \in Seq(Octets) /\ Len(o) = Len(h) + Len(t) /\ Len(h) \in Nat /\ Len(t) \in Nat
      BY <1>5, <1>6, ConcatProperties, LenProperties, Zenon
    <2> QED  BY <1>5, <2>1, SMT
  <1>8. Holds(o, 1, h)
    <2>1. Holds(o, 1, o) /\ 1 \in Nat \ {0}
      BY <1>7, HoldsWhole, SMT
    <2>2. Holds(o, 1, h \o t)
      BY <1>6, <2>1, Zenon
    <2> QED  BY <1>5, <1>6, <1>7, <2>1, <2>2, HoldsConcat, Zenon
  <1>9. ~Insane(o) /\ n = [h |-> oneHopLess(m.net), n |-> Len(h)]
    BY <1>1, <1>7, <1>8, HeaderRoundTrip, Zenon DEF h
  <1>10. n.h = oneHopLess(m.net) /\ n.n = Len(h)
    BY <1>9
  <1>11. n.h.type = ApduType
    <2>1. oneHopLess(m.net).type = m.net.type
      BY <1>1, SMT DEF oneHopLess, Header
    <2> QED  BY <1>1, <1>10, <2>1
  <1> HIDE DEF n
  <1>12. readFrom(o) = found(n.h, receive(SubSeq(o, n.n + 1, Len(o))))
    BY <1>9, <1>11, Zenon DEF readFrom, understood, n
  <1>13. SubSeq(o, n.n + 1, Len(o)) = t
    BY <1>5, <1>6, <1>10, Behind, Zenon
  <1>14. readFrom(o) = fromDevice(m, r)
    <2> DEFINE c == [r |-> r, id |-> 0]
    <2>1. c.r = r /\ c.id = 0
      OBVIOUS
    <2>2. readFrom(o) = found(oneHopLess(m.net), c)
      BY <1>3, <1>10, <1>12, <1>13, Zenon DEF t
    <2> HIDE DEF c
    <2> QED  BY <2>1, <2>2, Zenon DEF found, fromDevice
  <1>15. o # <<>>
    <2>1. Len(<<>>) = 0 /\ ~(0 >= 2)
      BY EmptyTuple, SMT
    <2> QED  BY <1>7, <2>1, Zenon
  <1> QED  BY <1>14, <1>15, Zenon DEF o, r, d

-----------------------------------------------------------------------------
(* Questions and answers are read as they were sent.                       *)

\* A question that can be understood.
Asks(m) ==
    /\ m.s \in {"WhoIs", "WhoHas"} /\ WellFormed(m) /\ Question(m.f)
    /\ Carried(m) /\ Understandable(m)

answersTo(m) ==
    IF m.s = "WhoIs" THEN whoIsAnswers(m.f, m.net.src) ELSE whoHasAnswers(m.f, m.net.src)

\* A reader that has understood a question: what it found is good for the same
\* answers.
QuestionUnderstood(m, g) ==
    /\ g.verdict = "accepted" /\ g.used > 0 /\ g.net.src = m.net.src
    /\ m.s = "WhoIs" => g.f.low = m.f.low /\ g.f.high = m.f.high
    /\ m.s = "WhoHas" => g.f = m.f

LEMMA FromDevice ==
    ASSUME NEW m, m.net \in Header, NEW r, r.ok = TRUE, r.stuck = FALSE
    PROVE  LET g == fromDevice(m, r)
           IN  /\ g.verdict = "accepted" /\ g.f = r.got /\ g.used = r.used
               /\ g.net.src = m.net.src
  <1>1. Verdict(r) = "accepted"
    BY DEF Verdict
  <1>2. oneHopLess(m.net).src = m.net.src
    BY SMT DEF oneHopLess, Header
  <1> DEFINE v == Verdict(r)
             n == oneHopLess(m.net)
             g == [verdict |-> v, f |-> r.got, net |-> n, id |-> 0, used |-> r.used]
  <1> HIDE DEF v, n
  <1>3. g.verdict = v /\ g.f = r.got /\ g.used = r.used /\ g.net = n
    OBVIOUS
  <1>4. fromDevice(m, r) = g
    BY Zenon DEF fromDevice, v, n
  <1> HIDE DEF g
  <1> QED  BY <1>1, <1>2, <1>3, <1>4, Zenon DEF v, n

LEMMA QuestionHeard ==
    ASSUME NEW m, Asks(m), NEW x \in Leftover0
    PROVE  QuestionUnderstood(m, readFrom(wireOf(m, x))) /\ wireOf(m, x) # <<>>
  <1> DEFINE d == dataOf(m, x)
             g == readFrom(wireOf(m, x))
  <1>1. /\ m.s \in {"WhoIs", "WhoHas"} /\ WellFormed(m) /\ Question(m.f)
        /\ Carried(m) /\ Understandable(m)
    BY Zenon DEF Asks
  <1>2. {"part", "spoilt"} \cap DOMAIN m = {} /\ m.s \in Exchanged
    BY <1>1 DEF Carried, Exchanged
  <1>3. g = fromDevice(m, serviceFromRaw(m.s, d)) /\ wireOf(m, x) # <<>>
    BY <1>1, <1>2, ServiceRead, Zenon
  <1>4. m.net \in Header
    BY <1>1 DEF WellFormed
  <1>5. CASE m.s = "WhoIs"
    <2> DEFINE r == WhoIsFromRaw(d)
               f == [low |-> m.f.low, high |-> m.f.high]
    <2>1. serviceFromRaw(m.s, d) = r
      BY <1>5, SMT DEF serviceFromRaw
    <2>2. {"low", "high"} \subseteq DOMAIN m.f
      BY <1>1, <1>5, SMT DEF Carried, Required
    <2>3. dataOf(m, 0) # <<>>
      BY <1>1, <1>5, Zenon DEF Understandable
    <2>4. Understood(r, f)
      BY <1>1, <1>5, <2>2, <2>3, WhoIsRead, Zenon
    <2>5. r.ok = TRUE /\ r.stuck = FALSE /\ r.got = f /\ r.used > 0
      BY <2>4, Zenon DEF Understood, FoundAll
    <2>6. f.low = m.f.low /\ f.high = m.f.high
      BY SMT
    <2> HIDE DEF r, f, d
    <2>7. g.verdict = "accepted" /\ g.f = r.got /\ g.used = r.used /\ g.net.src = m.net.src
      BY <1>3, <1>4, <2>1, <2>5, FromDevice, ZenonT(40)
    <2>8. m.s # "WhoHas"
      BY <1>5, QuestionNames, Zenon
    <2> HIDE DEF g
    <2>9. g.used > 0 /\ g.f = f
      BY <2>5, <2>7, Zenon
    <2>10. g.f.low = m.f.low /\ g.f.high = m.f.high
      BY <2>6, <2>9, Zenon
    <2> QED  BY <1>3, <2>7, <2>8, <2>9, <2>10, Zenon DEF QuestionUnderstood, g
  <1>6. CASE m.s = "WhoHas"
    <2> DEFINE r == WhoHasFromRaw(d)
    <2>1. serviceFromRaw(m.s, d) = r
      BY <1>6, SMT DEF serviceFromRaw
    <2>4. Understood(r, m.f)
      BY <1>1, <1>6, WhoHasRead, Zenon
    <2>5. r.ok = TRUE /\ r.stuck = FALSE /\ r.got = m.f /\ r.used > 0
      BY <2>4, Zenon DEF Understood, FoundAll
    <2> HIDE DEF r, d
    <2>7. g.verdict = "accepted" /\ g.f = r.got /\ g.used = r.used /\ g.net.src = m.net.src
      BY <1>3, <1>4, <2>1, <2>5, FromDevice, ZenonT(40)
    <2>8. m.s # "WhoIs"
      BY <1>6, QuestionNames, Zenon
    <2> HIDE DEF g
    <2>9. g.used > 0 /\ g.f = m.f
      BY <2>5, <2>7, Zenon
    <2> QED  BY <1>3, <2>7, <2>8, <2>9, Zenon DEF QuestionUnderstood, g
  <1> QED  BY <1>1, <1>5, <1>6

\* An answer as the device sends it, and as it is found.
AnswerSent(a) == WellFormed(a) /\ a.s \in {"IAm", "IHave"}
AnswerFound(a, g) == g.verdict = "accepted" /\ g.f = a.f

LEMMA IAmHeard ==
    ASSUME NEW d \in Device0, NEW requester \in {NoAddress} \cup Address, NEW x \in Leftover0
    PROVE  LET a == iAmOf(d, requester)
           IN  /\ AnswerSent(a) /\ AnswerFound(a, readFrom(wireOf(a, x)))
               /\ wireOf(a, x) # <<>>
  <1> DEFINE a == iAmOf(d, requester)
             o == dataOf(a, x)
             r == IAmFromRaw(o)
             g == readFrom(wireOf(a, x))
  <1>1. a.s = "IAm" /\ DOMAIN a = {"s", "f", "net"}
    BY SMT DEF iAmOf, unconfirmed
  <1>2. WellFormed(a)
    <2>1. \A y \in Leftover0 : dataOf(a, y) \in Seq(Octets)
      BY IAmOctets, Zenon
    <2>2. \E f : a = unconfirmed("IAm", f, d, requester)
      BY Zenon DEF iAmOf
    <2> HIDE DEF a
    <2> QED  BY <2>1, <2>2, AnswerWellFormed
  <1>3. FoundAll(r, a.f)
    BY IAmRead, Zenon
  <1>4. serviceFromRaw(a.s, o) = r
    BY <1>1, SMT DEF serviceFromRaw
  <1> HIDE DEF a, r
  <1>5. {"part", "spoilt"} \cap DOMAIN a = {} /\ a.s \in Exchanged /\ a.net \in Header
    BY <1>1, <1>2 DEF Exchanged, WellFormed
  <1>6. g = fromDevice(a, serviceFromRaw(a.s, o)) /\ wireOf(a, x) # <<>>
    BY <1>2, <1>5, ServiceRead, Zenon
  <1> HIDE DEF o
  <1>7. r.ok = TRUE /\ r.stuck = FALSE /\ r.got = a.f
    BY <1>3, Zenon DEF FoundAll
  <1>8. g.verdict = "accepted" /\ g.f = r.got
    BY <1>4, <1>5, <1>6, <1>7, FromDevice, Zenon
  <1> HIDE DEF g
  <1>9. AnswerSent(a)
    BY <1>1, <1>2 DEF AnswerSent
  <1>10. AnswerFound(a, g)
    BY <1>7, <1>8, Zenon DEF AnswerFound
  <1> QED  BY <1>6, <1>9, <1>10, Zenon DEF a, g

LEMMA IHaveHeard ==
    ASSUME NEW d \in Device0, NEW j \in childObjects(d), NEW requester \in {NoAddress} \cup Address,
           NEW x \in Leftover0, objectName(j) \in Seq(Octets), Len(objectName(j)) \in 1..252
    PROVE  LET a == iHaveOf(d, j, requester)
           IN  /\ AnswerSent(a) /\ AnswerFound(a, readFrom(wireOf(a, x)))
               /\ wireOf(a, x) # <<>>
  <1> DEFINE a == iHaveOf(d, j, requester)
             o == dataOf(a, x)
             r == IHaveFromRaw(o)
             g == readFrom(wireOf(a, x))
  <1>1. a.s = "IHave" /\ DOMAIN a = {"s", "f", "net"}
    BY SMT DEF iHaveOf, unconfirmed
  <1>2. WellFormed(a)
    <2>1. \A y \in Leftover0 : dataOf(a, y) \in Seq(Octets)
      BY IHaveOctets, Zenon
    <2>2. \E f : a = unconfirmed("IHave", f, d, requester)
      BY Zenon DEF iHaveOf
    <2> HIDE DEF a
    <2> QED  BY <2>1, <2>2, AnswerWellFormed
  <1>3. FoundAll(r, a.f)
    BY IHaveRead, Zenon
  <1>4. serviceFromRaw(a.s, o) = r
    BY <1>1, SMT DEF serviceFromRaw
  <1> HIDE DEF a, r
  <1>5. {"part", "spoilt"} \cap DOMAIN a = {} /\ a.s \in Exchanged /\ a.net \in Header
    BY <1>1, <1>2 DEF Exchanged, WellFormed
  <1>6. g = fromDevice(a, serviceFromRaw(a.s, o)) /\ wireOf(a, x) # <<>>
    BY <1>2, <1>5, ServiceRead, Zenon
  <1> HIDE DEF o
  <1>7. r.ok = TRUE /\ r.stuck = FALSE /\ r.got = a.f
    BY <1>3, Zenon DEF FoundAll
  <1>8. g.verdict = "accepted" /\ g.f = r.got
    BY <1>4, <1>5, <1>6, <1>7, FromDevice, ZenonT(40)
  <1> HIDE DEF g
  <1>9. AnswerSent(a)
    BY <1>1, <1>2 DEF AnswerSent
  <1>10. AnswerFound(a, g)
    BY <1>7, <1>8, Zenon DEF AnswerFound
  <1> QED  BY <1>6, <1>9, <1>10, Zenon DEF a, g

\* Every answer to a question is found as the device sent it.
Heard(a) ==
    AnswerSent(a) /\ \A x \in Leftover0 : AnswerFound(a, readFrom(wireOf(a, x))) /\ wireOf(a, x) # <<>>

LEMMA AnswerHeard ==
    ASSUME NEW m, Asks(m), NEW a \in answersTo(m), NEW z \in Leftover0
    PROVE  Heard(a[2])
  <1> DEFINE r == m.net.src
  <1>1. r \in {NoAddress} \cup Address
    BY DEF Asks, WellFormed, Header
  <1>2. \A k \in DOMAIN Devices : Devices[k] \in Device0
    BY DevicesAssumption
  <1>3. ASSUME a \in whoIsAnswers(m.f, r)
        PROVE  Heard(a[2])
    <2>1. PICK k \in DOMAIN Devices : a = <<k, iAmOf(Devices[k], r)>>
      BY <1>3 DEF whoIsAnswers
    <2>2. a[2] = iAmOf(Devices[k], r) /\ Devices[k] \in Device0
      BY <1>2, <2>1
    <2> HIDE DEF r
    <2> QED  BY <1>1, <2>2, IAmHeard, Zenon DEF Heard
  <1>4. ASSUME a \in whoHasAnswers(m.f, r)
        PROVE  Heard(a[2])
    <2>0. PICK k \in DOMAIN Devices : \E o \in childObjects(Devices[k]) :
             a = <<k, iHaveOf(Devices[k], o, r)>>
      BY <1>4, Zenon DEF whoHasAnswers
    <2>1. PICK o \in childObjects(Devices[k]) : a = <<k, iHaveOf(Devices[k], o, r)>>
      BY <2>0
    <2>2. a[2] = iHaveOf(Devices[k], o, r) /\ Devices[k] \in Device0
      BY <1>2, <2>1
    <2>3. objectName(o) \in Seq(Octets) /\ Len(objectName(o)) \in 1..252
      BY DevicesAssumption, Zenon
    <2> HIDE DEF r
    <2> QED  BY <1>1, <2>2, <2>3, IHaveHeard, Zenon DEF Heard
  <1> QED  BY <1>3, <1>4, Zenon DEF answersTo

-----------------------------------------------------------------------------
(* A question and the answers to it.                                       *)

\* A message on its way, or read.
OnItsWay(m) == sent = m /\ got = Unread /\ \E x \in Leftover0 : wire = wireOf(m, x)
HasBeenRead(m) == sent = m /\ wire = <<>> /\ \E x \in Leftover0 : got = readFrom(wireOf(m, x))

fieldsOf(A) == {b[2].f : b \in A}

\* The question has not been answered yet.
Asking == due = {} /\ heard = {} /\ (OnItsWay(asked) \/ HasBeenRead(asked))

\* Some answers are still due and one may be on its way; all others have been heard.
Answering ==
    LET all == answersTo(asked)
    IN  /\ due \subseteq all
        /\ \/ sent = None /\ wire = <<>> /\ got = Unread /\ heard = fieldsOf(all \ due)
           \/ \E a \in all \ due :
                 \/ OnItsWay(a[2]) /\ heard = fieldsOf((all \ due) \ {a})
                 \/ HasBeenRead(a[2]) /\ heard = fieldsOf(all \ due)

Quiet == due = {} /\ heard = {} /\ sent = None /\ wire = <<>> /\ got = Unread

ExchangeInv ==
    /\ asked = None => Quiet
    /\ asked # None => asked \in Sent
    /\ Asks(asked) => Asking \/ Answering

LEMMA NoQuestion == ~Asks(None)
  BY SMT DEF Asks, None

LEMMA ExchangeInit == AllInit => ExchangeInv
  BY NoQuestion, Zenon DEF AllInit, Init, ExchangeInv, Quiet

\* Whether a question can be understood does not depend on the buffer.
LEMMA AsksStays ==
    ASSUME NEW m
    PROVE  Asks(m)' <=> Asks(m)
  <1>1. Question(m.f) => {"value", "list", "confirmed"} \cap DOMAIN m.f = {}
    BY DEF Question
  <1>2. ASSUME {"value", "list", "confirmed"} \cap DOMAIN m.f = {}
        PROVE  Carried(m)' <=> Carried(m)
    <2>1. "value" \notin DOMAIN m.f /\ "list" \notin DOMAIN m.f /\ "confirmed" \notin DOMAIN m.f
      BY <1>2
    <2> QED  BY <2>1, Zenon DEF Carried
  <1> QED  BY <1>1, <1>2, Zenon DEF Asks

\* Reading a message that is on its way.
LEMMA ReadOne ==
    ASSUME NEW m, OnItsWay(m), Read
    PROVE  HasBeenRead(m)' /\ got' = readFrom(wire)
  <1>1. got' = readFrom(wire) /\ wire' = <<>> /\ sent' = sent
    BY Zenon DEF Read, readFrom
  <1>2. sent = m /\ \E x \in Leftover0 : wire = wireOf(m, x)
    BY Zenon DEF OnItsWay
  <1>3. \E x \in Leftover0 : got' = readFrom(wireOf(m, x))
    BY <1>1, <1>2, Zenon
  <1> QED  BY <1>1, <1>2, <1>3, Zenon DEF HasBeenRead

LEMMA Unopened == Unread.verdict = "none"
  BY SMT DEF Unread

LEMMA SentNotNone == ASSUME NEW m \in Sent PROVE m # None
  <1>1. m.s \in DOMAIN Service \cup {"Network"}
    BY SentAssumption, Zenon DEF WellFormed
  <1>2. None.s = "None" /\ "None" \notin DOMAIN Service \cup {"Network"}
    BY SMT DEF None, Service
  <1> QED  BY <1>1, <1>2

LEMMA AskStep ==
    ASSUME ExchangeInv, NEW m \in Sent, NEW x \in Leftover0, Ask(m, x)
    PROVE  ExchangeInv'
  <1>1. /\ asked = None /\ asked' = m /\ due' = due /\ heard' = heard
        /\ sent' = m /\ wire' = wireOf(m, x) /\ got' = Unread
    BY Zenon DEF Ask, Write, wireOf
  <1>2. due' = {} /\ heard' = {}
    BY <1>1, Zenon DEF ExchangeInv, Quiet
  <1>3. m # None
    BY SentNotNone
  <1>4. Asking'
    BY <1>1, <1>2, Zenon DEF Asking, OnItsWay
  <1> QED  BY <1>1, <1>3, <1>4, Zenon DEF ExchangeInv

LEMMA AnswerStep ==
    ASSUME ExchangeInv, NEW x \in Leftover0, Answer(x)
    PROVE  ExchangeInv'
  <1>1. PICK a \in due : Write(a[2], x) /\ due' = due \ {a} /\ asked' = asked /\ heard' = heard
    BY Zenon DEF Answer
  <1>2. sent = None /\ sent' = a[2] /\ wire' = wireOf(a[2], x) /\ got' = Unread
    BY <1>1, Zenon DEF Write, wireOf
  <1>3. asked # None /\ asked \in Sent
    BY Zenon DEF ExchangeInv, Quiet
  <1>4. ASSUME Asks(asked)
        PROVE  Answering'
    <2> DEFINE all == answersTo(asked)
    <2>1. ~OnItsWay(asked) /\ ~HasBeenRead(asked)
      BY <1>2, <1>3, Zenon DEF OnItsWay, HasBeenRead
    <2>2. Answering
      BY <1>4, <2>1, Zenon DEF ExchangeInv, Asking
    <2>3. due \subseteq all /\ asked' = asked /\ all' = all
      BY <1>1, <2>2, Zenon DEF Answering, answersTo
    <2>4. heard = fieldsOf(all \ due)
      <3>1. ASSUME NEW b \in all \ due
            PROVE  ~OnItsWay(b[2]) /\ ~HasBeenRead(b[2])
        <4>1. PICK y \in Leftover0 : TRUE
          OBVIOUS
        <4>2. Heard(b[2])
          BY <1>4, <3>1, AnswerHeard, Zenon
        <4>3. b[2].s \in {"IAm", "IHave"}
          BY <4>2, Zenon DEF Heard, AnswerSent
        <4>4. None.s = "None"
          BY SMT DEF None
        <4>5. b[2] # None
          BY <4>3, <4>4
        <4> QED  BY <1>2, <4>5, Zenon DEF OnItsWay, HasBeenRead
      <3> QED  BY <2>2, <3>1, Zenon DEF Answering
    <2>5. a \in all \ due' /\ (all \ due') \ {a} = all \ due /\ due' \subseteq all
      BY <1>1, <2>3
    <2>6. OnItsWay(a[2])'
      BY <1>2, Zenon DEF OnItsWay
    <2> HIDE DEF all
    <2>7. heard' = fieldsOf((all \ due') \ {a})
      BY <1>1, <2>4, <2>5, Zenon
    <2> QED  BY <2>3, <2>5, <2>6, <2>7, Zenon DEF Answering, all
  <1>5. Asks(asked)' => Asks(asked)
    BY <1>1, AsksStays, Zenon
  <1> QED  BY <1>1, <1>3, <1>4, <1>5, Zenon DEF ExchangeInv

\* What is sent while a question is being answered, and what was found in it.
LEMMA AnswerAtHand ==
    ASSUME Asks(asked), NEW a \in answersTo(asked)
    PROVE  /\ OnItsWay(a[2]) => wire # <<>>
           /\ HasBeenRead(a[2]) => Accepted /\ got.f = a[2].f
           /\ OnItsWay(a[2]) \/ HasBeenRead(a[2]) => sent.s \in {"IAm", "IHave"}
  <1>1. ASSUME NEW x \in Leftover0
        PROVE  Heard(a[2])
    BY <1>1, AnswerHeard, Zenon
  <1>2. ASSUME OnItsWay(a[2])
        PROVE  wire # <<>> /\ sent.s \in {"IAm", "IHave"}
    <2>1. PICK x \in Leftover0 : wire = wireOf(a[2], x)
      BY <1>2, Zenon DEF OnItsWay
    <2>2. Heard(a[2])
      BY <1>1
    <2> QED  BY <1>2, <2>1, <2>2, Zenon DEF Heard, AnswerSent, OnItsWay
  <1>3. ASSUME HasBeenRead(a[2])
        PROVE  Accepted /\ got.f = a[2].f /\ sent.s \in {"IAm", "IHave"}
    <2>1. PICK x \in Leftover0 : got = readFrom(wireOf(a[2], x))
      BY <1>3, Zenon DEF HasBeenRead
    <2>2. Heard(a[2])
      BY <1>1
    <2> QED  BY <1>3, <2>1, <2>2, Zenon DEF Heard, AnswerSent, AnswerFound, HasBeenRead, Accepted
  <1> QED  BY <1>2, <1>3

LEMMA QuestionAtHand ==
    ASSUME Asks(asked)
    PROVE  /\ OnItsWay(asked) => wire # <<>>
           /\ HasBeenRead(asked) => Accepted /\ got.used > 0 /\ answers = answersTo(asked)
           /\ OnItsWay(asked) \/ HasBeenRead(asked) => sent.s \notin {"IAm", "IHave"}
  <1>1. asked.s \in {"WhoIs", "WhoHas"}
    BY Zenon DEF Asks
  <1>2. OnItsWay(asked) => wire # <<>>
    BY QuestionHeard, Zenon DEF OnItsWay
  <1>3. ASSUME HasBeenRead(asked)
        PROVE  Accepted /\ got.used > 0 /\ answers = answersTo(asked)
    <2>1. QuestionUnderstood(asked, got) /\ sent = asked
      BY <1>3, QuestionHeard, Zenon DEF HasBeenRead
    <2>2. /\ Accepted /\ got.used > 0 /\ got.net.src = asked.net.src
          /\ asked.s = "WhoIs" => got.f.low = asked.f.low /\ got.f.high = asked.f.high
          /\ asked.s = "WhoHas" => got.f = asked.f
      BY <2>1, Zenon DEF QuestionUnderstood, Accepted
    <2>3. CASE asked.s = "WhoIs"
      <3>1. answers = whoIsAnswers(got.f, got.net.src)
        BY <2>1, <2>2, <2>3 DEF answers
      <3>2. whoIsAnswers(got.f, got.net.src) = whoIsAnswers(asked.f, asked.net.src)
        BY <2>2, <2>3, Zenon DEF whoIsAnswers
      <3> QED  BY <2>2, <2>3, <3>1, <3>2, Zenon DEF answersTo
    <2>4. CASE asked.s = "WhoHas"
      <3>1. answers = whoHasAnswers(got.f, got.net.src)
        BY <2>1, <2>2, <2>4 DEF answers
      <3>2. asked.s # "WhoIs"
        BY <2>4
      <3> QED  BY <2>2, <2>4, <3>1, <3>2, Zenon DEF answersTo
    <2> QED  BY <1>1, <2>3, <2>4
  <1>4. OnItsWay(asked) \/ HasBeenRead(asked) => sent.s \notin {"IAm", "IHave"}
    BY <1>1 DEF OnItsWay, HasBeenRead
  <1> QED  BY <1>2, <1>3, <1>4

LEMMA HearStep ==
    ASSUME ExchangeInv, Hear
    PROVE  ExchangeInv'
  <1>1. /\ Read /\ due' = due /\ asked' = asked /\ wire # <<>>
        /\ heard' = IF got'.verdict = "accepted" /\ sent.s \in {"IAm", "IHave"}
                    THEN heard \cup {got'.f} ELSE heard
    BY Zenon DEF Hear, Read
  <1>2. asked # None /\ asked \in Sent
    BY <1>1, Zenon DEF ExchangeInv, Quiet
  <1>3. ASSUME Asks(asked)
        PROVE  Asking' \/ Answering'
    <2> DEFINE all == answersTo(asked)
    <2>0. all' = all
      BY <1>1, Zenon DEF answersTo
    <2>1. CASE Asking
      <3>1. due = {} /\ heard = {} /\ OnItsWay(asked)
        BY <1>1, <2>1, Zenon DEF Asking, HasBeenRead
      <3>2. HasBeenRead(asked)'
        BY <1>1, <3>1, ReadOne, Zenon DEF HasBeenRead
      <3>3. heard' = {}
        BY <1>1, <1>3, <3>1, QuestionAtHand, Zenon
      <3> QED  BY <1>1, <3>1, <3>2, <3>3, Zenon DEF Asking
    <2>2. CASE Answering
      <3>1. due \subseteq all
        BY <2>2, Zenon DEF Answering
      <3>2. PICK a \in all \ due : OnItsWay(a[2]) /\ heard = fieldsOf((all \ due) \ {a})
        BY <1>1, <2>2, Zenon DEF Answering, HasBeenRead
      <3>3. HasBeenRead(a[2])'
        BY <1>1, <3>2, ReadOne, Zenon
      <3>4. got'.verdict = "accepted" /\ got'.f = a[2].f /\ sent.s \in {"IAm", "IHave"}
        <4>1. PICK x \in Leftover0 : wire = wireOf(a[2], x) /\ sent = a[2]
          BY <3>2, Zenon DEF OnItsWay
        <4>2. Heard(a[2])
          BY <1>3, <3>2, AnswerHeard, Zenon
        <4>3. got' = readFrom(wire)
          BY <1>1, <3>2, ReadOne, Zenon
        <4> QED  BY <4>1, <4>2, <4>3, Zenon DEF Heard, AnswerSent, AnswerFound
      <3>5. heard' = heard \cup {a[2].f}
        BY <1>1, <3>4, Zenon
      <3> DEFINE said == all \ due
      <3>6. a \in said
        BY <3>2
      <3> HIDE DEF said
      <3>7. fieldsOf(said \ {a}) \cup {a[2].f} = fieldsOf(said)
        BY <3>6 DEF fieldsOf
      <3>8. heard' = fieldsOf(all \ due)
        BY <3>2, <3>5, <3>7, Zenon DEF said
      <3> HIDE DEF all
      <3> QED  BY <1>1, <2>0, <3>1, <3>2, <3>3, <3>8, Zenon DEF Answering, all
    <2> QED  BY <1>3, <2>1, <2>2, Zenon DEF ExchangeInv
  <1>4. Asks(asked)' => Asks(asked)
    BY <1>1, AsksStays, Zenon
  <1> QED  BY <1>1, <1>2, <1>3, <1>4, Zenon DEF ExchangeInv

LEMMA HandleStep ==
    ASSUME ExchangeInv, Handle
    PROVE  ExchangeInv'
  <1>1. /\ sent # None /\ wire = <<>> /\ wire' = wire /\ sent' = None /\ got' = Unread
        /\ due' = due \cup answers
        /\ IF due' = {} THEN asked' = None /\ heard' = {} ELSE asked' = asked /\ heard' = heard
    BY Zenon DEF Handle, Release
  <1>2. asked # None /\ asked \in Sent
    BY <1>1, Zenon DEF ExchangeInv, Quiet
  <1>3. CASE due' = {}
    <2>1. asked' = None /\ Quiet'
      BY <1>1, <1>3, Zenon DEF Quiet
    <2>2. ~Asks(asked)'
      BY <2>1, NoQuestion, AsksStays, Zenon
    <2> QED  BY <2>1, <2>2, Zenon DEF ExchangeInv
  <1>4. CASE due' # {}
    <2>1. asked' = asked /\ heard' = heard
      BY <1>1, <1>4, Zenon
    <2>2. ASSUME Asks(asked)
          PROVE  Answering'
      <3> DEFINE all == answersTo(asked)
      <3>0. all' = all
        BY <2>1, Zenon DEF answersTo
      <3>1. CASE Asking
        <4>1. due = {} /\ heard = {} /\ HasBeenRead(asked)
          BY <1>1, <2>2, <3>1, QuestionAtHand, Zenon DEF Asking
        <4>2. answers = all
          BY <2>2, <4>1, QuestionAtHand, Zenon
        <4> HIDE DEF all
        <4>3. due' = all
          BY <1>1, <4>1, <4>2
        <4>4. heard' = fieldsOf(all \ due')
          BY <2>1, <4>1, <4>3 DEF fieldsOf
        <4> QED  BY <1>1, <3>0, <4>3, <4>4, Zenon DEF Answering, all
      <3>2. CASE Answering
        <4>1. PICK a \in all \ due : HasBeenRead(a[2]) /\ heard = fieldsOf(all \ due) /\ due \subseteq all
          BY <1>1, <2>2, <3>2, AnswerAtHand, Zenon DEF Answering
        <4>2. sent.s \in {"IAm", "IHave"}
          BY <2>2, <4>1, AnswerAtHand, Zenon
        <4>3. answers = {}
          BY <4>2 DEF answers
        <4>4. due' = due
          BY <1>1, <4>3
        <4> HIDE DEF all
        <4>5. heard' = fieldsOf(all \ due') /\ due' \subseteq all
          BY <2>1, <4>1, <4>4, Zenon
        <4> QED  BY <1>1, <3>0, <4>5, Zenon DEF Answering, all
      <3> QED  BY <2>2, <3>1, <3>2, Zenon DEF ExchangeInv
    <2>3. Asks(asked)' => Asks(asked)
      BY <2>1, AsksStays, Zenon
    <2> QED  BY <1>2, <2>1, <2>2, <2>3, Zenon DEF ExchangeInv
  <1> QED  BY <1>3, <1>4

LEMMA ExchangeStep == ExchangeInv /\ [AllNext]_allVars => ExchangeInv'
  <1> SUFFICES ASSUME ExchangeInv, [AllNext]_allVars
               PROVE  ExchangeInv'
    OBVIOUS
  <1>1. ASSUME UNCHANGED allVars
        PROVE  ExchangeInv'
    <2>1. /\ sent' = sent /\ wire' = wire /\ got' = got
          /\ due' = due /\ asked' = asked /\ heard' = heard
      BY <1>1, Zenon DEF allVars, vars
    <2>2. Asks(asked)' <=> Asks(asked)
      BY <2>1, AsksStays, Zenon
    <2>3. Asking' <=> Asking
      BY <2>1, Zenon DEF Asking, OnItsWay, HasBeenRead
    <2>4. Answering' <=> Answering
      BY <2>1, Zenon DEF Answering, answersTo, OnItsWay, HasBeenRead
    <2> QED  BY <2>1, <2>2, <2>3, <2>4, Zenon DEF ExchangeInv, Quiet
  <1> QED  BY <1>1, AskStep, AnswerStep, HearStep, HandleStep, Zenon DEF AllNext

-----------------------------------------------------------------------------
(* The answers are the right ones.                                         *)

Below == {p \in Nat \X Nat : p[1] < p[2]}

\* A set of numbers has a least one.
LEMMA LeastNumber ==
    ASSUME NEW S \in SUBSET Nat, S # {}
    PROVE  \E m \in S : \A n \in S : m <= n
  <1>1. IsWellFoundedOn(Below, Nat)
    BY NatLessThanWellFounded, Zenon DEF OpToRel, Below
  <1>2. \E m \in S : \A n \in S : <<n, m>> \notin Below
    BY <1>1, WFMin
  <1>3. PICK m \in S : \A n \in S : <<n, m>> \notin Below
    BY <1>2
  <1>4. ASSUME NEW n \in S
        PROVE  m <= n
    <2>1. <<n, m>> \in Nat \X Nat /\ <<n, m>>[1] = n /\ <<n, m>>[2] = m
      OBVIOUS
    <2>2. ~(n < m)
      BY <1>3, <2>1 DEF Below
    <2> QED  BY <2>2
  <1> QED  BY <1>4

LEMMA NumberNamesObject ==
    ASSUME NEW u \in ObjectIds, NEW v \in ObjectIds
    PROVE  /\ objIdNum(u) \in Nat
           /\ objIdNum(u) = objIdNum(v) => u = v
  <1> DEFINE a == u[1]
             b == u[2]
             c == v[1]
             d == v[2]
  <1>1. /\ a \in 0..1023 /\ b \in 0..InvalidInstanceNumber /\ u = <<a, b>>
        /\ c \in 0..1023 /\ d \in 0..InvalidInstanceNumber /\ v = <<c, d>>
    <2>1. u \in (0..1023) \X (0..InvalidInstanceNumber) /\ v \in (0..1023) \X (0..InvalidInstanceNumber)
      BY Zenon DEF ObjectIds
    <2> QED  BY <2>1, PairOf
  <1> HIDE DEF a, b, c, d
  <1>i. InvalidInstanceNumber \in Int
    BY InvalidNumber, Zenon
  <1>j. InvalidInstanceNumber = 4194303
    BY SMT DEF InvalidInstanceNumber
  <1>n. /\ a \in Nat /\ c \in Nat
        /\ b \in Nat /\ b <= InvalidInstanceNumber /\ d \in Nat /\ d <= InvalidInstanceNumber
    BY <1>1, <1>i, SMT
  <1>2. a \in Nat /\ b \in Nat /\ b < 4194304 /\ c \in Nat /\ d \in Nat /\ d < 4194304
    BY <1>j, <1>n, SMT
  <1>3. objIdNum(u) = 4194304 * a + b /\ objIdNum(v) = 4194304 * c + d
    BY SMT DEF objIdNum, a, b, c, d
  <1>4. objIdNum(u) \in Nat
    BY <1>2, <1>3, SMT
  <1>5. objIdNum(u) = objIdNum(v) => a = c /\ b = d
    BY <1>2, <1>3, SMT
  <1> QED  BY <1>1, <1>4, <1>5, Zenon

LEMMA DeviceNumber ==
    ASSUME NEW k \in DOMAIN Devices
    PROVE  Devices[k].instance \in Nat
  <1>1. Devices[k] \in Device0
    BY DevicesAssumption
  <1>2. Devices[k].instance \in 0..InvalidInstanceNumber
    BY <1>1 DEF Device0
  <1>3. InvalidInstanceNumber \in Int
    BY InvalidNumber, Zenon
  <1> QED  BY <1>2, <1>3, SMT

LEMMA WhoIsAnswered ==
    ASSUME Asks(asked), asked.s = "WhoIs", heard = fieldsOf(answersTo(asked))
    PROVE  AnsweredRight(asked.f)
  <1> DEFINE f == asked.f
             r == asked.net.src
             wanted == {d \in ToSet(Devices) :
                           "low" \in DOMAIN f => d.instance \in f.low[1] .. f.high[1]}
  <1>1. "low" \in DOMAIN f /\ f.low[1] \in Nat /\ f.high[1] \in Nat
    <2>1. {"low", "high"} \subseteq DOMAIN f
      BY SMT DEF Asks, Carried, Required
    <2>2. Limit(f.low) /\ Limit(f.high)
      BY <2>1, Zenon DEF Asks, Question
    <2> QED  BY <2>1, <2>2, SMT DEF Limit
  <1>2. \A k \in DOMAIN Devices : Devices[k].instance \in Nat
    BY DeviceNumber, Zenon
  <1>3. \A d : d \in ToSet(Devices) <=> \E k \in DOMAIN Devices : d = Devices[k]
    BY DEF ToSet
  <1>4. \A k \in DOMAIN Devices :
           Devices[k] \in wanted <=> inRange(Devices[k], f.low[1], f.high[1])
    BY <1>1, <1>2, <1>3 DEF inRange
  <1>5. heard = fieldsOf(whoIsAnswers(f, r))
    BY Zenon DEF answersTo
  <1> DEFINE J == {j \in DOMAIN Devices : inRange(Devices[j], f.low[1], f.high[1])}
  <1>6. \A a : a \in whoIsAnswers(f, r) <=> \E k \in J : a = <<k, iAmOf(Devices[k], r)>>
    BY Zenon DEF whoIsAnswers
  <1>7. \A k : <<k, iAmOf(Devices[k], r)>>[2].f.dev = deviceId(Devices[k])
    BY SMT DEF iAmOf, unconfirmed
  <1>8. {h.dev : h \in heard} = {deviceId(d) : d \in wanted}
    <2>1. ASSUME NEW h \in heard
          PROVE  \E d \in wanted : h.dev = deviceId(d)
      <3>1. PICK a \in whoIsAnswers(f, r) : h = a[2].f
        BY <1>5, Zenon DEF fieldsOf
      <3>2. PICK k \in J : a = <<k, iAmOf(Devices[k], r)>>
        BY <1>6, Zenon
      <3>3. k \in DOMAIN Devices /\ Devices[k] \in wanted
        <4> HIDE DEF wanted
        <4> QED  BY <1>4, <3>2
      <3> HIDE DEF wanted, J
      <3> QED  BY <1>7, <3>1, <3>2, <3>3, Zenon
    <2>2. ASSUME NEW d \in wanted
          PROVE  \E h \in heard : h.dev = deviceId(d)
      <3>1. PICK k \in DOMAIN Devices : d = Devices[k]
        BY <1>3, Zenon
      <3>2. k \in J
        <4> HIDE DEF wanted
        <4> QED  BY <1>4, <3>1
      <3> HIDE DEF wanted, J
      <3>3. <<k, iAmOf(Devices[k], r)>> \in whoIsAnswers(f, r)
        BY <1>6, <3>2, Zenon
      <3>4. <<k, iAmOf(Devices[k], r)>>[2].f \in heard
        BY <1>5, <3>3, Zenon DEF fieldsOf
      <3> QED  BY <1>7, <3>1, <3>4, Zenon
    <2> HIDE DEF wanted
    <2> QED  BY <2>1, <2>2
  <1> QED  BY <1>8, Zenon DEF AnsweredRight

\* The objects of a device that a question is about, and what an answer says of one.
havingOf(f, k) ==
    {o \in childObjects(Devices[k]) : searched(f, Devices[k]) /\ isSearched(f, o)}
saidOf(k, o) == [dev |-> deviceId(Devices[k]), obj |-> o.id, name |-> objectName(o)]
FirstOf(f, k, o) ==
    /\ \A j \in DOMAIN Devices : j < k => havingOf(f, j) = {}
    /\ \A p \in havingOf(f, k) : objIdNum(o.id) <= objIdNum(p.id)

FirstAnswer(f, r, a, k, o) == FirstOf(f, k, o) /\ a = <<k, iHaveOf(Devices[k], o, r)>>

LEMMA WhoHasAnswersAre ==
    ASSUME NEW f, NEW r, NEW a
    PROVE  a \in whoHasAnswers(f, r) <=>
             \E k \in DOMAIN Devices : \E o \in havingOf(f, k) : FirstAnswer(f, r, a, k, o)
  <1> DEFINE first(k) == {o \in havingOf(f, k) : FirstOf(f, k, o)}
             of(k) == {<<k, iHaveOf(Devices[k], o, r)>> : o \in first(k)}
  <1>1. whoHasAnswers(f, r) = UNION {of(k) : k \in DOMAIN Devices}
    BY Zenon DEF whoHasAnswers, havingOf, FirstOf
  <1>2. a \in UNION {of(k) : k \in DOMAIN Devices} <=> \E k \in DOMAIN Devices : a \in of(k)
    <2> HIDE DEF of
    <2> QED  OBVIOUS
  <1>3. \A k : a \in of(k) <=> \E o \in havingOf(f, k) : FirstAnswer(f, r, a, k, o)
    BY Zenon DEF FirstAnswer
  <1> HIDE DEF of
  <1> QED  BY <1>1, <1>2, <1>3, Zenon

LEMMA SaidIs ==
    ASSUME NEW k, NEW o, NEW r
    PROVE  <<k, iHaveOf(Devices[k], o, r)>>[2].f = saidOf(k, o)
  BY SMT DEF iHaveOf, unconfirmed, saidOf

LEMMA HavingId ==
    ASSUME NEW f, NEW k \in DOMAIN Devices, NEW o \in havingOf(f, k)
    PROVE  o \in childObjects(Devices[k]) /\ o.id \in ObjectIds
  <1>1. Devices[k] \in Device0
    BY DevicesAssumption
  <1>2. o \in childObjects(Devices[k])
    BY DEF havingOf
  <1> QED  BY <1>1, <1>2, ChildId

\* There is one first object, if there is any.
LEMMA FirstExists ==
    ASSUME NEW f, NEW i \in DOMAIN Devices, havingOf(f, i) # {}
    PROVE  \E k \in DOMAIN Devices : \E o \in havingOf(f, k) : FirstOf(f, k, o)
  <1> DEFINE K == {k \in DOMAIN Devices : havingOf(f, k) # {}}
  <1>1. DOMAIN Devices \subseteq Nat
    <2>1. DOMAIN Devices = 1..Len(Devices) /\ Len(Devices) \in Nat
      BY DevicesAssumption, LenProperties, Zenon
    <2> QED  BY <2>1, SMT
  <1>2. PICK k \in K : \A j \in K : k <= j
    <2>1. K \in SUBSET Nat /\ K # {}
      BY <1>1
    <2> HIDE DEF K
    <2> QED  BY <2>1, LeastNumber, Zenon
  <1>3. k \in DOMAIN Devices /\ havingOf(f, k) # {}
    BY <1>2
  <1>4. ASSUME NEW j \in DOMAIN Devices, j < k
        PROVE  havingOf(f, j) = {}
    <2>1. j \in Nat /\ k \in Nat
      BY <1>1, <1>3
    <2>2. ~(k <= j)
      BY <1>4, <2>1
    <2>3. j \notin K
      <3> HIDE DEF K
      <3> QED  BY <1>2, <2>2, Zenon
    <2> QED  BY <2>3
  <1> DEFINE N == {objIdNum(p.id) : p \in havingOf(f, k)}
  <1>5. PICK n \in N : \A j \in N : n <= j
    <2>1. \A p \in havingOf(f, k) : objIdNum(p.id) \in Nat
      BY <1>3, HavingId, NumberNamesObject, Zenon
    <2>2. N \in SUBSET Nat /\ N # {}
      BY <1>3, <2>1
    <2> HIDE DEF N
    <2> QED  BY <2>2, LeastNumber, Zenon
  <1>6. PICK o \in havingOf(f, k) : n = objIdNum(o.id)
    BY <1>5, Zenon
  <1>7. \A p \in havingOf(f, k) : objIdNum(o.id) <= objIdNum(p.id)
    BY <1>5, <1>6, Zenon
  <1> QED  BY <1>3, <1>4, <1>6, <1>7, Zenon DEF FirstOf

LEMMA FirstIsOne ==
    ASSUME NEW f, NEW k \in DOMAIN Devices, NEW o \in havingOf(f, k), FirstOf(f, k, o),
           NEW j \in DOMAIN Devices, NEW p \in havingOf(f, j), FirstOf(f, j, p)
    PROVE  k = j /\ o = p
  <1>1. k \in Nat /\ j \in Nat
    <2>1. DOMAIN Devices = 1..Len(Devices) /\ Len(Devices) \in Nat
      BY DevicesAssumption, LenProperties, Zenon
    <2> QED  BY <2>1, SMT
  <1>2. ~(j < k) /\ ~(k < j)
    BY DEF FirstOf
  <1>3. k = j
    BY <1>1, <1>2, SMT
  <1>4. objIdNum(o.id) <= objIdNum(p.id) /\ objIdNum(p.id) <= objIdNum(o.id)
    BY <1>3, Zenon DEF FirstOf
  <1>5. o.id \in ObjectIds /\ p.id \in ObjectIds
    BY HavingId, Zenon
  <1>6. objIdNum(o.id) \in Nat /\ objIdNum(p.id) \in Nat
    BY <1>5, NumberNamesObject, Zenon
  <1>7. objIdNum(o.id) = objIdNum(p.id)
    BY <1>4, <1>6, SMT
  <1>8. o.id = p.id
    BY <1>5, <1>7, NumberNamesObject, Zenon
  <1>9. o \in childObjects(Devices[k]) /\ p \in childObjects(Devices[k])
    BY <1>3, HavingId, Zenon
  <1> QED  BY <1>3, <1>8, <1>9, DevicesAssumption, Zenon

\* Without a low limit of its own all devices are searched, and otherwise those
\* in the range.
LEMMA SearchedDevices ==
    ASSUME Asks(asked), asked.s = "WhoHas", NEW k \in DOMAIN Devices
    PROVE  searched(asked.f, Devices[k]) <=>
             ("low" \in DOMAIN asked.f =>
                Devices[k].instance \in asked.f.low[1] .. asked.f.high[1])
  <1> DEFINE f == asked.f
  <1>1. CASE "low" \notin DOMAIN f
    BY <1>1, Zenon DEF searched
  <1>2. CASE "low" \in DOMAIN f
    <2>1. f.low # <<InvalidInstanceNumber>>
      BY <1>2, SMT DEF Asks, Understandable
    <2>2. "high" \in DOMAIN f
      BY <1>2, Zenon DEF Asks, Carried
    <2>3. Limit(f.low) /\ Limit(f.high)
      BY <1>2, <2>2, Zenon DEF Asks, Question
    <2>4. f.low[1] \in Nat /\ f.high[1] \in Nat
      BY <2>3, SMT DEF Limit
    <2>5. Devices[k].instance \in Nat
      BY DeviceNumber, Zenon
    <2>6. searched(f, Devices[k]) <=> inRange(Devices[k], f.low[1], f.high[1])
      BY <1>2, <2>1, Zenon DEF searched
    <2> DEFINE i == Devices[k].instance
               a == f.low[1]
               b == f.high[1]
    <2>7. inRange(Devices[k], a, b) <=> a <= i /\ i <= b
      BY Zenon DEF inRange
    <2>8. a \in Nat /\ b \in Nat /\ i \in Nat
      BY <2>4, <2>5
    <2> HIDE DEF i, a, b
    <2>9. i \in a..b <=> a <= i /\ i <= b
      BY <2>8, SMT
    <2> QED  BY <1>2, <2>6, <2>7, <2>9, Zenon DEF i, a, b
  <1> QED  BY <1>1, <1>2

LEMMA WhoHasAnswered ==
    ASSUME Asks(asked), asked.s = "WhoHas", heard = fieldsOf(answersTo(asked))
    PROVE  AnsweredRight(asked.f)
  <1> DEFINE f == asked.f
             r == asked.net.src
             wanted == {d \in ToSet(Devices) :
                           "low" \in DOMAIN f => d.instance \in f.low[1] .. f.high[1]}
             having == UNION {{[dev |-> deviceId(d), obj |-> o.id, name |-> objectName(o)] :
                                  o \in {p \in childObjects(d) : isSearched(f, p)}} : d \in wanted}
  <1>0. asked.s # "WhoIs"
    OBVIOUS
  <1>1. heard = fieldsOf(whoHasAnswers(f, r))
    BY <1>0, Zenon DEF answersTo
  <1>2. \A d : d \in wanted <=> \E k \in DOMAIN Devices : d = Devices[k] /\ searched(f, Devices[k])
    <2>1. \A d : d \in ToSet(Devices) <=> \E k \in DOMAIN Devices : d = Devices[k]
      BY DEF ToSet
    <2> QED  BY <2>1, SearchedDevices, Zenon
  <1>3. \A h : h \in having <=> \E k \in DOMAIN Devices : \E o \in havingOf(f, k) : h = saidOf(k, o)
    <2> HIDE DEF wanted
    <2> DEFINE is(h, d, o) == h = [dev |-> deviceId(d), obj |-> o.id, name |-> objectName(o)]
               said(h, k, o) == h = saidOf(k, o)
               of(d) == {[dev |-> deviceId(d), obj |-> o.id, name |-> objectName(o)] :
                            o \in {p \in childObjects(d) : isSearched(f, p)}}
    <2>1. \A h, d : h \in of(d) <=> \E o \in childObjects(d) : isSearched(f, o) /\ is(h, d, o)
      BY Zenon
    <2>2. \A h, k, o : said(h, k, o) <=> is(h, Devices[k], o)
      BY Zenon DEF saidOf
    <2>3. \A h : h \in having <=> \E d \in wanted : h \in of(d)
      <3>1. having = UNION {of(d) : d \in wanted}
        BY Zenon
      <3> HIDE DEF of, having
      <3> QED  BY <3>1
    <2> HIDE DEF of, is, said, having
    <2>4. \A h : h \in having <=> \E k \in DOMAIN Devices :
                                   searched(f, Devices[k]) /\ h \in of(Devices[k])
      BY <1>2, <2>3, ZenonT(40)
    <2>5. \A k, o : o \in havingOf(f, k) <=>
                    o \in childObjects(Devices[k]) /\ searched(f, Devices[k]) /\ isSearched(f, o)
      BY Zenon DEF havingOf
    <2>6. ASSUME NEW k, NEW h
          PROVE  searched(f, Devices[k]) /\ h \in of(Devices[k])
                 <=> \E o \in havingOf(f, k) : said(h, k, o)
      <3>1. ASSUME searched(f, Devices[k]), h \in of(Devices[k])
            PROVE  \E o \in havingOf(f, k) : said(h, k, o)
        <4>1. PICK o \in childObjects(Devices[k]) : isSearched(f, o) /\ is(h, Devices[k], o)
          BY <2>1, <3>1, Zenon
        <4>2. o \in havingOf(f, k) /\ said(h, k, o)
          BY <2>2, <2>5, <3>1, <4>1, Zenon
        <4> QED  BY <4>2
      <3>2. ASSUME NEW o \in havingOf(f, k), said(h, k, o)
            PROVE  searched(f, Devices[k]) /\ h \in of(Devices[k])
        BY <2>1, <2>2, <2>5, <3>2, Zenon
      <3> QED  BY <3>1, <3>2, Zenon
    <2>7. \A h : h \in having <=> \E k \in DOMAIN Devices : \E o \in havingOf(f, k) : said(h, k, o)
      BY <2>4, <2>6, Zenon
    <2> QED  BY <2>7, Zenon DEF said
  <1>4. AnsweredRight(f) <=> IF having = {} THEN heard = {} ELSE \E h \in having : heard = {h}
    BY <1>0, Zenon DEF AnsweredRight
  <1> HIDE DEF wanted, having
  <1>5. CASE having = {}
    <2>1. ASSUME NEW a \in whoHasAnswers(f, r)
          PROVE  FALSE
      <3>1. \E k \in DOMAIN Devices : \E o \in havingOf(f, k) : TRUE
        BY <2>1, WhoHasAnswersAre, Zenon
      <3> QED  BY <1>3, <1>5, <3>1
    <2>2. heard = {}
      BY <1>1, <2>1 DEF fieldsOf
    <2> QED  BY <1>4, <1>5, <2>2, Zenon
  <1>6. CASE having # {}
    <2>1. PICK h \in having : TRUE
      BY <1>6
    <2>2. PICK i \in DOMAIN Devices : havingOf(f, i) # {}
      BY <1>3, <2>1
    <2>3. PICK k \in DOMAIN Devices : \E o \in havingOf(f, k) : FirstOf(f, k, o)
      BY <2>2, FirstExists, Zenon
    <2>4. PICK o \in havingOf(f, k) : FirstOf(f, k, o)
      BY <2>3
    <2> DEFINE a == <<k, iHaveOf(Devices[k], o, r)>>
    <2>5. a \in whoHasAnswers(f, r)
      <3>1. FirstAnswer(f, r, a, k, o)
        BY <2>4, Zenon DEF FirstAnswer
      <3> HIDE DEF a
      <3> QED  BY <3>1, WhoHasAnswersAre, Zenon
    <2>6. ASSUME NEW b \in whoHasAnswers(f, r)
          PROVE  b = a
      <3>1. PICK j \in DOMAIN Devices : \E p \in havingOf(f, j) : FirstAnswer(f, r, b, j, p)
        BY <2>6, WhoHasAnswersAre, Zenon
      <3>2. PICK p \in havingOf(f, j) : FirstAnswer(f, r, b, j, p)
        BY <3>1
      <3>4. FirstOf(f, j, p) /\ b = <<j, iHaveOf(Devices[j], p, r)>>
        BY <3>2, Zenon DEF FirstAnswer
      <3>3. k = j /\ o = p
        BY <2>4, <3>4, FirstIsOne, Zenon
      <3> QED  BY <3>3, <3>4, Zenon
    <2>7. a[2].f = saidOf(k, o)
      BY SaidIs, Zenon
    <2> HIDE DEF a
    <2>8. heard = {saidOf(k, o)}
      BY <1>1, <2>5, <2>6, <2>7 DEF fieldsOf
    <2>9. saidOf(k, o) \in having
      BY <1>3, <2>4, Zenon
    <2> QED  BY <1>4, <1>6, <2>8, <2>9, Zenon
  <1> QED  BY <1>5, <1>6

\* When all answers have been read, what was heard is what the devices had to say.
LEMMA AllHeard ==
    ASSUME ExchangeInv, Asks(asked), AllRead
    PROVE  heard = fieldsOf(answersTo(asked))
  <1>1. got.verdict # "none" /\ due = {} /\ answers = {}
    BY DEF AllRead
  <1>2. got # Unread
    BY <1>1, Unopened
  <1>3. CASE Asking
    <2>1. HasBeenRead(asked) /\ heard = {}
      BY <1>2, <1>3, Zenon DEF Asking, OnItsWay
    <2>2. answersTo(asked) = {}
      BY <1>1, <2>1, QuestionAtHand, Zenon
    <2> QED  BY <2>1, <2>2 DEF fieldsOf
  <1>4. CASE Answering
    <2> DEFINE all == answersTo(asked)
    <2>1. heard = fieldsOf(all \ due)
      BY <1>2, <1>4, Zenon DEF Answering, OnItsWay
    <2> HIDE DEF all
    <2>2. all \ due = all
      BY <1>1
    <2> QED  BY <2>1, <2>2, Zenon DEF all
  <1> QED  BY <1>3, <1>4, Zenon DEF ExchangeInv

\* Whoever asks for devices or for an object hears, when all answers are read,
\* of exactly the devices asked for, or of one that has the object, whatever
\* devices there are and whatever the buffer held.
THEOREM QuestionsAlwaysAnswered == AllSpec => []QuestionsAnswered
  <1>1. ASSUME ExchangeInv
        PROVE  QuestionsAnswered
    <2> SUFFICES ASSUME AllRead, asked.s \in {"WhoIs", "WhoHas"}, Carried(asked), Understandable(asked)
                 PROVE  AnsweredRight(asked.f)
      BY Zenon DEF QuestionsAnswered
    <2>1. asked # None
      <3>1. None.s = "None"
        BY SMT DEF None
      <3> QED  BY <3>1
    <2>2. asked \in Sent
      BY <1>1, <2>1, Zenon DEF ExchangeInv
    <2>3. WellFormed(asked) /\ Question(asked.f)
      BY <2>2, SentAssumption, QuestionAssumption
    <2>4. Asks(asked)
      BY <2>3, Zenon DEF Asks
    <2>5. heard = fieldsOf(answersTo(asked))
      BY <1>1, <2>4, AllHeard, Zenon
    <2> QED  BY <2>4, <2>5, WhoIsAnswered, WhoHasAnswered
  <1> QED  BY <1>1, ExchangeInit, ExchangeStep, PTL DEF AllSpec
=============================================================================
