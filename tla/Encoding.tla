------------------------------ MODULE Encoding ------------------------------
(***************************************************************************)
(* The octets of a BACnet value: how BacnetCoder and the primitive data    *)
(* classes write a tag, a length and a value, and how BacnetTagParser      *)
(* walks over them.  Messages are sequences of octets; positions count     *)
(* from 1.  The room left in a buffer is not modelled: every message here  *)
(* is far shorter than an APDU.                                            *)
(*                                                                         *)
(* Values are sequences of integers: <<v>> for a number or a Boolean,      *)
(* <<type, instance>> for an object identifier, <<year, month, day,        *)
(* weekday>>, <<hour, minute, second, millisecond>>, the octets of a       *)
(* floating-point number, the characters of a string, the bits of a bit    *)
(* string.  A quint32 above 2^31 - 1 stands as its two's complement.       *)
(***************************************************************************)
EXTENDS Integers, Sequences, SequencesExt

\* The application tag of each type.  "Enum" and "Flag" are an enumerated and
\* a Boolean handled by the service itself, not by their data class, as is the
\* octet string "MacAddress" by Address.
AppTag == [Null |-> 0, Boolean |-> 1, Flag |-> 1, Unsigned |-> 2, Signed |-> 3,
           Real |-> 4, Double |-> 5, OctetString |-> 6, MacAddress |-> 6,
           CharacterString |-> 7, BitString |-> 8, Enumerated |-> 9, Enum |-> 9, Date |-> 10,
           Time |-> 11, ObjectId |-> 12]

-----------------------------------------------------------------------------
(* Integers *)

Octets  == 0..255
Quint16 == 0..65535

\* The weights of the four octets of a quint32, the least one first.
Weight == <<1, 256, 65536, 16777216>>

\* An octet of v, in two's complement: the one with k others below it.
Octet(v, k) == (v \div Weight[k + 1]) % 256

\* A bug: a magnitude of exactly 256^n is given n octets.
WidthShortBy1(v) == LET a == IF v < 0 THEN -v ELSE v
                    IN  CHOOSE n \in 1..4 : /\ n = 4 \/ a <= Weight[n + 1]
                                            /\ n = 1 \/ a > Weight[n]

\* The fewest octets that hold the magnitude of v.
Width(v) == LET a == IF v < 0 THEN -v ELSE v
            IN  CHOOSE n \in 1..4 : /\ n = 4 \/ a < Weight[n + 1]
                                    /\ n = 1 \/ a >= Weight[n]

BigEndian(v, n) == [k \in 1..n |-> Octet(v, n - k)]

uint32ToVarLengthRaw(v) == BigEndian(v, IF v < 0 THEN 4 ELSE Width(v))

\* The sign gets no room of its own: the width is that of the magnitude.
sint32ToVarLengthRaw(v) == BigEndian(v, Width(v))

\* Up to four octets, the last one of weight 1; the top one has the sign.
uint32fromVarLengthRaw(o) ==
    LET nth(k) == IF k <= Len(o) THEN o[Len(o) + 1 - k] ELSE 0
        top    == IF nth(4) >= 128 THEN nth(4) - 256 ELSE nth(4)
    IN  nth(1) + Weight[2] * nth(2) + Weight[3] * nth(3) + Weight[4] * top

\* Four negative octets: -1 << 32 leaves all ones.
sint32fromVarLengthRaw(o) ==
    IF o[1] < 128 THEN uint32fromVarLengthRaw(o)
    ELSE IF Len(o) = 4 THEN -1 ELSE uint32fromVarLengthRaw(o) - Weight[Len(o) + 1]

-----------------------------------------------------------------------------
(* Tags *)

encodeTagAndLength(tag, ctx, len) ==
    LET first  == 16 * (IF tag <= 14 THEN tag ELSE 15) + (IF ctx THEN 8 ELSE 0)
                  + (IF len <= 4 THEN len ELSE 5)
        number == IF tag <= 14 THEN <<>> ELSE <<tag>>
        length == CASE len <= 4 -> <<>>
                    [] len \in 5..253 -> <<len>>
                    [] OTHER -> <<254>> \o BigEndian(len, 2)
    IN  <<first>> \o number \o length

openingTagToRaw(tag) == <<16 * tag + 8 + 6>>
closingTagToRaw(tag) == <<16 * tag + 8 + 7>>

-----------------------------------------------------------------------------
(* Values.  The last argument, old, is what the buffer held before, where   *)
(* the code leaves an octet unwritten or writes into it with |=.           *)

Leftover(n, old) == [k \in 1..n |-> old]

Tagged(tag, ctx, data) == encodeTagAndLength(tag, ctx, Len(data)) \o data

\* Booleans: the data class writes an octet, boolToRaw sets a bit of the octet
\* that is there; an application Boolean has its value in the length field.
booleanToRaw(tag, ctx, v) ==
    IF ctx THEN Tagged(tag, TRUE, v) ELSE <<16 * AppTag.Boolean + v[1]>>
boolToRaw(tag, v, old) ==
    Tagged(tag, TRUE, <<IF v[1] = 1 /\ old % 2 = 0 THEN old + 1 ELSE old>>)

uintToRaw(tag, ctx, v) == Tagged(tag, ctx, uint32ToVarLengthRaw(v[1]))

\* The tag number and the class are passed in each other's place.
sintToRaw(tag, ctx, v) ==
    LET data == sint32ToVarLengthRaw(v[1])
    IN  Tagged(IF ctx THEN 1 ELSE 0, tag # 0, data)

\* The data octets are copied to the offset of their own number.
enumeratedToRaw(tag, ctx, v, old) ==
    LET data == uint32ToVarLengthRaw(v[1])
        n    == Len(data)
        kept == [k \in 1..n |-> IF k < n THEN old ELSE data[1]]
    IN  encodeTagAndLength(tag, ctx, n) \o kept

\* The octet string copies the bytes of Qt's own header instead of its data.
octetStringToRaw(tag, ctx, v, old) == Tagged(tag, ctx, Leftover(Len(v), old))

\* The octets of a letter in each character set: 0 and 5 are ASCII and Latin-1,
\* 4 is UCS-2, 3 is UCS-4; the others are not supported.
letterSize(set) == CASE set \in {0, 5} -> 1 [] set = 4 -> 2 [] set = 3 -> 4 [] OTHER -> 0

\* The length of the string is kept in eight bits.
stringToRaw(tag, ctx, v, set) ==
    LET n == letterSize(set)
        letters == [k \in 1..(n * Len(v)) |-> Octet(v[((k - 1) \div n) + 1], (n * Len(v) - k) % n)]
    IN  Tagged(tag, ctx, <<set>> \o SubSeq(letters, 1, Len(letters) % 256))

\* Bits, most significant first, behind the number of unused ones.
bitOctets(v) ==
    LET n == Len(v)
        bit(i) == IF i <= n THEN v[n + 1 - i] ELSE 0
        octet(k) == FoldLeft(LAMBDA a, j : 2 * a + bit(8 * k - 8 + j), 0, [j \in 1..8 |-> j])
    IN  <<8 - (n % 8)>> \o [k \in 1..((n + 7) \div 8) |-> octet(k)]

bitStringToRaw(tag, ctx, v, old) ==
    LET need == IF v = <<>> THEN 0 ELSE (Len(v) % 8) + 1
        data == SubSeq(bitOctets(v) \o Leftover(need, old), 1, need)
    IN  IF ctx THEN encodeTagAndLength(tag, TRUE, need + 1) \o data
        ELSE Tagged(tag, FALSE, bitOctets(v))

NullToRaw(tag, ctx) == encodeTagAndLength(tag, ctx, 0)
UnsignedIntegerToRaw(tag, ctx, v) == uintToRaw(tag, ctx, v)
SignedIntegerToRaw(tag, ctx, v) == sintToRaw(tag, ctx, v)
RealToRaw(tag, ctx, v) == Tagged(tag, ctx, v)
DoubleToRaw(tag, ctx, v) == Tagged(tag, ctx, v)
CharacterStringToRaw(tag, ctx, v) == stringToRaw(tag, ctx, v, 0)

dateOctets(v) == <<(v[1] - 1900) % 256, v[2], v[3], v[4]>>
\* Tenths of a second are written where hundredths are read.
timeOctets(v) == <<v[1], v[2], v[3], v[4] \div 100>>

objIdToNum(v) == 4194304 * v[1] + v[2]
objectIdentifierToRaw(tag, ctx, v) == Tagged(tag, ctx, BigEndian(objIdToNum(v), 4))

toRaw(type, tag, ctx, v, old) ==
    CASE type = "Null" -> NullToRaw(tag, ctx)
      [] type = "Boolean" -> booleanToRaw(tag, ctx, v)
      [] type = "Flag" -> boolToRaw(tag, v, old)
      [] type = "Unsigned" -> UnsignedIntegerToRaw(tag, ctx, v)
      [] type = "Enum" -> uintToRaw(tag, ctx, v)
      [] type = "Signed" -> SignedIntegerToRaw(tag, ctx, v)
      [] type = "Real" -> RealToRaw(tag, ctx, v)
      [] type = "Double" -> DoubleToRaw(tag, ctx, v)
      [] type = "OctetString" -> octetStringToRaw(tag, ctx, v, old)
      [] type = "CharacterString" -> CharacterStringToRaw(tag, ctx, v)
      [] type = "BitString" -> bitStringToRaw(tag, ctx, v, old)
      [] type = "Enumerated" -> enumeratedToRaw(tag, ctx, v, old)
      [] type = "Date" -> Tagged(tag, ctx, dateOctets(v))
      [] type = "Time" -> Tagged(tag, ctx, timeOctets(v))
      [] type = "ObjectId" -> objectIdentifierToRaw(tag, ctx, v)

-----------------------------------------------------------------------------
(* The parser: where the tag and the value of the element at hand begin,   *)
(* the value's length, the octets left, the element's class and tag        *)
(* number, and what the last call returned.                                *)

setData(at, left) == [at |-> at, val |-> at, len |-> 0, left |-> left,
                      ctx |-> FALSE, tag |-> 0, ret |-> 0]

isOpeningOrClosingTag(first) == (first \div 8) % 2 = 1 /\ first % 8 >= 6

\* The length field: the value's length, the octets it is said to take behind
\* the tag, and the octets taken from the count of those left.
decodeDataLength(o, at) ==
    LET low == o[at] % 8
        ext == at + (IF o[at] \div 16 = 15 THEN 2 ELSE 1)
    IN  CASE isOpeningOrClosingTag(o[at]) -> [len |-> 0, said |-> 0, taken |-> 0]
          [] low < 5 -> [len |-> low, said |-> 0, taken |-> 0]
          [] low = 5 /\ o[ext] < 254 -> [len |-> o[ext], said |-> 1, taken |-> 1]
          [] OTHER -> [len |-> 256 * o[ext + 1] + o[ext + 2], said |-> 2, taken |-> 3]

\* The element that follows.  Without octets left the parser stays where it
\* is, with the tag and the value of the element read before.
parseNext(o, p) ==
    LET at     == p.val + p.len
        long   == o[at] \div 16 = 15
        shift  == IF long THEN 2 ELSE 1
        ctx    == (o[at] \div 8) % 2 = 1
        tag    == IF long THEN o[at + 1] ELSE o[at] \div 16
        length == decodeDataLength(o, at)
        left   == p.left - shift - length.taken
    IN  IF p.left = 0 THEN [p EXCEPT !.ret = 0]
        ELSE IF ~ctx /\ tag <= 1
        THEN [at |-> at, val |-> at, len |-> 1, left |-> p.left - 1,
              ctx |-> FALSE, tag |-> tag, ret |-> 1]
        ELSE IF length.len > left
        THEN [p EXCEPT !.at = at, !.len = length.len, !.left = left,
                       !.ctx = ctx, !.tag = tag, !.ret = -1]
        ELSE [at |-> at, val |-> at + shift + length.said, len |-> length.len,
              left |-> left - length.len, ctx |-> ctx, tag |-> tag,
              ret |-> shift + length.said + length.len]

\* nextTagNumber() finds this context tag ahead.
nextIs(o, p, tag) ==
    LET at == p.val + p.len
    IN  /\ p.left > 0
        /\ (o[at] \div 8) % 2 = 1
        /\ (IF o[at] \div 16 = 15 THEN o[at + 1] ELSE o[at] \div 16) = tag

isContextTag(p, tag) == p.ctx /\ p.tag = tag
isApplicationTag(p, type) == ~p.ctx /\ p.tag = AppTag[type]
isOpeningTag(o, p, tag) == o[p.at] % 8 = 6 /\ isContextTag(p, tag)
isClosingTag(o, p, tag) == o[p.at] % 8 = 7 /\ isContextTag(p, tag)

\* Every context tag passes for any type.
checkCorrectAppOrCtxTag(p, type) == p.ctx \/ p.tag = AppTag[type]

\* The letters of a string; an unsupported set gives none.
toString(data) ==
    LET n == letterSize(data[1])
    IN  IF n = 0 THEN <<>>
        ELSE [k \in 1..((Len(data) - 1) \div n) |->
                 uint32fromVarLengthRaw(SubSeq(data, 2 + n * (k - 1), 1 + n * k))]

toBitArray(data) ==
    LET n == 8 * (Len(data) - 1) - data[1]
    IN  [b \in 1..n |-> (data[2] \div 2^(7 - (n - b))) % 2]

\* The lengths a conversion accepts, and of the character sets those supported.
convertible(type, data) ==
    LET n == Len(data) IN
    CASE type \in {"Boolean", "Flag"} -> n = 1
      [] type \in {"Unsigned", "Signed", "Enumerated", "Enum"} -> n <= 4
      [] type \in {"Date", "Time", "ObjectId"} -> n = 4
      [] type = "Real" -> n = 4
      [] type = "Double" -> n = 8
      [] type = "CharacterString" -> n >= 2 /\ letterSize(data[1]) > 0
      [] type = "BitString" -> n <= 2
      [] OTHER -> TRUE

\* What a to...() conversion of the parser answers.  toFloat() never refuses.
valueOf(type, data) ==
    CASE type = "Null" -> <<>>
      [] type \in {"Boolean", "Flag"} -> <<data[1] % 2>>
      [] type \in {"Unsigned", "Enumerated", "Enum"} -> <<uint32fromVarLengthRaw(data)>>
      [] type = "Signed" -> <<sint32fromVarLengthRaw(data)>>
      [] type = "CharacterString" -> toString(data)
      [] type = "BitString" -> toBitArray(data)
      [] type = "Date" -> <<data[1] + 1900, data[2], data[3], data[4]>>
      [] type = "Time" -> <<data[1], data[2], data[3], 10 * data[4]>>
      [] type = "ObjectId" -> <<4 * data[1] + (data[2] \div 64),
                                65536 * (data[2] % 64) + 256 * data[3] + data[4]>>
      [] OTHER -> data

conversion(rightType, type, data) ==
    IF rightType /\ convertible(type, data) THEN [ok |-> TRUE, v |-> valueOf(type, data)]
    ELSE [ok |-> type = "Real", v |-> IF type = "Real" THEN <<0, 0, 0, 0>> ELSE <<0>>]

converted(o, p, type) ==
    conversion(checkCorrectAppOrCtxTag(p, type), type, SubSeq(o, p.val, p.val + p.len - 1))
=============================================================================
