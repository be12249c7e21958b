----------------------------- MODULE Conversion -----------------------------
(***************************************************************************)
(* Values on their way between the data model and its observers: the types *)
(* of values, and the converters an observer may have, which change a      *)
(* subject's value for the observer and a written value for the subject.   *)
(*                                                                         *)
(* A value is a type and a number, which is not negative.  Two things are  *)
(* left out: the fraction of a float, and the length of a bit array, which *)
(* is taken to be that of the mask it was read through.                    *)
(***************************************************************************)
EXTENDS Integers, SequencesExt

Null == -1      \* a variant that has a type and was never set
Failed == -2    \* a conversion that was refused
NumberOf(n) == IF n = Null THEN 0 ELSE n

\* The variant type that toInternal() gives for each class.
VariantOf ==
    "Null" :> "invalid" @@ "Boolean" :> "bool" @@ "Unsigned" :> "uint"
    @@ "Signed" :> "int" @@ "Real" :> "float" @@ "Double" :> "double"
    @@ "OctetString" :> "bytearray" @@ "CharacterString" :> "string"
    @@ "BitString" :> "bitarray" @@ "Enumerated" :> "uint"
    @@ "Date" :> "date" @@ "Time" :> "time" @@ "ObjectId" :> "uint"

VariantTypes == {VariantOf[c] : c \in DOMAIN VariantOf} \ {"invalid"}
Numeric == {"bool", "uint", "int", "float", "double"}

\* QVariant::convert() as far as it does not depend on a text.
Convertible(from, to) ==
    \/ from = to
    \/ from \in Numeric /\ to \in Numeric \cup {"string", "bytearray"}
    \/ {from, to} = {"string", "bytearray"}
    \/ from \in {"date", "time"} /\ to = "string"
Converted(n, to) == IF to = "bool" /\ n > 0 THEN 1 ELSE n

\* setInternal(): may an object of the class be given this variant?
Accepts(class, variant) == Convertible(variant, VariantOf[class])

-----------------------------------------------------------------------------
(* The converters. *)

\* PropertyUniversalConverter::convertFromOneToTwohelper
Universal(n, from, to) ==
    IF n # Null /\ Convertible(from, to) THEN Converted(n, to) ELSE Failed

\* PropertyScalerConverter::fromOneToTwo_helper with the factor num / den; its
\* result is rounded to the nearest whole number, a half upwards, as convert()
\* does for the types of whole numbers.
Scaled(n, from, to, num, den) ==
    CASE n = Null \/ ~ Convertible(from, "double") \/ ~ Convertible("double", to) -> Failed
      [] n # Null /\ Convertible(from, "double") /\ to = "bool" -> Converted(n * num, to)
      [] OTHER -> (2 * n * num + den) \div (2 * den)

\* variantToBitArray and variantFromBitArray: the bits each type has.
Width == "bool" :> 8 @@ "uint" :> 32 @@ "int" :> 32 @@ "bitarray" :> 64
Bit(n, k) == (NumberOf(n) \div 2 ^ (k - 1)) % 2

FromBits(bits, to) ==
    LET add(sum, k) == IF k > Width[to] THEN sum ELSE sum + bits[k] * 2 ^ (k - 1)
    IN Converted(FoldLeftDomain(add, 0, bits), to)

\* PropertyBitmaskConverter::applyMaskWithInValues_helper, the mask's lowest bit
\* first.  Where the mask is set the bit is taken from the value, of which a
\* boolean counts as set throughout, elsewhere from what was there.  Bits above
\* the mask are cleared.
Masked(n, there, from, to, mask) ==
    LET bits == [k \in DOMAIN mask |->
                    CASE mask[k] = 0 -> Bit(there, k)
                      [] mask[k] = 1 /\ from = "bool" -> 1
                      [] OTHER -> Bit(n, k)]
    IN IF {from, to} \subseteq DOMAIN Width THEN FromBits(bits, to) ELSE Failed

-----------------------------------------------------------------------------
(* Observers.  A converter has the type of its observer, a factor if it    *)
(* scales, and a mask if it masks.                                         *)

Unconverted == [kind |-> "none", type |-> "invalid", factor |-> <<>>, mask |-> <<>>]

\* convertFromInternal: what an observer gets to see of a subject's n, or Failed.
FromInternal(conv, n, subject) ==
    CASE conv.kind = "none" -> n
      [] conv.kind = "universal" -> Universal(n, subject, conv.type)
      [] conv.kind = "scaling" ->
             Scaled(n, subject, conv.type, conv.factor[1], conv.factor[2])
      [] conv.kind = "masking" -> Masked(n, 0, subject, conv.type, conv.mask)

\* convertToInternal: what becomes of a written n of type given, on its way to a
\* subject that holds there.
ToInternal(conv, n, given, there, subject) ==
    CASE conv.kind = "none" -> n
      [] conv.kind = "universal" -> Universal(n, given, subject)
      [] conv.kind = "scaling" ->
             Scaled(n, given, subject, conv.factor[2], conv.factor[1])
      [] conv.kind = "masking" -> Masked(n, there, given, subject, conv.mask)
=============================================================================
