---------------------------- MODULE CommandValue ----------------------------
(***************************************************************************)
(* The scalar values commands are called with and their conversions:       *)
(* CommandValue (src/ESPressio_CommandValue.hpp).                          *)
(*                                                                         *)
(* A value is its type and a number.  What a text can be taken for is all  *)
(* that is kept of it, as a type of its own:                               *)
(*   numeral, blank   decimal digits; the same behind a blank              *)
(*   octal            the digits of n behind a zero                        *)
(*   exponent         n, a whole number, in scientific notation            *)
(*   decimal          n.5                                                  *)
(*   word             0 is "false" or "off", 1 is "true" or "on", any      *)
(*                    other number stands for some other text              *)
(*   empty            the empty text                                       *)
(*   nan              the text strtold takes for no number                 *)
(* Of the doubles, "half" is n + 1/2.  Widths are scaled down.             *)
(***************************************************************************)
EXTENDS Integers, FiniteSetsExt

CONSTANTS
  IntegerBits,     \* width of int64_t and uint64_t
  DoubleBits,      \* significant bits of double
  LongDoubleBits,  \* significant bits of long double
  ScientificFrom   \* the whole numbers "%.17g" prints with an exponent

ASSUME ValueAssumption ==
  /\ {IntegerBits, DoubleBits, LongDoubleBits, ScientificFrom} \subseteq Nat \ {0}
  /\ DoubleBits <= LongDoubleBits

\* 2^e.
TwoTo[e \in Nat] == IF e = 0 THEN 1 ELSE 2 * TwoTo[e - 1]

Signed   == -TwoTo[IntegerBits - 1] .. TwoTo[IntegerBits - 1] - 1
Unsigned == 0 .. TwoTo[IntegerBits] - 1

Texts == {"numeral", "blank", "octal", "exponent", "decimal", "word", "empty", "nan"}

Magnitude(n) == IF n < 0 THEN -n ELSE n

\* The floating-point number next to n; of two, the one with an even significand.
Rounded(n, bits) ==
  LET d    == Min({TwoTo[e] : e \in {k \in 0 .. IntegerBits : Magnitude(n) <= TwoTo[bits + k]}})
      q    == n \div d
      rest == 2 * (n % d)
  IN  d * (q + IF rest > d \/ (rest = d /\ q % 2 = 1) THEN 1 ELSE 0)

Long(n) == Rounded(n, LongDoubleBits)

\* The values there can be: each type holds what its width allows.
Storable(v) ==
  /\ v.n \in Int
  /\ v.type = "boolean"  => v.n \in {0, 1}
  /\ v.type = "signed"   => v.n \in Signed
  /\ v.type = "unsigned" => v.n \in Unsigned
  /\ v.type = "double"   => /\ Magnitude(v.n) <= TwoTo[DoubleBits + IntegerBits]
                            /\ Rounded(v.n, DoubleBits) = v.n
  /\ v.type = "half"     => Magnitude(2 * v.n + 1) <= TwoTo[DoubleBits]

-----------------------------------------------------------------------------
\* Mutant: a double is printed with too few digits ("%g").
Rendered_ShortDouble(v) ==
  CASE v.type \in {"signed", "unsigned"} -> [type |-> "numeral", n |-> v.n]
    [] v.type = "double"  -> [type |-> "numeral", n |-> Rounded(v.n, DoubleBits - 1)]
    [] v.type = "half"    -> [type |-> "decimal", n |-> v.n]
    [] v.type = "boolean" -> [type |-> "word", n |-> v.n]
    [] v.type = "null"    -> [type |-> "word", n |-> 2]
    [] OTHER -> v

\* CommandValue::ToString, and what serializers are shown of a value (WithCommandValueText).
Rendered(v) ==
  CASE v.type \in {"signed", "unsigned"} -> [type |-> "numeral", n |-> v.n]
    [] v.type = "double" ->
         [type |-> IF Magnitude(v.n) < ScientificFrom THEN "numeral" ELSE "exponent", n |-> v.n]
    [] v.type = "half"    -> [type |-> "decimal", n |-> v.n]
    [] v.type = "boolean" -> [type |-> "word", n |-> v.n]
    [] v.type = "null"    -> [type |-> "word", n |-> 2]
    [] OTHER -> v

(***************************************************************************)
(* As<T> gives one of a set of results, and throws when there is none.     *)
(***************************************************************************)
AsText(v) == IF v.type = "null" THEN {} ELSE {Rendered(v)}

AsBoolean(v) ==
  IF v.type \in {"boolean", "signed", "unsigned", "numeral", "word"} /\ v.n \in {0, 1}
  THEN {v.n = 1} ELSE {}

\* strtoll and strtoull with base 0: a zero in front makes the digits octal, a
\* text that is empty is read to its end, and strtoull negates what follows a "-".
Octal(n) == 8 * (n \div 10) + (n % 10)

Parsed(v, target) ==
  CASE v.type = "empty" -> {0}
    [] v.type = "octal" -> {Octal(v.n)} \cap target
    [] v.type = "blank" /\ v.n < 0 /\ target = Unsigned -> {v.n + TwoTo[IntegerBits]} \cap target
    [] v.type \in {"numeral", "blank"} -> {v.n} \cap target
    [] OTHER -> {}

Whole(v, target) ==
  IF v.type \in {"signed", "unsigned", "boolean", "double"} THEN {v.n} ELSE Parsed(v, target)

\* Mutant: a number that does not fit wraps.
AsInteger_Unchecked(v, target) ==
  {CHOOSE m \in target : (m - n) % TwoTo[IntegerBits] = 0 : n \in Whole(v, target)}

\* Every number is taken through a long double.  One the target cannot hold is
\* cast without a defined result, for which the ends of the target stand.
AsInteger(v, target) ==
  UNION {IF n \in target THEN {n} ELSE {Min(target), Max(target)} :
           n \in {Long(m) : m \in Whole(v, target)} \cap Long(Min(target)) .. Long(Max(target))}

NotANumber == TwoTo[2 * IntegerBits]  \* stands for it, outside of every range

\* A long double, counted in halves.
AsFloating(v) ==
  CASE v.type = "nan" -> {NotANumber}
    [] v.type \in {"half", "decimal"} -> {Long(2 * v.n + 1)}
    [] v.type = "empty" -> {0}
    [] v.type \in {"null", "word"} -> {}
    [] OTHER -> {2 * Long(v.n)}

Kinds == {"Boolean", "SignedInteger", "UnsignedInteger", "FloatingPoint", "String"}

As(kind, v) ==
  CASE kind = "Boolean"         -> AsBoolean(v)
    [] kind = "SignedInteger"   -> AsInteger(v, Signed)
    [] kind = "UnsignedInteger" -> AsInteger(v, Unsigned)
    [] kind = "FloatingPoint"   -> AsFloating(v)
    [] kind = "String"          -> AsText(v)

=============================================================================
