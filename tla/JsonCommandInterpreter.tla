------------------------ MODULE JsonCommandInterpreter ----------------------
(***************************************************************************)
(* What JsonCommandInterpreter::Parse makes of a document                  *)
(* (src/ESPressio_JsonCommandInterpreter.hpp).                             *)
(*                                                                         *)
(* A document is a record of what Parse asks about: whether the text is a  *)
(* JSON object; its "path" and "command", where a field of another type    *)
(* counts as absent; its "parameters" and "named", each a sequence of at   *)
(* most one map, again empty when the field is of another type; and its    *)
(* "positional", with the items of it.  An item is a value as it is        *)
(* written: "number" is a whole number without fraction and exponent,      *)
(* "nested" an object or an array.                                         *)
(***************************************************************************)
EXTENDS CommandValue, Sequences

\* ArduinoJson keeps a whole number that no 64 bits hold as a double.
Double(n) == [type |-> "double", n |-> Rounded(n, DoubleBits)]

IsScalar(item) == item.type \notin {"null", "nested"}

\* Mutant: ArduinoJson's is<double>() is true of whole numbers too.
ReadScalar_DoubleFirst(item) == IF item.type = "number" THEN Double(item.n) ELSE item

ReadScalar(item) ==
  IF item.type # "number" THEN item
  ELSE IF item.n \in Signed THEN [type |-> "signed", n |-> item.n]
  ELSE IF item.n \in Unsigned THEN [type |-> "unsigned", n |-> item.n]
  ELSE Double(item.n)

\* "parameters" or "named"; Parse refuses both.
Pairs(d) == IF d.parameters \o d.named = <<>> THEN <<>> ELSE (d.parameters \o d.named)[1]

Parses(d) ==
  /\ d.object
  /\ (d.path = "absent") # (d.command = "absent")
  /\ d.path \in {"absent", "names"}      \* not "empty"; not "mixed", strings and others
  /\ d.command \in {"absent", "names"}   \* not "empty"; not "unclosed", a quote or escape
  /\ d.parameters = <<>> \/ d.named = <<>>
  /\ \A k \in DOMAIN Pairs(d) : IsScalar(Pairs(d)[k])
  /\ d.positional \in {"absent", "array"}
  /\ \A i \in DOMAIN d.items : IsScalar(d.items[i])

NamedIn(d) == [k \in DOMAIN Pairs(d) |-> ReadScalar(Pairs(d)[k])]

PositionalIn(d) == [i \in DOMAIN d.items |-> ReadScalar(d.items[i])]

=============================================================================
