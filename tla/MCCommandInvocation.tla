------------------------ MODULE MCCommandInvocation -------------------------
(* Instances of CommandInvocation for TLC. *)
EXTENDS CommandInvocation

CONSTANT none

V(type, n) == [type |-> type, n |-> n]

plain  == V("word", 3)
dashes == V("word", 4)
MCWords == {plain, dashes}

\* A required parameter; the others are told from it by what they change.
Simple ==
  [keys |-> {1}, kind |-> "String", required |-> TRUE, default |-> none, namedOnly |-> FALSE,
   range |-> <<>>, choices |-> {}, vetoes |-> {}, explained |-> TRUE]

\* Parameters of every kind a binding can treat differently.
MCParameters ==
  {Simple,
   [Simple EXCEPT !.keys = {2, 3}, !.choices = {plain}],
   [Simple EXCEPT !.keys = {2}, !.required = FALSE, !.default = plain],
   [Simple EXCEPT !.keys = {1}, !.required = FALSE, !.default = dashes, !.choices = {plain}],
   [Simple EXCEPT !.keys = {3}, !.required = FALSE, !.namedOnly = TRUE],
   [Simple EXCEPT !.keys = {1, 3}, !.namedOnly = TRUE, !.vetoes = {plain}, !.explained = FALSE],
   [Simple EXCEPT !.keys = {2}, !.required = FALSE, !.vetoes = {dashes}]}

MCOneParameter == {Simple}

\* One parameter of every kind, with a range where numbers have one.
MCTypedParameters ==
  {[Simple EXCEPT !.kind = k] : k \in Kinds}
    \cup {[Simple EXCEPT !.kind = k, !.range = <<1, 8>>] :
            k \in {"SignedInteger", "UnsignedInteger", "FloatingPoint"}}
    \cup {[Simple EXCEPT !.kind = "SignedInteger", !.choices = {V("numeral", 8)}],
          [Simple EXCEPT !.kind = "FloatingPoint", !.required = FALSE, !.default = V("decimal", 1)]}

\* 64 bits are 5 here, the 53 of a double 3: at both ends of every width.
Ends == {-17, -16, -15, -8, -1, 0, 1, 7, 8, 9, 14, 15, 16, 17, 24, 31, 32}

MCWritten(type) == {V(type, n) : n \in Ends}

MCTexts ==
  MCWritten("numeral") \cup MCWritten("blank")
    \cup {V("octal", n) : n \in {7, 10, 20}} \cup {V("exponent", n) : n \in {16, 32}}
    \cup {V("decimal", n) : n \in {-1, 1, 8, 15, 16}} \cup {V("word", n) : n \in 0 .. 3}
    \cup {V("empty", 0), V("nan", 0)}

MCDoubles == {V("double", n) : n \in {-16, -10, -1, 0, 1, 8, 10, 14, 16, 24, 28, 32}}
               \cup {V("half", n) : n \in {-1, 0, 3}} \cup {V("boolean", n) : n \in {0, 1}}

MCValues ==
  MCTexts \cup MCDoubles \cup {V("null", 0)}
    \cup {V("signed", n) : n \in Ends \cap Signed} \cup {V("unsigned", n) : n \in Ends \cap Unsigned}

Blank ==
  [object |-> TRUE, path |-> "names", command |-> "absent",
   parameters |-> <<>>, named |-> <<>>, positional |-> "absent", items |-> <<>>]

MCItems == MCWritten("number") \cup MCTexts \cup MCDoubles \cup {V("null", 0), V("nested", 0)}

\* Every item in a well-formed document, and one item in every kind of document.
MCDocuments ==
  UNION {{[Blank EXCEPT !.parameters = <<(1 :> v)>>],
          [Blank EXCEPT !.positional = "array", !.items = <<v>>]} : v \in MCItems}
    \cup [object : BOOLEAN, path : {"absent", "names", "empty", "mixed"},
          command : {"absent", "names", "empty", "unclosed"},
          parameters : {<<>>, <<(1 :> V("number", 8))>>}, named : {<<>>, <<(2 :> V("number", 8))>>},
          positional : {"absent", "other"}, items : {<<>>}]

MCRanged == {[Simple EXCEPT !.kind = k, !.range = <<1, 8>>] :
               k \in {"SignedInteger", "UnsignedInteger", "FloatingPoint"}}

=============================================================================
