------------------------- MODULE CommandInvocation --------------------------
(***************************************************************************)
(* One call of CommandRegistry::Invoke (src/ESPressio_Command.hpp) on a    *)
(* node that was found: the tokens behind the path become positional and   *)
(* named arguments (InvokeTokens), or the fields of a JSON document do     *)
(* (JsonCommandInterpreter), or a structured caller brings them along; the *)
(* arguments are bound to the node's parameters, and the command runs      *)
(* inside the chain of middleware (InvokeResolved).                        *)
(*                                                                         *)
(* Middleware, hooks and the command's callback are the application's;     *)
(* each may do whatever its type allows: return a result, throw, and, for  *)
(* middleware, call next any number of times.                              *)
(***************************************************************************)
EXTENDS JsonCommandInterpreter, SequencesExt

CONSTANTS
  Keys,        \* names and aliases of parameters, numbered in their map order
  Words,       \* texts that arguments are made of
  NoValue,     \* the null pointer, and "no default"
  DashText,    \* the value a token that starts with dashes is taken for
  Parameters,  \* the parameter declarations commands are made of
  TypedParameters, Values, Documents,  \* calls of commands with one parameter
  MaxParameters, MaxPositional,     \* bounds on structured calls with texts
  MaxTextParameters, MaxTokens,     \* bounds on text calls
  Layers,      \* number of middleware
  Befores, Afters,  \* number of hooks
  MaxNext      \* bound: how often one activation of a middleware calls next

ASSUME InvocationAssumption ==
  /\ Keys \subseteq Nat
  /\ DashText \in Words /\ NoValue \notin Words \cup Values
  /\ \A v \in Words : v.type \in Texts
  /\ \A v \in Words \cup Values : Storable(v)
  /\ \A p \in Parameters \cup TypedParameters :
       /\ p.keys \subseteq Keys
       /\ p.kind \in Kinds
       /\ \A v \in p.choices \cup p.vetoes \cup ({p.default} \ {NoValue}) :
            v.type \in Texts /\ Storable(v)
       /\ p.range \in Seq(Int) /\ Len(p.range) \in {0, 2}
       /\ {p.required, p.namedOnly, p.explained} \subseteq BOOLEAN
  /\ \A d \in Documents :
       /\ d.items \in Seq({d.items[i] : i \in DOMAIN d.items})
       /\ \A i \in DOMAIN d.items : Storable(d.items[i]) /\ ReadScalar(d.items[i]) # NoValue
       /\ \A k \in DOMAIN Pairs(d) : Storable(Pairs(d)[k])
  /\ {MaxParameters, MaxPositional, MaxTextParameters, MaxTokens} \subseteq Nat
  /\ {Layers, Befores, Afters, MaxNext} \subseteq Nat

VARIABLES
  parameters,  \* node.parameters_
  executable,  \* node.callback_ is set
  form,        \* what the caller hands over: arguments, a text or a document
  line,        \* the tokens behind the path, of a text
  document,    \* the document, in a sequence of at most one
  positional, named,  \* the CommandInvocation
  stage,       \* what Invoke is doing
  at,          \* the token, parameter or hook it has come to
  taken,       \* positionalIndex: positional arguments bound
  bindings,    \* the CommandContext: what each bound parameter was given
  level,       \* number of middleware entered
  nexts,       \* per middleware: how often it called next in this activation
  result,      \* the last result that was returned
  ran,         \* history: hooks After that returned in this run of the command
  failed       \* history: something failed in this run of the command

request  == <<parameters, executable, form, line, document>>
chain    == <<level, nexts, result, ran, failed>>
vars     == <<request, positional, named, stage, at, taken, bindings, chain>>

Tokens ==
  [kind : {"word"}, value : Words]
    \cup [kind : {"option"}, key : Keys]
    \cup [kind : {"assignment"}, key : Keys, value : Words]

Results == {"ok", "error", "thrown"}

\* A command's parameters answer to different names.
Declarations(max) ==
  {s \in UNION {[1 .. n -> Parameters] : n \in 0 .. max} :
     \A i, j \in DOMAIN s : i # j => s[i].keys \cap s[j].keys = {}}

-----------------------------------------------------------------------------
StructuredCall ==
  /\ form = "arguments"
  /\ line = <<>> /\ document = <<>>
  /\ \/ /\ parameters \in Declarations(MaxParameters)
        /\ positional \in UNION {[1 .. n -> Words] : n \in 0 .. MaxPositional}
        /\ named \in UNION {[K -> Words] : K \in SUBSET Keys}
     \/ /\ parameters \in [1 .. 1 -> TypedParameters]
        /\ positional \in [1 .. 1 -> Values]
        /\ named = <<>>
  /\ stage = "binding"

TextCall ==
  /\ parameters \in Declarations(MaxTextParameters)
  /\ form = "text"
  /\ document = <<>>
  /\ line \in UNION {[1 .. n -> Tokens] : n \in 0 .. MaxTokens}
  /\ positional = <<>>
  /\ named = <<>>
  /\ stage = "reading"

JsonCall ==
  /\ form = "document"
  /\ parameters \in [1 .. 1 -> TypedParameters]
  /\ document \in [1 .. 1 -> Documents]
  /\ line = <<>> /\ positional = <<>> /\ named = <<>>
  /\ stage = "reading"

Init ==
  /\ executable \in BOOLEAN
  /\ StructuredCall \/ TextCall \/ JsonCall
  /\ at = 1
  /\ taken = 0
  /\ bindings = <<>>
  /\ level = 0
  /\ nexts = [m \in 1 .. Layers |-> 0]
  /\ result = "none"
  /\ ran = 0
  /\ failed = FALSE

\* Invoke returns an error; nothing of the application's has run.
Refuse ==
  /\ stage' = "refused"
  /\ result' = "error"
  /\ UNCHANGED <<level, nexts, ran, failed>>

-----------------------------------------------------------------------------
(* InvokeTokens: from tokens to arguments.                                 *)

Reading(kind) == stage = "reading" /\ at <= Len(line) /\ line[at].kind = kind

\* Mutant: an option that is given twice keeps its last value.
WithNamed_LastWins(key, value) ==
  [k \in DOMAIN named \cup {key} |-> IF k = key THEN value ELSE named[k]]

\* std::map::emplace: an option that is given twice keeps its first value.
WithNamed(key, value) ==
  [k \in DOMAIN named \cup {key} |-> IF k \in DOMAIN named THEN named[k] ELSE value]

ReadWord ==
  /\ Reading("word")
  /\ positional' = Append(positional, line[at].value)
  /\ at' = at + 1
  /\ UNCHANGED <<request, named, stage, taken, bindings, chain>>

ReadAssignment ==
  /\ Reading("assignment")
  /\ named' = WithNamed(line[at].key, line[at].value)
  /\ at' = at + 1
  /\ UNCHANGED <<request, positional, stage, taken, bindings, chain>>

TextOf(token) == IF token.kind = "word" THEN token.value ELSE DashText

\* An option without "=" takes the next token, whatever that looks like.
ReadOption ==
  /\ Reading("option")
  /\ at < Len(line)
  /\ named' = WithNamed(line[at].key, TextOf(line[at + 1]))
  /\ at' = at + 2
  /\ UNCHANGED <<request, positional, stage, taken, bindings, chain>>

ReadOptionWithoutValue ==
  /\ Reading("option")
  /\ at = Len(line)
  /\ Refuse
  /\ UNCHANGED <<request, positional, named, at, taken, bindings>>

ReadEnd ==
  /\ stage = "reading"
  /\ form = "text"
  /\ at > Len(line)
  /\ stage' = "binding"
  /\ at' = 1
  /\ UNCHANGED <<request, positional, named, taken, bindings, chain>>

\* JsonCommandInterpreter::Invoke.
ReadDocument ==
  /\ stage = "reading"
  /\ form = "document"
  /\ Parses(document[1])
  /\ positional' = PositionalIn(document[1])
  /\ named' = NamedIn(document[1])
  /\ stage' = "binding"
  /\ UNCHANGED <<request, at, taken, bindings, chain>>

RefuseDocument ==
  /\ stage = "reading"
  /\ form = "document"
  /\ ~Parses(document[1])
  /\ Refuse
  /\ UNCHANGED <<request, positional, named, at, taken, bindings>>

-----------------------------------------------------------------------------
(* InvokeResolved: one parameter after the other.                          *)

NamedFor(p) == {k \in DOMAIN named : k \in p.keys}

\* Mutant: a parameter that is given by name uses up a positional argument.
TakesPositional_Always(p) == ~p.namedOnly

\* The parameter looks for its value among the positional arguments.
TakesPositional(p) == ~p.namedOnly /\ NamedFor(p) = {}

\* Where the value of the parameter at hand comes from.
Supplied(p) ==
  IF NamedFor(p) # {} THEN named[Min(NamedFor(p))]
  ELSE IF TakesPositional(p) /\ taken < Len(positional) THEN positional[taken + 1]
  ELSE p.default

\* Range is compared as long doubles; what is no number is on no side of a bound.
InRange(p, x) ==
  p.range # <<>> =>
    CASE p.kind = "FloatingPoint" -> x \in {NotANumber} \cup 2 * p.range[1] .. 2 * p.range[2]
      [] p.kind \in {"SignedInteger", "UnsignedInteger"} -> Long(x) \in p.range[1] .. p.range[2]
      [] OTHER -> TRUE

\* Validate, once the conversion has given x, returns an empty message.  The
\* message of a validator is the application's; an empty one says all is well.
Passes(p, value, x) ==
  /\ InRange(p, x)
  /\ p.choices # {} => Rendered(value) \in p.choices
  /\ Rendered(value) \in p.vetoes => ~p.explained

Binding(p) == stage = "binding" /\ at <= Len(parameters) /\ p = parameters[at]

TakenAfter(p) == IF TakesPositional(p) /\ taken < Len(positional) THEN taken + 1 ELSE taken

BindParameter(p) ==
  /\ Binding(p)
  /\ Supplied(p) # NoValue
  /\ \E x \in As(p.kind, Supplied(p)) : Passes(p, Supplied(p), x)
  /\ bindings' = [i \in DOMAIN bindings \cup {at} |->
                    IF i = at THEN Supplied(p) ELSE bindings[i]]
  /\ taken' = TakenAfter(p)
  /\ at' = at + 1
  /\ UNCHANGED <<request, positional, named, stage, chain>>

BindNothing(p) ==
  /\ Binding(p)
  /\ Supplied(p) = NoValue
  /\ ~p.required
  /\ at' = at + 1
  /\ UNCHANGED <<request, positional, named, stage, taken, bindings, chain>>

RejectParameter(p) ==
  /\ Binding(p)
  /\ IF Supplied(p) = NoValue THEN p.required
     ELSE \/ As(p.kind, Supplied(p)) = {}
          \/ \E x \in As(p.kind, Supplied(p)) : ~Passes(p, Supplied(p), x)
  /\ Refuse
  /\ UNCHANGED <<request, positional, named, at, taken, bindings>>

BindEnd ==
  /\ stage = "binding"
  /\ at > Len(parameters)
  /\ stage' = "checking"
  /\ UNCHANGED <<request, positional, named, at, taken, bindings, chain>>

TooMany == taken < Len(positional)

Unknown == \E k \in DOMAIN named : \A i \in DOMAIN parameters : k \notin parameters[i].keys

Reject ==
  /\ stage = "checking"
  /\ TooMany \/ Unknown \/ ~executable
  /\ Refuse
  /\ UNCHANGED <<request, positional, named, at, taken, bindings>>

-----------------------------------------------------------------------------
(* The chain of middleware and the command inside it.                      *)

\* chain(i): the next middleware is entered or, behind the last, the command.
Enter(i) ==
  IF i < Layers
  THEN /\ stage' = "middleware"
       /\ level' = i + 1
       /\ UNCHANGED <<at, ran, failed>>
  ELSE /\ stage' = "before"
       /\ level' = i
       /\ at' = 1
       /\ ran' = 0
       /\ failed' = FALSE

\* What is done with a call of next that is counted, and with those inside.
Counted(i) ==
  [m \in 1 .. Layers |-> CASE m = i -> nexts[m] + 1 [] m > i -> 0 [] OTHER -> nexts[m]]

Begin ==
  /\ stage = "checking"
  /\ ~(TooMany \/ Unknown \/ ~executable)
  /\ Enter(0)
  /\ UNCHANGED <<request, positional, named, taken, bindings, nexts, result>>

CallNext ==
  /\ stage = "middleware"
  /\ nexts[level] < MaxNext
  /\ nexts' = Counted(level)
  /\ Enter(level)
  /\ UNCHANGED <<request, positional, named, taken, bindings, result>>

\* A middleware returns a result of its own or the one it got, or throws; the
\* middleware around it goes on, or the caller has the result.
MiddlewareReturn ==
  /\ stage = "middleware"
  /\ result' \in Results
  /\ level' = level - 1
  /\ stage' = IF level = 1 THEN "done" ELSE "middleware"
  /\ UNCHANGED <<request, positional, named, at, taken, bindings, nexts, ran, failed>>

\* The lambda "execute" is left with r.
Leave(r) == stage' = "leaving" /\ result' = r

BeforeReturn(r) ==
  /\ stage = "before"
  /\ at <= Befores
  /\ failed' = (r # "ok")
  /\ IF r = "ok" THEN at' = at + 1 /\ UNCHANGED <<stage, result>>
                 ELSE Leave(r) /\ UNCHANGED at
  /\ UNCHANGED <<request, positional, named, taken, bindings, level, nexts, ran>>

BeforeEnd ==
  /\ stage = "before"
  /\ at > Befores
  /\ stage' = "callback"
  /\ UNCHANGED <<request, positional, named, at, taken, bindings, chain>>

CallbackReturn(r) ==
  /\ stage = "callback"
  /\ r # "thrown"
  /\ result' = r
  /\ failed' = (r # "ok")
  /\ stage' = "after"
  /\ at' = 1
  /\ UNCHANGED <<request, positional, named, taken, bindings, level, nexts, ran>>

\* A std::exception becomes an error; anything else leaves Invoke.
CallbackThrow(r) ==
  /\ stage = "callback"
  /\ r # "ok"
  /\ Leave(r)
  /\ failed' = TRUE
  /\ UNCHANGED <<request, positional, named, at, taken, bindings, level, nexts, ran>>

\* Mutant: the result of the last hook is the result.
Demoted_LastHook(r) == r

\* A failing hook spoils a good result and does not replace a bad one.
Demoted(r) == IF r = "error" /\ result = "ok" THEN r ELSE result

AfterReturn(r) ==
  /\ stage = "after"
  /\ at <= Afters
  /\ failed' = (failed \/ r # "ok")
  /\ IF r = "thrown"
     THEN Leave(r) /\ UNCHANGED <<at, ran>>
     ELSE /\ result' = Demoted(r)
          /\ at' = at + 1
          /\ ran' = ran + 1
          /\ UNCHANGED stage
  /\ UNCHANGED <<request, positional, named, taken, bindings, level, nexts>>

AfterEnd ==
  /\ stage = "after"
  /\ at > Afters
  /\ Leave(result)
  /\ UNCHANGED <<request, positional, named, at, taken, bindings, level, nexts, ran, failed>>

\* The command's result goes to the innermost middleware, or to the caller.
Deliver ==
  /\ stage = "leaving"
  /\ stage' = IF Layers = 0 THEN "done" ELSE "middleware"
  /\ UNCHANGED <<request, positional, named, at, taken, bindings, chain>>

-----------------------------------------------------------------------------
Next ==
  \/ ReadWord \/ ReadAssignment \/ ReadOption \/ ReadOptionWithoutValue \/ ReadEnd
  \/ ReadDocument \/ RefuseDocument
  \/ \E p \in Parameters \cup TypedParameters :
       BindParameter(p) \/ BindNothing(p) \/ RejectParameter(p)
  \/ BindEnd \/ Reject
  \/ Begin \/ CallNext \/ MiddlewareReturn
  \/ \E r \in Results :
       BeforeReturn(r) \/ CallbackReturn(r) \/ CallbackThrow(r) \/ AfterReturn(r)
  \/ BeforeEnd \/ AfterEnd \/ Deliver

Spec == Init /\ [][Next]_vars

-----------------------------------------------------------------------------
Running == stage \in {"middleware", "before", "callback", "after", "leaving"}

(***************************************************************************)
(* What a line of tokens means, said without reading it from left to       *)
(* right: a token is an option's value when it stands behind an option     *)
(* that is not itself one, words that are not are positional, and of the   *)
(* options with one key the first counts.                                  *)
(***************************************************************************)
IsValue(n) ==
  Cardinality({m \in 1 .. n - 1 : \A k \in m .. n - 1 : line[k].kind = "option"}) % 2 = 1

IsPositional(n) == line[n].kind = "word" /\ ~IsValue(n)

\* How many of the first n tokens are positional.
Place(n) == Cardinality({m \in 1 .. n : IsPositional(m)})

OptionsFor(key) ==
  {n \in 1 .. Len(line) : line[n].kind # "word" /\ ~IsValue(n) /\ line[n].key = key}

ValueAt(n) == IF line[n].kind = "assignment" THEN line[n].value ELSE TextOf(line[n + 1])

\* An option at the end of the line has no value.
Malformed ==
  line # <<>> /\ line[Len(line)].kind = "option" /\ ~IsValue(Len(line))

\* The arguments InvokeTokens hands on are those the line means.
ReadAsMeant ==
  form = "text" /\ stage \notin {"reading", "refused"} =>
    /\ Len(positional) = Place(Len(line))
    /\ \A n \in 1 .. Len(line) : IsPositional(n) => positional[Place(n)] = line[n].value
    /\ named = [key \in {k \in Keys : OptionsFor(k) # {}} |-> ValueAt(Min(OptionsFor(key)))]

(***************************************************************************)
(* What the parameters of a call are given, said for each on its own.      *)
(***************************************************************************)
Rank(i) ==
  Cardinality({j \in 1 .. i : ~parameters[j].namedOnly /\ NamedFor(parameters[j]) = {}})

\* What parameter i is given, of these positional arguments and these fields.
From(i, arguments, fields) ==
  LET p == parameters[i]
  IN  IF NamedFor(p) # {} THEN fields[Min(NamedFor(p))]
      ELSE IF ~p.namedOnly /\ Rank(i) <= Len(positional) THEN arguments[Rank(i)]
      ELSE p.default

Given(i) == From(i, positional, named)

InOrder ==
  /\ executable
  /\ Len(positional) <= Rank(Len(parameters))
  /\ \A k \in DOMAIN named : \E i \in DOMAIN parameters : k \in parameters[i].keys

\* A value whose conversion has no defined result may both meet the declaration
\* of its parameter and fail it.
Meets(i) ==
  IF Given(i) = NoValue THEN ~parameters[i].required
  ELSE \E x \in As(parameters[i].kind, Given(i)) : Passes(parameters[i], Given(i), x)

Fails(i) ==
  IF Given(i) = NoValue THEN parameters[i].required
  ELSE \/ As(parameters[i].kind, Given(i)) = {}
       \/ \E x \in As(parameters[i].kind, Given(i)) : ~Passes(parameters[i], Given(i), x)

\* Middleware and command run for exactly the calls that meet the command's
\* declaration, and find each parameter bound to the value the call gives it:
\* no positional argument is skipped, shifted or bound twice, and a call that
\* is in order is never turned away.
BoundAsDeclared ==
  /\ Running =>
       /\ InOrder /\ \A i \in DOMAIN parameters : Meets(i)
       /\ bindings = [i \in {j \in DOMAIN parameters : Given(j) # NoValue} |-> Given(i)]
  /\ stage = "refused" =>
       \/ Malformed \/ ~InOrder \/ \E i \in DOMAIN parameters : Fails(i)
       \/ form = "document" /\ ~Parses(document[1])

(***************************************************************************)
(* The number an argument stands for as it was written, in halves.  Octal  *)
(* digits and a sign behind a blank are read by the rules of strtoull.     *)
(***************************************************************************)
Exact == {"signed", "unsigned", "boolean", "number", "double", "half",
          "numeral", "exponent", "decimal"}

Halves(v) == IF v.type \in {"half", "decimal"} THEN 2 * v.n + 1 ELSE 2 * v.n

\* What parameter i is given as the caller wrote it.
Written(i) ==
  IF form = "document" THEN From(i, document[1].items, Pairs(document[1])) ELSE Given(i)

IsInteger(kind) == kind \in {"SignedInteger", "UnsignedInteger"}

\* The halves a callback reads of a bound argument.
ReadAs(kind, v) ==
  IF IsInteger(kind) THEN {2 * n : n \in As(kind, v)} ELSE AsFloating(v)

Numeric(i) == parameters[i].kind \in {"SignedInteger", "UnsignedInteger", "FloatingPoint"}

\* Numbers that no 64 bits hold lose digits on the way: JSON's in the JSON
\* library, those of texts in a floating-point parameter.
Rounds(v, kind) ==
  \/ /\ v.type = "number" \/ (v.type \in {"numeral", "exponent"} /\ kind = "FloatingPoint")
     /\ v.n \notin Signed \cup Unsigned
  \/ v.type = "decimal" /\ v.n \notin Signed

\* "JSON scalar types are preserved": a number that is sent in a document or by
\* a structured call, or is a default, reaches the callback as it was written,
\* through reader, value, long double and target, or the call is refused.
NumbersArrive ==
  Running =>
    \A i \in DOMAIN bindings :
      LET kind == parameters[i].kind
      IN  Numeric(i) /\ Written(i).type \in Exact /\ ~Rounds(Written(i), kind)
            => ReadAs(kind, bindings[i]) = {Halves(Written(i))}

\* What Raw, the choices and the validator see of a numeric argument says the
\* number that Get returns, if it can be read as one at all.
TextMeansTheSame ==
  Running =>
    \A i \in DOMAIN bindings : Numeric(i) =>
      LET text == As(parameters[i].kind, Rendered(bindings[i]))
      IN  text # {} => text = As(parameters[i].kind, bindings[i])

\* "Constrains numeric values to an inclusive range.": a callback reads no
\* number outside the range of its parameter.
RangesHold ==
  Running =>
    \A i \in DOMAIN bindings : Numeric(i) /\ parameters[i].range # <<>> =>
      \A x \in ReadAs(parameters[i].kind, bindings[i]) :
        x \in 2 * parameters[i].range[1] .. 2 * parameters[i].range[2]

\* A run of the command succeeds only when every hook and the callback did: no
\* hook After turns a failure into a success.
FailureIsReported ==
  stage = "leaving" => (result = "ok" <=> ~failed)

\* "Adds a callback executed after a successful or failed primary callback."
AfterFollowsCallback ==
  [][stage = "callback" /\ stage' = "leaving" /\ result' = "error" => ran' = Afters]_vars

=============================================================================
