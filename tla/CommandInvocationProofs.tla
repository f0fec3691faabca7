----------------------- MODULE CommandInvocationProofs ----------------------
(***************************************************************************)
(* What one call of CommandRegistry::Invoke promises, proved for every set *)
(* of parameter declarations, words, values and documents, any number of   *)
(* tokens and arguments, and any middleware and hooks: the tokens are read *)
(* as they are meant, the arguments are bound as the command declares,     *)
(* numbers arrive as they were written, and a run that failed is reported  *)
(* as failed.                                                              *)
(***************************************************************************)
EXTENDS CommandInvocation, SequenceLemmas, FiniteSetTheorems

\* What a positional argument can be.
Arguments ==
  Words \cup Values
    \cup UNION {{ReadScalar(d.items[i]) : i \in DOMAIN d.items} : d \in Documents}

TypesOK ==
  /\ form \in {"arguments", "text", "document"}
  /\ form = "document" => document \in [1 .. 1 -> Documents]
  /\ parameters \in Seq(Parameters \cup TypedParameters)
  /\ line \in Seq(Tokens)
  /\ positional \in Seq(Arguments)
  /\ at \in Nat \ {0}
  /\ taken \in Nat
  /\ failed \in BOOLEAN

-----------------------------------------------------------------------------
(* InvokeTokens, when it has come to token m + 1: the arguments are those  *)
(* the first m tokens mean, and token m + 1 is no option's value.          *)

OptionsUpTo(key, m) == {n \in OptionsFor(key) : n <= m}

HandedOver(m) ==
  /\ Len(positional) = Place(m)
  /\ \A n \in 1 .. m : IsPositional(n) => positional[Place(n)] = line[n].value
  /\ named = [key \in {k \in Keys : OptionsUpTo(k, m) # {}} |-> ValueAt(Min(OptionsUpTo(key, m)))]

ReadingOK ==
  /\ stage = "reading" =>
       /\ taken = 0 /\ bindings = <<>>
       /\ form # "text" => line = <<>> /\ at = 1
       /\ form = "text" =>
            /\ at <= Len(line) + 1
            /\ ~IsValue(at)
            /\ HandedOver(at - 1)
  /\ form = "text" /\ stage \notin {"reading", "refused"} => HandedOver(Len(line))

-----------------------------------------------------------------------------
(* InvokeResolved, when the first m parameters are bound.                  *)

Bound(m) ==
  /\ taken = IF Rank(m) <= Len(positional) THEN Rank(m) ELSE Len(positional)
  /\ bindings = [i \in {j \in 1 .. m : Given(j) # NoValue} |-> Given(i)]
  /\ \A i \in 1 .. m : Meets(i)

BindingOK ==
  /\ stage = "binding" => at <= Len(parameters) + 1 /\ Bound(at - 1)
  /\ stage = "checking" => Bound(Len(parameters))
  /\ BoundAsDeclared

-----------------------------------------------------------------------------
(* The run of the command.                                                 *)

RunOK ==
  /\ stage \in {"before", "callback"} => ~failed
  /\ stage \in {"after", "leaving"} => (result = "ok" <=> ~failed)

-----------------------------------------------------------------------------
(* Where the arguments come from.                                          *)

Sources ==
  /\ form = "document" /\ stage \notin {"reading", "refused"} =>
       positional = PositionalIn(document[1]) /\ named = NamedIn(document[1])
  /\ form # "document" =>
       /\ \A j \in DOMAIN positional : positional[j] \in Words \cup Values
       /\ \A k \in DOMAIN named : named[k] \in Words

IInv == TypesOK /\ ReadingOK /\ BindingOK /\ RunOK /\ Sources

-----------------------------------------------------------------------------
(* Counting the members of a set up to a number.                           *)

Count(n, S) == Cardinality((1 .. n) \cap S)

LEMMA Counting ==
  ASSUME NEW S, NEW n \in Nat
  PROVE  /\ Count(n, S) \in Nat
         /\ Count(0, S) = 0
         /\ Count(n + 1, S) = IF n + 1 \in S THEN Count(n, S) + 1 ELSE Count(n, S)
         /\ \A k \in 1 .. n : k \in S => Count(k, S) \in 1 .. Count(n, S)
<1>1. ASSUME NEW k \in Nat
      PROVE  IsFiniteSet((1 .. k) \cap S) /\ Count(k, S) \in Nat
  <2>1. IsFiniteSet(1 .. k)
    BY FS_Interval
  <2>. QED
    BY <2>1, FS_Subset, FS_CardinalityType DEF Count
<1>2. Count(0, S) = 0
  <2>1. (1 .. 0) \cap S = {}
    OBVIOUS
  <2>. QED
    BY <2>1, FS_EmptySet DEF Count
<1>3. Count(n + 1, S) = IF n + 1 \in S THEN Count(n, S) + 1 ELSE Count(n, S)
  <2>. DEFINE T == (1 .. n) \cap S
  <2>1. n + 1 \notin T /\ (1 .. n + 1) \cap S = IF n + 1 \in S THEN T \cup {n + 1} ELSE T
    OBVIOUS
  <2>2. IsFiniteSet(T) /\ Count(n, S) = Cardinality(T)
    BY <1>1 DEF Count
  <2>. HIDE DEF T
  <2>3. Cardinality(T \cup {n + 1}) = Cardinality(T) + 1
    BY <2>1, <2>2, FS_AddElement
  <2>. QED
    BY <2>1, <2>2, <2>3 DEF Count
<1>4. ASSUME NEW k \in 1 .. n, k \in S
      PROVE  Count(k, S) \in 1 .. Count(n, S)
  <2>. DEFINE A == (1 .. k) \cap S
              B == (1 .. n) \cap S
  <2>1. A \subseteq B /\ A # {}
    BY <1>4
  <2>2. IsFiniteSet(A) /\ IsFiniteSet(B) /\ Count(k, S) = Cardinality(A) /\ Count(n, S) = Cardinality(B)
    BY <1>1 DEF Count
  <2>. HIDE DEF A, B
  <2>3. Cardinality(A) # 0 /\ Cardinality(A) <= Cardinality(B)
    BY <2>1, <2>2, FS_EmptySet, FS_Subset
  <2>4. k \in Nat
    BY <1>4
  <2>5. Count(k, S) \in Nat /\ Count(n, S) \in Nat
    BY <1>1, <2>4
  <2>. QED
    BY <2>2, <2>3, <2>5
<1>. QED
  BY <1>1, <1>2, <1>3, <1>4

-----------------------------------------------------------------------------
(* Reading the tokens.                                                     *)

\* Behind an option comes its value, unless the option is a value itself.
LEMMA OptionsAlternate ==
  ASSUME NEW n \in Nat \ {0}
  PROVE  /\ ~IsValue(1)
         /\ line[n].kind = "option" => (IsValue(n + 1) <=> ~IsValue(n))
         /\ line[n].kind # "option" => ~IsValue(n + 1)
<1>. DEFINE B(i) == {m \in 1 .. i - 1 : \A k \in m .. i - 1 : line[k].kind = "option"}
<1>0. \A i \in Nat \ {0} : IsValue(i) <=> Cardinality(B(i)) % 2 = 1
  BY DEF IsValue
<1>1. IsFiniteSet(B(n)) /\ Cardinality(B(n)) \in Nat /\ n \notin B(n)
  <2>1. IsFiniteSet(1 .. n - 1) /\ B(n) \subseteq 1 .. n - 1
    BY FS_Interval
  <2>2. n \notin 1 .. n - 1
    OBVIOUS
  <2>. HIDE DEF B
  <2>. QED
    BY <2>1, <2>2, FS_Subset, FS_CardinalityType
<1>2. ~IsValue(1)
  <2>1. B(1) = {}
    OBVIOUS
  <2>. HIDE DEF B
  <2>. QED
    BY <1>0, <2>1, FS_EmptySet
<1>3. CASE line[n].kind = "option"
  <2>1. B(n + 1) = B(n) \cup {n}
    <3>1. (n + 1) - 1 = n /\ \A m \in 1 .. n : m .. n = (m .. n - 1) \cup {n}
      OBVIOUS
    <3>2. 1 .. n = (1 .. n - 1) \cup {n}
      OBVIOUS
    <3>3. B(n + 1) = {m \in 1 .. n : \A k \in m .. n : line[k].kind = "option"}
      BY <3>1
    <3>4. n .. n - 1 = {}
      OBVIOUS
    <3>. QED
      BY <1>3, <3>1, <3>2, <3>3, <3>4
  <2>. HIDE DEF B
  <2>2. Cardinality(B(n + 1)) = Cardinality(B(n)) + 1
    BY <1>1, <2>1, FS_AddElement
  <2>3. \A c \in Nat : (c + 1) % 2 = 1 <=> ~(c % 2 = 1)
    OBVIOUS
  <2>. QED
    BY <1>0, <1>1, <1>2, <1>3, <2>2, <2>3
<1>4. CASE line[n].kind # "option"
  <2>1. B(n + 1) = {}
    <3>1. (n + 1) - 1 = n /\ \A m \in 1 .. n : n \in m .. n
      OBVIOUS
    <3>. QED
      BY <1>4, <3>1
  <2>. HIDE DEF B
  <2>2. Cardinality(B(n + 1)) = 0 /\ n + 1 \in Nat \ {0} /\ ~(0 % 2 = 1)
    BY <2>1, FS_EmptySet
  <2>3. ~IsValue(n + 1)
    BY <1>0, <2>2
  <2>. QED
    BY <1>2, <1>4, <2>3
<1>. QED
  BY <1>2, <1>3, <1>4

Positionals == {n \in Nat : IsPositional(n)}

LEMMA PlaceIsCount ==
  ASSUME NEW n \in Nat
  PROVE  Place(n) = Count(n, Positionals)
<1>1. {m \in 1 .. n : IsPositional(m)} = (1 .. n) \cap Positionals
  BY DEF Positionals
<1>. QED
  BY <1>1 DEF Place, Count

LEMMA Places ==
  ASSUME NEW m \in Nat
  PROVE  /\ Place(0) = 0 /\ Place(m) \in Nat
         /\ Place(m + 1) = IF IsPositional(m + 1) THEN Place(m) + 1 ELSE Place(m)
         /\ \A n \in 1 .. m : IsPositional(n) => Place(n) \in 1 .. Place(m)
<1>1. /\ Place(0) = Count(0, Positionals) /\ Place(m) = Count(m, Positionals)
      /\ Place(m + 1) = Count(m + 1, Positionals)
      /\ \A n \in 1 .. m : Place(n) = Count(n, Positionals)
  BY PlaceIsCount
<1>2. \A n \in Nat : n \in Positionals <=> IsPositional(n)
  BY DEF Positionals
<1>3. \A n \in 1 .. m : n \in Positionals => Count(n, Positionals) \in 1 .. Count(m, Positionals)
  BY Counting
<1>. QED
  BY <1>1, <1>2, <1>3, Counting

\* What depends on the line only.
LEMMA LineStays ==
  ASSUME UNCHANGED line
  PROVE  /\ \A n : (IsValue(n) <=> IsValue(n)') /\ ValueAt(n)' = ValueAt(n)
         /\ \A n : IsPositional(n) <=> IsPositional(n)'
         /\ \A n : Place(n)' = Place(n)
         /\ \A key, m : OptionsUpTo(key, m)' = OptionsUpTo(key, m)
BY DEF IsValue, ValueAt, TextOf, IsPositional, Place, OptionsUpTo, OptionsFor

\* What the options that have been read mean.
NamedBy(m) ==
  [key \in {k \in Keys : OptionsUpTo(k, m) # {}} |-> ValueAt(Min(OptionsUpTo(key, m)))]

LEMMA OptionRead ==
  ASSUME NEW m \in Nat, NEW n \in Nat, n > m, NEW l \in Nat, NEW key \in Keys,
         named = NamedBy(m),
         OptionsUpTo(key, l) = OptionsUpTo(key, m) \cup {n},
         \A k \in Keys \ {key} : OptionsUpTo(k, l) = OptionsUpTo(k, m)
  PROVE  WithNamed(key, ValueAt(n)) = NamedBy(l)
<1>. DEFINE U(k) == OptionsUpTo(k, m)
<1>1. /\ \A k \in Keys : U(k) \in SUBSET Nat
      /\ \A i \in U(key) : i < n
  BY DEF OptionsUpTo, OptionsFor
<1>2. U(key) # {} => Min(U(key) \cup {n}) = Min(U(key))
  <2>. SUFFICES ASSUME U(key) # {}
                PROVE  Min(U(key) \cup {n}) = Min(U(key))
    OBVIOUS
  <2>1. U(key) \cup {n} \in SUBSET Nat /\ U(key) \in SUBSET Nat
    BY <1>1
  <2>. HIDE DEF U
  <2>2. Min(U(key)) \in U(key) /\ \A j \in U(key) : Min(U(key)) <= j
    BY <2>1, MinOfNaturals
  <2>3. /\ Min(U(key) \cup {n}) \in U(key) \cup {n}
        /\ \A j \in U(key) \cup {n} : Min(U(key) \cup {n}) <= j
    BY <2>1, MinOfNaturals
  <2>. QED
    BY <1>1, <2>1, <2>2, <2>3
<1>3. Min({n}) = n
  <2>1. {n} \in SUBSET Nat /\ {n} # {}
    OBVIOUS
  <2>2. Min({n}) \in {n}
    BY <2>1, MinOfNaturals
  <2>. QED
    BY <2>2
<1>4. DOMAIN named = {k \in Keys : U(k) # {}}
  BY DEF NamedBy
<1>5. \A k \in DOMAIN named : named[k] = ValueAt(Min(U(k)))
  BY DEF NamedBy
<1>6. {k \in Keys : OptionsUpTo(k, l) # {}} = DOMAIN named \cup {key}
  BY <1>4
<1>7. ASSUME NEW k \in DOMAIN named \cup {key}
      PROVE  ValueAt(Min(OptionsUpTo(k, l))) =
               IF k \in DOMAIN named THEN named[k] ELSE ValueAt(n)
  <2>1. CASE k # key
    BY <1>4, <1>5, <1>7, <2>1
  <2>2. CASE k = key /\ U(key) # {}
    BY <1>2, <1>4, <1>5, <2>2
  <2>3. CASE k = key /\ U(key) = {}
    <3>1. OptionsUpTo(k, l) = {n}
      BY <2>3
    <3>. QED
      BY <1>3, <1>4, <2>3, <3>1
  <2>. QED
    BY <2>1, <2>2, <2>3
<1>. QED
  BY <1>6, <1>7 DEF WithNamed, NamedBy

LEMMA HandedOverNext ==
  ASSUME NEW a, UNCHANGED line, Len(positional') = Place(a), named' = NamedBy(a),
         \A n \in 1 .. a : IsPositional(n) => positional'[Place(n)] = line[n].value
  PROVE  HandedOver(a)'
<1>1. NamedBy(a)' = NamedBy(a)
  BY LineStays DEF NamedBy
<1>2. named' = NamedBy(a)'
  BY <1>1
<1>. QED
  BY <1>2, LineStays DEF HandedOver, NamedBy

\* A word where no value is expected is positional.
LEMMA ReadWordStep ==
  ASSUME TypesOK, ReadingOK, ReadWord
  PROVE  ReadingOK'
<1>. PICK a \in Nat \ {0} : a = at
  BY DEF TypesOK
<1>. DEFINE m == a - 1
<1>1. /\ form = "text" /\ stage = "reading" /\ a \in 1 .. Len(line)
      /\ line[a].kind = "word" /\ ~IsValue(a) /\ HandedOver(m)
      /\ at' = a + 1 /\ named' = named /\ UNCHANGED line
      /\ form' = form /\ stage' = stage /\ taken' = taken /\ bindings' = bindings
      /\ taken = 0 /\ bindings = <<>>
      /\ positional' = Append(positional, line[a].value)
      /\ m \in Nat /\ m + 1 = a /\ Len(line) \in Nat
  <2>1. Len(line) \in Nat /\ (line = <<>> => Len(line) = 0)
    BY LenProperties, EmptySeq DEF TypesOK
  <2>2. form = "text"
    BY <2>1 DEF ReadWord, Reading, ReadingOK, TypesOK
  <2>. QED
    BY <2>1, <2>2 DEF ReadWord, Reading, ReadingOK, TypesOK, request
<1>2. ~IsValue(a + 1)
  BY <1>1, OptionsAlternate
<1>3. IsPositional(a)
  BY <1>1 DEF IsPositional
<1>4. /\ Place(a) = Place(m) + 1 /\ Place(m) \in Nat
      /\ \A n \in 1 .. m : IsPositional(n) => Place(n) \in 1 .. Place(m)
  BY <1>1, <1>3, Places
<1>5. /\ Len(positional') = Len(positional) + 1
      /\ \A i \in 1 .. Len(positional) : positional'[i] = positional[i]
      /\ positional'[Len(positional) + 1] = line[a].value
  <2>1. line[a] \in Tokens
    BY <1>1, ElementOfSeq DEF TypesOK
  <2>2. line[a].value \in Arguments
    BY <1>1, <2>1 DEF Tokens, Arguments
  <2>. QED
    BY <1>1, <2>2, AppendProperties DEF TypesOK
<1>6. \A key : OptionsUpTo(key, a) = OptionsUpTo(key, m)
  BY <1>1 DEF OptionsUpTo, OptionsFor
<1>7. /\ Len(positional') = Place(a)
      /\ \A n \in 1 .. a : IsPositional(n) => positional'[Place(n)] = line[n].value
  BY <1>1, <1>4, <1>5 DEF HandedOver
<1>8. named' = NamedBy(a)
  BY <1>1, <1>6 DEF HandedOver, NamedBy
<1>9. HandedOver(a)'
  BY <1>1, <1>7, <1>8, HandedOverNext
<1>10. at' - 1 = a /\ at' <= Len(line') + 1 /\ ~IsValue(a + 1)'
  BY <1>1, <1>2, LineStays
<1>. QED
  BY <1>1, <1>9, <1>10 DEF ReadingOK

\* An assignment names its key.
LEMMA ReadAssignmentStep ==
  ASSUME TypesOK, ReadingOK, ReadAssignment
  PROVE  ReadingOK'
<1>. PICK a \in Nat \ {0} : a = at
  BY DEF TypesOK
<1>. DEFINE m == a - 1
<1>1. /\ form = "text" /\ stage = "reading" /\ a \in 1 .. Len(line)
      /\ line[a].kind = "assignment" /\ ~IsValue(a) /\ HandedOver(m)
      /\ at' = a + 1 /\ named' = WithNamed(line[a].key, line[a].value) /\ UNCHANGED line
      /\ form' = form /\ stage' = stage /\ taken' = taken /\ bindings' = bindings
      /\ taken = 0 /\ bindings = <<>>
      /\ positional' = positional
      /\ m \in Nat /\ m + 1 = a /\ a > m /\ Len(line) \in Nat
  <2>1. Len(line) \in Nat /\ (line = <<>> => Len(line) = 0)
    BY LenProperties, EmptySeq DEF TypesOK
  <2>2. form = "text"
    BY <2>1 DEF ReadAssignment, Reading, ReadingOK, TypesOK
  <2>. QED
    BY <2>1, <2>2 DEF ReadAssignment, Reading, ReadingOK, TypesOK, request
<1>2. ~IsValue(a + 1) /\ ~IsPositional(a)
  BY <1>1, OptionsAlternate DEF IsPositional
<1>3. Place(a) = Place(m)
  BY <1>1, <1>2, Places
<1>4. /\ Len(positional') = Place(a)
      /\ \A n \in 1 .. a : IsPositional(n) => positional'[Place(n)] = line[n].value
  BY <1>1, <1>2, <1>3 DEF HandedOver
<1>5. line[a].key \in Keys
  <2>1. line[a] \in Tokens
    BY <1>1, ElementOfSeq DEF TypesOK
  <2>. QED
    BY <1>1, <2>1 DEF Tokens
<1>6. /\ OptionsUpTo(line[a].key, a) = OptionsUpTo(line[a].key, m) \cup {a}
      /\ \A k \in Keys \ {line[a].key} : OptionsUpTo(k, a) = OptionsUpTo(k, m)
  BY <1>1 DEF OptionsUpTo, OptionsFor
<1>7. named = NamedBy(m) /\ line[a].value = ValueAt(a)
  BY <1>1 DEF HandedOver, NamedBy, ValueAt
<1>8. named' = NamedBy(a)
  BY <1>1, <1>5, <1>6, <1>7, OptionRead
<1>9. HandedOver(a)'
  BY <1>1, <1>4, <1>8, HandedOverNext
<1>10. at' - 1 = a /\ at' <= Len(line') + 1 /\ ~IsValue(a + 1)'
  BY <1>1, <1>2, LineStays
<1>. QED
  BY <1>1, <1>9, <1>10 DEF ReadingOK

\* An option takes the token behind it along.
LEMMA ReadOptionStep ==
  ASSUME TypesOK, ReadingOK, ReadOption
  PROVE  ReadingOK'
<1>. PICK a \in Nat \ {0} : a = at
  BY DEF TypesOK
<1>. DEFINE m == a - 1
            z == a + 1
<1>1. /\ form = "text" /\ stage = "reading" /\ a \in 1 .. Len(line) /\ a < Len(line)
      /\ line[a].kind = "option" /\ ~IsValue(a) /\ HandedOver(m)
      /\ at' = a + 2 /\ named' = WithNamed(line[a].key, TextOf(line[a + 1])) /\ UNCHANGED line
      /\ form' = form /\ stage' = stage /\ taken' = taken /\ bindings' = bindings
      /\ taken = 0 /\ bindings = <<>>
      /\ positional' = positional
      /\ m \in Nat /\ m + 1 = a /\ a > m /\ Len(line) \in Nat
  <2>1. Len(line) \in Nat /\ (line = <<>> => Len(line) = 0)
    BY LenProperties, EmptySeq DEF TypesOK
  <2>2. form = "text"
    BY <2>1 DEF ReadOption, Reading, ReadingOK, TypesOK
  <2>. QED
    BY <2>1, <2>2 DEF ReadOption, Reading, ReadingOK, TypesOK, request
<1>2. IsValue(z) /\ ~IsPositional(a) /\ ~IsPositional(z)
  BY <1>1, OptionsAlternate DEF IsPositional
<1>3. ~IsValue(a + 2)
  <2>1. z \in Nat \ {0} /\ z + 1 = a + 2
    OBVIOUS
  <2>. HIDE DEF z
  <2>2. ~IsValue(z + 1)
    BY <1>2, <2>1, OptionsAlternate
  <2>. QED
    BY <2>1, <2>2
<1>4. Place(z) = Place(m)
  <2>1. Place(a) = Place(m)
    BY <1>1, <1>2, Places
  <2>2. Place(z) = Place(a)
    BY <1>2, Places
  <2>. QED
    BY <2>1, <2>2
<1>5. /\ Len(positional') = Place(z)
      /\ \A n \in 1 .. z : IsPositional(n) => positional'[Place(n)] = line[n].value
  <2>1. \A n \in 1 .. z : n \in 1 .. m \/ n = a \/ n = z
    BY <1>1
  <2>. QED
    BY <1>1, <1>2, <1>4, <2>1 DEF HandedOver
<1>6. line[a].key \in Keys
  <2>1. line[a] \in Tokens
    BY <1>1, ElementOfSeq DEF TypesOK
  <2>. QED
    BY <1>1, <2>1 DEF Tokens
<1>7. /\ OptionsUpTo(line[a].key, z) = OptionsUpTo(line[a].key, m) \cup {a}
      /\ \A k \in Keys \ {line[a].key} : OptionsUpTo(k, z) = OptionsUpTo(k, m)
  <2>1. \A k \in Keys : z \notin OptionsFor(k) /\ (a \in OptionsFor(k) <=> k = line[a].key)
    BY <1>1, <1>2 DEF OptionsFor
  <2>2. \A n \in Nat : n <= z <=> n <= m \/ n = a \/ n = z
    BY <1>1
  <2>3. \A k \in Keys : OptionsFor(k) \subseteq Nat
    BY <1>1 DEF OptionsFor
  <2>. HIDE DEF z
  <2>4. a <= z
    BY <2>2
  <2>. QED
    BY <1>6, <2>1, <2>2, <2>3, <2>4 DEF OptionsUpTo
<1>8. named = NamedBy(m) /\ TextOf(line[a + 1]) = ValueAt(a)
  BY <1>1 DEF HandedOver, NamedBy, ValueAt
<1>9. named' = NamedBy(z)
  <2>1. z \in Nat
    OBVIOUS
  <2>. HIDE DEF z
  <2>. QED
    BY <1>1, <1>6, <1>7, <1>8, <2>1, OptionRead
<1>10. HandedOver(z)'
  BY <1>1, <1>5, <1>9, HandedOverNext
<1>11. at' - 1 = z /\ at' <= Len(line') + 1 /\ ~IsValue(a + 2)'
  BY <1>1, <1>3, LineStays
<1>. QED
  BY <1>1, <1>10, <1>11 DEF ReadingOK

\* When the arguments stay as they are, they stay what they mean.
LEMMA HandedOverStays ==
  ASSUME UNCHANGED <<line, positional, named>>, NEW m, HandedOver(m)
  PROVE  HandedOver(m)'
BY LineStays DEF HandedOver

LEMMA ReadingStep ==
  ASSUME TypesOK, ReadingOK, [Next]_vars
  PROVE  ReadingOK'
<1>0. ASSUME stage # "reading", stage' # "reading", UNCHANGED <<request, positional, named>>,
             stage = "refused" => stage' = "refused"
      PROVE  ReadingOK'
  <2>1. form = "text" /\ stage' # "refused" => HandedOver(Len(line))
    BY <1>0 DEF ReadingOK, request
  <2>2. PICK n : n = Len(line)
    OBVIOUS
  <2>3. form' = "text" /\ stage' # "refused" => HandedOver(n)'
    BY <1>0, <2>1, <2>2, HandedOverStays DEF request
  <2>. QED
    BY <1>0, <2>2, <2>3 DEF ReadingOK, request
<1>1. CASE ReadWord
  BY <1>1, ReadWordStep
<1>2. CASE ReadAssignment
  BY <1>2, ReadAssignmentStep
<1>3. CASE ReadOption
  BY <1>3, ReadOptionStep
<1>4. CASE ReadOptionWithoutValue \/ RefuseDocument
  BY <1>4 DEF ReadOptionWithoutValue, RefuseDocument, Refuse, ReadingOK
<1>5. CASE ReadEnd
  <2>1. Len(line) \in Nat /\ at \in Nat
    BY LenProperties DEF TypesOK
  <2>2. at - 1 = Len(line) /\ HandedOver(at - 1)
    BY <1>5, <2>1 DEF ReadEnd, ReadingOK
  <2>3. PICK n : n = Len(line)
    OBVIOUS
  <2>4. HandedOver(n)'
    BY <1>5, <2>2, <2>3, HandedOverStays DEF ReadEnd, request
  <2>. QED
    BY <1>5, <2>3, <2>4 DEF ReadEnd, ReadingOK, request
<1>6. CASE ReadDocument
  BY <1>6 DEF ReadDocument, ReadingOK, request
<1>7. ASSUME NEW p \in Parameters \cup TypedParameters,
             BindParameter(p) \/ BindNothing(p) \/ RejectParameter(p)
      PROVE  ReadingOK'
  BY <1>0, <1>7 DEF BindParameter, BindNothing, RejectParameter, Binding, Refuse
<1>8. CASE BindEnd \/ Reject
  BY <1>0, <1>8 DEF BindEnd, Reject, Refuse
<1>9. CASE Begin \/ CallNext
  BY <1>0, <1>9 DEF Begin, CallNext, Enter
<1>10. CASE MiddlewareReturn \/ BeforeEnd \/ AfterEnd \/ Deliver
  BY <1>0, <1>10 DEF MiddlewareReturn, BeforeEnd, AfterEnd, Deliver, Leave
<1>11. ASSUME NEW r \in Results,
              BeforeReturn(r) \/ CallbackReturn(r) \/ CallbackThrow(r) \/ AfterReturn(r)
       PROVE  ReadingOK'
  BY <1>0, <1>11 DEF BeforeReturn, CallbackReturn, CallbackThrow, AfterReturn, Leave
<1>12. CASE UNCHANGED vars
  <2>1. CASE stage = "reading"
    <3>1. PICK a : a = at - 1
      OBVIOUS
    <3>2. form = "text" => HandedOver(a)'
      BY <1>12, <2>1, <3>1, HandedOverStays DEF ReadingOK, vars, request
    <3>3. IsValue(at)' <=> IsValue(at)
      BY <1>12 DEF vars, request, IsValue
    <3>. QED
      BY <1>12, <2>1, <3>1, <3>2, <3>3 DEF ReadingOK, vars, request
  <2>2. CASE stage # "reading"
    BY <1>0, <1>12, <2>2 DEF vars
  <2>. QED
    BY <2>1, <2>2
<1>. QED
  BY <1>1, <1>2, <1>3, <1>4, <1>5, <1>6, <1>7, <1>8, <1>9, <1>10, <1>11, <1>12 DEF Next

-----------------------------------------------------------------------------
(* Types.                                                                  *)

LEMMA NoArgumentIsNoValue == NoValue \notin Arguments
<1>1. NoValue \notin Words \cup Values
  BY InvocationAssumption
<1>2. \A d \in Documents : \A i \in DOMAIN d.items : ReadScalar(d.items[i]) # NoValue
  BY InvocationAssumption
<1>. QED
  BY <1>1, <1>2 DEF Arguments

LEMMA DocumentArguments ==
  ASSUME NEW d \in Documents
  PROVE  PositionalIn(d) \in Seq(Arguments)
<1>1. d.items \in Seq({d.items[i] : i \in DOMAIN d.items})
  BY InvocationAssumption
<1>2. PICK n \in Nat : DOMAIN d.items = 1 .. n
  BY <1>1, LenProperties
<1>3. \A i \in 1 .. n : ReadScalar(d.items[i]) \in Arguments
  BY <1>2 DEF Arguments
<1>4. PositionalIn(d) = [i \in 1 .. n |-> ReadScalar(d.items[i])]
  BY <1>2 DEF PositionalIn
<1>5. PositionalIn(d) \in [1 .. n -> Arguments]
  BY <1>3, <1>4
<1>. QED
  BY <1>5, SeqDef

LEMMA TypesStep ==
  ASSUME TypesOK, [Next]_vars
  PROVE  TypesOK'
<1>. USE DEF TypesOK
<1>1. CASE ReadWord
  <2>1. Len(line) \in Nat /\ at \in 1 .. Len(line) /\ line[at].kind = "word"
    BY <1>1, LenProperties DEF ReadWord, Reading
  <2>2. line[at] \in Tokens
    BY <2>1, ElementOfSeq
  <2>3. line[at].value \in Arguments
    BY <2>1, <2>2 DEF Tokens, Arguments
  <2>4. positional' \in Seq(Arguments)
    BY <1>1, <2>3, AppendProperties DEF ReadWord
  <2>. QED
    BY <1>1, <2>4 DEF ReadWord, request, chain
<1>2. CASE ReadAssignment \/ ReadOption
  BY <1>2 DEF ReadAssignment, ReadOption, request, chain
<1>3. CASE ReadOptionWithoutValue \/ RefuseDocument \/ Reject
  BY <1>3 DEF ReadOptionWithoutValue, RefuseDocument, Reject, Refuse, request
<1>4. CASE ReadEnd \/ BindEnd
  BY <1>4 DEF ReadEnd, BindEnd, request, chain
<1>5. CASE ReadDocument
  <2>1. document[1] \in Documents
    BY <1>5 DEF ReadDocument
  <2>2. positional' \in Seq(Arguments)
    BY <1>5, <2>1, DocumentArguments DEF ReadDocument
  <2>. QED
    BY <1>5, <2>2 DEF ReadDocument, request, chain
<1>6. ASSUME NEW p \in Parameters \cup TypedParameters,
             BindParameter(p) \/ BindNothing(p) \/ RejectParameter(p)
      PROVE  TypesOK'
  BY <1>6 DEF BindParameter, TakenAfter, BindNothing, RejectParameter, Refuse, request, chain
<1>7. CASE Begin \/ CallNext
  <2>1. \A i : Enter(i) => (at' = at \/ at' = 1) /\ (failed' = failed \/ failed' = FALSE)
    BY DEF Enter
  <2>2. (at' = at \/ at' = 1) /\ (failed' = failed \/ failed' = FALSE)
    BY <1>7, <2>1 DEF Begin, CallNext
  <2>3. at' \in Nat \ {0}
    BY <2>2
  <2>4. failed' \in BOOLEAN
    <3>1. failed \in BOOLEAN
      OBVIOUS
    <3>. QED
      BY <2>2, <3>1, Zenon
  <2>5. UNCHANGED <<request, positional, taken>>
    BY <1>7 DEF Begin, CallNext
  <2>. QED
    BY <2>3, <2>4, <2>5 DEF request
<1>8. CASE MiddlewareReturn \/ BeforeEnd \/ AfterEnd \/ Deliver
  BY <1>8 DEF MiddlewareReturn, BeforeEnd, AfterEnd, Deliver, Leave, request, chain
<1>9. ASSUME NEW r \in Results,
             BeforeReturn(r) \/ CallbackReturn(r) \/ CallbackThrow(r) \/ AfterReturn(r)
      PROVE  TypesOK'
  <2>1. failed' \in BOOLEAN
    BY <1>9 DEF BeforeReturn, CallbackReturn, CallbackThrow, AfterReturn
  <2>2. at' \in Nat \ {0}
    BY <1>9 DEF BeforeReturn, CallbackReturn, CallbackThrow, AfterReturn
  <2>3. UNCHANGED <<request, positional, taken>>
    BY <1>9 DEF BeforeReturn, CallbackReturn, CallbackThrow, AfterReturn
  <2>. QED
    BY <2>1, <2>2, <2>3 DEF request
<1>10. CASE UNCHANGED vars
  BY <1>10 DEF vars, request, chain
<1>. QED
  BY <1>1, <1>2, <1>3, <1>4, <1>5, <1>6, <1>7, <1>8, <1>9, <1>10 DEF Next

-----------------------------------------------------------------------------
(* Binding the parameters.                                                 *)

Takers == {j \in Nat : ~parameters[j].namedOnly /\ NamedFor(parameters[j]) = {}}

LEMMA Ranks ==
  ASSUME NEW m \in Nat
  PROVE  /\ Rank(0) = 0 /\ Rank(m) \in Nat
         /\ Rank(m + 1) = IF m + 1 \in Takers THEN Rank(m) + 1 ELSE Rank(m)
<1>1. ASSUME NEW i \in Nat
      PROVE  Rank(i) = Count(i, Takers)
  <2>1. {j \in 1 .. i : ~parameters[j].namedOnly /\ NamedFor(parameters[j]) = {}}
          = (1 .. i) \cap Takers
    BY DEF Takers
  <2>. QED
    BY <2>1 DEF Rank, Count
<1>2. Rank(0) = Count(0, Takers) /\ Rank(m) = Count(m, Takers) /\ Rank(m + 1) = Count(m + 1, Takers)
  BY <1>1
<1>. QED
  BY <1>2, Counting

\* What the parameter at hand finds is what it is given, and the positional
\* arguments that are bound are those its predecessors and it have taken.
LEMMA SuppliedIsGiven ==
  ASSUME TypesOK, NEW a \in 1 .. Len(parameters), Bound(a - 1)
  PROVE  LET p == parameters[a]
             t == IF Rank(a) <= Len(positional) THEN Rank(a) ELSE Len(positional)
         IN  /\ Supplied(p) = Given(a)
             /\ TakenAfter(p) = t
             /\ Given(a) = NoValue => taken = t
<1>. DEFINE p == parameters[a]
            L == Len(positional)
            r == Rank(a - 1)
<1>1. /\ L \in Nat /\ a - 1 \in Nat /\ (a - 1) + 1 = a /\ a \in Nat
      /\ \A i \in 1 .. L : positional[i] # NoValue
  <2>1. L \in Nat /\ Len(parameters) \in Nat
    BY LenProperties DEF TypesOK
  <2>2. \A i \in 1 .. L : positional[i] \in Arguments
    BY ElementOfSeq DEF TypesOK
  <2>. QED
    BY <2>1, <2>2, NoArgumentIsNoValue
<1>2. /\ r \in Nat /\ Rank(a) = IF a \in Takers THEN r + 1 ELSE r
      /\ taken = IF r <= L THEN r ELSE L
  <2>1. /\ Rank(a - 1) \in Nat
        /\ Rank((a - 1) + 1) = IF (a - 1) + 1 \in Takers THEN Rank(a - 1) + 1 ELSE Rank(a - 1)
    BY <1>1, Ranks
  <2>. QED
    BY <1>1, <2>1 DEF Bound
<1>3. TakesPositional(p) <=> a \in Takers
  BY <1>1 DEF TakesPositional, Takers
<1>4. a \in Takers <=> NamedFor(p) = {} /\ ~p.namedOnly
  BY <1>1 DEF Takers
<1>5. CASE a \in Takers /\ r < L
  <2>1. taken = r /\ Rank(a) = r + 1 /\ r + 1 <= L /\ r + 1 \in 1 .. L
    BY <1>1, <1>2, <1>5
  <2>2. Supplied(p) = positional[r + 1] /\ Given(a) = positional[r + 1]
    BY <1>3, <1>4, <1>5, <2>1 DEF Supplied, Given, From
  <2>3. TakenAfter(p) = r + 1
    BY <1>3, <1>5, <2>1 DEF TakenAfter
  <2>. QED
    BY <1>1, <2>1, <2>2, <2>3
<1>6. CASE a \in Takers /\ ~(r < L)
  <2>1. taken = L /\ ~(taken < L) /\ Rank(a) = r + 1 /\ ~(r + 1 <= L)
    BY <1>1, <1>2, <1>6
  <2>2. Supplied(p) = p.default /\ Given(a) = p.default
    BY <1>3, <1>4, <1>6, <2>1 DEF Supplied, Given, From
  <2>3. TakenAfter(p) = L
    BY <2>1 DEF TakenAfter
  <2>. QED
    BY <2>1, <2>2, <2>3
<1>7. CASE a \notin Takers
  <2>1. Supplied(p) = Given(a)
    BY <1>3, <1>4, <1>7 DEF Supplied, Given, From
  <2>2. TakenAfter(p) = taken
    BY <1>3, <1>7 DEF TakenAfter
  <2>. QED
    BY <1>2, <1>7, <2>1, <2>2
<1>. QED
  BY <1>5, <1>6, <1>7

\* What depends on the declaration and the arguments only.
LEMMA DeclarationStays ==
  ASSUME UNCHANGED <<parameters, executable, positional, named>>
  PROVE  /\ \A i : Rank(i)' = Rank(i)
         /\ \A i : Given(i)' = Given(i)
         /\ \A i : Meets(i)' <=> Meets(i)
         /\ \A i : Fails(i)' <=> Fails(i)
         /\ InOrder' <=> InOrder
<1>1. \A i : Rank(i)' = Rank(i) /\ Given(i)' = Given(i)
  BY DEF Rank, Given, From, NamedFor
<1>. QED
  BY <1>1 DEF Meets, Fails, InOrder

LEMMA BoundStays ==
  ASSUME UNCHANGED <<parameters, executable, positional, named, taken, bindings>>,
         NEW m, Bound(m)
  PROVE  Bound(m)'
BY DeclarationStays DEF Bound

LEMMA BindParameterStep ==
  ASSUME TypesOK, BindingOK, NEW p \in Parameters \cup TypedParameters, BindParameter(p)
  PROVE  BindingOK'
<1>. PICK a : a = at
  OBVIOUS
<1>1. /\ stage = "binding" /\ stage' = "binding" /\ a \in 1 .. Len(parameters)
      /\ p = parameters[a] /\ at' = a + 1 /\ Bound(a - 1)
      /\ UNCHANGED <<parameters, executable, positional, named>>
      /\ Supplied(p) # NoValue
      /\ \E x \in As(p.kind, Supplied(p)) : Passes(p, Supplied(p), x)
      /\ bindings' = [i \in DOMAIN bindings \cup {a} |->
                        IF i = a THEN Supplied(p) ELSE bindings[i]]
      /\ taken' = TakenAfter(p)
      /\ Len(parameters) \in Nat
  BY LenProperties DEF TypesOK, BindingOK, BindParameter, Binding, request
<1>2. /\ Supplied(p) = Given(a)
      /\ TakenAfter(p) = IF Rank(a) <= Len(positional) THEN Rank(a) ELSE Len(positional)
  BY <1>1, SuppliedIsGiven
<1>3. Meets(a)
  BY <1>1, <1>2 DEF Meets
<1>4. \A i \in 1 .. a : i = a \/ i \in 1 .. a - 1
  BY <1>1
<1>5. \A i \in 1 .. a : Meets(i)
  BY <1>1, <1>3, <1>4 DEF Bound
<1>6. bindings' = [i \in {j \in 1 .. a : Given(j) # NoValue} |-> Given(i)]
  <2>1. /\ DOMAIN bindings = {j \in 1 .. a - 1 : Given(j) # NoValue}
        /\ \A i \in DOMAIN bindings : bindings[i] = Given(i)
    BY <1>1 DEF Bound
  <2>2. a \in 1 .. a /\ \A i \in 1 .. a - 1 : i \in 1 .. a /\ i # a
    BY <1>1
  <2>3. DOMAIN bindings \cup {a} = {j \in 1 .. a : Given(j) # NoValue}
    BY <1>1, <1>2, <1>4, <2>1, <2>2
  <2>4. \A i \in DOMAIN bindings \cup {a} :
          (IF i = a THEN Supplied(p) ELSE bindings[i]) = Given(i)
    BY <1>2, <2>1
  <2>. QED
    BY <1>1, <2>3, <2>4
<1>7. Bound(a)'
  <2>1. /\ taken' = IF Rank(a) <= Len(positional) THEN Rank(a) ELSE Len(positional)
        /\ positional' = positional
    BY <1>1, <1>2
  <2>2. \A i : Rank(i)' = Rank(i) /\ Given(i)' = Given(i) /\ (Meets(i)' <=> Meets(i))
    BY <1>1, DeclarationStays
  <2>3. taken' = IF Rank(a)' <= Len(positional') THEN Rank(a)' ELSE Len(positional')
    BY <2>1, <2>2
  <2>4. bindings' = [i \in {j \in 1 .. a : Given(j)' # NoValue} |-> Given(i)']
    BY <1>6, <2>2
  <2>5. \A i \in 1 .. a : Meets(i)'
    BY <1>5, <2>2
  <2>. QED
    BY <2>3, <2>4, <2>5 DEF Bound
<1>8. at' - 1 = a /\ at' <= Len(parameters') + 1
  BY <1>1
<1>. QED
  BY <1>1, <1>7, <1>8 DEF BindingOK, BoundAsDeclared, Running

LEMMA BindNothingStep ==
  ASSUME TypesOK, BindingOK, NEW p \in Parameters \cup TypedParameters, BindNothing(p)
  PROVE  BindingOK'
<1>. PICK a : a = at
  OBVIOUS
<1>1. /\ stage = "binding" /\ stage' = "binding" /\ a \in 1 .. Len(parameters)
      /\ p = parameters[a] /\ at' = a + 1 /\ Bound(a - 1)
      /\ UNCHANGED <<parameters, executable, positional, named>>
      /\ Supplied(p) = NoValue /\ ~p.required
      /\ bindings' = bindings /\ taken' = taken
      /\ Len(parameters) \in Nat
  BY LenProperties DEF TypesOK, BindingOK, BindNothing, Binding, request
<1>2. /\ Given(a) = NoValue
      /\ taken = IF Rank(a) <= Len(positional) THEN Rank(a) ELSE Len(positional)
  BY <1>1, SuppliedIsGiven
<1>3. Meets(a)
  BY <1>1, <1>2 DEF Meets
<1>4. /\ \A i \in 1 .. a : i = a \/ i \in 1 .. a - 1
      /\ \A i \in 1 .. a - 1 : i \in 1 .. a
  BY <1>1
<1>5. \A i \in 1 .. a : Meets(i)
  BY <1>1, <1>3, <1>4 DEF Bound
<1>6. bindings = [i \in {j \in 1 .. a : Given(j) # NoValue} |-> Given(i)]
  <2>1. {j \in 1 .. a : Given(j) # NoValue} = {j \in 1 .. a - 1 : Given(j) # NoValue}
    BY <1>2, <1>4
  <2>. QED
    BY <1>1, <2>1 DEF Bound
<1>7. Bound(a)
  BY <1>2, <1>5, <1>6 DEF Bound
<1>8. Bound(a)'
  BY <1>1, <1>7, BoundStays
<1>9. at' - 1 = a /\ at' <= Len(parameters') + 1
  BY <1>1
<1>. QED
  BY <1>1, <1>8, <1>9 DEF BindingOK, BoundAsDeclared, Running

LEMMA RejectParameterStep ==
  ASSUME TypesOK, BindingOK, NEW p \in Parameters \cup TypedParameters, RejectParameter(p)
  PROVE  BindingOK'
<1>. PICK a : a = at
  OBVIOUS
<1>1. /\ stage = "binding" /\ stage' = "refused" /\ a \in 1 .. Len(parameters)
      /\ p = parameters[a] /\ Bound(a - 1)
      /\ UNCHANGED <<parameters, executable, positional, named>>
      /\ IF Supplied(p) = NoValue THEN p.required
         ELSE \/ As(p.kind, Supplied(p)) = {}
              \/ \E x \in As(p.kind, Supplied(p)) : ~Passes(p, Supplied(p), x)
      /\ DOMAIN parameters = 1 .. Len(parameters)
      /\ Len(parameters) \in Nat
  BY LenProperties DEF TypesOK, BindingOK, RejectParameter, Refuse, Binding, request
<1>2. Supplied(p) = Given(a)
  BY <1>1, SuppliedIsGiven
<1>3. Fails(a)
  BY <1>1, <1>2 DEF Fails
<1>4. \E i \in DOMAIN parameters : Fails(i)
  BY <1>1, <1>3
<1>5. \E i \in DOMAIN parameters' : Fails(i)'
  BY <1>1, <1>4, DeclarationStays
<1>. QED
  BY <1>1, <1>5 DEF BindingOK, BoundAsDeclared, Running

\* All parameters are bound: the call is in order, or turned away because it
\* is not.
LEMMA CheckingStep ==
  ASSUME TypesOK, BindingOK, Reject \/ Begin
  PROVE  BindingOK'
<1>1. /\ stage = "checking" /\ Bound(Len(parameters))
      /\ UNCHANGED <<parameters, executable, positional, named, bindings>>
  BY DEF BindingOK, Reject, Begin, request
<1>2. /\ Len(parameters) \in Nat /\ DOMAIN parameters = 1 .. Len(parameters)
      /\ Len(positional) \in Nat /\ Rank(Len(parameters)) \in Nat
  BY LenProperties, Ranks DEF TypesOK
<1>3. TooMany <=> ~(Len(positional) <= Rank(Len(parameters)))
  BY <1>1, <1>2 DEF TooMany, Bound
<1>4. InOrder <=> ~(TooMany \/ Unknown \/ ~executable)
  BY <1>3 DEF InOrder, Unknown
<1>5. CASE Reject
  <2>1. stage' = "refused" /\ ~InOrder'
    BY <1>1, <1>4, <1>5, DeclarationStays DEF Reject, Refuse
  <2>. QED
    BY <2>1 DEF BindingOK, BoundAsDeclared, Running
<1>6. CASE Begin
  <2>1. stage' \in {"middleware", "before"}
    BY <1>6 DEF Begin, Enter
  <2>2. InOrder' /\ \A i \in DOMAIN parameters' : Meets(i)'
    BY <1>1, <1>2, <1>4, <1>6, DeclarationStays DEF Begin, Bound
  <2>3. bindings' = [i \in {j \in DOMAIN parameters' : Given(j)' # NoValue} |-> Given(i)']
    BY <1>1, <1>2, DeclarationStays DEF Bound
  <2>. QED
    BY <2>1, <2>2, <2>3 DEF BindingOK, BoundAsDeclared, Running
<1>. QED
  BY <1>5, <1>6

\* An option at the end of the line that is no value has none.
LEMMA ReadOptionWithoutValueStep ==
  ASSUME TypesOK, ReadingOK, ReadOptionWithoutValue
  PROVE  BindingOK'
<1>1. /\ stage = "reading" /\ at <= Len(line) /\ at = Len(line) /\ line[at].kind = "option"
      /\ stage' = "refused" /\ UNCHANGED line
  BY DEF ReadOptionWithoutValue, Reading, Refuse, request
<1>2. line # <<>>
  BY <1>1, EmptySeq DEF TypesOK
<1>3. ~IsValue(at)
  BY <1>1, <1>2 DEF ReadingOK, TypesOK
<1>4. Malformed
  BY <1>1, <1>2, <1>3 DEF Malformed
<1>5. Malformed'
  BY <1>1, <1>4, LineStays DEF Malformed
<1>. QED
  BY <1>1, <1>5 DEF BindingOK, BoundAsDeclared, Running

\* Binding begins with nothing bound.
LEMMA HandOverStep ==
  ASSUME TypesOK, ReadingOK, ReadEnd \/ ReadDocument
  PROVE  BindingOK'
<1>1. /\ stage = "reading" /\ stage' = "binding" /\ at' = 1
      /\ taken' = 0 /\ bindings' = <<>> /\ parameters' = parameters
  BY DEF ReadEnd, ReadDocument, ReadingOK, request, chain
<1>2. Bound(0)'
  <2>1. 1 .. 0 = {} /\ {j \in 1 .. 0 : Given(j)' # NoValue} = {}
    OBVIOUS
  <2>2. bindings' = [i \in {j \in 1 .. 0 : Given(j)' # NoValue} |-> Given(i)']
    BY <1>1, <2>1
  <2>3. Rank(0)' = 0
    BY <2>1, FS_EmptySet DEF Rank
  <2>4. Len(positional') \in Nat
    <3>1. positional' \in Seq(Arguments)
      BY TypesStep DEF TypesOK, Next
    <3>. QED
      BY <3>1, LenProperties
  <2>. QED
    BY <1>1, <2>1, <2>2, <2>3, <2>4 DEF Bound
<1>3. at' - 1 = 0 /\ at' <= Len(parameters') + 1
  BY <1>1, LenProperties DEF TypesOK
<1>. QED
  BY <1>1, <1>2, <1>3 DEF BindingOK, BoundAsDeclared, Running

LEMMA BindingStep ==
  ASSUME TypesOK, ReadingOK, BindingOK, [Next]_vars
  PROVE  BindingOK'
<1>1. ASSUME Running, Running' \/ stage' = "done",
             UNCHANGED <<parameters, executable, positional, named, bindings>>
      PROVE  BindingOK'
  <2>1. /\ InOrder' /\ \A i \in DOMAIN parameters' : Meets(i)'
        /\ bindings' = [i \in {j \in DOMAIN parameters' : Given(j)' # NoValue} |-> Given(i)']
    BY <1>1, DeclarationStays DEF BindingOK, BoundAsDeclared
  <2>. QED
    BY <1>1, <2>1 DEF BindingOK, BoundAsDeclared, Running
<1>2. CASE ReadWord \/ ReadAssignment \/ ReadOption
  <2>1. stage' = "reading"
    BY <1>2 DEF ReadWord, ReadAssignment, ReadOption, Reading
  <2>. QED
    BY <2>1 DEF BindingOK, BoundAsDeclared, Running
<1>3. CASE ReadOptionWithoutValue
  BY <1>3, ReadOptionWithoutValueStep
<1>4. CASE ReadEnd \/ ReadDocument
  BY <1>4, HandOverStep
<1>5. CASE RefuseDocument
  <2>1. stage' = "refused" /\ form' = "document" /\ ~Parses(document'[1])
    BY <1>5 DEF RefuseDocument, Refuse, request
  <2>. QED
    BY <2>1 DEF BindingOK, BoundAsDeclared, Running
<1>6. ASSUME NEW p \in Parameters \cup TypedParameters,
             BindParameter(p) \/ BindNothing(p) \/ RejectParameter(p)
      PROVE  BindingOK'
  BY <1>6, BindParameterStep, BindNothingStep, RejectParameterStep
<1>7. CASE BindEnd
  <2>1. PICK m : m = at - 1
    OBVIOUS
  <2>2. /\ stage' = "checking" /\ Bound(m) /\ m = Len(parameters) /\ parameters' = parameters
        /\ UNCHANGED <<executable, positional, named, taken, bindings>>
    BY <1>7, <2>1, LenProperties DEF BindEnd, BindingOK, TypesOK, request
  <2>3. Bound(m)'
    BY <2>2, BoundStays
  <2>. QED
    BY <2>2, <2>3 DEF BindingOK, BoundAsDeclared, Running
<1>8. CASE Reject \/ Begin
  BY <1>8, CheckingStep
<1>9. CASE CallNext
  BY <1>1, <1>9 DEF CallNext, Enter, Running, request
<1>10. CASE MiddlewareReturn \/ BeforeEnd \/ AfterEnd \/ Deliver
  BY <1>1, <1>10 DEF MiddlewareReturn, BeforeEnd, AfterEnd, Deliver, Leave, Running, request
<1>11. ASSUME NEW r \in Results,
              BeforeReturn(r) \/ CallbackReturn(r) \/ CallbackThrow(r) \/ AfterReturn(r)
       PROVE  BindingOK'
  BY <1>1, <1>11 DEF BeforeReturn, CallbackReturn, CallbackThrow, AfterReturn, Leave,
                     Running, request
<1>12. CASE UNCHANGED vars
  <2>1. /\ UNCHANGED <<parameters, executable, positional, named, taken, bindings>>
        /\ UNCHANGED <<stage, at, form, document, line>>
    BY <1>12 DEF vars, request
  <2>2. PICK m, n : m = at - 1 /\ n = Len(parameters)
    OBVIOUS
  <2>3. (Bound(m) => Bound(m)') /\ (Bound(n) => Bound(n)')
    BY <2>1, BoundStays
  <2>4. BoundAsDeclared'
    <3>1. Malformed' <=> Malformed
      BY <2>1, LineStays DEF Malformed
    <3>. QED
      BY <2>1, <3>1, DeclarationStays DEF BindingOK, BoundAsDeclared, Running
  <2>. QED
    BY <2>1, <2>2, <2>3, <2>4 DEF BindingOK
<1>. QED
  BY <1>2, <1>3, <1>4, <1>5, <1>6, <1>7, <1>8, <1>9, <1>10, <1>11, <1>12 DEF Next

-----------------------------------------------------------------------------
(* Running the command.                                                    *)

LEMMA RunStep ==
  ASSUME RunOK, [Next]_vars
  PROVE  RunOK'
<1>1. ASSUME stage' \notin {"before", "callback", "after", "leaving"} PROVE RunOK'
  BY <1>1 DEF RunOK
<1>2. CASE ReadWord \/ ReadAssignment \/ ReadOption \/ ReadOptionWithoutValue \/ ReadEnd
           \/ ReadDocument \/ RefuseDocument
  BY <1>1, <1>2 DEF ReadWord, ReadAssignment, ReadOption, ReadOptionWithoutValue, ReadEnd,
                    ReadDocument, RefuseDocument, Refuse, Reading
<1>3. ASSUME NEW p \in Parameters \cup TypedParameters,
             BindParameter(p) \/ BindNothing(p) \/ RejectParameter(p)
      PROVE  RunOK'
  BY <1>1, <1>3 DEF BindParameter, BindNothing, RejectParameter, Refuse, Binding
<1>4. CASE BindEnd \/ Reject \/ MiddlewareReturn \/ Deliver
  BY <1>1, <1>4 DEF BindEnd, Reject, Refuse, MiddlewareReturn, Deliver
<1>5. CASE Begin \/ CallNext
  <2>1. \A i : Enter(i) => stage' = "middleware" \/ (stage' = "before" /\ failed' = FALSE)
    BY DEF Enter
  <2>2. stage' = "middleware" \/ (stage' = "before" /\ failed' = FALSE)
    BY <1>5, <2>1 DEF Begin, CallNext
  <2>. QED
    BY <2>2 DEF RunOK
<1>6. ASSUME NEW r \in Results, BeforeReturn(r) PROVE RunOK'
  BY <1>6 DEF RunOK, BeforeReturn, Leave, Results
<1>7. CASE BeforeEnd
  BY <1>7 DEF RunOK, BeforeEnd, chain
<1>8. ASSUME NEW r \in Results, CallbackReturn(r) PROVE RunOK'
  BY <1>8 DEF RunOK, CallbackReturn
<1>9. ASSUME NEW r \in Results, CallbackThrow(r) PROVE RunOK'
  BY <1>9 DEF RunOK, CallbackThrow, Leave
<1>10. ASSUME NEW r \in Results, AfterReturn(r) PROVE RunOK'
  <2>1. /\ stage = "after" /\ (result = "ok" <=> ~failed)
        /\ failed' <=> (failed \/ r # "ok")
    BY <1>10 DEF RunOK, AfterReturn
  <2>2. CASE r = "thrown"
    BY <1>10, <2>1, <2>2 DEF RunOK, AfterReturn, Leave
  <2>3. CASE r = "error"
    BY <1>10, <2>1, <2>3 DEF RunOK, AfterReturn, Demoted
  <2>4. CASE r = "ok"
    BY <1>10, <2>1, <2>4 DEF RunOK, AfterReturn, Demoted
  <2>. QED
    BY <2>2, <2>3, <2>4 DEF Results
<1>11. CASE AfterEnd
  BY <1>11 DEF RunOK, AfterEnd, Leave
<1>12. CASE UNCHANGED vars
  BY <1>12 DEF RunOK, vars, chain
<1>. QED
  BY <1>2, <1>3, <1>4, <1>5, <1>6, <1>7, <1>8, <1>9, <1>10, <1>11, <1>12 DEF Next

-----------------------------------------------------------------------------
(* Keeping the arguments where they come from.                             *)

LEMMA SourcesStep ==
  ASSUME TypesOK, ReadingOK, Sources, [Next]_vars
  PROVE  Sources'
<1>0. ASSUME UNCHANGED <<request, positional, named>>,
             stage' \notin {"reading", "refused"} => stage \notin {"reading", "refused"}
      PROVE  Sources'
  BY <1>0 DEF Sources, request
<1>1. ASSUME stage = "reading", at <= Len(line)
      PROVE  form = "text"
  <2>1. line = <<>> => Len(line) = 0
    BY EmptySeq
  <2>. QED
    BY <1>1, <2>1 DEF ReadingOK, TypesOK
<1>2. ASSUME stage = "reading", NEW n \in 1 .. Len(line)
      PROVE  TextOf(line[n]) \in Words /\ (line[n].kind # "option" => line[n].value \in Words)
  <2>1. line[n] \in Tokens
    BY ElementOfSeq DEF TypesOK
  <2>2. DashText \in Words
    BY InvocationAssumption
  <2>. QED
    BY <2>1, <2>2 DEF Tokens, TextOf
<1>3. at \in Nat \ {0} /\ Len(line) \in Nat
  BY LenProperties DEF TypesOK
<1>4. ASSUME NEW key, NEW value \in Words, form = "text", form' = form,
             positional' = positional, named' = WithNamed(key, value)
      PROVE  Sources'
  BY <1>4 DEF Sources, WithNamed
<1>5. CASE ReadWord
  <2>1. /\ form = "text" /\ form' = form /\ named' = named
        /\ line[at].value \in Words /\ positional' = Append(positional, line[at].value)
    BY <1>1, <1>2, <1>3, <1>5 DEF ReadWord, Reading, request
  <2>2. \A j \in DOMAIN positional' : positional'[j] \in Words \cup Values
    <3>1. \A j \in DOMAIN positional : positional[j] \in Words \cup Values
      BY <2>1 DEF Sources
    <3>2. Len(positional) \in Nat /\ DOMAIN positional = 1 .. Len(positional)
      BY LenProperties DEF TypesOK
    <3>3. /\ line[at].value \in Arguments
          /\ DOMAIN positional' = 1 .. Len(positional) + 1
          /\ \A j \in 1 .. Len(positional) : positional'[j] = positional[j]
          /\ positional'[Len(positional) + 1] = line[at].value
      BY <2>1, AppendProperties, LenProperties DEF TypesOK, Arguments
    <3>. QED
      BY <2>1, <3>1, <3>2, <3>3
  <2>. QED
    BY <2>1, <2>2 DEF Sources
<1>6. CASE ReadAssignment
  BY <1>1, <1>2, <1>3, <1>4, <1>6 DEF ReadAssignment, Reading, request
<1>7. CASE ReadOption
  <2>1. at + 1 \in 1 .. Len(line)
    BY <1>3, <1>7 DEF ReadOption
  <2>. QED
    BY <1>1, <1>2, <1>4, <1>7, <2>1 DEF ReadOption, Reading, request
<1>8. CASE ReadOptionWithoutValue \/ RefuseDocument \/ Reject
  BY <1>0, <1>8 DEF ReadOptionWithoutValue, RefuseDocument, Reject, Refuse
<1>9. CASE ReadEnd
  BY <1>9 DEF ReadEnd, Sources, request
<1>10. CASE ReadDocument
  BY <1>10 DEF ReadDocument, Sources, request
<1>11. ASSUME NEW p \in Parameters \cup TypedParameters,
              BindParameter(p) \/ BindNothing(p) \/ RejectParameter(p)
       PROVE  Sources'
  BY <1>0, <1>11 DEF BindParameter, BindNothing, RejectParameter, Binding, Refuse
<1>12. CASE BindEnd \/ Begin \/ CallNext
  BY <1>0, <1>12 DEF BindEnd, Begin, CallNext
<1>13. CASE MiddlewareReturn \/ BeforeEnd \/ AfterEnd \/ Deliver
  BY <1>0, <1>13 DEF MiddlewareReturn, BeforeEnd, AfterEnd, Deliver
<1>14. ASSUME NEW r \in Results,
              BeforeReturn(r) \/ CallbackReturn(r) \/ CallbackThrow(r) \/ AfterReturn(r)
       PROVE  Sources'
  BY <1>0, <1>14 DEF BeforeReturn, CallbackReturn, CallbackThrow, AfterReturn
<1>15. CASE UNCHANGED vars
  BY <1>0, <1>15 DEF vars
<1>. QED
  BY <1>5, <1>6, <1>7, <1>8, <1>9, <1>10, <1>11, <1>12, <1>13, <1>14, <1>15 DEF Next

-----------------------------------------------------------------------------
(* Numbers: what long doubles and readers do to them.  Powers of two first,*)
(* and what Rounded leaves as it is.                                       *)

Doubling(f, n) == \A i \in 0 .. n : f[i] = IF i = 0 THEN 1 ELSE 2 * f[i - 1]

LEMMA DoublingExists ==
  ASSUME NEW n \in Nat
  PROVE  \E f \in [0 .. n -> Nat \ {0}] : Doubling(f, n)
<1>. DEFINE G == {k \in Nat : \E f \in [0 .. k -> Nat \ {0}] : Doubling(f, k)}
<1>1. 0 \in G
  <2>. DEFINE f == [i \in 0 .. 0 |-> 1]
  <2>1. f \in [0 .. 0 -> Nat \ {0}] /\ Doubling(f, 0)
    BY DEF Doubling
  <2>. QED
    BY <2>1
<1>2. ASSUME NEW k \in Nat, k \in G PROVE k + 1 \in G
  <2>1. PICK f \in [0 .. k -> Nat \ {0}] : Doubling(f, k)
    BY <1>2
  <2>. DEFINE g == [i \in 0 .. k + 1 |-> IF i = k + 1 THEN 2 * f[k] ELSE f[i]]
  <2>2. 2 * f[k] \in Nat \ {0}
    BY <2>1
  <2>3. g \in [0 .. k + 1 -> Nat \ {0}]
    BY <2>1, <2>2
  <2>4. \A i \in 0 .. k : g[i] = f[i]
    OBVIOUS
  <2>5. g[k + 1] = 2 * g[k]
    BY <2>4
  <2>. HIDE DEF g
  <2>6. ASSUME NEW i \in 0 .. k + 1 PROVE g[i] = IF i = 0 THEN 1 ELSE 2 * g[i - 1]
    <3>1. CASE i = k + 1
      BY <2>5, <3>1
    <3>2. CASE i # k + 1
      <4>1. i \in 0 .. k /\ (i # 0 => i - 1 \in 0 .. k)
        BY <3>2
      <4>2. f[i] = IF i = 0 THEN 1 ELSE 2 * f[i - 1]
        BY <2>1, <4>1 DEF Doubling
      <4>. QED
        BY <2>4, <4>1, <4>2
    <3>. QED
      BY <3>1, <3>2
  <2>7. Doubling(g, k + 1)
    BY <2>6 DEF Doubling
  <2>. QED
    BY <2>3, <2>7
<1>3. Nat \subseteq G
  <2>. HIDE DEF G
  <2>. QED
    BY <1>1, <1>2, Everything
<1>. QED
  BY <1>3

LEMMA DoublingUnique ==
  ASSUME NEW m \in Nat, NEW n \in Nat, NEW f, NEW g, Doubling(f, m), Doubling(g, n)
  PROVE  \A i \in Nat : i <= m /\ i <= n => f[i] = g[i]
<1>. DEFINE G == {i \in Nat : i <= m /\ i <= n => f[i] = g[i]}
<1>1. 0 \in G
  BY DEF Doubling
<1>2. ASSUME NEW i \in Nat, i \in G PROVE i + 1 \in G
  <2>. SUFFICES ASSUME i + 1 <= m, i + 1 <= n PROVE f[i + 1] = g[i + 1]
    OBVIOUS
  <2>1. f[i] = g[i]
    BY <1>2
  <2>2. i + 1 \in 0 .. m /\ i + 1 \in 0 .. n /\ i + 1 # 0 /\ (i + 1) - 1 = i
    OBVIOUS
  <2>3. f[i + 1] = 2 * f[i] /\ g[i + 1] = 2 * g[i]
    BY <2>2 DEF Doubling
  <2>. QED
    BY <2>1, <2>3
<1>3. Nat \subseteq G
  <2>. HIDE DEF G
  <2>. QED
    BY <1>1, <1>2, Everything
<1>. QED
  BY <1>3

\* TwoTo is what its definition says.
LEMMA PowersOfTwo ==
  /\ \A e \in Nat : TwoTo[e] \in Nat \ {0}
  /\ TwoTo[0] = 1
  /\ \A e \in Nat : TwoTo[e + 1] = 2 * TwoTo[e]
<1>. DEFINE Unfold(f) == [e \in Nat |-> IF e = 0 THEN 1 ELSE 2 * f[e - 1]]
            power == CHOOSE f : f = Unfold(f)
            Steps(n) == {f \in [0 .. n -> Nat \ {0}] : Doubling(f, n)}
            F == [n \in Nat |-> (CHOOSE f : f \in Steps(n))[n]]
<1>1. TwoTo = power
  BY DEF TwoTo
<1>2. \A n \in Nat : \E f : f \in Steps(n)
  BY DoublingExists
<1>3. \A n \in Nat : (CHOOSE f : f \in Steps(n)) \in Steps(n)
  <2>. HIDE DEF Steps
  <2>. QED
    BY <1>2
<1>4. F = Unfold(F)
  <2>1. ASSUME NEW n \in Nat PROVE F[n] = IF n = 0 THEN 1 ELSE 2 * F[n - 1]
    <3>1. PICK f : f \in Steps(n) /\ F[n] = f[n]
      BY <1>3
    <3>2. f[n] = IF n = 0 THEN 1 ELSE 2 * f[n - 1]
      BY <3>1 DEF Doubling
    <3>3. CASE n # 0
      <4>0. n - 1 \in Nat /\ n - 1 <= n
        BY <3>3
      <4>1. PICK g : g \in Steps(n - 1) /\ F[n - 1] = g[n - 1]
        BY <1>3, <4>0
      <4>2. f[n - 1] = g[n - 1]
        BY <3>1, <4>0, <4>1, DoublingUnique
      <4>. QED
        BY <3>1, <3>2, <3>3, <4>1, <4>2
    <3>. QED
      BY <3>1, <3>2, <3>3
  <2>2. F = [n \in Nat |-> F[n]]
    OBVIOUS
  <2>. HIDE DEF F
  <2>. QED
    BY <2>1, <2>2
<1>5. power = Unfold(power)
  <2>. HIDE DEF F, Unfold
  <2>. QED
    BY <1>4
<1>6. \A e \in Nat : TwoTo[e] = IF e = 0 THEN 1 ELSE 2 * TwoTo[e - 1]
  <2>. HIDE DEF power
  <2>. QED
    BY <1>1, <1>5
<1>7. TwoTo[0] = 1 /\ \A e \in Nat : TwoTo[e + 1] = 2 * TwoTo[e]
  <2>1. \A e \in Nat : e + 1 \in Nat /\ e + 1 # 0 /\ (e + 1) - 1 = e
    OBVIOUS
  <2>. QED
    BY <1>6, <2>1
<1>8. \A e \in Nat : TwoTo[e] \in Nat \ {0}
  <2>. DEFINE G == {e \in Nat : TwoTo[e] \in Nat \ {0}}
  <2>1. 0 \in G
    BY <1>7
  <2>2. \A e \in Nat : e \in G => e + 1 \in G
    BY <1>7
  <2>3. Nat \subseteq G
    <3>. HIDE DEF G
    <3>. QED
      BY <2>1, <2>2, Everything
  <2>. QED
    BY <2>3
<1>. QED
  BY <1>7, <1>8

\* Exponents add up, and greater ones give greater powers.
LEMMA PowersMultiply ==
  ASSUME NEW a \in Nat, NEW k \in Nat
  PROVE  TwoTo[a + k] = TwoTo[a] * TwoTo[k] /\ TwoTo[a] <= TwoTo[a + k]
<1>. DEFINE G == {j \in Nat : TwoTo[a + j] = TwoTo[a] * TwoTo[j] /\ TwoTo[a] <= TwoTo[a + j]}
<1>0. TwoTo[a] \in Nat \ {0} /\ a + 0 = a
  BY PowersOfTwo
<1>1. 0 \in G
  BY <1>0, PowersOfTwo
<1>2. ASSUME NEW j \in Nat, j \in G PROVE j + 1 \in G
  <2>1. a + (j + 1) = (a + j) + 1 /\ a + j \in Nat
    OBVIOUS
  <2>2. TwoTo[a + (j + 1)] = 2 * TwoTo[a + j] /\ TwoTo[j + 1] = 2 * TwoTo[j]
    BY <2>1, PowersOfTwo
  <2>3. TwoTo[j] \in Nat /\ TwoTo[a + j] \in Nat /\ TwoTo[a + j] = TwoTo[a] * TwoTo[j] /\ TwoTo[a] <= TwoTo[a + j]
    BY <1>2, <2>1, PowersOfTwo
  <2>4. \A x, y, z \in Nat : z = x * y => 2 * z = x * (2 * y)
    OBVIOUS
  <2>5. TwoTo[a + (j + 1)] = TwoTo[a] * TwoTo[j + 1]
    BY <1>0, <2>2, <2>3, <2>4
  <2>6. TwoTo[a] <= TwoTo[a + (j + 1)]
    BY <1>0, <2>2, <2>3
  <2>. QED
    BY <2>5, <2>6
<1>3. Nat \subseteq G
  <2>. HIDE DEF G
  <2>. QED
    BY <1>1, <1>2, Everything
<1>. QED
  BY <1>3

\* Dividing a multiple.
LEMMA MultiplesDivide ==
  ASSUME NEW d \in Nat \ {0}, NEW m \in Int
  PROVE  (d * m) \div d = m /\ (d * m) % d = 0
<1>. DEFINE q == (d * m) \div d
            r == (d * m) % d
<1>1. d * m \in Int
  OBVIOUS
<1>2. q \in Int /\ r \in 0 .. d - 1 /\ d * m = d * q + r
  BY <1>1
<1>. HIDE DEF q, r
<1>3. d * (m - q) = r
  BY <1>2
<1>4. CASE m - q >= 1
  <2>1. d * (m - q) >= d
    BY <1>2, <1>4
  <2>. QED
    BY <1>2, <1>3, <2>1
<1>5. CASE m - q <= -1
  <2>1. d * (m - q) <= -d
    BY <1>2, <1>5
  <2>. QED
    BY <1>2, <1>3, <2>1
<1>6. CASE m = q
  BY <1>2, <1>3, <1>6
<1>. QED
  BY <1>2, <1>4, <1>5, <1>6 DEF q, r

\* A multiple of a power of two that is within its reach is not rounded.
LEMMA MultiplesAreExact ==
  ASSUME NEW n \in Int, NEW bits \in Nat, NEW k \in 0 .. IntegerBits, NEW m \in Int,
         n = TwoTo[k] * m, Magnitude(n) <= TwoTo[bits + k]
  PROVE  Rounded(n, bits) = n
<1>. DEFINE Near == {e \in 0 .. IntegerBits : Magnitude(n) <= TwoTo[bits + e]}
            S == {TwoTo[e] : e \in Near}
            d == Min(S)
            q == n \div d
            rest == 2 * (n % d)
<1>0. IntegerBits \in Nat /\ k \in Nat
  BY ValueAssumption
<1>1. S \in SUBSET Nat /\ TwoTo[k] \in S
  <2>1. k \in Near
    OBVIOUS
  <2>2. \A e \in Near : TwoTo[e] \in Nat
    BY <1>0, PowersOfTwo
  <2>. HIDE DEF Near
  <2>. QED
    BY <2>1, <2>2
<1>2. PICK e \in Near : d = TwoTo[e]
  <2>1. d \in S
    <3>. HIDE DEF S
    <3>. QED
      BY <1>1, MinOfNaturals
  <2>. HIDE DEF d
  <2>. QED
    BY <2>1
<1>3. d <= TwoTo[k]
  <2>. HIDE DEF S
  <2>. QED
    BY <1>1, MinOfNaturals
<1>4. e \in Nat /\ d \in Nat \ {0} /\ TwoTo[k] \in Nat \ {0}
  BY <1>0, <1>2, PowersOfTwo
<1>. HIDE DEF d
<1>5. e <= k
  <2>. SUFFICES ASSUME ~(e <= k) PROVE FALSE
    OBVIOUS
  <2>1. e - (k + 1) \in Nat /\ (k + 1) + (e - (k + 1)) = e /\ k + 1 \in Nat
    BY <1>0, <1>4
  <2>2. TwoTo[k + 1] <= TwoTo[e]
    BY <2>1, PowersMultiply
  <2>3. TwoTo[k + 1] = 2 * TwoTo[k]
    BY <1>0, PowersOfTwo
  <2>. QED
    BY <1>2, <1>3, <1>4, <2>2, <2>3
<1>6. PICK f \in Nat : f = TwoTo[k - e] /\ TwoTo[k] = d * f
  <2>1. PICK j \in Nat : k = e + j /\ k - e = j
    BY <1>0, <1>4, <1>5
  <2>2. TwoTo[e + j] = TwoTo[e] * TwoTo[j]
    BY <1>4, <2>1, PowersMultiply
  <2>3. TwoTo[j] \in Nat
    BY <2>1, PowersOfTwo
  <2>. QED
    BY <1>2, <2>1, <2>2, <2>3
<1>7. n = d * (f * m) /\ f * m \in Int
  <2>1. \A x \in Nat, y \in Nat, z \in Int : (x * y) * z = x * (y * z)
    OBVIOUS
  <2>. QED
    BY <1>4, <1>6, <2>1
<1>8. q = f * m /\ rest = 0
  <2>1. PICK g \in Int : g = f * m
    BY <1>7
  <2>2. (d * g) \div d = g /\ (d * g) % d = 0
    BY <1>4, <2>1, MultiplesDivide
  <2>. QED
    BY <1>7, <2>1, <2>2
<1>9. Rounded(n, bits) = d * (q + IF rest > d \/ (rest = d /\ q % 2 = 1) THEN 1 ELSE 0)
  BY DEF Rounded, d
<1>. HIDE DEF q, rest
<1>10. ~(rest > d) /\ rest # d
  BY <1>4, <1>8
<1>. QED
  BY <1>7, <1>8, <1>9, <1>10

\* What is not rounded is such a multiple.
LEMMA ExactIsMultiple ==
  ASSUME NEW n \in Int, NEW bits \in Nat,
         Magnitude(n) <= TwoTo[bits + IntegerBits], Rounded(n, bits) = n
  PROVE  \E k \in 0 .. IntegerBits, m \in Int :
           n = TwoTo[k] * m /\ Magnitude(n) <= TwoTo[bits + k]
<1>. DEFINE Near == {e \in 0 .. IntegerBits : Magnitude(n) <= TwoTo[bits + e]}
            S == {TwoTo[e] : e \in Near}
            d == Min(S)
            q == n \div d
            rest == 2 * (n % d)
            up == IF rest > d \/ (rest = d /\ q % 2 = 1) THEN 1 ELSE 0
<1>0. IntegerBits \in Nat
  BY ValueAssumption
<1>1. S \in SUBSET Nat /\ TwoTo[IntegerBits] \in S
  BY <1>0, PowersOfTwo
<1>2. PICK e \in Near : d = TwoTo[e]
  <2>1. d \in S
    <3>. HIDE DEF S
    <3>. QED
      BY <1>1, MinOfNaturals
  <2>. HIDE DEF d
  <2>. QED
    BY <2>1
<1>3. e \in Nat /\ d \in Nat \ {0}
  BY <1>0, <1>2, PowersOfTwo
<1>4. Rounded(n, bits) = d * (q + up)
  BY DEF Rounded
<1>. HIDE DEF d
<1>5. q \in Int
  BY <1>3
<1>6. up \in Int
  OBVIOUS
<1>. HIDE DEF q, up
<1>7. q + up \in Int /\ n = TwoTo[e] * (q + up)
  BY <1>2, <1>4, <1>5, <1>6
<1>. QED
  BY <1>2, <1>7

\* A number with so many significant bits is exact with more of them.
LEMMA MoreBitsKeep ==
  ASSUME NEW n \in Int, NEW bits \in Nat, NEW more \in Nat, bits <= more,
         Magnitude(n) <= TwoTo[bits + IntegerBits], Rounded(n, bits) = n
  PROVE  Rounded(n, more) = n
<1>1. PICK k \in 0 .. IntegerBits, m \in Int :
        n = TwoTo[k] * m /\ Magnitude(n) <= TwoTo[bits + k]
  BY ExactIsMultiple
<1>2. /\ k \in Nat /\ bits + k \in Nat /\ more - bits \in Nat
      /\ (bits + k) + (more - bits) = more + k
  BY ValueAssumption
<1>3. TwoTo[bits + k] <= TwoTo[more + k]
  BY <1>2, PowersMultiply
<1>4. Magnitude(n) <= TwoTo[more + k]
  <2>1. Magnitude(n) \in Int /\ TwoTo[bits + k] \in Int /\ TwoTo[more + k] \in Int
    BY <1>2, PowersOfTwo DEF Magnitude
  <2>. QED
    BY <1>1, <1>3, <2>1
<1>. QED
  BY <1>1, <1>4, MultiplesAreExact

\* The ends of the integers.
LEMMA IntegerEnds ==
  /\ TwoTo[IntegerBits - 1] \in Nat \ {0}
  /\ TwoTo[IntegerBits] = 2 * TwoTo[IntegerBits - 1]
<1>1. IntegerBits - 1 \in Nat /\ (IntegerBits - 1) + 1 = IntegerBits
  BY ValueAssumption
<1>. QED
  BY <1>1, PowersOfTwo

\* A number of at most so many bits is exact.
LEMMA SmallIsExact ==
  ASSUME NEW bits \in Nat, NEW few \in Nat, few <= bits,
         NEW n \in Int, Magnitude(n) <= TwoTo[few]
  PROVE  Rounded(n, bits) = n
<1>1. Magnitude(n) \in Nat
  BY DEF Magnitude
<1>2. IntegerBits \in Nat
  BY ValueAssumption
<1>3. TwoTo[few] <= TwoTo[bits] /\ TwoTo[few] \in Int /\ TwoTo[bits] \in Int
  <2>1. PICK j \in Nat : bits = few + j
    <3>1. bits - few \in Nat /\ bits = few + (bits - few)
      OBVIOUS
    <3>. QED
      BY <3>1
  <2>2. TwoTo[few] <= TwoTo[few + j]
    BY <2>1, PowersMultiply
  <2>3. TwoTo[few] \in Int /\ TwoTo[bits] \in Int
    BY PowersOfTwo
  <2>. QED
    BY <2>1, <2>2, <2>3
<1>4. Magnitude(n) <= TwoTo[bits + 0] /\ n = TwoTo[0] * n /\ 0 \in 0 .. IntegerBits
  BY <1>1, <1>2, <1>3, PowersOfTwo
<1>. QED
  BY <1>4, MultiplesAreExact

LEMMA IntegersAreExact ==
  ASSUME NEW bits \in Nat, IntegerBits <= bits, NEW n \in Signed \cup Unsigned
  PROVE  n \in Int /\ Rounded(n, bits) = n
<1>1. n \in Int /\ Magnitude(n) <= TwoTo[IntegerBits]
  BY IntegerEnds DEF Signed, Unsigned, Magnitude
<1>. QED
  BY <1>1, SmallIsExact, ValueAssumption

\* A long double as wide as the integers holds what their values and doubles do.
LongIsWide == IntegerBits <= LongDoubleBits

\* So is half of an odd number of so many bits, counted in halves.
LEMMA HalvesAreExact ==
  ASSUME LongIsWide, NEW v, Storable(v),
         v.type = "half" \/ (v.type = "decimal" /\ v.n \in Signed)
  PROVE  Long(2 * v.n + 1) = 2 * v.n + 1
<1>. PICK n \in Int : n = v.n
  BY DEF Storable
<1>0. LongDoubleBits \in Nat /\ DoubleBits \in Nat /\ DoubleBits <= LongDoubleBits
      /\ IntegerBits \in Nat /\ IntegerBits <= LongDoubleBits
  BY ValueAssumption DEF LongIsWide
<1>1. CASE v.type = "half"
  <2>1. Magnitude(2 * n + 1) <= TwoTo[DoubleBits]
    BY <1>1 DEF Storable
  <2>. QED
    BY <1>0, <2>1, SmallIsExact DEF Long
<1>2. CASE v.n \in Signed
  <2>1. Magnitude(2 * n + 1) <= TwoTo[IntegerBits]
    BY <1>2, IntegerEnds DEF Signed, Magnitude
  <2>. QED
    BY <1>0, <2>1, SmallIsExact DEF Long
<1>. QED
  BY <1>1, <1>2

LEMMA LongKeeps ==
  ASSUME LongIsWide, NEW v, Storable(v),
         v.type \in {"boolean", "signed", "unsigned", "double"} \/ v.n \in Signed \cup Unsigned
  PROVE  v.n \in Int /\ Long(v.n) = v.n
<1>. PICK n \in Int : n = v.n
  BY DEF Storable
<1>0. LongDoubleBits \in Nat /\ DoubleBits \in Nat /\ DoubleBits <= LongDoubleBits
      /\ IntegerBits <= LongDoubleBits
  BY ValueAssumption DEF LongIsWide
<1>1. CASE v.type = "double"
  <2>1. Magnitude(n) <= TwoTo[DoubleBits + IntegerBits] /\ Rounded(n, DoubleBits) = n
    BY <1>1 DEF Storable
  <2>. QED
    BY <1>0, <2>1, MoreBitsKeep DEF Long
<1>2. CASE v.type # "double"
  <2>1. n \in Signed \cup Unsigned
    <3>1. {0, 1} \subseteq Unsigned
      BY IntegerEnds DEF Unsigned
    <3>. QED
      BY <1>2, <3>1 DEF Storable
  <2>. QED
    BY <1>0, <2>1, IntegersAreExact DEF Long
<1>. QED
  BY <1>1, <1>2

Target == {Signed, Unsigned}

LEMMA TargetEnds ==
  ASSUME LongIsWide, NEW target \in Target
  PROVE  /\ target = Min(target) .. Max(target)
         /\ Long(Min(target)) = Min(target) /\ Long(Max(target)) = Max(target)
<1>1. PICK a \in Int, b \in Int : target = a .. b /\ a <= b
  BY IntegerEnds DEF Target, Signed, Unsigned
<1>2. Min(target) = a
  <2>1. a \in target /\ \A y \in target : a <= y
    BY <1>1
  <2>2. \A x \in target : (\A y \in target : x <= y) => x = a
    BY <1>1
  <2>. QED
    BY <2>1, <2>2 DEF Min
<1>3. Max(target) = b
  <2>1. b \in target /\ \A y \in target : b >= y
    BY <1>1
  <2>2. \A x \in target : (\A y \in target : x >= y) => x = b
    BY <1>1
  <2>. QED
    BY <2>1, <2>2 DEF Max
<1>4. a \in Signed \cup Unsigned /\ b \in Signed \cup Unsigned
  BY <1>1 DEF Target
<1>5. Long(a) = a /\ Long(b) = b
  BY <1>4, IntegersAreExact, ValueAssumption DEF Long, LongIsWide
<1>. QED
  BY <1>1, <1>2, <1>3, <1>5

\* An integer is read as it stands, or not at all.
LEMMA IntegersAreKept ==
  ASSUME LongIsWide, NEW v, Storable(v), v.type \in Exact,
         NEW target \in Target, AsInteger(v, target) # {}
  PROVE  AsInteger(v, target) = {v.n} /\ v.type \notin {"half", "decimal"}
<1>1. /\ Whole(v, target) \subseteq {v.n}
      /\ v.type \in {"half", "decimal"} => Whole(v, target) = {}
      /\ v.type = "numeral" => Whole(v, target) \subseteq target
  BY DEF Exact, Whole, Parsed
<1>2. PICK W : W = Whole(v, target)
  OBVIOUS
<1>3. \A m \in W : m = v.n /\ Long(m) = v.n /\ v.n \in Int
  <2>1. ASSUME NEW m \in W
        PROVE  v.type \in {"boolean", "signed", "unsigned", "double"} \/ v.n \in Signed \cup Unsigned
    <3>1. CASE v.type = "numeral"
      BY <1>1, <1>2, <2>1, <3>1 DEF Target
    <3>2. CASE v.type \notin {"numeral", "boolean", "signed", "unsigned", "double"}
      <4>1. Whole(v, target) = {}
        BY <3>2 DEF Exact, Whole, Parsed
      <4>. QED
        BY <1>2, <2>1, <4>1
    <3>. QED
      BY <3>1, <3>2
  <2>2. ASSUME NEW m \in W PROVE Long(v.n) = v.n /\ v.n \in Int
    BY <2>1, LongKeeps
  <2>. QED
    BY <1>1, <1>2, <2>2
<1>4. PICK a, b \in Int : a = Min(target) /\ b = Max(target) /\ target = a .. b
        /\ Long(a) = a /\ Long(b) = b
  <2>1. Min(target) \in Int /\ Max(target) \in Int
    <3>1. PICK c \in Int, e \in Int : target = c .. e /\ c <= e
      BY IntegerEnds DEF Target, Signed, Unsigned
    <3>2. (c \in target /\ \A y \in target : c <= y) /\ (e \in target /\ \A y \in target : e >= y)
      BY <3>1
    <3>3. Min(target) \in target /\ Max(target) \in target
      BY <3>2 DEF Min, Max
    <3>. QED
      BY <3>1, <3>3
  <2>. QED
    BY <2>1, TargetEnds
<1>5. {Long(m) : m \in W} \cap Long(Min(target)) .. Long(Max(target)) \subseteq {v.n} \cap target
  BY <1>3, <1>4
<1>6. AsInteger(v, target) \subseteq {v.n}
  BY <1>2, <1>5 DEF AsInteger
<1>7. v.type \notin {"half", "decimal"}
  <2>. SUFFICES ASSUME v.type \in {"half", "decimal"} PROVE FALSE
    OBVIOUS
  <2>1. W = {}
    BY <1>1, <1>2
  <2>. QED
    BY <1>2, <2>1 DEF AsInteger
<1>. QED
  BY <1>6, <1>7

\* What a callback reads of a value, if it is bound at all.
LEMMA ValuesAreKept ==
  ASSUME LongIsWide, NEW v, Storable(v), v.type \in Exact,
         NEW kind \in {"SignedInteger", "UnsignedInteger", "FloatingPoint"},
         ~Rounds(v, kind), As(kind, v) # {}
  PROVE  ReadAs(kind, v) = {Halves(v)}
<1>1. ASSUME NEW target \in Target, As(kind, v) = AsInteger(v, target), IsInteger(kind)
      PROVE  ReadAs(kind, v) = {Halves(v)}
  <2>1. As(kind, v) = {v.n} /\ v.type \notin {"half", "decimal"}
    BY <1>1, IntegersAreKept
  <2>2. ReadAs(kind, v) = {2 * v.n}
    BY <1>1, <2>1 DEF ReadAs
  <2>. QED
    BY <2>1, <2>2 DEF Halves
<1>2. CASE kind = "SignedInteger"
  BY <1>1, <1>2 DEF As, IsInteger, Target
<1>3. CASE kind = "UnsignedInteger"
  BY <1>1, <1>3 DEF As, IsInteger, Target
<1>4. CASE kind = "FloatingPoint"
  <2>1. ReadAs(kind, v) = AsFloating(v)
    BY <1>4 DEF ReadAs, IsInteger
  <2>2. CASE v.type \in {"half", "decimal"}
    <3>1. v.type = "half" \/ v.n \in Signed
      BY <2>2 DEF Rounds
    <3>. QED
      BY <2>1, <2>2, <3>1, HalvesAreExact DEF AsFloating, Halves
  <2>3. CASE v.type \notin {"half", "decimal"}
    <3>1. v.type \in {"boolean", "signed", "unsigned", "double"} \/ v.n \in Signed \cup Unsigned
      BY <1>4, <2>3 DEF Exact, Rounds
    <3>2. Long(v.n) = v.n
      BY <3>1, LongKeeps
    <3>3. AsFloating(v) = {2 * Long(v.n)}
      BY <2>3 DEF AsFloating, Exact
    <3>. QED
      BY <2>1, <2>3, <3>2, <3>3 DEF Halves
  <2>. QED
    BY <2>2, <2>3
<1>. QED
  BY <1>2, <1>3, <1>4

\* The reader of a document keeps what is written.
LEMMA ReadersKeep ==
  ASSUME NEW item, Storable(item), item.type \in Exact, NEW kind, ~Rounds(item, kind)
  PROVE  LET v == ReadScalar(item)
         IN  /\ Storable(v) /\ v.type \in Exact
             /\ ~Rounds(v, kind) /\ Halves(v) = Halves(item)
<1>1. CASE item.type # "number"
  BY <1>1 DEF ReadScalar
<1>2. CASE item.type = "number" /\ item.n \in Signed
  <2>1. ReadScalar(item) = [type |-> "signed", n |-> item.n]
    BY <1>2 DEF ReadScalar
  <2>. QED
    BY <1>2, <2>1 DEF Storable, Exact, Rounds, Halves
<1>3. CASE item.type = "number" /\ item.n \notin Signed
  <2>1. item.n \in Unsigned
    BY <1>3 DEF Rounds
  <2>2. ReadScalar(item) = [type |-> "unsigned", n |-> item.n]
    BY <1>3, <2>1 DEF ReadScalar
  <2>. QED
    BY <1>3, <2>1, <2>2 DEF Storable, Exact, Rounds, Halves
<1>. QED
  BY <1>1, <1>2, <1>3

\* The text of a value is read as the value is, if it is read as a number.
LEMMA TextReadsTheSame ==
  ASSUME NEW v, NEW kind \in {"SignedInteger", "UnsignedInteger", "FloatingPoint"},
         As(kind, Rendered(v)) # {}
  PROVE  As(kind, Rendered(v)) = As(kind, v)
<1>. DEFINE w == Rendered(v)
<1>1. \/ v.type \in {"signed", "unsigned", "double"} /\ w.type \in {"numeral", "exponent"} /\ w.n = v.n
      \/ v.type = "half" /\ w.type = "decimal" /\ w.n = v.n
      \/ v.type \in {"boolean", "null"} /\ w.type = "word"
      \/ w = v
  BY DEF Rendered
<1>. HIDE DEF w
<1>2. ASSUME NEW target \in Target, AsInteger(w, target) # {}
      PROVE  AsInteger(w, target) = AsInteger(v, target)
  <2>1. Whole(w, target) # {}
    BY <1>2 DEF AsInteger
  <2>2. Whole(w, target) = Whole(v, target)
    BY <1>1, <2>1 DEF Whole, Parsed
  <2>. QED
    BY <2>2 DEF AsInteger
<1>3. AsFloating(w) # {} => AsFloating(w) = AsFloating(v)
  BY <1>1 DEF AsFloating
<1>. QED
  BY <1>2, <1>3 DEF As, w, Target

\* A value that a document gives stands for the number the document says.
LEMMA GivenAsWritten ==
  ASSUME TypesOK, Sources, stage \notin {"reading", "refused"},
         NEW i \in DOMAIN parameters, Given(i) # NoValue, Written(i).type \in Exact,
         NEW kind, ~Rounds(Written(i), kind)
  PROVE  /\ Storable(Given(i)) /\ Given(i).type \in Exact
         /\ ~Rounds(Given(i), kind) /\ Halves(Given(i)) = Halves(Written(i))
<1>. DEFINE p == parameters[i]
            k == Min(NamedFor(p))
            r == Rank(i)
<1>. PICK d : d = document[1]
  OBVIOUS
<1>1. /\ i \in Nat /\ i \in 1 .. Len(parameters) /\ p \in Parameters \cup TypedParameters
      /\ Len(positional) \in Nat /\ DOMAIN positional = 1 .. Len(positional)
  BY LenProperties, ElementOfSeq DEF TypesOK
<1>2. \A v \in Words \cup Values : Storable(v)
  BY InvocationAssumption
<1>3. form = "document" =>
        /\ positional = PositionalIn(d) /\ named = NamedIn(d)
        /\ \A j \in DOMAIN d.items : Storable(d.items[j])
        /\ \A j \in DOMAIN Pairs(d) : Storable(Pairs(d)[j])
  <2>1. form = "document" => d \in Documents
    BY DEF TypesOK
  <2>. QED
    BY <2>1, InvocationAssumption DEF Sources
<1>4. Given(i) = From(i, positional, named)
  BY DEF Given
<1>5. Written(i) = IF form = "document" THEN From(i, d.items, Pairs(d)) ELSE Given(i)
  BY DEF Written
<1>6. ASSUME NEW item, Storable(item), Written(i) = item, Given(i) = ReadScalar(item)
      PROVE  /\ Storable(Given(i)) /\ Given(i).type \in Exact
             /\ ~Rounds(Given(i), kind) /\ Halves(Given(i)) = Halves(Written(i))
  BY <1>6, ReadersKeep
<1>7. CASE NamedFor(p) # {}
  <2>1. \A arguments, fields : From(i, arguments, fields) = fields[k]
    BY <1>7 DEF From
  <2>2. k \in DOMAIN named
    <3>1. NamedFor(p) \in SUBSET Nat
      BY <1>1, InvocationAssumption DEF NamedFor
    <3>2. k \in NamedFor(p)
      BY <1>7, <3>1, MinOfNaturals
    <3>. QED
      BY <3>2 DEF NamedFor
  <2>. HIDE DEF k
  <2>3. CASE form = "document"
    <3>1. k \in DOMAIN Pairs(d) /\ named[k] = ReadScalar(Pairs(d)[k])
      BY <1>3, <2>2, <2>3 DEF NamedIn
    <3>. QED
      BY <1>3, <1>4, <1>5, <1>6, <2>1, <2>3, <3>1
  <2>4. CASE form # "document"
    <3>1. Storable(named[k])
      BY <1>2, <2>2, <2>4 DEF Sources
    <3>. QED
      BY <1>4, <1>5, <2>1, <2>4, <3>1
  <2>. QED
    BY <2>3, <2>4
<1>8. CASE NamedFor(p) = {} /\ ~p.namedOnly /\ r <= Len(positional)
  <2>1. \A arguments, fields : From(i, arguments, fields) = arguments[r]
    BY <1>8 DEF From
  <2>2. r \in DOMAIN positional
    <3>1. i \in Takers /\ i - 1 \in Nat /\ (i - 1) + 1 = i
      BY <1>1, <1>8 DEF Takers
    <3>2. r = Rank(i - 1) + 1 /\ Rank(i - 1) \in Nat
      BY <3>1, Ranks
    <3>. QED
      BY <1>1, <1>8, <3>2
  <2>. HIDE DEF r
  <2>3. CASE form = "document"
    <3>1. r \in DOMAIN d.items /\ positional[r] = ReadScalar(d.items[r])
      BY <1>3, <2>2, <2>3 DEF PositionalIn
    <3>. QED
      BY <1>3, <1>4, <1>5, <1>6, <2>1, <2>3, <3>1
  <2>4. CASE form # "document"
    <3>1. Storable(positional[r])
      BY <1>2, <2>2, <2>4 DEF Sources
    <3>. QED
      BY <1>4, <1>5, <2>1, <2>4, <3>1
  <2>. QED
    BY <2>3, <2>4
<1>9. CASE NamedFor(p) = {} /\ ~(~p.namedOnly /\ r <= Len(positional))
  <2>1. \A arguments, fields : From(i, arguments, fields) = p.default
    BY <1>9 DEF From
  <2>2. Given(i) = p.default /\ Written(i) = p.default
    BY <1>4, <1>5, <2>1
  <2>3. Storable(p.default)
    BY <1>1, <2>2, InvocationAssumption
  <2>. QED
    BY <2>2, <2>3
<1>. QED
  BY <1>7, <1>8, <1>9

-----------------------------------------------------------------------------
\* The empty function is the empty sequence.
LEMMA NothingHandedOver ==
  ASSUME line \in Seq(Tokens), positional = <<>>, named = <<>>
  PROVE  HandedOver(0)
<1>1. \A k : OptionsUpTo(k, 0) = {}
  BY DEF OptionsUpTo, OptionsFor
<1>2. named = NamedBy(0)
  <2>1. {k \in Keys : OptionsUpTo(k, 0) # {}} = {}
    BY <1>1
  <2>. QED
    BY <2>1 DEF NamedBy
<1>3. Place(0) = 0 /\ Len(positional) = 0 /\ 1 .. 0 = {}
  BY Places, EmptySeq
<1>. QED
  BY <1>2, <1>3 DEF HandedOver, NamedBy

LEMMA InitTypes == Init => TypesOK
<1>. SUFFICES ASSUME Init PROVE TypesOK
  OBVIOUS
<1>0. ASSUME NEW T, NEW m \in Nat
      PROVE  UNION {[1 .. n -> T] : n \in 0 .. m} \subseteq Seq(T)
  <2>1. 0 .. m \subseteq Nat
    OBVIOUS
  <2>. QED
    BY <2>1, SeqDef
<1>1. at \in Nat \ {0} /\ taken \in Nat /\ failed \in BOOLEAN
  <2>1. at = 1 /\ taken = 0 /\ failed = FALSE
    BY DEF Init
  <2>2. at \in Nat \ {0} /\ taken \in Nat
    BY <2>1
  <2>3. failed \in BOOLEAN
    BY <2>1
  <2>. QED
    BY <2>2, <2>3
<1>9. StructuredCall \/ TextCall \/ JsonCall
  BY DEF Init
<1>2. {MaxParameters, MaxPositional, MaxTextParameters, MaxTokens} \subseteq Nat
  BY InvocationAssumption
<1>3. Words \subseteq Arguments /\ Values \subseteq Arguments
  BY DEF Arguments
<1>4. ASSUME NEW m \in Nat, parameters \in Declarations(m)
      PROVE  parameters \in Seq(Parameters \cup TypedParameters)
  <2>1. parameters \in Seq(Parameters)
    BY <1>0, <1>4 DEF Declarations
  <2>. QED
    BY <2>1, SeqMonotonic
<1>5. parameters \in [1 .. 1 -> TypedParameters] =>
        parameters \in Seq(Parameters \cup TypedParameters)
  <2>1. parameters \in [1 .. 1 -> TypedParameters] => parameters \in Seq(TypedParameters)
    BY SeqDef
  <2>. QED
    BY <2>1, SeqMonotonic
<1>6. CASE StructuredCall
  <2>1. positional \in Seq(Arguments)
    <3>1. CASE positional \in UNION {[1 .. n -> Words] : n \in 0 .. MaxPositional}
      <4>1. positional \in Seq(Words)
        BY <1>0, <1>2, <3>1
      <4>. QED
        BY <1>3, <4>1, SeqMonotonic
    <3>2. CASE positional \in [1 .. 1 -> Values]
      <4>1. positional \in Seq(Values)
        BY <3>2, SeqDef
      <4>. QED
        BY <1>3, <4>1, SeqMonotonic
    <3>. QED
      BY <1>6, <3>1, <3>2 DEF StructuredCall
  <2>2. parameters \in Seq(Parameters \cup TypedParameters)
    BY <1>2, <1>4, <1>5, <1>6 DEF StructuredCall
  <2>3. form = "arguments" /\ line = <<>>
    BY <1>6 DEF StructuredCall
  <2>4. line \in Seq(Tokens)
    BY <2>3
  <2>. QED
    BY <1>1, <2>1, <2>2, <2>3, <2>4 DEF TypesOK
<1>7. CASE TextCall
  <2>1. line \in Seq(Tokens)
    BY <1>0, <1>2, <1>7 DEF TextCall
  <2>2. parameters \in Seq(Parameters \cup TypedParameters)
    BY <1>2, <1>4, <1>7 DEF TextCall
  <2>3. form = "text" /\ positional = <<>>
    BY <1>7 DEF TextCall
  <2>4. positional \in Seq(Arguments)
    BY <2>3
  <2>. QED
    BY <1>1, <2>1, <2>2, <2>3, <2>4 DEF TypesOK
<1>8. CASE JsonCall
  <2>1. parameters \in Seq(Parameters \cup TypedParameters)
    BY <1>5, <1>8 DEF JsonCall
  <2>2. form = "document" /\ document \in [1 .. 1 -> Documents]
    BY <1>8 DEF JsonCall
  <2>3. line = <<>> /\ positional = <<>>
    BY <1>8 DEF JsonCall
  <2>4. line \in Seq(Tokens) /\ positional \in Seq(Arguments)
    BY <2>3
  <2>. QED
    BY <1>1, <2>1, <2>2, <2>4 DEF TypesOK
<1>. QED
  BY <1>6, <1>7, <1>8, <1>9

LEMMA InitInvariant == Init => IInv
<1>. SUFFICES ASSUME Init PROVE IInv
  OBVIOUS
<1>1. TypesOK
  BY InitTypes
<1>2. /\ at = 1 /\ taken = 0 /\ bindings = <<>> /\ failed = FALSE
      /\ (stage = "reading" /\ form # "arguments") \/ (stage = "binding" /\ form = "arguments")
      /\ form = "text" => positional = <<>> /\ named = <<>>
      /\ form # "text" => line = <<>>
  <2>1. at = 1 /\ taken = 0 /\ bindings = <<>> /\ failed = FALSE
    BY DEF Init
  <2>2. CASE StructuredCall
    BY <2>1, <2>2 DEF StructuredCall
  <2>3. CASE TextCall
    BY <2>1, <2>3 DEF TextCall
  <2>4. CASE JsonCall
    BY <2>1, <2>4 DEF JsonCall
  <2>. QED
    BY <2>2, <2>3, <2>4 DEF Init
<1>3. ReadingOK
  <2>1. form = "text" => HandedOver(0)
    BY <1>1, <1>2, NothingHandedOver DEF TypesOK
  <2>2. ~IsValue(1) /\ at - 1 = 0
    BY <1>2, OptionsAlternate
  <2>3. at <= Len(line) + 1
    BY <1>1, <1>2, LenProperties DEF TypesOK
  <2>. QED
    BY <1>2, <2>1, <2>2, <2>3 DEF ReadingOK
<1>4. BindingOK
  <2>1. Bound(0)
    <3>1. 1 .. 0 = {} /\ {j \in 1 .. 0 : Given(j) # NoValue} = {}
      OBVIOUS
    <3>2. bindings = [i \in {j \in 1 .. 0 : Given(j) # NoValue} |-> Given(i)]
      BY <1>2, <3>1
    <3>3. Rank(0) = 0 /\ Len(positional) \in Nat
      BY <1>1, Ranks, LenProperties DEF TypesOK
    <3>. QED
      BY <1>2, <3>1, <3>2, <3>3 DEF Bound
  <2>2. at - 1 = 0 /\ at <= Len(parameters) + 1
    BY <1>1, <1>2, LenProperties DEF TypesOK
  <2>. QED
    BY <1>2, <2>1, <2>2 DEF BindingOK, BoundAsDeclared, Running
<1>5. RunOK
  BY <1>2 DEF RunOK
<1>6. Sources
  <2>1. form # "document" =>
          /\ \A j \in DOMAIN positional : positional[j] \in Words \cup Values
          /\ \A k \in DOMAIN named : named[k] \in Words
    <3>1. DOMAIN <<>> = {}
      OBVIOUS
    <3>2. CASE StructuredCall
      BY <3>1, <3>2 DEF StructuredCall
    <3>3. CASE TextCall
      BY <3>1, <3>3 DEF TextCall
    <3>4. CASE JsonCall
      BY <3>4 DEF JsonCall
    <3>. QED
      BY <3>2, <3>3, <3>4 DEF Init
  <2>2. form = "document" => stage = "reading"
    BY <1>2, <1>1 DEF Init, StructuredCall, TextCall, JsonCall
  <2>. QED
    BY <2>1, <2>2 DEF Sources
<1>. QED
  BY <1>1, <1>3, <1>4, <1>5, <1>6 DEF IInv

LEMMA NextInvariant == IInv /\ [Next]_vars => IInv'
BY TypesStep, ReadingStep, BindingStep, RunStep, SourcesStep DEF IInv

\* Every state of an invocation satisfies the invariant.
THEOREM InvariantHolds == Spec => []IInv
BY InitInvariant, NextInvariant, PTL DEF Spec

\* Whatever tokens stand behind the path, InvokeTokens hands on the arguments
\* they mean: options and values alternate, and the first of equal options counts.
THEOREM TokensAreReadAsMeant == Spec => []ReadAsMeant
<1>1. IInv => ReadAsMeant
  <2>. SUFFICES ASSUME IInv, form = "text", stage \notin {"reading", "refused"}
                PROVE  /\ Len(positional) = Place(Len(line))
                       /\ \A n \in 1 .. Len(line) : IsPositional(n) => positional[Place(n)] = line[n].value
                       /\ named = [key \in {k \in Keys : OptionsFor(k) # {}} |->
                                     ValueAt(Min(OptionsFor(key)))]
    BY DEF ReadAsMeant
  <2>1. HandedOver(Len(line)) /\ Len(line) \in Nat
    BY LenProperties DEF IInv, TypesOK, ReadingOK
  <2>2. \A k : OptionsUpTo(k, Len(line)) = OptionsFor(k)
    BY <2>1 DEF OptionsUpTo, OptionsFor
  <2>. QED
    BY <2>1, <2>2 DEF HandedOver
<1>. QED
  BY <1>1, InvariantHolds, PTL

\* InvokeResolved runs the command for the calls that meet its declaration and
\* no others, with each parameter bound to what the call gives it.
THEOREM BindingsAreAsDeclared == Spec => []BoundAsDeclared
<1>. IInv => BoundAsDeclared
  BY DEF IInv, BindingOK
<1>. QED
  BY InvariantHolds, PTL

\* However many hooks and middleware there are, a run of the command succeeds
\* only if its hooks and its callback did (the lambda "execute").
THEOREM FailuresAreReported == Spec => []FailureIsReported
<1>. IInv => FailureIsReported
  BY DEF IInv, RunOK, FailureIsReported
<1>. QED
  BY InvariantHolds, PTL

\* On a target whose long double has as many significant bits as the integers
\* have, a number that is bound to a numeric parameter reaches the callback as the
\* caller wrote it: JSON's reader, CommandValue's storage and As<T> lose nothing.
THEOREM NumbersAreKept == LongIsWide => (Spec => []NumbersArrive)
<1>. SUFFICES ASSUME LongIsWide PROVE Spec => []NumbersArrive
  OBVIOUS
<1>1. IInv => NumbersArrive
  <2>. SUFFICES ASSUME IInv, Running, NEW i \in DOMAIN bindings, Numeric(i),
                       Written(i).type \in Exact, ~Rounds(Written(i), parameters[i].kind)
                PROVE  ReadAs(parameters[i].kind, bindings[i]) = {Halves(Written(i))}
    BY DEF NumbersArrive
  <2>1. /\ TypesOK /\ Sources /\ BoundAsDeclared /\ stage \notin {"reading", "refused"}
    BY DEF IInv, BindingOK, Running
  <2>2. /\ bindings = [j \in {k \in DOMAIN parameters : Given(k) # NoValue} |-> Given(j)]
        /\ \A j \in DOMAIN parameters : Meets(j)
    BY <2>1 DEF BoundAsDeclared
  <2>3. i \in DOMAIN parameters /\ Given(i) # NoValue /\ bindings[i] = Given(i) /\ Meets(i)
    BY <2>2
  <2>4. /\ Storable(Given(i)) /\ Given(i).type \in Exact
        /\ ~Rounds(Given(i), parameters[i].kind) /\ Halves(Given(i)) = Halves(Written(i))
    BY <2>1, <2>3, GivenAsWritten
  <2>5. As(parameters[i].kind, Given(i)) # {}
    BY <2>3 DEF Meets
  <2>6. parameters[i].kind \in {"SignedInteger", "UnsignedInteger", "FloatingPoint"}
    BY DEF Numeric
  <2>. QED
    BY <2>3, <2>4, <2>5, <2>6, ValuesAreKept
<1>. QED
  BY <1>1, InvariantHolds, PTL

\* Whatever a numeric parameter is bound to, the text that Raw, the choices and
\* the validator see of it (ToString) reads as the number Get returns, or as none.
THEOREM TextsMeanTheSame == Spec => []TextMeansTheSame
<1>1. TextMeansTheSame
  BY TextReadsTheSame DEF TextMeansTheSame, Numeric
<1>. QED
  BY <1>1, PTL

=============================================================================
