-------------------------- MODULE CommandLineProofs --------------------------
(***************************************************************************)
(* What CommandLine promises, proved for every alphabet, every tree of     *)
(* commands and every bound: nothing that is typed is lost, doubled or put *)
(* in another place, and the history has the lines whose execution came to *)
(* its end; and of any text in the buffer, the tokens can be read back,    *)
(* completions lead where they say, and suggestions are the nearest words. *)
(***************************************************************************)
EXTENDS CommandLine, SequenceLemmas, FiniteSetTheorems

Frames == [call : {"Feed", "Invoke", "Handler"}, line : Nat]

Symbols == Typed \cup {Newline}

TypesOK ==
  /\ buffer \in Seq(Typed)
  /\ history \in Seq(Nat)
  /\ stack \in Seq(Frames)
  /\ fed \in Nat
  /\ lines \in Seq(Seq(Symbols))
  /\ around \in Seq(SUBSET Nat)
  /\ thrown \subseteq Nat
  /\ journal \in Seq(Symbols)

(***************************************************************************)
(* The invariant.  Calls of Invoke under way (the frames s, of so many     *)
(* lines) are of different lines, which have been invoked and not left by  *)
(* an exception; and a line that is under way was under way when any later *)
(* line was invoked.                                                       *)
(***************************************************************************)
Invokes(s) == {i \in 1 .. Len(s) : s[i].call = "Invoke"}

Nested(s, n, ar, th) ==
  /\ \A i \in Invokes(s) : s[i].line \in (1 .. n) \ th
  /\ \A i, j \in Invokes(s) : s[i].line = s[j].line => i = j
  /\ \A i \in Invokes(s) : \A m \in 1 .. n : s[i].line < m => s[i].line \in ar[m]

Nesting ==
  /\ Len(around) = Len(lines)
  /\ thrown \subseteq 1 .. Len(lines)
  /\ Nested(stack, Len(lines), around, thrown)

\* What has been typed up to the last newline.
Submitted == FlattenSeq([n \in DOMAIN lines |-> Append(lines[n], Newline)])

Closed == Submitted # <<>> => Last(Submitted) = Newline

Calls == Nesting /\ HistoryIsCompleted

Text == NothingTypedIsLost /\ Closed

IInv == TypesOK /\ Calls /\ Text

-----------------------------------------------------------------------------
(* Facts about the stack of calls.                                         *)

InvokedIn(s) == {s[i].line : i \in Invokes(s)}

LEMMA UnderWayIsInvoked ==
  /\ stack \in Seq(Frames) => UnderWay = InvokedIn(stack)
  /\ stack' \in Seq(Frames) => UnderWay' = InvokedIn(stack')
<1>1. ASSUME NEW s \in Seq(Frames)
      PROVE  {f.line : f \in {g \in ToSet(s) : g.call = "Invoke"}} = InvokedIn(s)
  <2>1. ToSet(s) = {s[i] : i \in 1 .. Len(s)}
    BY LenProperties DEF ToSet
  <2>. QED
    BY <2>1 DEF InvokedIn, Invokes
<1>. QED
  BY <1>1 DEF UnderWay

\* The lines of the calls that are left when the first k calls remain.
Dropped(s, k) == {s[i].line : i \in {j \in k + 1 .. Len(s) : s[j].call = "Invoke"}}

LEMMA Leaving ==
  ASSUME NEW s \in Seq(Frames), NEW k \in 0 .. Len(s), NEW n \in Nat, NEW ar, NEW th,
         Nested(s, n, ar, th)
  PROVE  /\ InvokedIn(SubSeq(s, 1, k)) = InvokedIn(s) \ Dropped(s, k)
         /\ Dropped(s, k) \subseteq InvokedIn(s)
         /\ Nested(SubSeq(s, 1, k), n, ar, th \cup Dropped(s, k))
<1>. DEFINE p == SubSeq(s, 1, k)
<1>0. Len(s) \in Nat /\ k \in Nat /\ k <= Len(s)
  BY LenProperties
<1>1. Len(p) = k /\ \A i \in 1 .. k : p[i] = s[i]
  BY PrefixProperties
<1>. HIDE DEF p
<1>. DEFINE gone == {j \in k + 1 .. Len(s) : s[j].call = "Invoke"}
<1>2. Invokes(p) \cup gone = Invokes(s) /\ Invokes(p) \cap gone = {}
  BY <1>0, <1>1 DEF Invokes
<1>3. \A i \in Invokes(p) : p[i] = s[i] /\ i \in Invokes(s)
  BY <1>1, <1>2 DEF Invokes
<1>4. Dropped(s, k) = {s[j].line : j \in gone}
  BY DEF Dropped
<1>. HIDE DEF gone
<1>5. \A i \in Invokes(p) : s[i].line \notin Dropped(s, k)
  BY <1>2, <1>3, <1>4 DEF Nested
<1>6. InvokedIn(p) = {s[i].line : i \in Invokes(p)}
  BY <1>3 DEF InvokedIn
<1>7. InvokedIn(s) = {s[i].line : i \in Invokes(s)}
  BY DEF InvokedIn
<1>8. InvokedIn(p) = InvokedIn(s) \ Dropped(s, k) /\ Dropped(s, k) \subseteq InvokedIn(s)
  BY <1>2, <1>4, <1>5, <1>6, <1>7
<1>9. Nested(p, n, ar, th \cup Dropped(s, k))
  BY <1>3, <1>5 DEF Nested
<1>. QED
  BY <1>8, <1>9 DEF p

LEMMA Entering ==
  ASSUME NEW s \in Seq(Frames), NEW f \in Frames
  PROVE  /\ Append(s, f) \in Seq(Frames)
         /\ Invokes(Append(s, f)) =
              IF f.call = "Invoke" THEN Invokes(s) \cup {Len(s) + 1} ELSE Invokes(s)
         /\ \A i \in Invokes(s) : Append(s, f)[i] = s[i]
         /\ Append(s, f)[Len(s) + 1] = f
         /\ Len(s) + 1 \notin Invokes(s)
<1>. DEFINE t == Append(s, f)
<1>1. /\ t \in Seq(Frames) /\ Len(t) = Len(s) + 1 /\ Len(s) \in Nat
      /\ \A i \in 1 .. Len(s) : t[i] = s[i]
      /\ t[Len(s) + 1] = f
  BY AppendProperties, LenProperties
<1>. HIDE DEF t
<1>2. 1 .. Len(s) + 1 = (1 .. Len(s)) \cup {Len(s) + 1} /\ Len(s) + 1 \notin 1 .. Len(s)
  BY <1>1
<1>3. Invokes(t) = {i \in 1 .. Len(s) + 1 : t[i].call = "Invoke"}
  BY <1>1 DEF Invokes
<1>4. \A i \in 1 .. Len(s) + 1 :
        i \in Invokes(t) <=> (i \in Invokes(s) \/ (i = Len(s) + 1 /\ f.call = "Invoke"))
  BY <1>1, <1>2, <1>3 DEF Invokes
<1>5. Invokes(t) \subseteq 1 .. Len(s) + 1 /\ Invokes(s) \subseteq 1 .. Len(s)
  BY <1>3 DEF Invokes
<1>6. Invokes(t) = IF f.call = "Invoke" THEN Invokes(s) \cup {Len(s) + 1} ELSE Invokes(s)
  BY <1>2, <1>4, <1>5
<1>. QED
  BY <1>1, <1>2, <1>5, <1>6 DEF t

\* A Feed or a handler is no Invoke.
LEMMA EnteringOther ==
  ASSUME NEW s \in Seq(Frames), NEW f \in Frames, f.call # "Invoke",
         NEW n, NEW ar, NEW th
  PROVE  /\ InvokedIn(Append(s, f)) = InvokedIn(s)
         /\ Nested(s, n, ar, th) => Nested(Append(s, f), n, ar, th)
<1>. DEFINE t == Append(s, f)
<1>1. Invokes(t) = Invokes(s) /\ \A i \in Invokes(s) : t[i] = s[i]
  BY Entering
<1>. HIDE DEF t
<1>2. InvokedIn(t) = InvokedIn(s)
  BY <1>1 DEF InvokedIn
<1>3. Nested(s, n, ar, th) => Nested(t, n, ar, th)
  BY <1>1 DEF Nested
<1>. QED
  BY <1>2, <1>3 DEF t

-----------------------------------------------------------------------------
(* Types.                                                                  *)

\* The end of the journal behind the last newline is not longer than it.
LEMMA OpenLineFits ==
  ASSUME journal \in Seq(Symbols)
  PROVE  Len(journal) - Cardinality(OpenLine(journal)) \in 0 .. Len(journal)
<1>1. Len(journal) \in Nat /\ OpenLine(journal) \subseteq 1 .. Len(journal)
  BY LenProperties DEF OpenLine
<1>2. IsFiniteSet(1 .. Len(journal)) /\ Cardinality(1 .. Len(journal)) = Len(journal)
  <2>1. (IF 1 > Len(journal) THEN 0 ELSE Len(journal) - 1 + 1) = Len(journal)
    BY <1>1
  <2>. QED
    BY <1>1, <2>1, FS_Interval
<1>3. /\ IsFiniteSet(OpenLine(journal))
      /\ Cardinality(OpenLine(journal)) <= Len(journal)
  BY <1>1, <1>2, FS_Subset
<1>4. Cardinality(OpenLine(journal)) \in Nat
  BY <1>3, FS_CardinalityType
<1>. QED
  BY <1>1, <1>3, <1>4

LEMMA FrontOfStack ==
  ASSUME stack \in Seq(Frames), stack # <<>>
  PROVE  /\ Len(stack) \in Nat /\ Len(stack) - 1 \in 0 .. Len(stack)
         /\ Len(stack) \in 1 .. Len(stack)
         /\ Front(stack) = SubSeq(stack, 1, Len(stack) - 1)
         /\ Front(stack) \in Seq(Frames)
         /\ Last(stack) = stack[Len(stack)] /\ Last(stack) \in Frames
<1>1. Len(stack) \in Nat /\ Len(stack) # 0
  BY EmptySeq
<1>2. Len(stack) - 1 \in 0 .. Len(stack) /\ Len(stack) \in 1 .. Len(stack)
  BY <1>1
<1>3. SubSeq(stack, 1, Len(stack) - 1) \in Seq(Frames) /\ stack[Len(stack)] \in Frames
  BY <1>2, PrefixProperties, ElementOfSeq
<1>. QED
  BY <1>1, <1>2, <1>3 DEF Front, Last

LEMMA TypesStep ==
  ASSUME TypesOK, [Next]_vars
  PROVE  TypesOK'
<1>. USE DEF TypesOK
<1>0. buffer \in Seq(Symbols) /\ Typed \subseteq Symbols /\ Newline \in Symbols
  <2>1. Typed \subseteq Symbols /\ Newline \in Symbols
    BY DEF Symbols
  <2>. QED
    BY <2>1, SeqMonotonic
<1>1. CASE FeedBegin
  <2>1. [call |-> "Feed", line |-> 0] \in Frames
    BY DEF Frames
  <2>. QED
    BY <1>1, <2>1, AppendProperties DEF FeedBegin, Enter, notes
<1>2. CASE FeedEnd
  BY <1>2, FrontOfStack DEF FeedEnd, Feeding, notes
<1>3. ASSUME NEW c \in Typed, FeedTyped(c) PROVE TypesOK'
  BY <1>0, <1>3, AppendProperties DEF FeedTyped, Character, notes
<1>4. CASE FeedBackspace
  <2>1. buffer' \in Seq(Typed)
    <3>1. CASE buffer = <<>>
      BY <1>4, <3>1 DEF FeedBackspace
    <3>2. CASE buffer # <<>>
      <4>1. Len(buffer) - 1 \in 0 .. Len(buffer)
        BY <3>2, EmptySeq
      <4>. QED
        BY <1>4, <3>2, <4>1, PrefixProperties DEF FeedBackspace, Front
    <3>. QED
      BY <3>1, <3>2
  <2>2. journal' \in Seq(Symbols)
    <3>1. CASE ~IsOpen(journal)
      BY <1>4, <3>1 DEF FeedBackspace
    <3>2. CASE IsOpen(journal)
      <4>1. Len(journal) - 1 \in 0 .. Len(journal)
        BY <3>2, EmptySeq DEF IsOpen
      <4>. QED
        BY <1>4, <3>2, <4>1, PrefixProperties DEF FeedBackspace, Front
    <3>. QED
      BY <3>1, <3>2
  <2>. QED
    BY <1>4, <2>1, <2>2 DEF FeedBackspace, Character, notes
<1>5. CASE FeedEmptyLine
  BY <1>5 DEF FeedEmptyLine, Character, notes
<1>6. CASE FeedLine
  <2>1. lines' \in Seq(Seq(Symbols)) /\ journal' \in Seq(Symbols)
    BY <1>0, <1>6, AppendProperties DEF FeedLine
  <2>2. Len(lines) + 1 \in Nat
    BY LenProperties
  <2>3. [call |-> "Invoke", line |-> Len(lines) + 1] \in Frames
    BY <2>2 DEF Frames
  <2>4. stack' \in Seq(Frames)
    BY <1>6, <2>3, AppendProperties DEF FeedLine, Enter
  <2>5. UnderWay \in SUBSET Nat
    <3>1. \A i \in 1 .. Len(stack) : stack[i] \in Frames
      BY ElementOfSeq
    <3>2. \A i \in Invokes(stack) : stack[i].line \in Nat
      BY <3>1 DEF Frames, Invokes
    <3>3. UnderWay = InvokedIn(stack)
      BY UnderWayIsInvoked
    <3>. QED
      BY <3>2, <3>3 DEF InvokedIn
  <2>6. around' \in Seq(SUBSET Nat)
    BY <1>6, <2>5, AppendProperties DEF FeedLine
  <2>7. history' \in Seq(Nat) /\ buffer' \in Seq(Typed)
    BY <1>6, EmptySeq DEF FeedLine, HistoryDuringInvoke
  <2>. QED
    BY <1>6, <2>1, <2>4, <2>6, <2>7 DEF FeedLine, Character
<1>7. CASE InvokeReturn
  <2>1. Last(stack) \in Frames /\ Front(stack) \in Seq(Frames)
    BY <1>7, FrontOfStack DEF InvokeReturn
  <2>2. [call |-> "Handler", line |-> Last(stack).line] \in Frames /\ Last(stack).line \in Nat
    BY <2>1 DEF Frames
  <2>. QED
    BY <1>7, <2>1, <2>2, AppendProperties DEF InvokeReturn, Enter, BufferAfterInvoke, notes
<1>8. CASE HandlerReturn
  BY <1>8, FrontOfStack DEF HandlerReturn, notes
<1>9. CASE Clear
  BY <1>9, OpenLineFits, PrefixProperties, EmptySeq DEF Clear, notes
<1>10. CASE Throw
  <2>1. PICK k \in 0 .. Len(stack) - 1 :
          /\ stack' = SubSeq(stack, 1, k)
          /\ thrown' = thrown \cup
               {f.line : f \in {stack[i] : i \in {j \in k + 1 .. Len(stack) :
                                                    stack[j].call = "Invoke"}}}
    BY <1>10 DEF Throw
  <2>2. Len(stack) \in Nat /\ k \in 0 .. Len(stack)
    BY LenProperties
  <2>3. \A i \in k + 1 .. Len(stack) : stack[i].line \in Nat
    <3>1. \A i \in k + 1 .. Len(stack) : stack[i] \in Frames
      BY <2>2, ElementOfSeq
    <3>. QED
      BY <3>1 DEF Frames
  <2>4. thrown' \subseteq Nat
    BY <2>1, <2>3
  <2>. QED
    BY <1>10, <2>1, <2>2, <2>4, PrefixProperties DEF Throw
<1>11. CASE UNCHANGED vars
  BY <1>11 DEF vars, notes
<1>. QED
  BY <1>1, <1>2, <1>3, <1>4, <1>5, <1>6, <1>7, <1>8, <1>9, <1>10, <1>11 DEF Next

-----------------------------------------------------------------------------
(* The calls under way and the history.                                    *)

\* A call that is no Invoke begins.
LEMMA CallBegins ==
  ASSUME TypesOK, TypesOK', Calls,
         NEW f \in Frames, f.call # "Invoke", stack' = Append(stack, f),
         UNCHANGED <<history, notes>>
  PROVE  Calls'
<1>. USE DEF TypesOK, Calls
<1>1. UnderWay' = UnderWay
  <2>1. UnderWay = InvokedIn(stack) /\ UnderWay' = InvokedIn(stack')
    BY UnderWayIsInvoked
  <2>2. InvokedIn(Append(stack, f)) = InvokedIn(stack)
    BY EnteringOther
  <2>. QED
    BY <2>1, <2>2
<1>2. Nested(stack, Len(lines), around, thrown)'
  <2>1. Nested(Append(stack, f), Len(lines), around, thrown)
    BY EnteringOther DEF Nesting
  <2>. QED
    BY <2>1 DEF Nested, Invokes, notes
<1>. QED
  BY <1>1, <1>2 DEF Nesting, HistoryIsCompleted, notes

\* The last call, which is no Invoke, returns.
LEMMA CallEnds ==
  ASSUME TypesOK, TypesOK', Calls,
         stack # <<>>, Last(stack).call # "Invoke", stack' = Front(stack),
         UNCHANGED <<history, notes>>
  PROVE  Calls'
<1>. USE DEF TypesOK, Calls
<1>. DEFINE k == Len(stack) - 1
            p == SubSeq(stack, 1, k)
<1>0. /\ Len(stack) \in Nat /\ k \in 0 .. Len(stack)
      /\ stack' = p /\ Last(stack) = stack[Len(stack)]
  BY FrontOfStack
<1>1. Dropped(stack, k) = {}
  <2>1. \A j \in k + 1 .. Len(stack) : j = Len(stack)
    BY <1>0
  <2>. QED
    BY <1>0, <2>1 DEF Dropped
<1>2. /\ InvokedIn(p) = InvokedIn(stack)
      /\ Nested(p, Len(lines), around, thrown)
  <2>1. Len(lines) \in Nat /\ Nested(stack, Len(lines), around, thrown)
    BY LenProperties DEF Nesting
  <2>2. /\ InvokedIn(p) = InvokedIn(stack) \ Dropped(stack, k)
        /\ Nested(p, Len(lines), around, thrown \cup Dropped(stack, k))
    BY <1>0, <2>1, Leaving
  <2>3. thrown \cup Dropped(stack, k) = thrown
    BY <1>1
  <2>. QED
    BY <1>1, <2>2, <2>3
<1>. HIDE DEF p, k
<1>3. UnderWay' = UnderWay
  <2>1. UnderWay = InvokedIn(stack) /\ UnderWay' = InvokedIn(stack')
    BY UnderWayIsInvoked
  <2>. QED
    BY <1>0, <1>2, <2>1
<1>4. Nested(stack, Len(lines), around, thrown)'
  BY <1>0, <1>2 DEF Nested, Invokes, notes
<1>. QED
  BY <1>3, <1>4 DEF Nesting, HistoryIsCompleted, notes

\* The history and its set of lines when a line is put into it.
LEMMA HistoryWith ==
  ASSUME history \in Seq(Nat), HistoryIsCompleted, NEW n \in Nat,
         n \notin ToSet(history), Len(lines) \in Nat, DOMAIN lines = 1 .. Len(lines)
  PROVE  /\ ToSet(Append(history, n)) = ToSet(history) \cup {n}
         /\ Cardinality(ToSet(Append(history, n))) = Len(Append(history, n))
<1>1. ToSet(Append(history, n)) = ToSet(history) \cup {n}
  BY AppendToSet
<1>2. IsFiniteSet(ToSet(history))
  <2>1. ToSet(history) \subseteq 1 .. Len(lines)
    BY DEF HistoryIsCompleted
  <2>2. IsFiniteSet(1 .. Len(lines))
    BY FS_Interval
  <2>. QED
    BY <2>1, <2>2, FS_Subset
<1>3. Cardinality(ToSet(history) \cup {n}) = Cardinality(ToSet(history)) + 1
  BY <1>2, FS_AddElement
<1>4. Len(Append(history, n)) = Len(history) + 1
  BY AppendProperties
<1>. QED
  BY <1>1, <1>3, <1>4 DEF HistoryIsCompleted

LEMMA FeedLineCalls ==
  ASSUME TypesOK, TypesOK', Calls, FeedLine
  PROVE  Calls'
<1>. USE DEF Calls
<1>. DEFINE n == Len(lines) + 1
            f == [call |-> "Invoke", line |-> n]
<1>0. /\ stack' = Append(stack, f) /\ history' = history
      /\ lines' = Append(lines, buffer) /\ around' = Append(around, UnderWay)
      /\ thrown' = thrown
  BY DEF FeedLine, Enter, HistoryDuringInvoke
<1>t. /\ lines \in Seq(Seq(Symbols)) /\ around \in Seq(SUBSET Nat)
      /\ buffer \in Seq(Typed) /\ history \in Seq(Nat)
      /\ stack \in Seq(Frames) /\ stack' \in Seq(Frames)
  BY DEF TypesOK
<1>1. /\ Len(lines) \in Nat /\ n \in Nat /\ DOMAIN lines = 1 .. Len(lines)
      /\ Len(lines') = n /\ DOMAIN lines' = 1 .. n
      /\ 1 .. n = (1 .. Len(lines)) \cup {n} /\ n \notin 1 .. Len(lines)
  <2>1. Len(lines) \in Nat /\ DOMAIN lines = 1 .. Len(lines)
    BY <1>t, LenProperties
  <2>2. buffer \in Seq(Symbols)
    BY <1>t, SeqMonotonic DEF Symbols
  <2>3. Append(lines, buffer) \in Seq(Seq(Symbols)) /\ Len(Append(lines, buffer)) = n
    BY <1>t, <2>2, AppendProperties
  <2>4. lines' \in Seq(Seq(Symbols)) /\ Len(lines') = n
    BY <1>0, <2>3
  <2>5. DOMAIN lines' = 1 .. n
    BY <2>4, LenProperties
  <2>. QED
    BY <2>1, <2>4, <2>5
<1>2. UnderWay = InvokedIn(stack) /\ UnderWay' = InvokedIn(stack')
  BY <1>t, UnderWayIsInvoked
<1>3. /\ Len(around') = n
      /\ \A m \in 1 .. Len(lines) : around'[m] = around[m]
      /\ around'[n] = UnderWay
  <2>1. UnderWay \in SUBSET Nat
    BY <1>1, <1>2 DEF InvokedIn, Nesting, Nested
  <2>2. Len(around) = Len(lines)
    BY DEF Nesting
  <2>. QED
    <3>. PICK u : u = UnderWay
      OBVIOUS
    <3>. PICK a : a = around
      OBVIOUS
    <3>1. Append(a, u)[Len(a) + 1] = u /\ Len(Append(a, u)) = Len(a) + 1
          /\ \A m \in 1 .. Len(a) : Append(a, u)[m] = a[m]
      BY <1>t, <2>1, AppendProperties
    <3>. QED
      BY <1>0, <2>2, <3>1
<1>. HIDE DEF n
<1>. PICK t : t = stack'
  OBVIOUS
<1>4. /\ Invokes(t) = Invokes(stack) \cup {Len(stack) + 1}
      /\ \A i \in Invokes(stack) : t[i] = stack[i]
      /\ t[Len(stack) + 1].line = n
      /\ Len(stack) + 1 \notin Invokes(stack)
  <2>1. f \in Frames /\ f.call = "Invoke" /\ f.line = n
    BY <1>1 DEF Frames
  <2>. HIDE DEF f
  <2>. QED
    <3>1. /\ Invokes(Append(stack, f)) = Invokes(stack) \cup {Len(stack) + 1}
          /\ \A i \in Invokes(stack) : Append(stack, f)[i] = stack[i]
          /\ Append(stack, f)[Len(stack) + 1] = f
          /\ Len(stack) + 1 \notin Invokes(stack)
      BY <1>t, <2>1, Entering
    <3>2. t = Append(stack, f)
      BY <1>0
    <3>. QED
      BY <2>1, <3>1, <3>2
<1>5. InvokedIn(t) = InvokedIn(stack) \cup {n}
  <2>1. \A i \in Invokes(t) : i = Len(stack) + 1 \/ (i \in Invokes(stack) /\ t[i].line = stack[i].line)
    BY <1>4
  <2>2. \A i \in Invokes(stack) : i \in Invokes(t) /\ t[i].line = stack[i].line
    BY <1>4
  <2>3. Len(stack) + 1 \in Invokes(t) /\ t[Len(stack) + 1].line = n
    BY <1>4
  <2>4. InvokedIn(t) \subseteq InvokedIn(stack) \cup {n}
    BY <2>1, <2>3 DEF InvokedIn
  <2>5. InvokedIn(stack) \cup {n} \subseteq InvokedIn(t)
    BY <2>2, <2>3 DEF InvokedIn
  <2>. QED
    BY <2>4, <2>5
<1>6. Nesting'
  <2>1. thrown \subseteq 1 .. Len(lines) /\ Nested(stack, Len(lines), around, thrown)
    BY DEF Nesting
  <2>2. \A i \in Invokes(t) : t[i].line \in (1 .. n) \ thrown
    BY <1>1, <1>4, <2>1 DEF Nested
  <2>3. ASSUME NEW i \in Invokes(t), NEW j \in Invokes(t), t[i].line = t[j].line
        PROVE  i = j
    <3>1. \A l \in Invokes(stack) : t[l].line = stack[l].line /\ stack[l].line # n
      BY <1>1, <1>4, <2>1 DEF Nested
    <3>2. CASE i \in Invokes(stack) /\ j \in Invokes(stack)
      BY <2>1, <2>3, <3>1, <3>2 DEF Nested
    <3>3. CASE i = Len(stack) + 1 \/ j = Len(stack) + 1
      BY <1>4, <2>3, <3>1, <3>3
    <3>. QED
      BY <1>4, <3>2, <3>3
  <2>4. ASSUME NEW i \in Invokes(t), NEW m \in 1 .. n, t[i].line < m
        PROVE  t[i].line \in around'[m]
    <3>1. i \in Invokes(stack)
      BY <1>1, <1>4, <2>4
    <3>2. CASE m = n
      <4>1. stack[i].line \in InvokedIn(stack) /\ t[i].line = stack[i].line
        BY <1>4, <3>1 DEF InvokedIn
      <4>. QED
        BY <1>2, <1>3, <3>2, <4>1
    <3>3. CASE m # n
      BY <1>1, <1>3, <1>4, <2>1, <2>4, <3>1, <3>3 DEF Nested
    <3>. QED
      BY <3>2, <3>3
  <2>5. thrown' \subseteq 1 .. n
    BY <1>0, <1>1, <2>1
  <2>6. Nested(t, n, around', thrown)
    BY <2>2, <2>3, <2>4 DEF Nested
  <2>. QED
    BY <1>0, <1>1, <1>3, <2>5, <2>6 DEF Nesting
<1>7. HistoryIsCompleted'
  <2>1. ToSet(history) = (1 .. Len(lines)) \ (UnderWay \cup thrown)
    BY <1>1 DEF HistoryIsCompleted
  <2>2. UnderWay' = UnderWay \cup {n}
    BY <1>2, <1>5
  <2>3. ToSet(history)' = DOMAIN lines' \ (UnderWay' \cup thrown')
    <3>1. ToSet(history)' = ToSet(history)
      BY <1>0 DEF ToSet
    <3>2. n \notin thrown
      BY <1>1 DEF Nesting
    <3>. QED
      BY <1>0, <1>1, <2>1, <2>2, <3>1, <3>2
  <2>4. \A i \in DOMAIN history : history[i] \in 1 .. Len(lines)
    BY <2>1 DEF ToSet
  <2>5. \A i, j \in DOMAIN history' :
          i < j /\ history'[i] > history'[j] => history'[j] \in around'[history'[i]]
    BY <1>0, <1>3, <2>4 DEF HistoryIsCompleted
  <2>6. Cardinality(ToSet(history)') = Len(history')
    BY <1>0 DEF HistoryIsCompleted, ToSet
  <2>. QED
    BY <2>3, <2>5, <2>6 DEF HistoryIsCompleted
<1>. QED
  BY <1>6, <1>7

LEMMA InvokeReturnCalls ==
  ASSUME TypesOK, TypesOK', Calls, InvokeReturn
  PROVE  Calls'
<1>. USE DEF TypesOK, Calls
<1>. DEFINE k == Len(stack) - 1
            p == SubSeq(stack, 1, k)
            n == Last(stack).line
            f == [call |-> "Handler", line |-> n]
<1>0. /\ Len(stack) \in Nat /\ k \in 0 .. Len(stack) /\ Len(stack) \in 1 .. Len(stack)
      /\ n \in Nat /\ p \in Seq(Frames)
      /\ n = stack[Len(stack)].line /\ stack[Len(stack)].call = "Invoke"
      /\ stack' = Append(p, f) /\ history' = Append(history, n)
      /\ UNCHANGED notes
  <2>1. Last(stack) \in Frames
    BY FrontOfStack DEF InvokeReturn
  <2>2. n \in Nat
    BY <2>1 DEF Frames
  <2>. QED
    BY <2>2, FrontOfStack DEF InvokeReturn, Enter
<1>1. Len(lines) \in Nat /\ DOMAIN lines = 1 .. Len(lines)
  BY LenProperties
<1>2. Dropped(stack, k) = {n}
  <2>1. \A j \in k + 1 .. Len(stack) : j = Len(stack)
    BY <1>0
  <2>2. Len(stack) \in k + 1 .. Len(stack)
    BY <1>0
  <2>. HIDE DEF k
  <2>. QED
    BY <1>0, <2>1, <2>2 DEF Dropped
<1>3. Nested(stack, Len(lines), around, thrown)
  BY DEF Nesting
<1>4. /\ InvokedIn(p) = InvokedIn(stack) \ {n}
      /\ n \in InvokedIn(stack)
      /\ Nested(p, Len(lines), around, thrown \cup {n})
  BY <1>0, <1>1, <1>2, <1>3, Leaving
<1>. HIDE DEF k, p
<1>5. /\ InvokedIn(stack') = InvokedIn(p)
      /\ Nested(stack', Len(lines), around, thrown)
  <2>1. f \in Frames /\ f.call # "Invoke"
    BY <1>0 DEF Frames
  <2>2. Nested(p, Len(lines), around, thrown)
    BY <1>4 DEF Nested
  <2>. HIDE DEF f
  <2>. QED
    BY <1>0, <2>1, <2>2, EnteringOther
<1>. HIDE DEF n, f
<1>6. UnderWay = InvokedIn(stack) /\ UnderWay' = UnderWay \ {n} /\ n \in UnderWay
  BY <1>4, <1>5, UnderWayIsInvoked
<1>7. /\ Len(stack) \in Invokes(stack) /\ n \in 1 .. Len(lines) /\ n \notin thrown
      /\ \A m \in 1 .. Len(lines) : n < m => n \in around[m]
  <2>1. Len(stack) \in Invokes(stack)
    BY <1>0 DEF Invokes
  <2>. QED
    BY <1>0, <1>3, <2>1 DEF Nested
<1>8. ToSet(history) = (1 .. Len(lines)) \ (UnderWay \cup thrown)
  BY <1>1 DEF HistoryIsCompleted
<1>9. /\ ToSet(history') = ToSet(history) \cup {n}
      /\ Cardinality(ToSet(history')) = Len(history')
  BY <1>0, <1>1, <1>6, <1>8, HistoryWith
<1>10. ToSet(history') = (1 .. Len(lines)) \ (UnderWay' \cup thrown)
  BY <1>6, <1>7, <1>8, <1>9
<1>11. ASSUME NEW i \in DOMAIN history', NEW j \in DOMAIN history',
              i < j, history'[i] > history'[j]
       PROVE  history'[j] \in around[history'[i]]
  <2>1. /\ Len(history) \in Nat /\ DOMAIN history = 1 .. Len(history)
        /\ DOMAIN history' = 1 .. Len(history) + 1
        /\ \A l \in 1 .. Len(history) : history'[l] = history[l]
        /\ history'[Len(history) + 1] = n
    BY <1>0, AppendProperties, LenProperties
  <2>2. i \in 1 .. Len(history)
    BY <1>11, <2>1
  <2>3. CASE j = Len(history) + 1
    <3>1. history[i] \in 1 .. Len(lines)
      BY <1>8, <2>1, <2>2 DEF ToSet
    <3>. QED
      BY <1>0, <1>1, <1>7, <1>11, <2>1, <2>2, <2>3, <3>1
  <2>4. CASE j # Len(history) + 1
    <3>1. j \in 1 .. Len(history)
      BY <2>1, <2>4
    <3>. QED
      BY <1>11, <2>1, <2>2, <3>1 DEF HistoryIsCompleted
  <2>. QED
    BY <2>3, <2>4
<1>12. HistoryIsCompleted'
  BY <1>0, <1>1, <1>9, <1>10, <1>11 DEF HistoryIsCompleted, notes
<1>13. Nesting'
  BY <1>0, <1>5 DEF Nesting, notes
<1>. QED
  BY <1>12, <1>13

LEMMA ThrowCalls ==
  ASSUME TypesOK, TypesOK', Calls, Throw
  PROVE  Calls'
<1>. USE DEF TypesOK, Calls
<1>1. PICK k \in 0 .. Len(stack) - 1 :
        /\ stack' = SubSeq(stack, 1, k)
        /\ thrown' = thrown \cup
             {f.line : f \in {stack[i] : i \in {j \in k + 1 .. Len(stack) :
                                                  stack[j].call = "Invoke"}}}
  BY DEF Throw
<1>2. /\ Len(stack) \in Nat /\ k \in 0 .. Len(stack)
      /\ Len(lines) \in Nat /\ DOMAIN lines = 1 .. Len(lines)
  BY LenProperties
<1>3. thrown' = thrown \cup Dropped(stack, k)
  BY <1>1 DEF Dropped
<1>4. thrown \subseteq 1 .. Len(lines) /\ Nested(stack, Len(lines), around, thrown)
  BY DEF Nesting
<1>5. /\ InvokedIn(stack') = InvokedIn(stack) \ Dropped(stack, k)
      /\ Dropped(stack, k) \subseteq InvokedIn(stack)
      /\ Nested(stack', Len(lines), around, thrown')
  <2>1. /\ InvokedIn(SubSeq(stack, 1, k)) = InvokedIn(stack) \ Dropped(stack, k)
        /\ Dropped(stack, k) \subseteq InvokedIn(stack)
        /\ Nested(SubSeq(stack, 1, k), Len(lines), around, thrown \cup Dropped(stack, k))
    BY <1>2, <1>4, Leaving
  <2>. QED
    BY <1>1, <1>3, <2>1
<1>6. InvokedIn(stack) \subseteq 1 .. Len(lines)
  BY <1>4 DEF InvokedIn, Nested
<1>7. UnderWay' \cup thrown' = UnderWay \cup thrown
  BY <1>3, <1>5, UnderWayIsInvoked
<1>8. Nesting'
  BY <1>3, <1>4, <1>5, <1>6 DEF Throw, Nesting
<1>9. HistoryIsCompleted'
  BY <1>7 DEF Throw, HistoryIsCompleted
<1>. QED
  BY <1>8, <1>9

LEMMA CallsStep ==
  ASSUME TypesOK, TypesOK', Calls, [Next]_vars
  PROVE  Calls'
<1>. USE DEF Calls
<1>1. ASSUME UNCHANGED <<history, stack, notes>> PROVE Calls'
  BY <1>1 DEF Nesting, HistoryIsCompleted, UnderWay, notes
<1>2. CASE FeedBegin
  <2>1. [call |-> "Feed", line |-> 0] \in Frames
    BY DEF Frames
  <2>. QED
    BY <1>2, <2>1, CallBegins DEF FeedBegin, Enter
<1>3. CASE FeedEnd
  BY <1>3, CallEnds DEF FeedEnd, Feeding
<1>4. CASE FeedLine
  BY <1>4, FeedLineCalls
<1>5. CASE InvokeReturn
  BY <1>5, InvokeReturnCalls
<1>6. CASE HandlerReturn
  BY <1>6, CallEnds DEF HandlerReturn
<1>7. CASE Throw
  BY <1>7, ThrowCalls
<1>8. CASE \/ \E c \in Typed : FeedTyped(c)
           \/ FeedBackspace \/ FeedEmptyLine \/ Clear \/ UNCHANGED vars
  BY <1>1, <1>8 DEF FeedTyped, FeedBackspace, FeedEmptyLine, Clear, vars
<1>. QED
  BY <1>2, <1>3, <1>4, <1>5, <1>6, <1>7, <1>8 DEF Next

-----------------------------------------------------------------------------
(* The text.                                                               *)

LEMMA NewlineIsNotTyped == Newline \notin Typed
BY LineAssumption DEF Typed, Newline, Blank, Backslash, Quotes

LEMMA SubmittedType ==
  ASSUME TypesOK
  PROVE  /\ buffer \in Seq(Symbols)
         /\ [n \in DOMAIN lines |-> Append(lines[n], Newline)] \in Seq(Seq(Symbols))
         /\ Submitted \in Seq(Symbols)
         /\ Len(buffer) \in Nat /\ Len(Submitted) \in Nat
<1>. DEFINE t == [n \in DOMAIN lines |-> Append(lines[n], Newline)]
<1>1. buffer \in Seq(Symbols) /\ Len(buffer) \in Nat
  BY SeqMonotonic, LenProperties DEF TypesOK, Symbols
<1>2. Len(lines) \in Nat /\ DOMAIN lines = 1 .. Len(lines)
  BY LenProperties DEF TypesOK
<1>3. \A n \in 1 .. Len(lines) : Append(lines[n], Newline) \in Seq(Symbols)
  <2>. TAKE n \in 1 .. Len(lines)
  <2>1. lines[n] \in Seq(Symbols)
    BY ElementOfSeq DEF TypesOK
  <2>2. Newline \in Symbols
    BY DEF Symbols
  <2>. QED
    BY <2>1, <2>2, AppendProperties
<1>4. t \in [1 .. Len(lines) -> Seq(Symbols)]
  BY <1>2, <1>3
<1>5. t \in Seq(Seq(Symbols))
  <2>. HIDE DEF t
  <2>. QED
    BY <1>2, <1>4, SeqDef
<1>6. Submitted \in Seq(Symbols)
  <2>1. Submitted = FlattenSeq(t)
    BY DEF Submitted
  <2>. HIDE DEF t
  <2>. QED
    BY <1>5, <2>1, FlattenSeqProperties
<1>7. Len(Submitted) \in Nat
  BY <1>6, LenProperties
<1>. QED
  BY <1>1, <1>5, <1>6, <1>7

LEMMA TextRests ==
  ASSUME Text, UNCHANGED <<buffer, lines, journal>>
  PROVE  Text'
BY DEF Text, NothingTypedIsLost, Closed, Submitted

LEMMA FeedTypedText ==
  ASSUME TypesOK, Text, NEW c \in Typed, FeedTyped(c)
  PROVE  Text'
<1>0. /\ buffer' = Append(buffer, c) /\ journal' = Append(journal, c) /\ lines' = lines
      /\ journal \in Seq(Symbols)
      /\ journal = Submitted \o buffer /\ Submitted' = Submitted
  BY DEF FeedTyped, notes, TypesOK, Text, NothingTypedIsLost, Submitted
<1>1. c \in Symbols /\ <<c>> \in Seq(Symbols)
  BY DEF Symbols
<1>2. journal' = (Submitted \o buffer) \o <<c>> /\ buffer' = buffer \o <<c>>
  BY <1>0, <1>1, SubmittedType, AppendIsConcat
<1>3. journal' = Submitted \o buffer'
  BY <1>1, <1>2, SubmittedType, ConcatAssociative
<1>. QED
  BY <1>0, <1>3 DEF Text, NothingTypedIsLost, Closed, Submitted

\* The journal ends as the buffer does or, when that is empty, with a newline.
LEMMA EndOfJournal ==
  ASSUME TypesOK, Text
  PROVE  /\ journal = Submitted \o buffer
         /\ Len(journal) = Len(Submitted) + Len(buffer)
         /\ \A i \in 1 .. Len(buffer) : journal[Len(Submitted) + i] \in Typed
         /\ Submitted # <<>> => /\ Len(Submitted) \in 1 .. Len(journal)
                               /\ journal[Len(Submitted)] = Newline
<1>0. /\ buffer \in Seq(Symbols) /\ Submitted \in Seq(Symbols)
      /\ Len(buffer) \in Nat /\ Len(Submitted) \in Nat
  BY SubmittedType
<1>1. journal = Submitted \o buffer
  BY DEF Text, NothingTypedIsLost, Submitted
<1>2. /\ Len(journal) = Len(Submitted) + Len(buffer)
      /\ \A i \in 1 .. Len(Submitted) + Len(buffer) : journal[i] =
           IF i <= Len(Submitted) THEN Submitted[i] ELSE buffer[i - Len(Submitted)]
  BY <1>0, <1>1, ConcatProperties
<1>3. ASSUME NEW i \in 1 .. Len(buffer)
      PROVE  journal[Len(Submitted) + i] \in Typed
  <2>1. /\ Len(Submitted) + i \in 1 .. Len(Submitted) + Len(buffer)
        /\ ~(Len(Submitted) + i <= Len(Submitted))
        /\ (Len(Submitted) + i) - Len(Submitted) = i
    BY <1>0
  <2>2. journal[Len(Submitted) + i] = buffer[i]
    BY <1>2, <2>1
  <2>. QED
    BY <2>2, ElementOfSeq DEF TypesOK
<1>4. ASSUME Submitted # <<>>
      PROVE  Len(Submitted) \in 1 .. Len(journal) /\ journal[Len(Submitted)] = Newline
  <2>1. Len(Submitted) # 0
    BY <1>0, <1>4, EmptySeq
  <2>2. Len(Submitted) \in 1 .. Len(Submitted) + Len(buffer)
    BY <1>0, <2>1
  <2>3. Submitted[Len(Submitted)] = Newline
    BY <1>4 DEF Text, Closed, Last
  <2>. QED
    BY <1>0, <1>2, <2>2, <2>3
<1>. QED
  BY <1>1, <1>2, <1>3, <1>4

\* What is left when the journal is cut behind the first k symbols of the buffer.
LEMMA CutJournal ==
  ASSUME TypesOK, Text, NEW k \in 0 .. Len(buffer)
  PROVE  SubSeq(journal, 1, Len(Submitted) + k) = Submitted \o SubSeq(buffer, 1, k)
BY SubmittedType, EndOfJournal, PrefixOfConcat

LEMMA FeedBackspaceText ==
  ASSUME TypesOK, Text, FeedBackspace
  PROVE  Text'
<1>0. /\ Len(buffer) \in Nat /\ Len(Submitted) \in Nat
      /\ Len(journal) = Len(Submitted) + Len(buffer)
      /\ lines' = lines /\ Submitted' = Submitted
  BY SubmittedType, EndOfJournal DEF FeedBackspace, notes, Submitted
<1>1. CASE buffer = <<>>
  <2>1. Len(journal) = Len(Submitted) /\ journal = Submitted
    <3>1. Len(buffer) = 0
      BY <1>1, EmptySeq
    <3>2. Submitted \o <<>> = Submitted
      BY SubmittedType, ConcatEmptySeq
    <3>. QED
      BY <1>0, <1>1, <3>1, <3>2, EndOfJournal
  <2>2. ~IsOpen(journal)
    BY <2>1, EndOfJournal DEF IsOpen, Last
  <2>. QED
    BY <1>1, <2>2, TextRests DEF FeedBackspace, notes
<1>2. CASE buffer # <<>>
  <2>1. Len(buffer) # 0
    BY <1>2, EmptySeq DEF TypesOK
  <2>2. /\ Len(buffer) - 1 \in 0 .. Len(buffer) /\ Len(buffer) \in 1 .. Len(buffer)
        /\ Len(journal) - 1 = Len(Submitted) + (Len(buffer) - 1)
        /\ Len(journal) # 0
    BY <1>0, <2>1
  <2>3. journal[Len(journal)] \in Typed
    BY <1>0, <2>2, EndOfJournal
  <2>4. IsOpen(journal)
    BY <2>2, <2>3, NewlineIsNotTyped, EmptySeq DEF IsOpen, Last
  <2>5. /\ journal' = SubSeq(journal, 1, Len(journal) - 1)
        /\ buffer' = SubSeq(buffer, 1, Len(buffer) - 1)
    BY <1>2, <2>4 DEF FeedBackspace, Front
  <2>6. journal' = Submitted \o buffer'
    BY <2>2, <2>5, CutJournal
  <2>. QED
    BY <1>0, <2>6 DEF Text, NothingTypedIsLost, Closed, Submitted
<1>. QED
  BY <1>1, <1>2

LEMMA ClearText ==
  ASSUME TypesOK, Text, Clear
  PROVE  Text'
<1>0. /\ Len(buffer) \in Nat /\ Len(Submitted) \in Nat
      /\ Len(journal) = Len(Submitted) + Len(buffer)
      /\ DOMAIN journal = 1 .. Len(journal)
      /\ lines' = lines /\ Submitted' = Submitted /\ buffer' = <<>>
      /\ journal' = SubSeq(journal, 1, Len(journal) - Cardinality(OpenLine(journal)))
  BY SubmittedType, EndOfJournal, LenProperties DEF Clear, notes, Submitted, TypesOK
<1>1. OpenLine(journal) = Len(Submitted) + 1 .. Len(journal)
  <2>1. ASSUME NEW i \in OpenLine(journal)
        PROVE  i \in Len(Submitted) + 1 .. Len(journal)
    <3>1. i \in 1 .. Len(journal) /\ \A j \in i .. Len(journal) : journal[j] # Newline
      BY <1>0, <2>1 DEF OpenLine
    <3>2. SUFFICES ASSUME i <= Len(Submitted) PROVE FALSE
      BY <1>0, <3>1
    <3>3. Submitted # <<>> /\ Len(Submitted) \in i .. Len(journal)
      BY <1>0, <3>1, <3>2, EmptySeq
    <3>. QED
      BY <3>1, <3>3, EndOfJournal
  <2>2. ASSUME NEW i \in Len(Submitted) + 1 .. Len(journal)
        PROVE  i \in OpenLine(journal)
    <3>1. i \in 1 .. Len(journal)
      BY <1>0
    <3>2. ASSUME NEW j \in i .. Len(journal)
          PROVE  journal[j] # Newline
      <4>1. j - Len(Submitted) \in 1 .. Len(buffer) /\ Len(Submitted) + (j - Len(Submitted)) = j
        BY <1>0
      <4>2. journal[j] \in Typed
        BY <4>1, EndOfJournal
      <4>. QED
        BY <4>2, NewlineIsNotTyped
    <3>. QED
      BY <1>0, <3>1, <3>2 DEF OpenLine
  <2>. QED
    BY <2>1, <2>2
<1>2. Cardinality(OpenLine(journal)) = Len(buffer)
  <2>1. PICK a, b \in Int : a = Len(Submitted) + 1 /\ b = Len(journal)
    BY <1>0
  <2>2. Cardinality(a .. b) = IF a > b THEN 0 ELSE b - a + 1
    BY FS_Interval
  <2>3. OpenLine(journal) = a .. b
    BY <1>1, <2>1
  <2>4. (IF a > b THEN 0 ELSE b - a + 1) = Len(buffer)
    BY <1>0, <2>1
  <2>. QED
    BY <2>2, <2>3, <2>4
<1>3. 0 \in 0 .. Len(buffer) /\ Len(journal) - Cardinality(OpenLine(journal)) = Len(Submitted) + 0
  BY <1>0, <1>2
<1>4. journal' = Submitted \o SubSeq(buffer, 1, 0)
  BY <1>0, <1>3, CutJournal
<1>5. SubSeq(buffer, 1, 0) = <<>>
  BY SubSeqEmpty
<1>. QED
  BY <1>0, <1>4, <1>5 DEF Text, NothingTypedIsLost, Closed, Submitted

LEMMA FeedLineText ==
  ASSUME TypesOK, Text, FeedLine
  PROVE  Text'
<1>. DEFINE t == [n \in DOMAIN lines |-> Append(lines[n], Newline)]
            x == Append(buffer, Newline)
<1>0. /\ buffer' = <<>> /\ lines' = Append(lines, buffer)
      /\ journal' = Append(journal, Newline)
      /\ lines \in Seq(Seq(Symbols)) /\ journal \in Seq(Symbols)
      /\ Len(lines) \in Nat /\ DOMAIN lines = 1 .. Len(lines)
      /\ buffer \in Seq(Symbols) /\ Submitted \in Seq(Symbols)
      /\ t \in Seq(Seq(Symbols)) /\ Submitted = FlattenSeq(t)
      /\ Newline \in Symbols /\ x \in Seq(Symbols)
  BY SubmittedType, LenProperties, AppendProperties DEF FeedLine, TypesOK, Submitted, Symbols
<1>1. /\ Len(lines') = Len(lines) + 1 /\ DOMAIN lines' = 1 .. Len(lines) + 1
      /\ \A n \in 1 .. Len(lines) : lines'[n] = lines[n]
      /\ lines'[Len(lines) + 1] = buffer
  BY <1>0, AppendProperties, LenProperties
<1>2. [n \in DOMAIN lines' |-> Append(lines'[n], Newline)] = Append(t, x)
  <2>. DEFINE u == [n \in 1 .. Len(lines) + 1 |-> Append(lines'[n], Newline)]
              v == Append(t, x)
  <2>1. /\ Len(t) = Len(lines)
        /\ \A n \in 1 .. Len(lines) : t[n] = Append(lines[n], Newline)
    BY <1>0, LenProperties
  <2>. HIDE DEF t, x
  <2>2. /\ v \in Seq(Seq(Symbols)) /\ Len(v) = Len(lines) + 1
        /\ \A n \in 1 .. Len(lines) : v[n] = t[n]
        /\ v[Len(lines) + 1] = x
    BY <1>0, <2>1, AppendProperties
  <2>3. DOMAIN v = 1 .. Len(lines) + 1
    BY <2>2, LenProperties
  <2>4. \A n \in 1 .. Len(lines) + 1 : v[n] = Append(lines'[n], Newline)
    <3>. TAKE n \in 1 .. Len(lines) + 1
    <3>1. CASE n = Len(lines) + 1
      BY <1>1, <2>2, <3>1 DEF x
    <3>2. CASE n # Len(lines) + 1
      <4>1. n \in 1 .. Len(lines)
        BY <1>0, <3>2
      <4>. QED
        BY <1>1, <2>1, <2>2, <4>1
    <3>. QED
      BY <3>1, <3>2
  <2>5. v = [n \in DOMAIN v |-> v[n]]
    BY <2>2, LenProperties
  <2>. HIDE DEF v
  <2>6. u = v
    BY <2>3, <2>4, <2>5
  <2>. QED
    BY <1>1, <2>6 DEF v
<1>3. Submitted' = FlattenSeq(Append(t, x))
  BY <1>2 DEF Submitted
<1>. HIDE DEF t
<1>4. Submitted' = Submitted \o x
  <2>. HIDE DEF x
  <2>. QED
    <3>1. FlattenSeq(Append(t, x)) = FlattenSeq(t) \o x
      BY <1>0, FlattenSeqProperties
    <3>. QED
      BY <1>0, <1>3, <3>1
<1>5. journal' = Submitted \o x
  <2>1. <<Newline>> \in Seq(Symbols)
    BY <1>0
  <2>2. journal = Submitted \o buffer
    BY EndOfJournal
  <2>3. journal' = (Submitted \o buffer) \o <<Newline>>
    BY <1>0, <2>2, AppendIsConcat
  <2>4. x = buffer \o <<Newline>>
    BY <1>0, AppendIsConcat
  <2>. HIDE DEF x
  <2>. QED
    <3>1. /\ Submitted \in Seq(Symbols) /\ buffer \in Seq(Symbols)
          /\ <<Newline>> \in Seq(Symbols)
      BY <1>0, <2>1
    <3>2. \A a, b, c \in Seq(Symbols) : (a \o b) \o c = a \o (b \o c)
      BY ConcatAssociative
    <3>3. (Submitted \o buffer) \o <<Newline>> = Submitted \o (buffer \o <<Newline>>)
      BY <3>1, <3>2, Zenon
    <3>. QED
      BY <2>3, <2>4, <3>3
<1>6. Last(Submitted') = Newline
  <2>1. /\ Len(x) \in Nat /\ Len(x) # 0 /\ x[Len(x)] = Newline
        /\ Len(Submitted) \in Nat
    <3>1. Len(x) = Len(buffer) + 1 /\ x[Len(buffer) + 1] = Newline
      BY <1>0, AppendProperties
    <3>2. Len(buffer) \in Nat /\ Len(Submitted) \in Nat
      BY <1>0, LenProperties
    <3>. HIDE DEF x
    <3>. QED
      BY <3>1, <3>2
  <2>. HIDE DEF x
  <2>2. /\ Len(Submitted') = Len(Submitted) + Len(x)
        /\ \A i \in 1 .. Len(Submitted) + Len(x) : Submitted'[i] =
             IF i <= Len(Submitted) THEN Submitted[i] ELSE x[i - Len(Submitted)]
    BY <1>0, <1>4, ConcatProperties
  <2>3. /\ Len(Submitted) + Len(x) \in 1 .. Len(Submitted) + Len(x)
        /\ ~(Len(Submitted) + Len(x) <= Len(Submitted))
        /\ (Len(Submitted) + Len(x)) - Len(Submitted) = Len(x)
    BY <2>1
  <2>. QED
    BY <2>1, <2>2, <2>3 DEF Last
<1>7. Submitted' \o <<>> = Submitted'
  <2>. HIDE DEF x
  <2>1. Submitted' \in Seq(Symbols)
    BY <1>0, <1>4, ConcatProperties
  <2>. QED
    BY <2>1, ConcatEmptySeq
<1>8. journal' = Submitted' \o buffer'
  BY <1>0, <1>4, <1>5, <1>7
<1>. QED
  BY <1>6, <1>8 DEF Text, NothingTypedIsLost, Closed, Submitted

LEMMA TextStep ==
  ASSUME TypesOK, Text, [Next]_vars
  PROVE  Text'
<1>1. CASE \E c \in Typed : FeedTyped(c)
  BY <1>1, FeedTypedText
<1>2. CASE FeedBackspace
  BY <1>2, FeedBackspaceText
<1>3. CASE FeedLine
  BY <1>3, FeedLineText
<1>4. CASE Clear
  BY <1>4, ClearText
<1>5. CASE FeedBegin \/ FeedEnd \/ FeedEmptyLine \/ HandlerReturn \/ Throw \/ UNCHANGED vars
  BY <1>5, TextRests DEF FeedBegin, FeedEnd, FeedEmptyLine, HandlerReturn, Throw, vars, notes
<1>6. CASE InvokeReturn
  BY <1>6, TextRests DEF InvokeReturn, BufferAfterInvoke, notes
<1>. QED
  BY <1>1, <1>2, <1>3, <1>4, <1>5, <1>6 DEF Next

-----------------------------------------------------------------------------
(* The tokenizer.                                                          *)

Words == Seq(Typed) \ {<<>>}

Scans == [tokens : Seq(Words), current : Seq(Typed),
          quote : {NoQuote} \cup Quotes, escape : BOOLEAN]

LEMMA Characters ==
  /\ Blank \in Typed /\ Backslash \in Typed /\ Quotes \subseteq Typed
  /\ Blank \notin Quotes /\ Backslash \notin Quotes /\ Blank # Backslash
  /\ NoQuote \notin Typed /\ Letters \subseteq Typed
  /\ \A c \in Typed : c \in Special \/ c \in Letters
  /\ \A c \in Letters : c \notin Special
BY TextAssumption DEF Typed, Special, Blank, Backslash, Quotes, NoQuote

LEMMA UnreadType == Unread \in Scans
BY EmptySeq DEF Unread, Scans

LEMMA KeepProperties ==
  ASSUME NEW s \in Scans, NEW c \in Typed
  PROVE  /\ Keep(s, c) \in Scans
         /\ Keep(s, c).tokens = s.tokens /\ Keep(s, c).quote = s.quote
         /\ Keep(s, c).current = Append(s.current, c) /\ ~Keep(s, c).escape
<1>1. Append(s.current, c) \in Seq(Typed)
  BY AppendProperties DEF Scans
<1>. QED
  BY <1>1 DEF Keep, Scans

LEMMA CutProperties ==
  ASSUME NEW s \in Scans
  PROVE  /\ Cut(s) \in Scans
         /\ Cut(s).tokens = IF s.current = <<>> THEN s.tokens ELSE Append(s.tokens, s.current)
         /\ Cut(s).current = <<>> /\ Cut(s).quote = s.quote /\ Cut(s).escape = s.escape
<1>1. CASE s.current = <<>>
  BY <1>1 DEF Cut
<1>2. CASE s.current # <<>>
  <2>1. s.current \in Words /\ s.tokens \in Seq(Words)
    BY <1>2 DEF Scans, Words
  <2>2. Append(s.tokens, s.current) \in Seq(Words) /\ <<>> \in Seq(Typed)
    BY <2>1, AppendProperties, EmptySeq
  <2>. QED
    BY <1>2, <2>2 DEF Cut, Scans
<1>. QED
  BY <1>1, <1>2

LEMMA ScanType ==
  ASSUME NEW s \in Scans, NEW c \in Typed
  PROVE  Scan(s, c) \in Scans
<1>1. Keep(s, c) \in Scans /\ Cut(s) \in Scans
  BY KeepProperties, CutProperties
<1>2. [s EXCEPT !.escape = TRUE] \in Scans /\ [s EXCEPT !.quote = NoQuote] \in Scans
  BY DEF Scans
<1>3. c \in Quotes => [s EXCEPT !.quote = c] \in Scans
  BY DEF Scans
<1>. QED
  BY <1>1, <1>2, <1>3 DEF Scan

ScanLoop(f, text) ==
  f = [i \in 0 .. Len(text) |-> IF i = 0 THEN Unread ELSE Scan(f[i - 1], text[i])]

LEMMA ScannedLoops ==
  ASSUME NEW text
  PROVE  Scanned(text) = (CHOOSE f : ScanLoop(f, text))[Len(text)]
BY DEF Scanned, ScanLoop

\* The scanner has one state behind each character.
LEMMA ScannedRuns ==
  ASSUME NEW text \in Seq(Typed)
  PROVE  \E f \in [0 .. Len(text) -> Scans] :
           /\ f[0] = Unread
           /\ \A i \in 1 .. Len(text) : f[i] = Scan(f[i - 1], text[i])
           /\ Scanned(text) = f[Len(text)]
<1>. DEFINE n == Len(text)
            step == [p \in Scans \X (1 .. n) |-> Scan(p[1], text[p[2]])]
<1>0. n \in Nat /\ \A i \in 1 .. n : text[i] \in Typed
  BY LenProperties, ElementOfSeq
<1>1. step \in [Scans \X (1 .. n) -> Scans]
  BY <1>0, ScanType
<1>2. \A s \in Scans : \A i \in 1 .. n : step[<<s, i>>] = Scan(s, text[i])
  OBVIOUS
<1>. HIDE DEF step, n
<1>3. PICK f \in [0 .. n -> Scans] :
        f[0] = Unread /\ \A i \in 1 .. n : f[i] = step[<<f[i - 1], i>>]
  <2>1. \E f : Loops(f, Scans, n, Unread, step)
    BY <1>0, <1>1, UnreadType, LoopRuns
  <2>. QED
    BY <2>1 DEF Loops
<1>4. \A i \in 1 .. n : f[i] = Scan(f[i - 1], text[i])
  <2>. TAKE i \in 1 .. n
  <2>1. f[i - 1] \in Scans
    BY <1>0, <1>3
  <2>. QED
    BY <1>2, <1>3, <2>1
<1>5. ScanLoop(f, text)
  BY <1>0, <1>3, <1>4 DEF ScanLoop, n
<1>. DEFINE g == CHOOSE h : ScanLoop(h, text)
<1>6. ScanLoop(g, text)
  BY <1>5
<1>. HIDE DEF g
<1>7. \A i \in 0 .. n : f[i] = g[i]
  <2>1. g[0] = Unread /\ \A i \in 1 .. n : g[i] = Scan(g[i - 1], text[i])
    BY <1>0, <1>6 DEF ScanLoop, n
  <2>2. \A i \in 1 .. n : f[i - 1] = g[i - 1] => f[i] = g[i]
    BY <1>4, <2>1
  <2>3. f[0] = g[0]
    BY <1>3, <2>1
  <2>4. Alike(f, g, n)
    BY <2>2, <2>3 DEF Alike
  <2>. QED
    BY <1>0, <2>4, LoopsAgree
<1>8. Scanned(text) = f[n]
  BY <1>0, <1>7, ScannedLoops DEF g, n
<1>. QED
  BY <1>3, <1>4, <1>8 DEF n

\* Scanned of nothing, and of one more character at the end.
LEMMA ScannedProperties ==
  /\ Scanned(<<>>) = Unread
  /\ \A text \in Seq(Typed) : Scanned(text) \in Scans
  /\ \A text \in Seq(Typed) : \A c \in Typed :
       Scanned(Append(text, c)) = Scan(Scanned(text), c)
<1>1. Scanned(<<>>) = Unread
  BY ScannedRuns, EmptySeq
<1>2. ASSUME NEW text \in Seq(Typed) PROVE Scanned(text) \in Scans
  <2>1. Len(text) \in 0 .. Len(text)
    BY LenProperties
  <2>. QED
    BY <2>1, ScannedRuns
<1>3. ASSUME NEW text \in Seq(Typed), NEW c \in Typed
      PROVE  Scanned(Append(text, c)) = Scan(Scanned(text), c)
  <2>. DEFINE u == Append(text, c)
  <2>1. /\ u \in Seq(Typed) /\ Len(u) = Len(text) + 1 /\ Len(text) \in Nat
        /\ \A i \in 1 .. Len(text) : u[i] = text[i]
        /\ u[Len(text) + 1] = c
    BY AppendProperties, LenProperties
  <2>. HIDE DEF u
  <2>2. PICK f : /\ f[0] = Unread
                 /\ \A i \in 1 .. Len(text) : f[i] = Scan(f[i - 1], text[i])
                 /\ Scanned(text) = f[Len(text)]
    BY ScannedRuns
  <2>3. PICK g : /\ g[0] = Unread
                 /\ \A i \in 1 .. Len(u) : g[i] = Scan(g[i - 1], u[i])
                 /\ Scanned(u) = g[Len(u)]
    BY <2>1, ScannedRuns
  <2>4. \A i \in 1 .. Len(text) : g[i] = Scan(g[i - 1], text[i])
    BY <2>1, <2>3
  <2>5. f[Len(text)] = g[Len(text)]
    <3>1. \A i \in 1 .. Len(text) : f[i - 1] = g[i - 1] => f[i] = g[i]
      BY <2>2, <2>4
    <3>2. f[0] = g[0] /\ Len(text) \in Nat /\ Len(text) \in 0 .. Len(text)
      BY <2>1, <2>2, <2>3
    <3>3. Alike(f, g, Len(text))
      BY <3>1, <3>2 DEF Alike
    <3>. QED
      BY <3>2, <3>3, LoopsAgree
  <2>6. Len(u) \in 1 .. Len(u) /\ Len(u) - 1 = Len(text)
    BY <2>1
  <2>. QED
    BY <2>1, <2>2, <2>3, <2>5, <2>6 DEF u
<1>. QED
  BY <1>1, <1>2, <1>3

-----------------------------------------------------------------------------
(* Writing a token so that it is read as it is.                            *)

Escape == [c \in Typed |-> IF c \in Special THEN <<Backslash, c>> ELSE <<c>>]

LEMMA EscapeType == Escape \in [Typed -> Seq(Typed)]
<1>1. \A c \in Typed : <<Backslash, c>> \in Seq(Typed) /\ <<c>> \in Seq(Typed)
  BY Characters
<1>. QED
  BY <1>1 DEF Escape

LEMMA EscapedProperties ==
  /\ Escaped(<<>>) = <<>>
  /\ \A t \in Seq(Typed) : Escaped(t) \in Seq(Typed)
  /\ \A t \in Seq(Typed) : \A c \in Typed :
       Escaped(Append(t, c)) =
         Escaped(t) \o (IF c \in Special THEN <<Backslash, c>> ELSE <<c>>)
<1>1. ASSUME NEW t \in Seq(Typed)
      PROVE  Escaped(t) = Joined(Escape, t)
  <2>1. \A i \in DOMAIN t : t[i] \in Typed
    BY LenProperties, ElementOfSeq
  <2>2. [i \in DOMAIN t |-> IF t[i] \in Special THEN <<Backslash, t[i]>> ELSE <<t[i]>>]
          = [i \in DOMAIN t |-> Escape[t[i]]]
    BY <2>1 DEF Escape
  <2>. QED
    BY <2>2 DEF Escaped, Joined, Mapped
<1>2. /\ Joined(Escape, <<>>) = <<>>
      /\ \A t \in Seq(Typed) : Joined(Escape, t) \in Seq(Typed)
      /\ \A t \in Seq(Typed) : \A c \in Typed :
           Joined(Escape, Append(t, c)) = Joined(Escape, t) \o Escape[c]
  BY EscapeType, JoinedProperties
<1>3. <<>> \in Seq(Typed) /\ \A t \in Seq(Typed) : \A c \in Typed : Append(t, c) \in Seq(Typed)
  BY EmptySeq, AppendProperties
<1>4. \A c \in Typed : Escape[c] = IF c \in Special THEN <<Backslash, c>> ELSE <<c>>
  BY DEF Escape
<1>. QED
  BY <1>1, <1>2, <1>3, <1>4

\* Two states of the scanner are equal when their fields are.
LEMMA ScansEqual ==
  ASSUME NEW s \in Scans, NEW r \in Scans, s.tokens = r.tokens, s.current = r.current,
         s.quote = r.quote, s.escape = r.escape
  PROVE  s = r
BY DEF Scans

\* What one more character and two more characters do.
LEMMA ScannedOneMore ==
  ASSUME NEW p \in Seq(Typed), NEW c \in Typed
  PROVE  p \o <<c>> \in Seq(Typed) /\ Scanned(p \o <<c>>) = Scan(Scanned(p), c)
<1>1. Append(p, c) = p \o <<c>> /\ Append(p, c) \in Seq(Typed)
  BY AppendIsConcat, AppendProperties
<1>. QED
  BY <1>1, ScannedProperties

LEMMA ScannedTwoMore ==
  ASSUME NEW p \in Seq(Typed), NEW b \in Typed, NEW c \in Typed
  PROVE  /\ p \o <<b, c>> \in Seq(Typed)
         /\ Scanned(p \o <<b, c>>) = Scan(Scan(Scanned(p), b), c)
<1>1. <<b>> \in Seq(Typed) /\ <<b, c>> = Append(<<b>>, c)
  BY PairOfOnes
<1>2. p \o <<b, c>> = Append(p \o <<b>>, c)
  BY <1>1, ConcatAppend
<1>3. p \o <<b>> \in Seq(Typed) /\ Scanned(p \o <<b>>) = Scan(Scanned(p), b)
  BY ScannedOneMore
<1>4. /\ Append(p \o <<b>>, c) \in Seq(Typed)
      /\ Scanned(Append(p \o <<b>>, c)) = Scan(Scanned(p \o <<b>>), c)
  BY <1>3, AppendProperties, ScannedProperties
<1>. QED
  BY <1>2, <1>3, <1>4

LEMMA KeptProperties ==
  ASSUME NEW s \in Scans, NEW t \in Seq(Typed)
  PROVE  /\ [s EXCEPT !.current = @ \o t] \in Scans
         /\ [s EXCEPT !.current = @ \o t].tokens = s.tokens
         /\ [s EXCEPT !.current = @ \o t].current = s.current \o t
         /\ [s EXCEPT !.current = @ \o t].quote = s.quote
         /\ [s EXCEPT !.current = @ \o t].escape = s.escape
<1>1. s.current \o t \in Seq(Typed)
  BY ConcatProperties DEF Scans
<1>. QED
  BY <1>1 DEF Scans

\* A character and what is written for it, read outside of an escape.
LEMMA EscapeIsKept ==
  ASSUME NEW s \in Scans, ~s.escape, NEW c \in Typed
  PROVE  /\ c \in Special => Scan(Scan(s, Backslash), c) = [s EXCEPT !.current = Append(@, c)]
         /\ c \notin Special => Scan(s, c) = [s EXCEPT !.current = Append(@, c)]
<1>1. Keep(s, c) = [s EXCEPT !.current = Append(@, c)]
  BY DEF Keep, Scans
<1>2. Keep([s EXCEPT !.escape = TRUE], c) = [s EXCEPT !.current = Append(@, c)]
  BY DEF Keep, Scans
<1>3. Scan(s, Backslash) = [s EXCEPT !.escape = TRUE]
  BY DEF Scan
<1>4. [s EXCEPT !.escape = TRUE].escape
  BY DEF Scans
<1>5. Scan(Scan(s, Backslash), c) = [s EXCEPT !.current = Append(@, c)]
  BY <1>2, <1>3, <1>4 DEF Scan
<1>6. ASSUME c \notin Special PROVE Scan(s, c) = Keep(s, c)
  <2>1. c # Backslash /\ c \notin Quotes /\ c # Blank /\ c # NoQuote
    BY <1>6, Characters DEF Special
  <2>2. s.quote # c
    BY <2>1 DEF Scans
  <2>. QED
    BY <2>1, <2>2 DEF Scan
<1>. QED
  BY <1>1, <1>5, <1>6

\* What is written for a token is read as the token, behind any text and in or
\* out of quotes.
LEMMA EscapedIsKept ==
  ASSUME NEW p \in Seq(Typed), ~Scanned(p).escape
  PROVE  \A t \in Seq(Typed) :
           Scanned(p \o Escaped(t)) = [Scanned(p) EXCEPT !.current = @ \o t]
<1>. DEFINE s == Scanned(p)
            G == {t \in Seq(Typed) : Scanned(p \o Escaped(t)) = [s EXCEPT !.current = @ \o t]}
<1>0. s \in Scans
  BY ScannedProperties
<1>1. <<>> \in G
  <2>1. p \o Escaped(<<>>) = p
    BY EscapedProperties, ConcatEmptySeq
  <2>2. s.current \o <<>> = s.current
    BY <1>0, ConcatEmptySeq DEF Scans
  <2>. HIDE DEF s
  <2>3. [s EXCEPT !.current = @ \o <<>>] = s
    BY <1>0, <2>2 DEF Scans
  <2>. QED
    BY <2>1, <2>3, EmptySeq DEF s
<1>2. ASSUME NEW t \in Seq(Typed), NEW c \in Typed, t \in G
      PROVE  Append(t, c) \in G
  <2>. DEFINE e == IF c \in Special THEN <<Backslash, c>> ELSE <<c>>
              q == p \o Escaped(t)
              r == [s EXCEPT !.current = @ \o t]
  <2>1. q \in Seq(Typed) /\ Escaped(t) \in Seq(Typed) /\ e \in Seq(Typed)
    <3>1. <<Backslash, c>> \in Seq(Typed) /\ <<c>> \in Seq(Typed)
      BY Characters
    <3>. QED
      BY <3>1, EscapedProperties, ConcatProperties
  <2>2. p \o Escaped(Append(t, c)) = q \o e
    <3>1. Escaped(Append(t, c)) = Escaped(t) \o e
      BY EscapedProperties
    <3>2. \A x, y, z \in Seq(Typed) : (x \o y) \o z = x \o (y \o z)
      BY ConcatAssociative
    <3>. HIDE DEF e
    <3>3. (p \o Escaped(t)) \o e = p \o (Escaped(t) \o e)
      BY <2>1, <3>2, Zenon
    <3>. QED
      BY <3>1, <3>3
  <2>3. Scanned(q) = r /\ r \in Scans /\ ~r.escape
    BY <1>0, <1>2, KeptProperties
  <2>4. Scanned(q \o e) = [r EXCEPT !.current = Append(@, c)]
    <3>1. CASE c \in Special
      <4>1. e = <<Backslash, c>>
        BY <3>1
      <4>. HIDE DEF q, r, e
      <4>2. Scanned(q \o <<Backslash, c>>) = Scan(Scan(Scanned(q), Backslash), c)
        BY <2>1, Characters, ScannedTwoMore
      <4>3. Scan(Scan(r, Backslash), c) = [r EXCEPT !.current = Append(@, c)]
        BY <2>3, <3>1, EscapeIsKept
      <4>. QED
        BY <2>3, <4>1, <4>2, <4>3
    <3>2. CASE c \notin Special
      <4>1. e = <<c>>
        BY <3>2
      <4>. HIDE DEF q, r, e
      <4>. QED
        BY <2>1, <2>3, <3>2, <4>1, ScannedOneMore, EscapeIsKept
    <3>. QED
      BY <3>1, <3>2
  <2>5. Append(s.current \o t, c) = s.current \o Append(t, c)
    <3>. HIDE DEF s
    <3>1. PICK u \in Seq(Typed) : u = s.current
      BY <1>0 DEF Scans
    <3>2. u \o Append(t, c) = Append(u \o t, c)
      BY ConcatAppend
    <3>. QED
      BY <3>1, <3>2
  <2>6. [r EXCEPT !.current = Append(@, c)] = [s EXCEPT !.current = @ \o Append(t, c)]
    <3>. HIDE DEF s
    <3>. QED
      BY <1>0, <2>5 DEF Scans
  <2>. QED
    BY <2>2, <2>4, <2>6, AppendProperties
<1>. HIDE DEF G
<1>3. Seq(Typed) \subseteq G
  BY <1>1, <1>2, AllSequences
<1>. QED
  BY <1>3 DEF G

\* The same between quotes.
LEMMA QuotedIsKept ==
  ASSUME NEW p \in Seq(Typed), ~Scanned(p).escape, Scanned(p).quote = NoQuote,
         NEW t \in Seq(Typed), NEW q \in Quotes
  PROVE  /\ ((p \o <<q>>) \o Escaped(t)) \o <<q>> \in Seq(Typed)
         /\ Scanned(((p \o <<q>>) \o Escaped(t)) \o <<q>>)
              = [Scanned(p) EXCEPT !.current = @ \o t]
<1>. DEFINE s == Scanned(p)
            o == [s EXCEPT !.quote = q]
            a == p \o <<q>>
            b == a \o Escaped(t)
<1>0. s \in Scans /\ q \in Typed /\ q # Backslash /\ q # NoQuote /\ q # Blank
  BY ScannedProperties, Characters
<1>1. a \in Seq(Typed) /\ Scanned(a) = o
  <2>1. Scan(s, q) = o
    BY <1>0 DEF Scan
  <2>. QED
    BY <1>0, <2>1, ScannedOneMore
<1>2. o \in Scans /\ ~o.escape /\ o.quote = q /\ o.current = s.current
  BY <1>0 DEF Scans
<1>. HIDE DEF s, a, o
<1>3. Scanned(b) = [o EXCEPT !.current = @ \o t]
  BY <1>1, <1>2, EscapedIsKept
<1>4. b \in Seq(Typed)
  BY <1>1, EscapedProperties, ConcatProperties
<1>. HIDE DEF b
<1>5. Scanned(b).quote = q /\ ~Scanned(b).escape
  BY <1>2, <1>3, KeptProperties
<1>6. Scan(Scanned(b), q) = [Scanned(b) EXCEPT !.quote = NoQuote]
  BY <1>0, <1>5 DEF Scan
<1>7. [Scanned(b) EXCEPT !.quote = NoQuote] = [s EXCEPT !.current = @ \o t]
  BY <1>0, <1>2, <1>3 DEF Scans, o, s
<1>8. b \o <<q>> \in Seq(Typed) /\ Scanned(b \o <<q>>) = Scan(Scanned(b), q)
  BY <1>0, <1>4, ScannedOneMore
<1>. QED
  BY <1>6, <1>7, <1>8 DEF s, a, b

\* A text is written in one way as one token.
LEMMA OneTokenReadsBack ==
  ASSUME NEW t \in Seq(Typed), t # <<>>, NEW w \in Writings(t)
  PROVE  Tokenize(w).tokens = <<t>>
<1>. DEFINE r == [Unread EXCEPT !.current = @ \o t]
<1>0. <<>> \in Seq(Typed) /\ Scanned(<<>>) = Unread /\ Unread \in Scans
  BY EmptySeq, ScannedProperties, UnreadType
<1>1. Unread.quote = NoQuote /\ ~Unread.escape /\ Unread.current = <<>> /\ Unread.tokens = <<>>
  BY DEF Unread
<1>2. Scanned(w) = r
  <2>1. CASE w = Escaped(t)
    <3>1. <<>> \o Escaped(t) = Escaped(t)
      BY EscapedProperties, ConcatEmptySeq
    <3>2. Scanned(<<>> \o Escaped(t)) = [Scanned(<<>>) EXCEPT !.current = @ \o t]
      BY <1>0, <1>1, EscapedIsKept
    <3>. QED
      BY <1>0, <2>1, <3>1, <3>2
  <2>2. ASSUME NEW q \in Quotes, w = <<q>> \o Escaped(t) \o <<q>>
        PROVE  Scanned(w) = r
    <3>1. q \in Typed /\ <<q>> \in Seq(Typed)
      BY Characters
    <3>2. <<>> \o <<q>> = <<q>>
      BY <3>1, ConcatEmptySeq
    <3>3. Scanned(((<<>> \o <<q>>) \o Escaped(t)) \o <<q>>) = [Scanned(<<>>) EXCEPT !.current = @ \o t]
      BY <1>0, <1>1, QuotedIsKept
    <3>. QED
      BY <1>0, <2>2, <3>2, <3>3
  <2>. QED
    BY <2>1, <2>2 DEF Writings
<1>3. r \in Scans /\ r.tokens = <<>> /\ r.current = t /\ r.quote = NoQuote /\ ~r.escape
  <2>1. <<>> \o t = t
    BY ConcatEmptySeq
  <2>. QED
    BY <1>0, <1>1, <2>1, KeptProperties
<1>. HIDE DEF r
<1>4. Cut(r).tokens = Append(<<>>, t)
  BY <1>3, CutProperties
<1>5. Append(<<>>, t) = <<t>>
  OBVIOUS
<1>. QED
  BY <1>2, <1>3, <1>4, <1>5 DEF Tokenize

LEMMA TokenizeType ==
  ASSUME NEW text \in Seq(Typed)
  PROVE  Tokenize(text).tokens \in Seq(Words)
<1>1. Scanned(text) \in Scans /\ Backslash \in Typed
  BY ScannedProperties, Characters
<1>2. Cut(Scanned(text)) \in Scans /\ Cut(Keep(Scanned(text), Backslash)) \in Scans
  BY <1>1, KeepProperties, CutProperties
<1>3. \A s \in Scans : s.tokens \in Seq(Words)
  BY DEF Scans
<1>4. <<>> \in Seq(Words)
  BY EmptySeq
<1>. QED
  BY <1>2, <1>3, <1>4 DEF Tokenize

-----------------------------------------------------------------------------
(* Writing many tokens.                                                    *)

Styled(style) == [t \in Words |-> <<Blank, style>> \o Escaped(t) \o <<style>>]

\* The scanner behind these tokens and a blank.
Behind(tokens) == [tokens |-> tokens, current |-> <<>>, quote |-> NoQuote, escape |-> FALSE]

LEMMA BehindType ==
  ASSUME NEW tokens \in Seq(Words)
  PROVE  /\ Behind(tokens) \in Scans /\ Behind(tokens).tokens = tokens
         /\ Behind(tokens).current = <<>>
         /\ Behind(tokens).quote = NoQuote /\ Behind(tokens).escape = FALSE
BY EmptySeq DEF Behind, Scans

LEMMA TokensAreRead ==
  ASSUME NEW style \in Quotes
  PROVE  \A tokens \in Seq(Words) : Cut(Scanned(Joined(Styled(style), tokens))) = Behind(tokens)
<1>. DEFINE W(tokens) == Joined(Styled(style), tokens)
            G == {tokens \in Seq(Words) : Cut(Scanned(W(tokens))) = Behind(tokens)}
<1>0. /\ style \in Typed /\ Blank \in Typed
      /\ <<style>> \in Seq(Typed) /\ <<Blank>> \in Seq(Typed) /\ <<Blank, style>> \in Seq(Typed)
  BY Characters
<1>1. Styled(style) \in [Words -> Seq(Typed)]
  <2>1. \A t \in Words : <<Blank, style>> \o Escaped(t) \o <<style>> \in Seq(Typed)
    BY <1>0, EscapedProperties, ConcatProperties DEF Words
  <2>. QED
    BY <2>1 DEF Styled
<1>2. /\ W(<<>>) = <<>>
      /\ \A tokens \in Seq(Words) : W(tokens) \in Seq(Typed)
      /\ \A tokens \in Seq(Words) : \A t \in Words :
           W(Append(tokens, t)) = W(tokens) \o Styled(style)[t]
  BY <1>1, JoinedProperties
<1>. HIDE DEF W
<1>3. <<>> \in G
  <2>1. Cut(Unread) = Behind(<<>>)
    BY DEF Cut, Unread, Behind
  <2>. QED
    BY <1>2, <2>1, ScannedProperties, EmptySeq
<1>4. ASSUME NEW tokens \in Seq(Words), NEW t \in Words, tokens \in G
      PROVE  Append(tokens, t) \in G
  <2>. DEFINE w == W(tokens)
              p == w \o <<Blank>>
              e == Escaped(t)
              x == ((p \o <<style>>) \o e) \o <<style>>
              r == [Behind(tokens) EXCEPT !.current = @ \o t]
  <2>1. w \in Seq(Typed) /\ Scanned(w) \in Scans /\ Cut(Scanned(w)) = Behind(tokens)
    BY <1>2, <1>4, ScannedProperties
  <2>. HIDE DEF w
  <2>2. Scanned(w).quote = NoQuote /\ ~Scanned(w).escape
    BY <2>1, CutProperties DEF Behind
  <2>3. Scan(Scanned(w), Blank) = Cut(Scanned(w))
    BY <2>2, Characters DEF Scan
  <2>4. p \in Seq(Typed) /\ Scanned(p) = Behind(tokens)
    BY <1>0, <2>1, <2>3, ScannedOneMore
  <2>5. ~Scanned(p).escape /\ Scanned(p).quote = NoQuote
    BY <2>4 DEF Behind
  <2>6. e \in Seq(Typed) /\ t \in Seq(Typed) /\ t # <<>>
    BY EscapedProperties DEF Words
  <2>7. Scanned(x) = r
    <3>. HIDE DEF p
    <3>. QED
      BY <2>4, <2>5, <2>6, QuotedIsKept
  <2>8. w \o Styled(style)[t] = x
    <3>1. Styled(style)[t] = (<<Blank, style>> \o e) \o <<style>>
      BY DEF Styled
    <3>2. <<Blank, style>> = <<Blank>> \o <<style>>
      BY PairOfOnes
    <3>. HIDE DEF e
    <3>3. <<Blank>> \in Seq(Typed) /\ <<style>> \in Seq(Typed)
      BY <1>0
    <3>4. w \o (((<<Blank>> \o <<style>>) \o e) \o <<style>>) = x
      BY <2>1, <2>6, <3>3, FiveJoined
    <3>. QED
      BY <3>1, <3>2, <3>4
  <2>9. Scanned(W(Append(tokens, t))) = r
    <3>1. W(Append(tokens, t)) = x
      BY <1>2, <2>8 DEF w
    <3>. QED
      BY <2>7, <3>1
  <2>10. Cut(r) = Behind(Append(tokens, t))
    <3>1. <<>> \o t = t
      BY <2>6, ConcatEmptySeq
    <3>2. Append(tokens, t) \in Seq(Words)
      BY AppendProperties
    <3>3. /\ Behind(tokens) \in Scans /\ Behind(tokens).tokens = tokens
          /\ Behind(tokens).current = <<>>
          /\ Behind(tokens).quote = NoQuote /\ ~Behind(tokens).escape
      BY BehindType
    <3>4. /\ r \in Scans /\ r.tokens = tokens /\ r.current = t
          /\ r.quote = NoQuote /\ r.escape = Behind(tokens).escape
      BY <2>6, <3>1, <3>3, KeptProperties
    <3>. HIDE DEF r
    <3>5. /\ Cut(r) \in Scans /\ Cut(r).tokens = Append(tokens, t) /\ Cut(r).current = <<>>
          /\ Cut(r).quote = NoQuote /\ Cut(r).escape = Behind(tokens).escape
      BY <2>6, <3>4, CutProperties
    <3>6. /\ Behind(Append(tokens, t)) \in Scans
          /\ Behind(Append(tokens, t)).tokens = Append(tokens, t)
          /\ Behind(Append(tokens, t)).current = <<>>
          /\ Behind(Append(tokens, t)).quote = NoQuote
          /\ Behind(Append(tokens, t)).escape = Behind(tokens).escape
      BY <3>2, <3>3, BehindType
    <3>. QED
      BY <3>5, <3>6, ScansEqual
  <2>. QED
    BY <2>9, <2>10, AppendProperties
<1>. HIDE DEF G
<1>5. Seq(Words) \subseteq G
  BY <1>3, <1>4, AllSequences
<1>. QED
  BY <1>5 DEF G, W

LEMMA ManyTokensReadBack ==
  ASSUME NEW tokens \in Seq(Words), NEW style \in Quotes
  PROVE  Tokenize(FlattenSeq([i \in DOMAIN tokens |->
           <<Blank, style>> \o Escaped(tokens[i]) \o <<style>>])).tokens = tokens
<1>. DEFINE w == Joined(Styled(style), tokens)
<1>1. FlattenSeq([i \in DOMAIN tokens |-> <<Blank, style>> \o Escaped(tokens[i]) \o <<style>>]) = w
  <2>1. \A i \in DOMAIN tokens : tokens[i] \in Words
    BY LenProperties, ElementOfSeq
  <2>2. [i \in DOMAIN tokens |-> <<Blank, style>> \o Escaped(tokens[i]) \o <<style>>]
          = [i \in DOMAIN tokens |-> Styled(style)[tokens[i]]]
    BY <2>1 DEF Styled
  <2>. QED
    BY <2>2 DEF Joined, Mapped
<1>2. w \in Seq(Typed)
  <2>1. <<Blank, style>> \in Seq(Typed) /\ <<style>> \in Seq(Typed)
    BY Characters
  <2>2. \A t \in Words : <<Blank, style>> \o Escaped(t) \o <<style>> \in Seq(Typed)
    BY <2>1, EscapedProperties, ConcatProperties DEF Words
  <2>3. Styled(style) \in [Words -> Seq(Typed)]
    BY <2>2 DEF Styled
  <2>. QED
    BY <2>3, JoinedProperties
<1>. HIDE DEF w
<1>3. Scanned(w) \in Scans /\ Cut(Scanned(w)) = Behind(tokens)
  BY <1>2, ScannedProperties, TokensAreRead DEF w
<1>4. Scanned(w).quote = NoQuote /\ ~Scanned(w).escape /\ Cut(Scanned(w)).tokens = tokens
  BY <1>3, CutProperties DEF Behind
<1>5. Tokenize(w).tokens = tokens
  BY <1>4 DEF Tokenize
<1>. QED
  BY <1>1, <1>5

LEMMA TextReadsBack ==
  ASSUME TypesOK
  PROVE  TokensReadBack
<1>1. buffer \in Seq(Typed)
  BY DEF TypesOK
<1>. QED
  BY <1>1, OneTokenReadsBack, TokenizeType, ManyTokensReadBack DEF TokensReadBack

-----------------------------------------------------------------------------
(* The way of tokens through the tree, and completion.                     *)

Ways == [node : Nat, used : Nat, open : BOOLEAN]

LEMMA TreeProperties ==
  /\ \A n : ChildrenOf(n) \in SUBSET Nat
  /\ \A n, token : FindChild(n, token) \in SUBSET Nat
  /\ \A n : \A m \in ChildrenOf(n) :
       /\ m \in Nat /\ m # Root
       /\ Commands[m].parent = n
       /\ Commands[m].name \in Seq(Letters) /\ Commands[m].name # <<>>
<1>1. DOMAIN Commands = 1 .. Len(Commands) /\ Len(Commands) \in Nat
  BY TextAssumption, LenProperties
<1>2. \A m \in 1 .. Len(Commands) :
        Commands[m].name \in Seq(Letters) /\ Commands[m].name # <<>>
  <2>. TAKE m \in 1 .. Len(Commands)
  <2>. DEFINE R == [name : Seq(Letters) \ {<<>>}, aliases : SUBSET Seq(Letters),
                    hidden : BOOLEAN, executable : BOOLEAN, parent : Nat]
  <2>1. Commands \in Seq(R)
    BY TextAssumption
  <2>2. Commands[m] \in R
    <3>. HIDE DEF R
    <3>. QED
      BY <2>1, ElementOfSeq
  <2>. QED
    BY <2>2
<1>. QED
  BY <1>1, <1>2 DEF ChildrenOf, FindChild, Root

LEMMA FollowType ==
  ASSUME NEW w \in Ways, NEW token
  PROVE  Follow(w, token) \in Ways
<1>1. CASE w.open /\ FindChild(w.node, token) # {}
  <2>1. PICK m \in Nat : m = Min(FindChild(w.node, token))
    BY <1>1, TreeProperties, MinOfNaturals
  <2>2. Follow(w, token) = [w EXCEPT !.node = m, !.used = @ + 1]
    BY <1>1, <2>1 DEF Follow
  <2>3. PICK k \in Nat : k = w.used + 1
    BY DEF Ways
  <2>4. [w EXCEPT !.node = m, !.used = k] \in Ways
    BY DEF Ways
  <2>. QED
    BY <2>2, <2>3, <2>4
<1>2. CASE ~(w.open /\ FindChild(w.node, token) # {})
  BY <1>2 DEF Follow, Ways
<1>. QED
  BY <1>1, <1>2

LEMMA AtRootType == AtRoot \in Ways
BY DEF AtRoot, Ways, Root

WayLoop(f, tokens) ==
  f = [i \in 0 .. Len(tokens) |-> IF i = 0 THEN AtRoot ELSE Follow(f[i - 1], tokens[i])]

LEMMA DescendLoops ==
  ASSUME NEW tokens
  PROVE  Descend(tokens) = (CHOOSE f : WayLoop(f, tokens))[Len(tokens)]
BY DEF Descend, WayLoop

\* The search has one place in the tree behind each token.
LEMMA DescendRuns ==
  ASSUME NEW tokens \in Seq(Words)
  PROVE  \E f \in [0 .. Len(tokens) -> Ways] :
           /\ f[0] = AtRoot
           /\ \A i \in 1 .. Len(tokens) : f[i] = Follow(f[i - 1], tokens[i])
           /\ Descend(tokens) = f[Len(tokens)]
<1>. DEFINE n == Len(tokens)
            step == [p \in Ways \X (1 .. n) |-> Follow(p[1], tokens[p[2]])]
<1>0. n \in Nat
  BY LenProperties
<1>1. step \in [Ways \X (1 .. n) -> Ways]
  BY FollowType
<1>2. \A w \in Ways : \A i \in 1 .. n : step[<<w, i>>] = Follow(w, tokens[i])
  OBVIOUS
<1>. HIDE DEF step, n
<1>3. PICK f \in [0 .. n -> Ways] :
        f[0] = AtRoot /\ \A i \in 1 .. n : f[i] = step[<<f[i - 1], i>>]
  <2>1. \E f : Loops(f, Ways, n, AtRoot, step)
    BY <1>0, <1>1, AtRootType, LoopRuns
  <2>. QED
    BY <2>1 DEF Loops
<1>4. \A i \in 1 .. n : f[i] = Follow(f[i - 1], tokens[i])
  <2>. TAKE i \in 1 .. n
  <2>1. f[i - 1] \in Ways
    BY <1>0, <1>3
  <2>. QED
    BY <1>2, <1>3, <2>1
<1>5. WayLoop(f, tokens)
  BY <1>0, <1>3, <1>4 DEF WayLoop, n
<1>. DEFINE g == CHOOSE h : WayLoop(h, tokens)
<1>6. WayLoop(g, tokens)
  BY <1>5
<1>. HIDE DEF g
<1>7. \A i \in 0 .. n : f[i] = g[i]
  <2>1. g[0] = AtRoot /\ \A i \in 1 .. n : g[i] = Follow(g[i - 1], tokens[i])
    BY <1>0, <1>6 DEF WayLoop, n
  <2>2. \A i \in 1 .. n : f[i - 1] = g[i - 1] => f[i] = g[i]
    BY <1>4, <2>1
  <2>3. f[0] = g[0]
    BY <1>3, <2>1
  <2>4. Alike(f, g, n)
    BY <2>2, <2>3 DEF Alike
  <2>. QED
    BY <1>0, <2>4, LoopsAgree
<1>8. Descend(tokens) = f[n]
  BY <1>0, <1>7, DescendLoops DEF g, n
<1>. QED
  BY <1>3, <1>4, <1>8 DEF n

LEMMA DescendProperties ==
  /\ Descend(<<>>) = AtRoot
  /\ \A tokens \in Seq(Words) : Descend(tokens) \in Ways
  /\ \A tokens \in Seq(Words) : \A t \in Words :
       Descend(Append(tokens, t)) = Follow(Descend(tokens), t)
<1>1. Descend(<<>>) = AtRoot
  BY DescendRuns, EmptySeq
<1>2. ASSUME NEW tokens \in Seq(Words) PROVE Descend(tokens) \in Ways
  <2>1. Len(tokens) \in 0 .. Len(tokens)
    BY LenProperties
  <2>. QED
    BY <2>1, DescendRuns
<1>3. ASSUME NEW tokens \in Seq(Words), NEW t \in Words
      PROVE  Descend(Append(tokens, t)) = Follow(Descend(tokens), t)
  <2>. DEFINE u == Append(tokens, t)
              n == Len(tokens)
  <2>1. /\ u \in Seq(Words) /\ Len(u) = n + 1 /\ n \in Nat
        /\ \A i \in 1 .. n : u[i] = tokens[i]
        /\ u[n + 1] = t
    BY AppendProperties, LenProperties
  <2>2. PICK f : /\ f[0] = AtRoot
                 /\ \A i \in 1 .. n : f[i] = Follow(f[i - 1], tokens[i])
                 /\ Descend(tokens) = f[n]
    BY DescendRuns
  <2>. HIDE DEF u, n
  <2>3. PICK g : /\ g[0] = AtRoot
                 /\ \A i \in 1 .. Len(u) : g[i] = Follow(g[i - 1], u[i])
                 /\ Descend(u) = g[Len(u)]
    BY <2>1, DescendRuns
  <2>4. \A i \in 1 .. n : g[i] = Follow(g[i - 1], tokens[i])
    BY <2>1, <2>3
  <2>5. f[n] = g[n]
    <3>1. \A i \in 1 .. n : f[i - 1] = g[i - 1] => f[i] = g[i]
      BY <2>2, <2>4
    <3>2. f[0] = g[0] /\ n \in Nat /\ n \in 0 .. n
      BY <2>1, <2>2, <2>3
    <3>3. Alike(f, g, n)
      BY <3>1, <3>2 DEF Alike
    <3>. QED
      BY <3>2, <3>3, LoopsAgree
  <2>6. Len(u) \in 1 .. Len(u) /\ Len(u) - 1 = n
    BY <2>1
  <2>. QED
    BY <2>1, <2>2, <2>3, <2>5, <2>6 DEF u
<1>. QED
  BY <1>1, <1>2, <1>3

\* The search is open as long as it has used every token.
LEMMA OpenWay ==
  \A tokens \in Seq(Words) :
    /\ Descend(tokens).used <= Len(tokens)
    /\ Descend(tokens).used = Len(tokens) => Descend(tokens).open
<1>. DEFINE G == {tokens \in Seq(Words) :
                    /\ Descend(tokens).used <= Len(tokens)
                    /\ Descend(tokens).used = Len(tokens) => Descend(tokens).open}
<1>1. <<>> \in G
  BY DescendProperties, EmptySeq DEF AtRoot
<1>2. ASSUME NEW tokens \in Seq(Words), NEW t \in Words, tokens \in G
      PROVE  Append(tokens, t) \in G
  <2>1. PICK w \in Ways : w = Descend(tokens)
    BY DescendProperties
  <2>2. Descend(Append(tokens, t)) = Follow(w, t)
    BY <2>1, DescendProperties
  <2>3. Append(tokens, t) \in Seq(Words) /\ Len(Append(tokens, t)) = Len(tokens) + 1
        /\ Len(tokens) \in Nat
    BY AppendProperties, LenProperties
  <2>4. w.used <= Len(tokens) /\ w.used \in Nat
    BY <1>2, <2>1 DEF Ways
  <2>5. CASE w.open /\ FindChild(w.node, t) # {}
    <3>1. Follow(w, t).used = w.used + 1 /\ Follow(w, t).open
      BY <2>5 DEF Follow, Ways
    <3>. QED
      BY <2>2, <2>3, <2>4, <3>1
  <2>6. CASE ~(w.open /\ FindChild(w.node, t) # {})
    <3>1. Follow(w, t).used = w.used
      BY <2>6 DEF Follow, Ways
    <3>. QED
      BY <2>2, <2>3, <2>4, <3>1
  <2>. QED
    BY <2>5, <2>6
<1>. HIDE DEF G
<1>3. Seq(Words) \subseteq G
  BY <1>1, <1>2, AllSequences
<1>. QED
  BY <1>3 DEF G

\* Letters are written as they are.
LEMMA LettersNeedNoEscape == \A t \in Seq(Letters) : t \in Seq(Typed) /\ Escaped(t) = t
<1>. DEFINE G == {t \in Seq(Letters) : t \in Seq(Typed) /\ Escaped(t) = t}
<1>1. <<>> \in G
  BY EscapedProperties, EmptySeq
<1>2. ASSUME NEW t \in Seq(Letters), NEW c \in Letters, t \in G
      PROVE  Append(t, c) \in G
  <2>1. c \in Typed /\ c \notin Special /\ t \in Seq(Typed)
    BY <1>2, Characters
  <2>2. Escaped(Append(t, c)) = t \o <<c>>
    BY <1>2, <2>1, EscapedProperties
  <2>3. Append(t, c) = t \o <<c>> /\ Append(t, c) \in Seq(Typed) /\ Append(t, c) \in Seq(Letters)
    BY <2>1, AppendIsConcat, AppendProperties
  <2>. QED
    BY <2>2, <2>3
<1>. HIDE DEF G
<1>3. Seq(Letters) \subseteq G
  BY <1>1, <1>2, AllSequences
<1>. QED
  BY <1>3 DEF G

\* Only a backslash begins an escape.
LEMMA EscapeEnds ==
  ASSUME NEW text \in Seq(Typed), Scanned(text).escape
  PROVE  text # <<>> /\ Last(text) = Backslash
<1>1. text # <<>>
  BY ScannedProperties DEF Unread
<1>2. PICK p \in Seq(Typed), c \in Typed : text = Append(p, c)
  BY <1>1, SequenceEmptyOrAppend
<1>3. PICK s \in Scans : s = Scanned(p) /\ Scan(s, c).escape
  BY <1>2, ScannedProperties
<1>4. c = Backslash
  <2>1. Keep(s, c).escape = FALSE /\ Cut(s).escape = s.escape
    BY KeepProperties, CutProperties
  <2>2. [s EXCEPT !.quote = NoQuote].escape = s.escape
        /\ [s EXCEPT !.quote = c].escape = s.escape
    BY DEF Scans
  <2>3. CASE s.escape
    BY <1>3, <2>1, <2>3 DEF Scan
  <2>4. CASE ~s.escape
    BY <1>3, <2>1, <2>2, <2>4 DEF Scan
  <2>. QED
    BY <2>3, <2>4
<1>5. Len(text) = Len(p) + 1 /\ text[Len(p) + 1] = c
  BY <1>2, AppendProperties
<1>. QED
  BY <1>1, <1>4, <1>5 DEF Last

LEMMA LastAndFront ==
  ASSUME NEW S, NEW s \in Seq(S), NEW x \in S
  PROVE  /\ Append(s, x) # <<>>
         /\ Last(Append(s, x)) = x
         /\ Front(Append(s, x)) = s
<1>. DEFINE a == Append(s, x)
            f == SubSeq(a, 1, Len(s))
<1>1. /\ a \in Seq(S) /\ Len(a) = Len(s) + 1 /\ Len(s) \in Nat
      /\ \A i \in 1 .. Len(s) : a[i] = s[i]
      /\ a[Len(s) + 1] = x
  BY AppendProperties, LenProperties
<1>. HIDE DEF a
<1>2. Len(s) \in 0 .. Len(a)
  BY <1>1
<1>3. f \in Seq(S) /\ Len(f) = Len(s) /\ \A i \in 1 .. Len(s) : f[i] = a[i]
  BY <1>1, <1>2, PrefixProperties
<1>. HIDE DEF f
<1>4. f = s
  <2>1. \A i \in 1 .. Len(s) : f[i] = s[i]
    BY <1>1, <1>3
  <2>. QED
    BY <1>3, <2>1, SeqEqual
<1>5. Front(a) = f /\ Last(a) = x
  <2>1. Len(a) - 1 = Len(s)
    BY <1>1
  <2>. QED
    BY <1>1, <2>1 DEF Front, Last, f
<1>6. a # <<>>
  BY <1>1, EmptySeq
<1>. QED
  BY <1>4, <1>5, <1>6 DEF a

\* What Complete takes for the end of the text and for the path before it, when
\* it does not misjudge the end.
LEMMA EndIsJudged ==
  ASSUME NEW text \in Seq(Typed), ~Tokenize(text).error,
         Scanned(text).current = Prefix(text)
  PROVE  /\ Scanned(text).quote = NoQuote /\ ~Scanned(text).escape
         /\ (IF Prefix(text) = <<>> THEN Tokenize(text).tokens
             ELSE Front(Tokenize(text).tokens)) = Scanned(text).tokens
<1>. DEFINE s == Scanned(text)
<1>0. s \in Scans /\ s.current \in Seq(Typed) /\ s.tokens \in Seq(Words)
  <2>1. s \in Scans
    BY ScannedProperties
  <2>. HIDE DEF s
  <2>. QED
    BY <2>1 DEF Scans
<1>1. s.quote = NoQuote
  BY DEF Tokenize
<1>2. Tokenize(text).tokens = Cut(IF s.escape THEN Keep(s, Backslash) ELSE s).tokens
  BY <1>1 DEF Tokenize
<1>3. s.current = Prefix(text)
  OBVIOUS
<1>4. ASSUME s.escape PROVE FALSE
  <2>1. Last(text) # Blank
    BY <1>4, EscapeEnds, Characters
  <2>. HIDE DEF s
  <2>2. PICK c \in Seq(Typed) : c = Append(s.current, Backslash)
    BY <1>0, AppendProperties, Characters
  <2>3. Len(c) = Len(s.current) + 1 /\ Len(s.current) \in Nat
    BY <1>0, <2>2, AppendProperties, LenProperties, Characters
  <2>4. c # <<>> /\ c # s.current
    BY <2>3, EmptySeq
  <2>5. /\ Keep(s, Backslash) \in Scans /\ Keep(s, Backslash).current = c
        /\ Keep(s, Backslash).tokens = s.tokens
    BY <1>0, <2>2, KeepProperties, Characters
  <2>6. Cut(Keep(s, Backslash)).tokens = Append(s.tokens, c)
    BY <2>4, <2>5, CutProperties
  <2>7. c \in Words
    BY <2>4 DEF Words
  <2>8. Append(s.tokens, c) # <<>> /\ Last(Append(s.tokens, c)) = c
    BY <1>0, <2>7, LastAndFront
  <2>9. Prefix(text) = c
    BY <1>2, <1>4, <2>1, <2>6, <2>8 DEF Prefix
  <2>. QED
    BY <1>3, <2>4, <2>9
<1>5. Tokenize(text).tokens =
        IF s.current = <<>> THEN s.tokens ELSE Append(s.tokens, s.current)
  BY <1>0, <1>2, <1>4, CutProperties
<1>6. s.current # <<>> => Front(Append(s.tokens, s.current)) = s.tokens
  <2>. HIDE DEF s
  <2>1. s.current # <<>> => s.current \in Words
    BY <1>0 DEF Words
  <2>. QED
    BY <1>0, <2>1, LastAndFront
<1>. HIDE DEF s
<1>7. (IF Prefix(text) = <<>> THEN Tokenize(text).tokens
       ELSE Front(Tokenize(text).tokens)) = s.tokens
  BY <1>3, <1>5, <1>6
<1>. QED
  BY <1>1, <1>4, <1>7 DEF s

\* The rest of a name behind a prefix of it.
LEMMA RestOfName ==
  ASSUME NEW name \in Seq(Letters), NEW p \in Seq(Typed), IsPrefix(p, name)
  PROVE  LET rest == SubSeq(name, Len(p) + 1, Len(name))
         IN  rest \in Seq(Letters) /\ p \o rest = name
<1>. DEFINE rest == SubSeq(name, Len(p) + 1, Len(name))
            front == SubSeq(name, 1, Len(p))
<1>0. /\ Len(p) \in Nat /\ Len(name) \in Nat /\ Len(p) <= Len(name)
      /\ SubSeq(p, 1, Len(p)) = front
  BY LenProperties DEF IsPrefix
<1>1. front = p
  BY <1>0, SubSeqFull
<1>2. rest \in Seq(Letters)
  <2>1. \A i \in Len(p) + 1 .. Len(name) : name[i] \in Letters
    BY <1>0, ElementOfSeq
  <2>. QED
    BY <1>0, <2>1, SubSeqProperties
<1>3. front \o rest = name
  <2>1. SubSeq(name, 1, Len(p)) \o SubSeq(name, Len(p) + 1, Len(name)) = SubSeq(name, 1, Len(name))
    <3>1. /\ 1 \in 1 .. Len(name) + 1 /\ Len(p) \in 1 - 1 .. Len(name)
          /\ Len(name) \in Len(p) .. Len(name)
      BY <1>0
    <3>. QED
      BY <3>1, ConcatAdjacentSubSeq
  <2>2. SubSeq(name, 1, Len(name)) = name
    BY SubSeqFull
  <2>. QED
    BY <2>1, <2>2
<1>. QED
  BY <1>1, <1>2, <1>3

LEMMA CompletionIsPath ==
  ASSUME TypesOK, NEW m \in Complete(buffer), ~Shadowed(m), ~Misjudged
  PROVE  /\ ~Tokenize(buffer \o Rest(m)).error
         /\ Tokenize(buffer \o Rest(m)).tokens # <<>>
         /\ Descend(Tokenize(buffer \o Rest(m)).tokens).node = m
         /\ m # Root
         /\ Descend(Tokenize(buffer \o Rest(m)).tokens).used
              = Len(Tokenize(buffer \o Rest(m)).tokens)
<1>. DEFINE s == Scanned(buffer)
            w == Descend(s.tokens)
            name == Commands[m].name
            text == buffer \o Rest(m)
            r == [s EXCEPT !.current = @ \o Rest(m)]
<1>0. buffer \in Seq(Typed) /\ s \in Scans /\ s.tokens \in Seq(Words) /\ s.current \in Seq(Typed)
  <2>1. buffer \in Seq(Typed) /\ s \in Scans
    BY ScannedProperties DEF TypesOK
  <2>. HIDE DEF s
  <2>. QED
    BY <2>1 DEF Scans
<1>1. ~Tokenize(buffer).error /\ s.current = Prefix(buffer)
  BY DEF Complete, Misjudged
<1>2. /\ s.quote = NoQuote /\ ~s.escape
      /\ (IF Prefix(buffer) = <<>> THEN Tokenize(buffer).tokens
          ELSE Front(Tokenize(buffer).tokens)) = s.tokens
  BY <1>0, <1>1, EndIsJudged
<1>. HIDE DEF s
<1>3. /\ ~(w.used < Len(s.tokens))
      /\ m \in HelpChildren(w.node) /\ IsPrefix(s.current, name)
  BY <1>1, <1>2 DEF Complete
<1>4. w \in Ways /\ w.open /\ w.used = Len(s.tokens) /\ Len(s.tokens) \in Nat
  <2>1. /\ Len(s.tokens) \in Nat /\ w \in Ways /\ w.used <= Len(s.tokens)
        /\ w.used = Len(s.tokens) => w.open
    BY <1>0, OpenWay, DescendProperties, LenProperties
  <2>2. w.used \in Nat
    BY <2>1 DEF Ways
  <2>. QED
    BY <1>3, <2>1, <2>2
<1>5. /\ m \in ChildrenOf(w.node) /\ m \in Nat /\ m # Root
      /\ Commands[m].parent = w.node
      /\ name \in Seq(Letters) /\ name # <<>>
  BY <1>3, TreeProperties DEF HelpChildren
<1>. HIDE DEF w
<1>6. Rest(m) \in Seq(Letters) /\ s.current \o Rest(m) = name
  <2>1. Rest(m) = SubSeq(name, Len(s.current) + 1, Len(name))
    BY <1>1 DEF Rest
  <2>2. PICK p \in Seq(Typed) : p = s.current
    BY <1>0
  <2>. HIDE DEF name
  <2>3. IsPrefix(p, name) /\ name \in Seq(Letters)
    BY <1>3, <1>5, <2>2
  <2>. QED
    BY <2>1, <2>2, <2>3, RestOfName
<1>7. Scanned(text) = r
  <2>1. Rest(m) \in Seq(Typed) /\ Escaped(Rest(m)) = Rest(m)
    BY <1>6, LettersNeedNoEscape
  <2>2. Scanned(buffer \o Escaped(Rest(m))) = [Scanned(buffer) EXCEPT !.current = @ \o Rest(m)]
    BY <1>0, <1>2, <2>1, EscapedIsKept DEF s
  <2>. QED
    BY <2>1, <2>2 DEF s
<1>8. /\ r \in Scans /\ r.tokens = s.tokens /\ r.current = name
      /\ r.quote = NoQuote /\ ~r.escape
  <2>1. Rest(m) \in Seq(Typed)
    BY <1>6, LettersNeedNoEscape
  <2>. QED
    BY <1>0, <1>2, <1>6, <2>1, KeptProperties
<1>9. ~Tokenize(text).error /\ Tokenize(text).tokens = Append(s.tokens, name)
  <2>. HIDE DEF text, r, name
  <2>. QED
    BY <1>5, <1>7, <1>8, CutProperties DEF Tokenize
<1>10. name \in Words
  BY <1>5, LettersNeedNoEscape DEF Words
<1>11. Descend(Append(s.tokens, name)) = Follow(w, name)
  <2>. HIDE DEF name
  <2>. QED
    BY <1>0, <1>10, DescendProperties DEF w
<1>12. m \in FindChild(w.node, name) /\ Min(FindChild(w.node, name)) = m
  <2>1. m \in FindChild(w.node, name)
    BY <1>5 DEF FindChild, Matches
  <2>2. \A k \in FindChild(w.node, name) : ~(k < m)
    BY <1>5 DEF Shadowed, FindChild
  <2>3. FindChild(w.node, name) \in SUBSET Nat
    BY TreeProperties
  <2>4. PICK k \in Nat : /\ k = Min(FindChild(w.node, name))
                         /\ k \in FindChild(w.node, name) /\ k <= m
    BY <2>1, <2>3, MinOfNaturals
  <2>5. k = m
    BY <1>5, <2>2, <2>4
  <2>. QED
    BY <2>1, <2>4, <2>5
<1>13. Follow(w, name).node = m /\ Follow(w, name).used = Len(s.tokens) + 1
  <2>1. Follow(w, name) = [w EXCEPT !.node = m, !.used = @ + 1]
    BY <1>4, <1>12 DEF Follow
  <2>. QED
    BY <1>4, <2>1 DEF Ways
<1>14. Len(Append(s.tokens, name)) = Len(s.tokens) + 1 /\ Append(s.tokens, name) # <<>>
  <2>. HIDE DEF name
  <2>. QED
    BY <1>0, <1>10, AppendProperties, LastAndFront
<1>. QED
  BY <1>5, <1>9, <1>11, <1>13, <1>14

LEMMA CompletionLeads ==
  ASSUME TypesOK
  PROVE  CompletionsLead
<1>. SUFFICES ASSUME NEW m \in Complete(buffer)
              PROVE  LET text == buffer \o Rest(m)
                         w    == Descend(Tokenize(text).tokens)
                     IN  /\ ~Commands[m].hidden
                         /\ ~Shadowed(m) /\ ~Misjudged =>
                              /\ w.node = m /\ w.used = Len(Tokenize(text).tokens)
                              /\ ~AsksForHelp(text) => Outcome(text) \in {"bound", "incomplete"}
  BY DEF CompletionsLead
<1>1. ~Commands[m].hidden
  BY DEF Complete, HelpChildren
<1>2. ASSUME ~Shadowed(m), ~Misjudged, ~AsksForHelp(buffer \o Rest(m))
      PROVE  Outcome(buffer \o Rest(m)) \in {"bound", "incomplete"}
  <2>1. PICK text : text = buffer \o Rest(m)
    OBVIOUS
  <2>2. /\ ~Tokenize(text).error /\ Tokenize(text).tokens # <<>>
        /\ Descend(Tokenize(text).tokens).node # Root
    BY <1>2, <2>1, CompletionIsPath
  <2>3. Tokenize(text).tokens[1] \notin HelpWords
    BY <1>2, <2>1, <2>2 DEF AsksForHelp
  <2>. QED
    BY <2>1, <2>2, <2>3 DEF Outcome
<1>. QED
  BY <1>1, <1>2, CompletionIsPath

-----------------------------------------------------------------------------
(* The rows of Distance.                                                   *)

LEMMA LeastOfThree ==
  ASSUME NEW x \in Nat, NEW y \in Nat, NEW z \in Nat
  PROVE  /\ Min({x, y, z}) \in Nat
         /\ Min({x, y, z}) <= x /\ Min({x, y, z}) <= y /\ Min({x, y, z}) <= z
         /\ Min({x, y, z}) = x \/ Min({x, y, z}) = y \/ Min({x, y, z}) = z
<1>1. {x, y, z} \in SUBSET Nat /\ {x, y, z} # {}
  OBVIOUS
<1>2. Min({x, y, z}) \in {x, y, z} /\ \A j \in {x, y, z} : Min({x, y, z}) <= j
  BY <1>1, MinOfNaturals
<1>. QED
  BY <1>2

Differs(a, b) == IF a = b THEN 0 ELSE 1

\* The entry j of the row below "row", behind the entry "before".
Entry(before, row, c, right, j) ==
  Min({before + 1, row[j] + 1, row[j - 1] + Differs(c, right[j])})

Rows(right) == [0 .. Len(right) -> Nat]

RowLoop(f, row, c, right) ==
  f = [j \in 0 .. Len(right) |-> IF j = 0 THEN row[0] + 1 ELSE Entry(f[j - 1], row, c, right, j)]

LEMMA NextRowLoops ==
  ASSUME NEW row, NEW c, NEW right
  PROVE  NextRow(row, c, right) = CHOOSE f : RowLoop(f, row, c, right)
BY DEF NextRow, RowLoop, Entry, Differs

LEMMA EntryType ==
  ASSUME NEW right \in Seq(Typed), NEW row \in Rows(right), NEW c,
         NEW j \in 1 .. Len(right), NEW before \in Nat
  PROVE  /\ Entry(before, row, c, right, j) \in Nat
         /\ row[j] \in Nat /\ row[j - 1] \in Nat
<1>1. Len(right) \in Nat
  BY LenProperties
<1>2. row[j] \in Nat /\ row[j - 1] \in Nat
  BY <1>1 DEF Rows
<1>3. /\ before + 1 \in Nat /\ row[j] + 1 \in Nat
      /\ row[j - 1] + Differs(c, right[j]) \in Nat
  BY <1>2 DEF Differs
<1>. QED
  BY <1>2, <1>3, LeastOfThree DEF Entry

LEMMA NextRowProperties ==
  ASSUME NEW right \in Seq(Typed), NEW row \in Rows(right), NEW c
  PROVE  /\ NextRow(row, c, right) \in Rows(right)
         /\ NextRow(row, c, right)[0] = row[0] + 1
         /\ \A j \in 1 .. Len(right) : NextRow(row, c, right)[j]
              = Entry(NextRow(row, c, right)[j - 1], row, c, right, j)
<1>. DEFINE n == Len(right)
            step == [p \in Nat \X (1 .. n) |-> Entry(p[1], row, c, right, p[2])]
            start == row[0] + 1
            g == NextRow(row, c, right)
<1>0. n \in Nat /\ start \in Nat
  <2>1. n \in Nat
    BY LenProperties
  <2>2. 0 \in 0 .. n
    BY <2>1
  <2>. QED
    BY <2>1, <2>2 DEF Rows
<1>1. step \in [Nat \X (1 .. n) -> Nat]
  BY EntryType
<1>2. \A x \in Nat : \A j \in 1 .. n : step[<<x, j>>] = Entry(x, row, c, right, j)
  OBVIOUS
<1>. HIDE DEF step, n, start, g
<1>3. PICK f \in [0 .. n -> Nat] : f[0] = start /\ \A j \in 1 .. n : f[j] = step[<<f[j - 1], j>>]
  <2>1. \E f : Loops(f, Nat, n, start, step)
    BY <1>0, <1>1, LoopRuns
  <2>. QED
    BY <2>1 DEF Loops
<1>4. \A j \in 1 .. n : f[j] = Entry(f[j - 1], row, c, right, j)
  <2>. TAKE j \in 1 .. n
  <2>1. f[j - 1] \in Nat
    BY <1>0, <1>3
  <2>. QED
    BY <1>2, <1>3, <2>1
<1>5. RowLoop(f, row, c, right)
  BY <1>0, <1>3, <1>4 DEF RowLoop, n, start
<1>6. RowLoop(g, row, c, right)
  BY <1>5, NextRowLoops DEF g
<1>7. g = [j \in 0 .. n |-> IF j = 0 THEN start ELSE Entry(g[j - 1], row, c, right, j)]
  BY <1>6 DEF RowLoop, n, start
<1>8. g[0] = start /\ \A j \in 1 .. n : g[j] = Entry(g[j - 1], row, c, right, j)
  <2>1. \A j \in 0 .. n :
          g[j] = IF j = 0 THEN start ELSE Entry(g[j - 1], row, c, right, j)
    BY <1>7
  <2>. QED
    BY <1>0, <2>1
<1>9. \A j \in 0 .. n : f[j] = g[j]
  <2>1. \A j \in 1 .. n : f[j - 1] = g[j - 1] => f[j] = g[j]
    BY <1>4, <1>8
  <2>2. n \in Nat /\ f[0] = g[0]
    BY <1>0, <1>3, <1>8
  <2>3. Alike(f, g, n)
    BY <2>1, <2>2 DEF Alike
  <2>. QED
    BY <2>2, <2>3, LoopsAgree
<1>10. g \in [0 .. n -> Nat]
  <2>1. \A j \in 0 .. n :
          (IF j = 0 THEN start ELSE Entry(g[j - 1], row, c, right, j)) \in Nat
    <3>. TAKE j \in 0 .. n
    <3>1. g[j] \in Nat
      BY <1>3, <1>9
    <3>2. g[j] = IF j = 0 THEN start ELSE Entry(g[j - 1], row, c, right, j)
      BY <1>7
    <3>. QED
      BY <3>1, <3>2
  <2>. QED
    BY <1>7, <2>1
<1>. QED
  BY <1>8, <1>10 DEF n, start, g, Rows

First(right) == [j \in 0 .. Len(right) |-> j]

TableLoop(f, left, right) ==
  f = [i \in 0 .. Len(left) |-> IF i = 0 THEN First(right) ELSE NextRow(f[i - 1], left[i], right)]

RowOf(left, right) == (CHOOSE f : TableLoop(f, left, right))[Len(left)]

LEMMA DistanceLoops ==
  ASSUME NEW left, NEW right
  PROVE  Distance(left, right) = RowOf(left, right)[Len(right)]
BY DEF Distance, RowOf, TableLoop, First

LEMMA FirstType ==
  ASSUME NEW right \in Seq(Typed)
  PROVE  First(right) \in Rows(right)
<1>1. Len(right) \in Nat
  BY LenProperties
<1>. QED
  BY <1>1 DEF First, Rows

\* The table has one row behind each character of the left word.
LEMMA TableRuns ==
  ASSUME NEW left \in Seq(Typed), NEW right \in Seq(Typed)
  PROVE  \E f \in [0 .. Len(left) -> Rows(right)] :
           /\ f[0] = First(right)
           /\ \A i \in 1 .. Len(left) : f[i] = NextRow(f[i - 1], left[i], right)
           /\ RowOf(left, right) = f[Len(left)]
<1>. DEFINE n == Len(left)
            step == [p \in Rows(right) \X (1 .. n) |-> NextRow(p[1], left[p[2]], right)]
<1>0. n \in Nat
  BY LenProperties
<1>1. step \in [Rows(right) \X (1 .. n) -> Rows(right)]
  BY NextRowProperties
<1>2. \A r \in Rows(right) : \A i \in 1 .. n : step[<<r, i>>] = NextRow(r, left[i], right)
  OBVIOUS
<1>. HIDE DEF step, n
<1>3. PICK f \in [0 .. n -> Rows(right)] :
        f[0] = First(right) /\ \A i \in 1 .. n : f[i] = step[<<f[i - 1], i>>]
  <2>1. \E f : Loops(f, Rows(right), n, First(right), step)
    BY <1>0, <1>1, FirstType, LoopRuns
  <2>. QED
    BY <2>1 DEF Loops
<1>4. \A i \in 1 .. n : f[i] = NextRow(f[i - 1], left[i], right)
  <2>. TAKE i \in 1 .. n
  <2>1. f[i - 1] \in Rows(right)
    BY <1>0, <1>3
  <2>. QED
    BY <1>2, <1>3, <2>1
<1>5. TableLoop(f, left, right)
  BY <1>0, <1>3, <1>4 DEF TableLoop, n
<1>. DEFINE g == CHOOSE h : TableLoop(h, left, right)
<1>6. TableLoop(g, left, right)
  BY <1>5
<1>. HIDE DEF g
<1>7. \A i \in 0 .. n : f[i] = g[i]
  <2>1. g[0] = First(right) /\ \A i \in 1 .. n : g[i] = NextRow(g[i - 1], left[i], right)
    BY <1>0, <1>6 DEF TableLoop, n
  <2>2. \A i \in 1 .. n : f[i - 1] = g[i - 1] => f[i] = g[i]
    BY <1>4, <2>1
  <2>3. f[0] = g[0]
    BY <1>3, <2>1
  <2>4. Alike(f, g, n)
    BY <2>2, <2>3 DEF Alike
  <2>. QED
    BY <1>0, <2>4, LoopsAgree
<1>8. RowOf(left, right) = f[n]
  BY <1>0, <1>7 DEF RowOf, g, n
<1>. QED
  BY <1>3, <1>4, <1>8 DEF n

LEMMA RowOfProperties ==
  ASSUME NEW right \in Seq(Typed)
  PROVE  /\ RowOf(<<>>, right) = First(right)
         /\ \A left \in Seq(Typed) : RowOf(left, right) \in Rows(right)
         /\ \A left \in Seq(Typed) : \A c \in Typed :
              RowOf(Append(left, c), right) = NextRow(RowOf(left, right), c, right)
<1>1. RowOf(<<>>, right) = First(right)
  BY TableRuns, EmptySeq
<1>2. ASSUME NEW left \in Seq(Typed) PROVE RowOf(left, right) \in Rows(right)
  <2>1. Len(left) \in 0 .. Len(left)
    BY LenProperties
  <2>. QED
    BY <2>1, TableRuns
<1>3. ASSUME NEW left \in Seq(Typed), NEW c \in Typed
      PROVE  RowOf(Append(left, c), right) = NextRow(RowOf(left, right), c, right)
  <2>. DEFINE u == Append(left, c)
              n == Len(left)
  <2>1. /\ u \in Seq(Typed) /\ Len(u) = n + 1 /\ n \in Nat
        /\ \A i \in 1 .. n : u[i] = left[i]
        /\ u[n + 1] = c
    BY AppendProperties, LenProperties
  <2>2. PICK f : /\ f[0] = First(right)
                 /\ \A i \in 1 .. n : f[i] = NextRow(f[i - 1], left[i], right)
                 /\ RowOf(left, right) = f[n]
    BY TableRuns
  <2>. HIDE DEF u, n
  <2>3. PICK g : /\ g[0] = First(right)
                 /\ \A i \in 1 .. Len(u) : g[i] = NextRow(g[i - 1], u[i], right)
                 /\ RowOf(u, right) = g[Len(u)]
    BY <2>1, TableRuns
  <2>4. \A i \in 1 .. n : g[i] = NextRow(g[i - 1], left[i], right)
    BY <2>1, <2>3
  <2>5. f[n] = g[n]
    <3>1. \A i \in 1 .. n : f[i - 1] = g[i - 1] => f[i] = g[i]
      BY <2>2, <2>4
    <3>2. f[0] = g[0] /\ n \in Nat /\ n \in 0 .. n
      BY <2>1, <2>2, <2>3
    <3>3. Alike(f, g, n)
      BY <3>1, <3>2 DEF Alike
    <3>. QED
      BY <3>2, <3>3, LoopsAgree
  <2>6. Len(u) \in 1 .. Len(u) /\ Len(u) - 1 = n
    BY <2>1
  <2>. QED
    BY <2>1, <2>2, <2>3, <2>5, <2>6 DEF u
<1>. QED
  BY <1>1, <1>2, <1>3

\* A longer right word leaves the entries of a row as they are.
LEMMA NextRowOfLonger ==
  ASSUME NEW w \in Seq(Typed), NEW b \in Typed, NEW row \in Rows(w),
         NEW long \in Rows(Append(w, b)), \A j \in 0 .. Len(w) : long[j] = row[j], NEW c
  PROVE  \A j \in 0 .. Len(w) : NextRow(long, c, Append(w, b))[j] = NextRow(row, c, w)[j]
<1>. DEFINE u == Append(w, b)
            n == Len(w)
            f == NextRow(long, c, u)
            g == NextRow(row, c, w)
<1>1. /\ u \in Seq(Typed) /\ n \in Nat /\ Len(u) = n + 1
      /\ \A j \in 1 .. n : u[j] = w[j]
      /\ long \in Rows(u)
  BY AppendProperties, LenProperties
<1>. HIDE DEF u
<1>2. f[0] = long[0] + 1 /\ \A j \in 1 .. Len(u) : f[j] = Entry(f[j - 1], long, c, u, j)
  BY <1>1, NextRowProperties
<1>3. g[0] = row[0] + 1 /\ \A j \in 1 .. n : g[j] = Entry(g[j - 1], row, c, w, j)
  BY NextRowProperties
<1>. HIDE DEF f, g
<1>4. \A j \in 1 .. n : \A x : Entry(x, long, c, u, j) = Entry(x, row, c, w, j)
  <2>. TAKE j \in 1 .. n
  <2>1. long[j] = row[j] /\ long[j - 1] = row[j - 1]
    BY <1>1
  <2>. QED
    BY <1>1, <2>1 DEF Entry
<1>5. \A j \in 1 .. n : f[j - 1] = g[j - 1] => f[j] = g[j]
  BY <1>1, <1>2, <1>3, <1>4
<1>6. f[0] = g[0] /\ n \in Nat
  BY <1>1, <1>2, <1>3
<1>7. \A j \in 0 .. n : f[j] = g[j]
  <2>1. Alike(f, g, n)
    BY <1>5, <1>6 DEF Alike
  <2>. QED
    BY <1>6, <2>1, LoopsAgree
<1>. QED
  BY <1>7 DEF f, g, u

LEMMA RowOfLonger ==
  ASSUME NEW w \in Seq(Typed), NEW b \in Typed
  PROVE  \A l \in Seq(Typed) : \A j \in 0 .. Len(w) :
           RowOf(l, Append(w, b))[j] = RowOf(l, w)[j]
<1>. DEFINE u == Append(w, b)
            G == {l \in Seq(Typed) : \A j \in 0 .. Len(w) : RowOf(l, u)[j] = RowOf(l, w)[j]}
<1>0. u \in Seq(Typed) /\ Len(u) = Len(w) + 1 /\ Len(w) \in Nat
  BY AppendProperties, LenProperties
<1>1. <<>> \in G
  <2>1. RowOf(<<>>, u) = First(u) /\ RowOf(<<>>, w) = First(w)
    BY <1>0, RowOfProperties
  <2>2. \A j \in 0 .. Len(w) : First(u)[j] = First(w)[j]
    BY <1>0 DEF First
  <2>. QED
    BY <2>1, <2>2, EmptySeq
<1>2. ASSUME NEW l \in Seq(Typed), NEW c \in Typed, l \in G
      PROVE  Append(l, c) \in G
  <2>1. /\ RowOf(l, u) \in Rows(u) /\ RowOf(l, w) \in Rows(w)
        /\ RowOf(Append(l, c), u) = NextRow(RowOf(l, u), c, u)
        /\ RowOf(Append(l, c), w) = NextRow(RowOf(l, w), c, w)
    BY <1>0, RowOfProperties
  <2>2. PICK long \in Rows(u), row \in Rows(w) : long = RowOf(l, u) /\ row = RowOf(l, w)
    BY <2>1
  <2>3. \A j \in 0 .. Len(w) : long[j] = row[j]
    BY <1>2, <2>2
  <2>4. \A j \in 0 .. Len(w) : NextRow(long, c, u)[j] = NextRow(row, c, w)[j]
    BY <2>3, NextRowOfLonger
  <2>. QED
    BY <2>1, <2>2, <2>4, AppendProperties
<1>. HIDE DEF G
<1>3. Seq(Typed) \subseteq G
  BY <1>1, <1>2, AllSequences
<1>. QED
  BY <1>3 DEF G

\* Distance, by the last characters of the two words.
LEMMA DistanceRecurs ==
  ASSUME NEW l \in Seq(Typed), NEW w \in Seq(Typed), NEW a \in Typed, NEW b \in Typed
  PROVE  Distance(Append(l, a), Append(w, b)) =
           Min({Distance(Append(l, a), w) + 1, Distance(l, Append(w, b)) + 1,
                Distance(l, w) + Differs(a, b)})
<1>. DEFINE u == Append(w, b)
            k == Append(l, a)
            n == Len(w)
<1>1. /\ u \in Seq(Typed) /\ k \in Seq(Typed) /\ n \in Nat /\ Len(u) = n + 1 /\ u[n + 1] = b
  BY AppendProperties, LenProperties
<1>2. /\ Distance(k, u) = RowOf(k, u)[n + 1] /\ Distance(k, w) = RowOf(k, w)[n]
      /\ Distance(l, u) = RowOf(l, u)[n + 1] /\ Distance(l, w) = RowOf(l, w)[n]
  BY <1>1, DistanceLoops
<1>3. RowOf(l, u) \in Rows(u) /\ RowOf(k, u) = NextRow(RowOf(l, u), a, u)
  BY <1>1, RowOfProperties
<1>4. RowOf(k, u)[n] = RowOf(k, w)[n] /\ RowOf(l, u)[n] = RowOf(l, w)[n]
  <2>1. n \in 0 .. n
    BY <1>1
  <2>2. \A m \in Seq(Typed) : RowOf(m, u)[n] = RowOf(m, w)[n]
    BY <2>1, RowOfLonger
  <2>. QED
    BY <1>1, <2>2
<1>. HIDE DEF u, k, n
<1>5. PICK row \in Rows(u) : row = RowOf(l, u)
  BY <1>3
<1>6. n + 1 \in 1 .. Len(u) /\ (n + 1) - 1 = n
  BY <1>1
<1>7. NextRow(row, a, u)[n + 1] = Entry(NextRow(row, a, u)[n], row, a, u, n + 1)
  <2>1. \A j \in 1 .. Len(u) :
          NextRow(row, a, u)[j] = Entry(NextRow(row, a, u)[j - 1], row, a, u, j)
    BY <1>1, NextRowProperties
  <2>. QED
    BY <1>6, <2>1
<1>8. Distance(k, u) = Min({RowOf(k, u)[n] + 1, row[n + 1] + 1, row[n] + Differs(a, b)})
  BY <1>1, <1>2, <1>3, <1>5, <1>6, <1>7 DEF Entry
<1>. QED
  BY <1>2, <1>4, <1>5, <1>8 DEF u, k

LEMMA DistanceFromNothing == \A w \in Seq(Typed) : Distance(<<>>, w) = Len(w)
<1>. TAKE w \in Seq(Typed)
<1>1. Len(w) \in Nat /\ RowOf(<<>>, w) = First(w)
  BY RowOfProperties, LenProperties
<1>2. First(w)[Len(w)] = Len(w)
  BY <1>1 DEF First
<1>. QED
  BY <1>1, <1>2, DistanceLoops

LEMMA DistanceToNothing == \A l \in Seq(Typed) : Distance(l, <<>>) = Len(l)
<1>. DEFINE G == {l \in Seq(Typed) : RowOf(l, <<>>)[0] = Len(l)}
<1>0. <<>> \in Seq(Typed) /\ Len(<<>>) = 0
  BY EmptySeq
<1>1. <<>> \in G
  <2>1. First(<<>>)[0] = 0
    BY <1>0 DEF First
  <2>. QED
    BY <1>0, <2>1, RowOfProperties
<1>2. ASSUME NEW l \in Seq(Typed), NEW c \in Typed, l \in G
      PROVE  Append(l, c) \in G
  <2>1. PICK row \in Rows(<<>>) : row = RowOf(l, <<>>)
    BY <1>0, RowOfProperties
  <2>2. RowOf(Append(l, c), <<>>) = NextRow(row, c, <<>>)
    BY <1>0, <2>1, RowOfProperties
  <2>3. NextRow(row, c, <<>>)[0] = row[0] + 1
    BY <1>0, NextRowProperties
  <2>. QED
    BY <1>2, <2>1, <2>2, <2>3, AppendProperties
<1>. HIDE DEF G
<1>3. Seq(Typed) \subseteq G
  BY <1>1, <1>2, AllSequences
<1>. QED
  BY <1>0, <1>3, DistanceLoops DEF G

LEMMA DistanceType ==
  ASSUME NEW l \in Seq(Typed), NEW w \in Seq(Typed)
  PROVE  Distance(l, w) \in Nat
<1>1. Len(w) \in Nat /\ RowOf(l, w) \in Rows(w)
  BY RowOfProperties, LenProperties
<1>2. Len(w) \in 0 .. Len(w)
  BY <1>1
<1>. QED
  BY <1>1, <1>2, DistanceLoops DEF Rows

\* How far the distance moves when the words get longer by one character.
LEMMA DistanceSteps ==
  ASSUME NEW l \in Seq(Typed), NEW w \in Seq(Typed), NEW a \in Typed, NEW b \in Typed
  PROVE  /\ Distance(Append(l, a), Append(w, b)) <= Distance(Append(l, a), w) + 1
         /\ Distance(Append(l, a), Append(w, b)) <= Distance(l, Append(w, b)) + 1
         /\ Distance(Append(l, a), Append(w, b)) <= Distance(l, w) + Differs(a, b)
         /\ \/ Distance(Append(l, a), Append(w, b)) = Distance(Append(l, a), w) + 1
            \/ Distance(Append(l, a), Append(w, b)) = Distance(l, Append(w, b)) + 1
            \/ Distance(Append(l, a), Append(w, b)) = Distance(l, w) + Differs(a, b)
<1>1. Append(l, a) \in Seq(Typed) /\ Append(w, b) \in Seq(Typed)
  BY AppendProperties
<1>2. PICK x \in Nat, y \in Nat, z \in Nat :
        x = Distance(Append(l, a), w) + 1 /\ y = Distance(l, Append(w, b)) + 1
        /\ z = Distance(l, w) + Differs(a, b)
  <2>1. /\ Distance(Append(l, a), w) \in Nat /\ Distance(l, Append(w, b)) \in Nat
        /\ Distance(l, w) \in Nat
    BY <1>1, DistanceType
  <2>. QED
    BY <2>1 DEF Differs
<1>3. Distance(Append(l, a), Append(w, b)) = Min({x, y, z})
  BY <1>2, DistanceRecurs
<1>. QED
  BY <1>2, <1>3, LeastOfThree

LEMMA LongerLeft ==
  ASSUME NEW l \in Seq(Typed), NEW w \in Seq(Typed), NEW a \in Typed
  PROVE  Distance(Append(l, a), w) <= Distance(l, w) + 1
<1>1. CASE w = <<>>
  <2>1. Append(l, a) \in Seq(Typed) /\ Len(Append(l, a)) = Len(l) + 1 /\ Len(l) \in Nat
    BY AppendProperties, LenProperties
  <2>2. Distance(Append(l, a), w) = Len(Append(l, a)) /\ Distance(l, w) = Len(l)
    BY <1>1, <2>1, DistanceToNothing
  <2>. QED
    BY <2>1, <2>2
<1>2. CASE w # <<>>
  <2>1. PICK u \in Seq(Typed), b \in Typed : w = Append(u, b)
    BY <1>2, SequenceEmptyOrAppend
  <2>. QED
    BY <2>1, DistanceSteps
<1>. QED
  BY <1>1, <1>2

LEMMA LongerRight ==
  ASSUME NEW w \in Seq(Typed), NEW b \in Typed
  PROVE  \A l \in Seq(Typed) : /\ Distance(l, Append(w, b)) <= Distance(l, w) + 1
                               /\ Distance(l, w) <= Distance(l, Append(w, b)) + 1
<1>. DEFINE G == {l \in Seq(Typed) : /\ Distance(l, Append(w, b)) <= Distance(l, w) + 1
                                     /\ Distance(l, w) <= Distance(l, Append(w, b)) + 1}
<1>0. Append(w, b) \in Seq(Typed) /\ Len(Append(w, b)) = Len(w) + 1 /\ Len(w) \in Nat
  BY AppendProperties, LenProperties
<1>1. <<>> \in G
  <2>1. Distance(<<>>, Append(w, b)) = Len(Append(w, b)) /\ Distance(<<>>, w) = Len(w)
    BY <1>0, DistanceFromNothing
  <2>. QED
    BY <1>0, <2>1, EmptySeq
<1>2. ASSUME NEW m \in Seq(Typed), NEW a \in Typed, m \in G
      PROVE  Append(m, a) \in G
  <2>1. Append(m, a) \in Seq(Typed)
    BY AppendProperties
  <2>2. PICK x \in Nat, y \in Nat, z \in Nat, p \in Nat :
          /\ x = Distance(Append(m, a), Append(w, b)) /\ y = Distance(Append(m, a), w)
          /\ z = Distance(m, Append(w, b)) /\ p = Distance(m, w)
    BY <1>0, <2>1, DistanceType
  <2>3. x <= y + 1 /\ (x = y + 1 \/ x = z + 1 \/ x = p \/ x = p + 1)
    BY <2>2, DistanceSteps DEF Differs
  <2>4. y <= p + 1
    BY <2>2, LongerLeft
  <2>5. p <= z + 1
    BY <1>2, <2>2
  <2>6. x <= y + 1 /\ y <= x + 1
    BY <2>3, <2>4, <2>5
  <2>. QED
    BY <2>1, <2>2, <2>6
<1>. HIDE DEF G
<1>3. Seq(Typed) \subseteq G
  BY <1>1, <1>2, AllSequences
<1>. QED
  BY <1>3 DEF G

\* Another last character changes the distance by one at most.
LEMMA OtherLast ==
  ASSUME NEW u \in Seq(Typed), NEW c \in Typed, NEW x \in Typed
  PROVE  \A l \in Seq(Typed) : Distance(l, Append(u, c)) <= Distance(l, Append(u, x)) + 1
<1>. DEFINE G == {l \in Seq(Typed) :
                    Distance(l, Append(u, c)) <= Distance(l, Append(u, x)) + 1}
<1>0. /\ Append(u, c) \in Seq(Typed) /\ Append(u, x) \in Seq(Typed)
      /\ Len(Append(u, c)) = Len(Append(u, x)) /\ Len(Append(u, x)) \in Nat
  BY AppendProperties, LenProperties
<1>1. <<>> \in G
  <2>1. /\ Distance(<<>>, Append(u, c)) = Len(Append(u, c))
        /\ Distance(<<>>, Append(u, x)) = Len(Append(u, x))
    BY <1>0, DistanceFromNothing
  <2>. QED
    BY <1>0, <2>1, EmptySeq
<1>2. ASSUME NEW m \in Seq(Typed), NEW a \in Typed, m \in G
      PROVE  Append(m, a) \in G
  <2>1. Append(m, a) \in Seq(Typed)
    BY AppendProperties
  <2>2. PICK p \in Nat, q \in Nat, r \in Nat :
          /\ p = Distance(Append(m, a), Append(u, c)) /\ q = Distance(Append(m, a), Append(u, x))
          /\ r = Distance(m, Append(u, c))
    BY <1>0, <2>1, DistanceType
  <2>3. PICK s \in Nat, y \in Nat, z \in Nat :
          /\ s = Distance(m, Append(u, x))
          /\ y = Distance(Append(m, a), u) /\ z = Distance(m, u)
    BY <1>0, <2>1, DistanceType
  <2>4. p <= y + 1 /\ p <= r + 1 /\ p <= z + 1
    BY <2>2, <2>3, DistanceSteps DEF Differs
  <2>5. q = y + 1 \/ q = s + 1 \/ q = z \/ q = z + 1
    BY <2>2, <2>3, DistanceSteps DEF Differs
  <2>6. r <= s + 1
    BY <1>2, <2>2, <2>3
  <2>7. p <= q + 1
    BY <2>4, <2>5, <2>6
  <2>. QED
    BY <2>1, <2>2, <2>7
<1>. HIDE DEF G
<1>3. Seq(Typed) \subseteq G
  BY <1>1, <1>2, AllSequences
<1>. QED
  BY <1>3 DEF G

\* Two words whose distances from any third differ by one at most, and the same
\* character behind both.
LEMMA SameLast ==
  ASSUME NEW u \in Seq(Typed), NEW v \in Seq(Typed), NEW c \in Typed,
         \A l \in Seq(Typed) : Distance(l, u) <= Distance(l, v) + 1
  PROVE  \A l \in Seq(Typed) : Distance(l, Append(u, c)) <= Distance(l, Append(v, c)) + 1
<1>. DEFINE G == {l \in Seq(Typed) :
                    Distance(l, Append(u, c)) <= Distance(l, Append(v, c)) + 1}
<1>0. /\ Append(u, c) \in Seq(Typed) /\ Append(v, c) \in Seq(Typed)
      /\ Len(Append(u, c)) = Len(u) + 1 /\ Len(Append(v, c)) = Len(v) + 1
      /\ Len(u) \in Nat /\ Len(v) \in Nat
  BY AppendProperties, LenProperties
<1>1. <<>> \in G
  <2>1. /\ Distance(<<>>, Append(u, c)) = Len(u) + 1
        /\ Distance(<<>>, Append(v, c)) = Len(v) + 1
    BY <1>0, DistanceFromNothing
  <2>2. Distance(<<>>, u) = Len(u) /\ Distance(<<>>, v) = Len(v)
    BY DistanceFromNothing
  <2>3. <<>> \in Seq(Typed)
    BY EmptySeq
  <2>4. Len(u) <= Len(v) + 1
    BY <2>2, <2>3
  <2>. QED
    BY <1>0, <2>1, <2>3, <2>4
<1>2. ASSUME NEW m \in Seq(Typed), NEW a \in Typed, m \in G
      PROVE  Append(m, a) \in G
  <2>1. Append(m, a) \in Seq(Typed)
    BY AppendProperties
  <2>2. PICK p \in Nat, q \in Nat, r \in Nat, s \in Nat :
          /\ p = Distance(Append(m, a), Append(u, c)) /\ q = Distance(Append(m, a), Append(v, c))
          /\ r = Distance(m, Append(u, c)) /\ s = Distance(m, Append(v, c))
    BY <1>0, <2>1, DistanceType
  <2>3. PICK y \in Nat, z \in Nat, j \in Nat, k \in Nat, e \in Nat :
          /\ y = Distance(Append(m, a), u) /\ z = Distance(m, u)
          /\ j = Distance(Append(m, a), v) /\ k = Distance(m, v)
          /\ e = Differs(a, c)
    BY <2>1, DistanceType DEF Differs
  <2>4. p <= y + 1 /\ p <= r + 1 /\ p <= z + e
    BY <2>2, <2>3, DistanceSteps
  <2>5. q = j + 1 \/ q = s + 1 \/ q = k + e
    BY <2>2, <2>3, DistanceSteps
  <2>6. r <= s + 1 /\ y <= j + 1 /\ z <= k + 1
    BY <1>2, <2>1, <2>2, <2>3
  <2>7. p <= q + 1
    BY <2>4, <2>5, <2>6
  <2>. QED
    BY <2>1, <2>2, <2>7
<1>. HIDE DEF G
<1>3. Seq(Typed) \subseteq G
  BY <1>1, <1>2, AllSequences
<1>. QED
  BY <1>3 DEF G

\* Only a word itself is at no distance from it.
LEMMA NoDistance ==
  \A l \in Seq(Typed) : \A w \in Seq(Typed) : Distance(l, w) = 0 <=> w = l
<1>. DEFINE G == {l \in Seq(Typed) : \A w \in Seq(Typed) : Distance(l, w) = 0 <=> w = l}
<1>1. <<>> \in G
  <2>1. \A w \in Seq(Typed) : Distance(<<>>, w) = 0 <=> w = <<>>
    BY DistanceFromNothing, EmptySeq
  <2>. QED
    BY <2>1, EmptySeq
<1>2. ASSUME NEW l \in Seq(Typed), NEW a \in Typed, l \in G
      PROVE  Append(l, a) \in G
  <2>0. Append(l, a) \in Seq(Typed) /\ Append(l, a) # <<>> /\ Len(Append(l, a)) = Len(l) + 1
        /\ Len(l) \in Nat
    BY AppendProperties, LenProperties
  <2>1. ASSUME NEW w \in Seq(Typed)
        PROVE  Distance(Append(l, a), w) = 0 <=> w = Append(l, a)
    <3>1. CASE w = <<>>
      <4>1. Distance(Append(l, a), w) = Len(l) + 1
        BY <2>0, <3>1, DistanceToNothing
      <4>. QED
        BY <2>0, <3>1, <4>1
    <3>2. CASE w # <<>>
      <4>1. PICK u \in Seq(Typed), b \in Typed : w = Append(u, b)
        BY <3>2, SequenceEmptyOrAppend
      <4>2. PICK p \in Nat, x \in Nat, y \in Nat, z \in Nat :
              /\ p = Distance(Append(l, a), w) /\ x = Distance(Append(l, a), u)
              /\ y = Distance(l, w) /\ z = Distance(l, u)
        BY <2>0, DistanceType
      <4>3. p <= z + Differs(a, b) /\ (p = x + 1 \/ p = y + 1 \/ p = z + Differs(a, b))
        BY <4>1, <4>2, DistanceSteps
      <4>4. p = 0 <=> z = 0 /\ a = b
        BY <4>3 DEF Differs
      <4>5. z = 0 <=> u = l
        BY <1>2, <4>2
      <4>6. w = Append(l, a) <=> u = l /\ b = a
        BY <4>1, AppendInjective
      <4>. QED
        BY <4>2, <4>4, <4>5, <4>6
    <3>. QED
      BY <3>1, <3>2
  <2>. QED
    BY <2>0, <2>1
<1>. HIDE DEF G
<1>3. Seq(Typed) \subseteq G
  BY <1>1, <1>2, AllSequences
<1>. QED
  BY <1>3 DEF G

-----------------------------------------------------------------------------
(* The words one edit away from a word that is longer by a character: the  *)
(* edit is at its end, or it is one of the word in front of that.          *)

EndEdits(u, c) ==
  {u} \cup {Append(u, x) : x \in Letters} \cup {Append(Append(u, c), x) : x \in Letters}

LEMMA EditsOfNothing ==
  Edits(<<>>) = {Append(<<>>, x) : x \in Letters}
<1>1. Len(<<>>) = 0 /\ DOMAIN <<>> = {} /\ 1 .. 0 + 1 = {1}
  BY EmptySeq
<1>2. \A x \in Letters : InsertAt(<<>>, 1, x) = Append(<<>>, x)
  <2>. TAKE x \in Letters
  <2>1. <<>> \in Seq(Letters)
    BY EmptySeq
  <2>2. Append(<<>>, x) = <<>> \o <<x>> /\ <<x>> \in Seq(Letters)
    BY <2>1, AppendIsConcat
  <2>. QED
    BY <2>2, InsertIntoEmpty, ConcatEmptySeq
<1>3. Edits(<<>>) = {InsertAt(<<>>, 1, x) : x \in Letters}
  BY <1>1 DEF Edits
<1>. QED
  BY <1>2, <1>3

LEMMA EditsOfLonger ==
  ASSUME NEW u \in Seq(Typed), NEW c \in Typed
  PROVE  Edits(Append(u, c)) = EndEdits(u, c) \cup {Append(t, c) : t \in Edits(u)}
<1>. DEFINE n == Len(u)
            k == Append(u, c)
<1>1. /\ n \in Nat /\ Len(k) = n + 1 /\ DOMAIN u = 1 .. n /\ DOMAIN k = 1 .. n + 1
      /\ Letters \subseteq Typed
  BY LenProperties, AppendProperties, Characters
<1>2. RemoveAt(k, n + 1) = u /\ \A i \in 1 .. n : RemoveAt(k, i) = Append(RemoveAt(u, i), c)
  BY RemoveFromAppend
<1>3. \A x \in Letters :
        /\ ReplaceAt(k, n + 1, x) = Append(u, x)
        /\ \A i \in 1 .. n : ReplaceAt(k, i, x) = Append(ReplaceAt(u, i, x), c)
  BY <1>1, ReplaceInAppend
<1>4. \A x \in Letters :
        /\ InsertAt(k, n + 2, x) = Append(k, x)
        /\ \A i \in 1 .. n + 1 : InsertAt(k, i, x) = Append(InsertAt(u, i, x), c)
  BY <1>1, InsertIntoAppend
<1>5. /\ Edits(k) = {RemoveAt(k, i) : i \in 1 .. n + 1}
                      \cup {ReplaceAt(k, i, x) : i \in 1 .. n + 1, x \in Letters}
                      \cup {InsertAt(k, i, x) : i \in 1 .. n + 2, x \in Letters}
      /\ Edits(u) = {RemoveAt(u, i) : i \in 1 .. n}
                      \cup {ReplaceAt(u, i, x) : i \in 1 .. n, x \in Letters}
                      \cup {InsertAt(u, i, x) : i \in 1 .. n + 1, x \in Letters}
  <2>1. Len(k) + 1 = n + 2
    BY <1>1
  <2>. QED
    BY <1>1, <2>1 DEF Edits
<1>6. /\ 1 .. n + 1 = (1 .. n) \cup {n + 1}
      /\ 1 .. n + 2 = (1 .. n + 1) \cup {n + 2}
  BY <1>1
<1>. DEFINE Inner == {Append(t, c) : t \in Edits(u)}
<1>. HIDE DEF k, n
<1>7. Edits(k) \subseteq EndEdits(u, c) \cup Inner
  <2>1. ASSUME NEW i \in 1 .. n + 1
        PROVE  RemoveAt(k, i) \in EndEdits(u, c) \cup Inner
    <3>1. CASE i = n + 1
      BY <1>2, <3>1 DEF EndEdits
    <3>2. CASE i \in 1 .. n
      BY <1>2, <1>5, <3>2
    <3>. QED
      BY <1>6, <3>1, <3>2
  <2>2. ASSUME NEW i \in 1 .. n + 1, NEW x \in Letters
        PROVE  ReplaceAt(k, i, x) \in EndEdits(u, c) \cup Inner
    <3>1. CASE i = n + 1
      BY <1>3, <3>1 DEF EndEdits
    <3>2. CASE i \in 1 .. n
      BY <1>3, <1>5, <3>2
    <3>. QED
      BY <1>6, <3>1, <3>2
  <2>3. ASSUME NEW i \in 1 .. n + 2, NEW x \in Letters
        PROVE  InsertAt(k, i, x) \in EndEdits(u, c) \cup Inner
    <3>1. CASE i = n + 2
      BY <1>4, <3>1 DEF EndEdits, k
    <3>2. CASE i \in 1 .. n + 1
      BY <1>4, <1>5, <3>2
    <3>. QED
      BY <1>6, <3>1, <3>2
  <2>. QED
    BY <1>5, <2>1, <2>2, <2>3
<1>8. EndEdits(u, c) \subseteq Edits(k)
  <2>1. u \in Edits(k)
    BY <1>2, <1>5, <1>6
  <2>2. ASSUME NEW x \in Letters
        PROVE  Append(u, x) \in Edits(k) /\ Append(k, x) \in Edits(k)
    <3>1. n + 1 \in 1 .. n + 1 /\ n + 2 \in 1 .. n + 2
      BY <1>6
    <3>2. ReplaceAt(k, n + 1, x) \in Edits(k)
      BY <1>5, <3>1
    <3>3. InsertAt(k, n + 2, x) \in Edits(k)
      BY <1>5, <3>1
    <3>. QED
      BY <1>3, <1>4, <3>2, <3>3
  <2>. QED
    BY <2>1, <2>2 DEF EndEdits, k
<1>9. Inner \subseteq Edits(k)
  <2>1. ASSUME NEW i \in 1 .. n
        PROVE  Append(RemoveAt(u, i), c) \in Edits(k)
    BY <1>2, <1>5, <1>6
  <2>2. ASSUME NEW i \in 1 .. n, NEW x \in Letters
        PROVE  Append(ReplaceAt(u, i, x), c) \in Edits(k)
    <3>1. ReplaceAt(k, i, x) \in Edits(k)
      BY <1>5, <1>6
    <3>. QED
      BY <1>3, <3>1
  <2>3. ASSUME NEW i \in 1 .. n + 1, NEW x \in Letters
        PROVE  Append(InsertAt(u, i, x), c) \in Edits(k)
    <3>1. InsertAt(k, i, x) \in Edits(k)
      BY <1>5, <1>6
    <3>. QED
      BY <1>4, <3>1
  <2>4. ASSUME NEW t \in Edits(u)
        PROVE  Append(t, c) \in Edits(k)
    <3>1. CASE \E i \in 1 .. n : t = RemoveAt(u, i)
      BY <2>1, <3>1
    <3>2. CASE \E i \in 1 .. n : \E x \in Letters : t = ReplaceAt(u, i, x)
      BY <2>2, <3>2
    <3>3. CASE \E i \in 1 .. n + 1 : \E x \in Letters : t = InsertAt(u, i, x)
      BY <2>3, <3>3
    <3>. QED
      BY <1>5, <3>1, <3>2, <3>3
  <2>. QED
    BY <2>4
<1>. QED
  BY <1>7, <1>8, <1>9 DEF k

\* The edits at the end of a word.
LEMMA LastEdits ==
  ASSUME NEW u \in Seq(Typed), NEW c \in Typed
  PROVE  /\ u \in Edits(Append(u, c))
         /\ \A x \in Letters : /\ Append(u, x) \in Edits(Append(u, c))
                              /\ Append(Append(u, c), x) \in Edits(Append(u, c))
<1>1. EndEdits(u, c) \subseteq Edits(Append(u, c))
  BY EditsOfLonger
<1>. QED
  BY <1>1 DEF EndEdits

LEMMA EditsType == \A w \in Seq(Typed) : Edits(w) \subseteq Seq(Typed)
<1>. DEFINE G == {w \in Seq(Typed) : Edits(w) \subseteq Seq(Typed)}
<1>0. Letters \subseteq Typed /\ <<>> \in Seq(Typed)
  BY Characters, EmptySeq
<1>1. <<>> \in G
  <2>1. \A x \in Letters : Append(<<>>, x) \in Seq(Typed)
    BY <1>0, AppendProperties
  <2>. QED
    BY <1>0, <2>1, EditsOfNothing
<1>2. ASSUME NEW u \in Seq(Typed), NEW c \in Typed, u \in G
      PROVE  Append(u, c) \in G
  <2>1. Append(u, c) \in Seq(Typed)
    BY AppendProperties
  <2>2. EndEdits(u, c) \subseteq Seq(Typed)
    BY <1>0, <2>1, AppendProperties DEF EndEdits
  <2>3. {Append(t, c) : t \in Edits(u)} \subseteq Seq(Typed)
    BY <1>2, AppendProperties
  <2>. QED
    BY <2>1, <2>2, <2>3, EditsOfLonger
<1>. HIDE DEF G
<1>3. Seq(Typed) \subseteq G
  BY <1>1, <1>2, AllSequences
<1>. QED
  BY <1>3 DEF G

\* No edit brings a word nearer by more than one.
LEMMA EditsAreSmall ==
  \A w \in Seq(Typed) : \A v \in Edits(w) : \A l \in Seq(Typed) :
    Distance(l, w) <= Distance(l, v) + 1
<1>. DEFINE Near(w, v) == \A l \in Seq(Typed) : Distance(l, w) <= Distance(l, v) + 1
            G == {w \in Seq(Typed) : \A v \in Edits(w) : Near(w, v)}
<1>0. Letters \subseteq Typed /\ <<>> \in Seq(Typed)
  BY Characters, EmptySeq
<1>1. <<>> \in G
  <2>1. \A x \in Letters : Near(<<>>, Append(<<>>, x))
    BY <1>0, LongerRight
  <2>. QED
    BY <1>0, <2>1, EditsOfNothing
<1>2. ASSUME NEW u \in Seq(Typed), NEW c \in Typed, u \in G
      PROVE  Append(u, c) \in G
  <2>1. Append(u, c) \in Seq(Typed)
    BY AppendProperties
  <2>2. Near(Append(u, c), u)
    BY LongerRight
  <2>3. \A x \in Letters : Near(Append(u, c), Append(u, x))
    BY <1>0, OtherLast
  <2>4. \A x \in Letters : Near(Append(u, c), Append(Append(u, c), x))
    BY <1>0, <2>1, LongerRight
  <2>5. ASSUME NEW t \in Edits(u)
        PROVE  Near(Append(u, c), Append(t, c))
    <3>1. t \in Seq(Typed) /\ Near(u, t)
      BY <1>2, EditsType
    <3>. QED
      BY <3>1, SameLast
  <2>. HIDE DEF Near
  <2>6. ASSUME NEW v \in Edits(Append(u, c))
        PROVE  Near(Append(u, c), v)
    <3>1. v \in EndEdits(u, c) \/ \E t \in Edits(u) : v = Append(t, c)
      BY EditsOfLonger
    <3>2. CASE v \in EndEdits(u, c)
      BY <2>2, <2>3, <2>4, <3>2 DEF EndEdits
    <3>3. CASE \E t \in Edits(u) : v = Append(t, c)
      BY <2>5, <3>3
    <3>. QED
      BY <3>1, <3>2, <3>3
  <2>. QED
    BY <2>1, <2>6
<1>. HIDE DEF G
<1>3. Seq(Typed) \subseteq G
  BY <1>1, <1>2, AllSequences
<1>. QED
  BY <1>3 DEF G

\* For words that differ some edit brings the second nearer to the first.
LEMMA SomeEditHelps ==
  \A l \in Seq(Letters) : \A w \in Seq(Typed) :
    Distance(l, w) > 0 => \E v \in Edits(w) : Distance(l, v) < Distance(l, w)
<1>. DEFINE Helped(l, w) == \E v \in Edits(w) : Distance(l, v) < Distance(l, w)
            G == {l \in Seq(Letters) : \A w \in Seq(Typed) : Distance(l, w) > 0 => Helped(l, w)}
<1>0. /\ Letters \subseteq Typed /\ <<>> \in Seq(Typed) /\ <<>> \in Seq(Letters)
      /\ \A l \in Seq(Letters) : l \in Seq(Typed)
  BY Characters, EmptySeq, LettersNeedNoEscape
<1>1. <<>> \in G
  <2>1. ASSUME NEW w \in Seq(Typed), Distance(<<>>, w) > 0
        PROVE  Helped(<<>>, w)
    <3>1. w # <<>>
      BY <1>0, <2>1, DistanceFromNothing, EmptySeq
    <3>2. PICK u \in Seq(Typed), b \in Typed : w = Append(u, b)
      BY <3>1, SequenceEmptyOrAppend
    <3>3. Distance(<<>>, w) = Len(u) + 1 /\ Distance(<<>>, u) = Len(u) /\ Len(u) \in Nat
      BY <3>2, DistanceFromNothing, AppendProperties, LenProperties
    <3>4. u \in Edits(w)
      BY <3>2, EditsOfLonger DEF EndEdits
    <3>. QED
      BY <3>3, <3>4
  <2>. HIDE DEF Helped
  <2>. QED
    BY <1>0, <2>1
<1>2. ASSUME NEW l \in Seq(Letters), NEW a \in Letters, l \in G
      PROVE  Append(l, a) \in G
  <2>0. /\ a \in Typed /\ l \in Seq(Typed)
        /\ Append(l, a) \in Seq(Letters) /\ Append(l, a) \in Seq(Typed)
    BY <1>0, AppendProperties
  <2>1. ASSUME NEW w \in Seq(Typed), Distance(Append(l, a), w) > 0, w = <<>>
        PROVE  Helped(Append(l, a), w)
    <3>1. Append(<<>>, a) \in Edits(w)
      BY <2>1, EditsOfNothing
    <3>2. Distance(Append(l, a), Append(<<>>, a)) <= Distance(l, <<>>)
      <4>1. Distance(Append(l, a), Append(<<>>, a)) <= Distance(l, <<>>) + Differs(a, a)
        BY <1>0, <2>0, DistanceSteps
      <4>2. Distance(l, <<>>) \in Nat
        BY <1>0, <2>0, DistanceType
      <4>. QED
        BY <4>1, <4>2 DEF Differs
    <3>3. /\ Distance(l, <<>>) = Len(l) /\ Distance(Append(l, a), w) = Len(l) + 1
          /\ Len(l) \in Nat
      BY <2>0, <2>1, DistanceToNothing, AppendProperties, LenProperties
    <3>4. Distance(Append(l, a), Append(<<>>, a)) \in Nat
      <4>1. Append(<<>>, a) \in Seq(Typed)
        BY <1>0, <2>0, AppendProperties
      <4>. QED
        BY <2>0, <4>1, DistanceType
    <3>5. Distance(Append(l, a), Append(<<>>, a)) < Distance(Append(l, a), w)
      BY <3>2, <3>3, <3>4
    <3>. QED
      BY <3>1, <3>5
  <2>2. ASSUME NEW u \in Seq(Typed), NEW b \in Typed,
               Distance(Append(l, a), Append(u, b)) > 0
        PROVE  Helped(Append(l, a), Append(u, b))
    <3>. DEFINE k == Append(l, a)
                w == Append(u, b)
    <3>0. w \in Seq(Typed) /\ k \in Seq(Typed)
      BY <2>0, AppendProperties
    <3>1. PICK p \in Nat, x \in Nat, y \in Nat, z \in Nat :
            /\ p = Distance(k, w) /\ x = Distance(k, u)
            /\ y = Distance(l, w) /\ z = Distance(l, u)
      <4>1. Distance(k, w) \in Nat /\ Distance(k, u) \in Nat
        BY <2>0, <3>0, DistanceType
      <4>2. Distance(l, w) \in Nat /\ Distance(l, u) \in Nat
        BY <2>0, <3>0, DistanceType
      <4>. QED
        BY <4>1, <4>2
    <3>2. CASE p = x + 1
      <4>1. u \in Edits(w)
        BY EditsOfLonger DEF EndEdits
      <4>. QED
        BY <3>1, <3>2, <4>1
    <3>3. CASE p = y + 1
      <4>1. Append(w, a) \in Edits(w)
        BY LastEdits
      <4>2. PICK q \in Nat : q = Distance(k, Append(w, a))
        <5>1. Append(w, a) \in Seq(Typed)
          BY <2>0, <3>0, AppendProperties
        <5>. QED
          BY <3>0, <5>1, DistanceType
      <4>3. q <= y + Differs(a, a)
        BY <2>0, <3>0, <3>1, <4>2, DistanceSteps
      <4>4. q < p
        BY <3>3, <4>3 DEF Differs
      <4>. QED
        BY <3>1, <4>1, <4>2, <4>4
    <3>4. CASE p = z + Differs(a, b) /\ a # b
      <4>1. Append(u, a) \in Edits(w)
        BY LastEdits
      <4>2. PICK q \in Nat : q = Distance(k, Append(u, a))
        <5>1. Append(u, a) \in Seq(Typed)
          BY <2>0, AppendProperties
        <5>. QED
          BY <3>0, <5>1, DistanceType
      <4>3. q <= z + Differs(a, a)
        BY <2>0, <3>1, <4>2, DistanceSteps
      <4>4. q < p
        BY <3>4, <4>3 DEF Differs
      <4>. QED
        BY <3>1, <4>1, <4>2, <4>4
    <3>5. CASE p = z + Differs(a, b) /\ a = b
      <4>1. p = z /\ z > 0
        BY <2>2, <3>1, <3>5 DEF Differs
      <4>2. Helped(l, u)
        BY <1>2, <3>1, <4>1
      <4>3. PICK t \in Edits(u) : Distance(l, t) < z
        BY <3>1, <4>2
      <4>4. t \in Seq(Typed) /\ Append(t, b) \in Seq(Typed)
        BY EditsType, AppendProperties
      <4>5. Append(t, b) \in Edits(w)
        BY EditsOfLonger
      <4>6. PICK q \in Nat, r \in Nat : q = Distance(k, Append(t, b)) /\ r = Distance(l, t)
        BY <2>0, <3>0, <4>4, DistanceType
      <4>7. q <= r + Differs(a, b)
        BY <2>0, <4>4, <4>6, DistanceSteps
      <4>8. q < p
        BY <3>5, <4>1, <4>3, <4>6, <4>7 DEF Differs
      <4>. QED
        BY <3>1, <4>5, <4>6, <4>8
    <3>6. p = x + 1 \/ p = y + 1 \/ p = z + Differs(a, b)
      BY <2>0, <3>1, DistanceSteps
    <3>. QED
      BY <3>2, <3>3, <3>4, <3>5, <3>6
  <2>3. ASSUME NEW w \in Seq(Typed), Distance(Append(l, a), w) > 0
        PROVE  Helped(Append(l, a), w)
    <3>. HIDE DEF Helped
    <3>1. CASE w = <<>>
      BY <2>1, <2>3, <3>1
    <3>2. CASE w # <<>>
      <4>1. PICK u \in Seq(Typed), b \in Typed : w = Append(u, b)
        BY <3>2, SequenceEmptyOrAppend
      <4>. QED
        BY <2>2, <2>3, <4>1
    <3>. QED
      BY <3>1, <3>2
  <2>. HIDE DEF Helped
  <2>. QED
    BY <2>0, <2>3
<1>. HIDE DEF G
<1>3. Seq(Letters) \subseteq G
  BY <1>1, <1>2, AllSequences
<1>. QED
  BY <1>3 DEF G

-----------------------------------------------------------------------------
(* Suggestions.                                                            *)

LEMMA NamesAreLetters ==
  \A n \in DOMAIN Commands : Commands[n].name \in Seq(Letters) /\ Commands[n].name \in Seq(Typed)
<1>. TAKE n \in DOMAIN Commands
<1>. DEFINE R == [name : Seq(Letters) \ {<<>>}, aliases : SUBSET Seq(Letters),
                  hidden : BOOLEAN, executable : BOOLEAN, parent : Nat]
<1>1. Commands \in Seq(R) /\ n \in 1 .. Len(Commands)
  BY TextAssumption, LenProperties
<1>2. Commands[n] \in R
  <2>. HIDE DEF R
  <2>. QED
    BY <1>1, ElementOfSeq
<1>3. Commands[n].name \in Seq(Letters)
  BY <1>2
<1>. QED
  BY <1>3, LettersNeedNoEscape

\* A child that is suggested is nearest among its siblings.
LEMMA SuggestionIsNearest ==
  ASSUME NEW p, NEW token \in Seq(Typed), NEW m \in Suggest(p, token), NEW n \in ChildrenOf(p)
  PROVE  Distance(Commands[m].name, token) <= Distance(Commands[n].name, token)
<1>. DEFINE D == {Distance(Commands[k].name, token) : k \in ChildrenOf(p)}
            near == Min(D)
            nearby == {k \in ChildrenOf(p) : Distance(Commands[k].name, token) = near}
<1>1. D \in SUBSET Nat /\ Distance(Commands[n].name, token) \in D
  <2>1. \A k \in ChildrenOf(p) : k \in DOMAIN Commands
    BY DEF ChildrenOf
  <2>2. \A k \in ChildrenOf(p) : Distance(Commands[k].name, token) \in Nat
    BY <2>1, NamesAreLetters, DistanceType
  <2>. QED
    BY <2>2
<1>2. near <= Distance(Commands[n].name, token)
  <2>. HIDE DEF D
  <2>. QED
    BY <1>1, MinOfNaturals
<1>3. nearby # {} /\ m = Min(nearby)
  BY DEF Suggest
<1>4. m \in nearby
  <2>1. nearby \in SUBSET Nat
    BY TreeProperties
  <2>. HIDE DEF nearby
  <2>. QED
    BY <1>3, <2>1, MinOfNaturals
<1>. QED
  BY <1>2, <1>4

LEMMA SuggestionsAreClosest ==
  ASSUME TypesOK
  PROVE  SuggestionIsClosest
<1>. SUFFICES ASSUME NEW token \in ToSet(Tokenize(buffer).tokens)
              PROVE  /\ \A n \in DOMAIN Commands :
                          LET d(word) == Distance(Commands[n].name, word) IN
                            /\ d(token) = 0 <=> token = Commands[n].name
                            /\ \A word \in Edits(token) : d(word) >= d(token) - 1
                            /\ d(token) > 0 => \E word \in Edits(token) : d(word) = d(token) - 1
                     /\ Outcome(buffer) = "unknown" =>
                          \A m \in Suggest(Root, token) : \A n \in ChildrenOf(Root) :
                            Distance(Commands[m].name, token) <= Distance(Commands[n].name, token)
  BY DEF SuggestionIsClosest
<1>1. token \in Seq(Typed)
  <2>1. Tokenize(buffer).tokens \in Seq(Words)
    BY TokenizeType DEF TypesOK
  <2>2. token \in Words
    BY <2>1, ElementOfSeq, LenProperties DEF ToSet
  <2>. QED
    BY <2>2 DEF Words
<1>2. ASSUME NEW n \in DOMAIN Commands
      PROVE  LET d(word) == Distance(Commands[n].name, word) IN
               /\ d(token) = 0 <=> token = Commands[n].name
               /\ \A word \in Edits(token) : d(word) >= d(token) - 1
               /\ d(token) > 0 => \E word \in Edits(token) : d(word) = d(token) - 1
  <2>1. PICK name \in Seq(Letters) : name = Commands[n].name /\ name \in Seq(Typed)
    BY NamesAreLetters
  <2>2. Distance(name, token) = 0 <=> token = name
    BY <1>1, <2>1, NoDistance
  <2>3. \A word \in Edits(token) : Distance(name, word) \in Nat
    BY <1>1, <2>1, EditsType, DistanceType
  <2>4. Distance(name, token) \in Nat
    BY <1>1, <2>1, DistanceType
  <2>5. \A word \in Edits(token) : Distance(name, token) <= Distance(name, word) + 1
    BY <1>1, <2>1, EditsAreSmall
  <2>6. \A word \in Edits(token) : Distance(name, word) >= Distance(name, token) - 1
    BY <2>3, <2>4, <2>5
  <2>7. ASSUME Distance(name, token) > 0
        PROVE  \E word \in Edits(token) : Distance(name, word) = Distance(name, token) - 1
    <3>1. PICK word \in Edits(token) : Distance(name, word) < Distance(name, token)
      BY <1>1, <2>7, SomeEditHelps
    <3>2. Distance(name, word) = Distance(name, token) - 1
      BY <2>3, <2>4, <2>5, <3>1
    <3>. QED
      BY <3>2
  <2>. QED
    BY <2>1, <2>2, <2>6, <2>7
<1>. QED
  BY <1>1, <1>2, SuggestionIsNearest

-----------------------------------------------------------------------------
LEMMA InitInvariant == Init => IInv
<1>. SUFFICES ASSUME Init PROVE IInv
  OBVIOUS
<1>1. TypesOK
  BY EmptySeq DEF Init, TypesOK
<1>2. stack = <<>> /\ history = <<>> /\ lines = <<>> /\ around = <<>> /\ thrown = {}
      /\ buffer = <<>> /\ journal = <<>>
  BY DEF Init
<1>3. /\ Len(<<>>) = 0 /\ DOMAIN <<>> = {} /\ 1 .. 0 = {}
      /\ ToSet(<<>>) = {} /\ Cardinality({}) = 0
  BY FS_EmptySet DEF ToSet
<1>4. Invokes(stack) = {} /\ UnderWay = {}
  BY <1>2, <1>3 DEF Invokes, UnderWay
<1>5. Nesting
  BY <1>2, <1>3, <1>4 DEF Nesting, Nested
<1>6. HistoryIsCompleted
  BY <1>2, <1>3, <1>4 DEF HistoryIsCompleted
<1>7. Submitted = <<>>
  <2>1. [n \in DOMAIN lines |-> Append(lines[n], Newline)] = <<>>
    BY <1>2, <1>3
  <2>. QED
    BY <2>1, FlattenSeqProperties DEF Submitted
<1>8. Text
  BY <1>2, <1>7, EmptySeq, ConcatEmptySeq DEF Text, NothingTypedIsLost, Closed, Submitted
<1>. QED
  BY <1>1, <1>5, <1>6, <1>8 DEF IInv, Calls

LEMMA NextInvariant == IInv /\ [Next]_vars => IInv'
BY TypesStep, CallsStep, TextStep DEF IInv

\* Every state that Feed, Clear, the commands and the handler lead to, with
\* any nesting and any exceptions, satisfies the invariant.
THEOREM InvariantHolds == Spec => []IInv
BY InitInvariant, NextInvariant, PTL DEF Spec

\* However calls nest and are left by exceptions, the lines invoked and the
\* buffer are what was typed and not taken back (Feed, Clear).
THEOREM TypingIsKept == Spec => []NothingTypedIsLost
<1>. IInv => NothingTypedIsLost
  BY DEF IInv, Text
<1>. QED
  BY InvariantHolds, PTL

\* The history has each line whose execution came to its end, once, and in the
\* order of typing, but for lines fed during another's execution (Feed).
THEOREM HistoryIsRight == Spec => []HistoryIsCompleted
<1>. IInv => HistoryIsCompleted
  BY DEF IInv, Calls
<1>. QED
  BY InvariantHolds, PTL

\* Whatever has been typed, its tokens can be written in any style and are read
\* again as they were (TextCommandParser::Tokenize).
THEOREM TextIsReadBack == Spec => []TokensReadBack
<1>. IInv => TokensReadBack
  BY TextReadsBack DEF IInv
<1>. QED
  BY InvariantHolds, PTL

\* A completion that is offered is a visible command, and what is typed with the
\* rest of its name is a path to it, whatever quotes and escapes are in it
\* (CommandRegistry::Complete against Tokenize and InvokeTokens).
THEOREM CompletionIsRight == Spec => []CompletionsLead
<1>. IInv => CompletionsLead
  BY CompletionLeads DEF IInv
<1>. QED
  BY InvariantHolds, PTL

\* The distance a suggestion goes by counts edits, for every alphabet, name and
\* token: it is 0 for equal words only, no edit lessens it by more than one, and
\* for words that differ some edit lessens it.  And no sibling is nearer than
\* the child that is suggested (CommandRegistry::Distance, Suggest).
THEOREM SuggestionIsRight == Spec => []SuggestionIsClosest
<1>. IInv => SuggestionIsClosest
  BY SuggestionsAreClosest DEF IInv
<1>. QED
  BY InvariantHolds, PTL

=============================================================================
