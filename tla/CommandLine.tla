----------------------------- MODULE CommandLine -----------------------------
(***************************************************************************)
(* CommandLine (src/ESPressio_CommandLine.hpp): buffers characters until a *)
(* newline and invokes the line through the registry.                      *)
(*                                                                         *)
(* The command that is invoked and the handler that is given its result    *)
(* are the application's and may feed or clear the same CommandLine, so    *)
(* calls nest; and both may throw.  "stack" holds the calls under way,     *)
(* innermost last.  The data of a Feed is chosen one character at a time.  *)
(* A carriage return is ignored by the code and left out here.             *)
(***************************************************************************)
EXTENDS CommandText

CONSTANTS
  MaxCharacters,  \* bound: characters fed in a behaviour
  MaxNesting      \* bound: calls under way at one time

Newline   == "\n"
Backspace == "BS"

ASSUME LineAssumption ==
  /\ {Newline, Backspace} \cap Letters = {}
  /\ {MaxCharacters, MaxNesting} \subseteq Nat

VARIABLES
  buffer,   \* buffer_
  history,  \* history_, each line by its number
  stack,    \* the calls under way
  fed,      \* number of characters fed
  lines,    \* history: the lines given to Invoke so far, in that order
  around,   \* history, per line: the lines under way when it was invoked
  thrown,   \* history: lines whose Invoke ended in an exception
  journal   \* history: what has been typed and not taken back

notes == <<lines, around, thrown>>
vars  == <<buffer, history, stack, fed, notes, journal>>

Typed == Letters \cup Quotes \cup {Blank, Backslash}

Feeding == stack # <<>> /\ Last(stack).call = "Feed"

\* The application runs: outside of every call, in a command or in the handler.
Running == ~Feeding

UnderWay == {f.line : f \in {g \in ToSet(stack) : g.call = "Invoke"}}

Enter(s, call, n) == Append(s, [call |-> call, line |-> n])

Init ==
  /\ buffer = <<>> /\ history = <<>> /\ stack = <<>> /\ fed = 0
  /\ lines = <<>> /\ around = <<>> /\ thrown = {}
  /\ journal = <<>>

-----------------------------------------------------------------------------
(* Feed.                                                                   *)

FeedBegin ==
  /\ Running
  /\ Len(stack) < MaxNesting
  /\ stack' = Enter(stack, "Feed", 0)
  /\ UNCHANGED <<buffer, history, fed, notes, journal>>

FeedEnd ==
  /\ Feeding
  /\ stack' = Front(stack)
  /\ UNCHANGED <<buffer, history, fed, notes, journal>>

Character ==
  /\ Feeding
  /\ fed < MaxCharacters
  /\ fed' = fed + 1

FeedTyped(c) ==
  /\ Character
  /\ buffer' = Append(buffer, c)
  /\ journal' = Append(journal, c)
  /\ UNCHANGED <<history, stack, notes>>

IsOpen(text) == text # <<>> /\ Last(text) # Newline

\* What a backspace takes back, if anything, is the last character behind the
\* last newline.
FeedBackspace ==
  /\ Character
  /\ buffer' = IF buffer = <<>> THEN buffer ELSE Front(buffer)
  /\ journal' = IF IsOpen(journal) THEN Front(journal) ELSE journal
  /\ UNCHANGED <<history, stack, notes>>

FeedEmptyLine ==
  /\ Character
  /\ buffer = <<>>
  /\ UNCHANGED <<buffer, history, stack, notes, journal>>

\* Mutant: the line goes into the history before it is executed.
HistoryDuringInvoke_HasLine(n) == Append(history, n)

HistoryDuringInvoke(n) == history

\* The line is moved out of the buffer before it is invoked.
FeedLine ==
  /\ Character
  /\ buffer # <<>>
  /\ Len(stack) < MaxNesting
  /\ LET n == Len(lines) + 1 IN
       /\ stack' = Enter(stack, "Invoke", n)
       /\ history' = HistoryDuringInvoke(n)
  /\ lines' = Append(lines, buffer)
  /\ around' = Append(around, UnderWay)
  /\ buffer' = <<>>
  /\ journal' = Append(journal, Newline)
  /\ UNCHANGED thrown

\* Mutant: the buffer is cleared when the line has been executed.
BufferAfterInvoke_Cleared == <<>>

BufferAfterInvoke == buffer

\* Invoke returns; the line is kept, and the handler is given the result.
InvokeReturn ==
  /\ stack # <<>> /\ Last(stack).call = "Invoke"
  /\ LET n == Last(stack).line IN
       /\ history' = Append(history, n)
       /\ stack' = Enter(Front(stack), "Handler", n)
  /\ buffer' = BufferAfterInvoke
  /\ UNCHANGED <<fed, notes, journal>>

HandlerReturn ==
  /\ stack # <<>> /\ Last(stack).call = "Handler"
  /\ stack' = Front(stack)
  /\ UNCHANGED <<buffer, history, fed, notes, journal>>

-----------------------------------------------------------------------------
(* What else the application may do.                                       *)

OpenLine(text) == {i \in DOMAIN text : \A j \in i .. Len(text) : text[j] # Newline}

Clear ==
  /\ Running
  /\ buffer # <<>>
  /\ buffer' = <<>>
  /\ journal' = SubSeq(journal, 1, Len(journal) - Cardinality(OpenLine(journal)))
  /\ UNCHANGED <<history, stack, fed, notes>>

\* An exception leaves the command or the handler and every call around it, up
\* to one that catches it: the registry in Invoke, or the application.  Feeds
\* on the way do not go on.
Throw ==
  /\ stack # <<>> /\ Running
  /\ \E k \in 0 .. Len(stack) - 1 :
       /\ k > 0 => stack[k].call # "Feed"
       /\ stack' = SubSeq(stack, 1, k)
       /\ thrown' = thrown \cup
            {f.line : f \in {stack[i] : i \in {j \in k + 1 .. Len(stack) :
                                                 stack[j].call = "Invoke"}}}
  /\ UNCHANGED <<buffer, history, fed, lines, around, journal>>

-----------------------------------------------------------------------------
Next ==
  \/ FeedBegin \/ FeedEnd
  \/ \E c \in Typed : FeedTyped(c)
  \/ FeedBackspace \/ FeedEmptyLine \/ FeedLine
  \/ InvokeReturn \/ HandlerReturn
  \/ Clear \/ Throw

Spec == Init /\ [][Next]_vars

-----------------------------------------------------------------------------
\* Nothing that is typed is lost, doubled or put in another place, however the
\* calls nest and wherever they are left by an exception: the lines invoked so
\* far and the buffer are what was typed and not taken back.
NothingTypedIsLost ==
  journal = FlattenSeq([n \in DOMAIN lines |-> Append(lines[n], Newline)]) \o buffer

\* The history has each line whose execution came to its end, once, and no
\* other; in the order of typing, but for lines that were fed while another
\* was being executed, which come before that one.
HistoryIsCompleted ==
  /\ ToSet(history) = DOMAIN lines \ (UnderWay \cup thrown)
  /\ Cardinality(ToSet(history)) = Len(history)
  /\ \A i, j \in DOMAIN history :
       i < j /\ history[i] > history[j] => history[j] \in around[history[i]]

(***************************************************************************)
(* How a user would write tokens so that they are read as they are: with a *)
(* backslash before every special character, bare or between quotes.       *)
(***************************************************************************)
Special == Quotes \cup {Blank, Backslash}

Escaped(token) ==
  FlattenSeq([i \in DOMAIN token |->
                IF token[i] \in Special THEN <<Backslash, token[i]>> ELSE <<token[i]>>])

Writings(token) == {Escaped(token)} \cup {<<q>> \o Escaped(token) \o <<q>> : q \in Quotes}

\* Whatever was typed, its tokens can be written in any style and are read
\* again as the same tokens; the whole of it can be written as one token.
TokensReadBack ==
  /\ buffer # <<>> => \A w \in Writings(buffer) : Tokenize(w).tokens = <<buffer>>
  /\ LET tokens == Tokenize(buffer).tokens
     IN  \A style \in Quotes :
           Tokenize(FlattenSeq([i \in DOMAIN tokens |->
             <<Blank, style>> \o Escaped(tokens[i]) \o <<style>>])).tokens = tokens

\* What a user has to add to the buffer for a name that completion offers.
Rest(m) == SubSeq(Commands[m].name, Len(Prefix(buffer)) + 1, Len(Commands[m].name))

Shadowed(m) ==
  \E k \in ChildrenOf(Commands[m].parent) : k < m /\ Matches(k, Commands[m].name)

\* Complete takes the last token for the one that is being typed, or none when
\* the last character is a blank.  It is wrong behind a pair of quotes with
\* nothing in it, and behind a blank that is escaped.
Misjudged == Scanned(buffer).current # Prefix(buffer)

\* A command, or the first token of its path, may have the name of a help word.
\* It is offered, but the line asks for help.
AsksForHelp(text) ==
  Tokenize(text).tokens # <<>> /\ Tokenize(text).tokens[1] \in HelpWords

\* A completion does what it says: it is a visible command, and the buffer with
\* the rest of its name is a path to that very command, whatever quotes and
\* backslashes are in the buffer, unless an older sibling has the name as an
\* alias, the end of the buffer is misjudged, or the line asks for help.
CompletionsLead ==
  \A m \in Complete(buffer) :
    LET text == buffer \o Rest(m)
        w    == Descend(Tokenize(text).tokens)
    IN  /\ ~Commands[m].hidden
        /\ ~Shadowed(m) /\ ~Misjudged =>
             /\ w.node = m /\ w.used = Len(Tokenize(text).tokens)
             /\ ~AsksForHelp(text) => Outcome(text) \in {"bound", "incomplete"}

(***************************************************************************)
(* The words one edit away from a word.                                    *)
(***************************************************************************)
Edits(word) ==
  {RemoveAt(word, i) : i \in DOMAIN word}
    \cup {ReplaceAt(word, i, c) : i \in DOMAIN word, c \in Letters}
    \cup {InsertAt(word, i, c) : i \in 1 .. Len(word) + 1, c \in Letters}

\* Distance counts edits: it is 0 for equal words only, no edit brings a word
\* nearer by more than one, and for words that differ some edit does so.  And a
\* suggestion is a command at the smallest distance, which is at most 2 or half
\* of what was typed.
SuggestionIsClosest ==
  \A token \in ToSet(Tokenize(buffer).tokens) :
    /\ \A n \in DOMAIN Commands :
         LET d(word) == Distance(Commands[n].name, word) IN
           /\ d(token) = 0 <=> token = Commands[n].name
           /\ \A word \in Edits(token) : d(word) >= d(token) - 1
           /\ d(token) > 0 => \E word \in Edits(token) : d(word) = d(token) - 1
    /\ Outcome(buffer) = "unknown" =>
         \A m \in Suggest(Root, token) : \A n \in ChildrenOf(Root) :
           Distance(Commands[m].name, token) <= Distance(Commands[n].name, token)

=============================================================================
