----------------------------- MODULE CommandText -----------------------------
(***************************************************************************)
(* The text side of CommandRegistry (src/ESPressio_Command.hpp): how text  *)
(* becomes tokens (TextCommandParser), where tokens lead in the tree, what *)
(* becomes of a line (CommandRegistry::Invoke up to the arguments), and    *)
(* what help, completion and suggestions offer.                            *)
(*                                                                         *)
(* Text is a sequence of characters.  The tree is a constant here: nothing *)
(* in this module changes it.  A node is its number, so that the first of  *)
(* some children is the Min of them.                                       *)
(***************************************************************************)
EXTENDS Integers, SequencesExt

CONSTANTS
  Letters,   \* the characters without a meaning of their own
  Commands,  \* the nodes below the root, siblings in the order of children_
  HelpWords  \* "help" and "?"

Blank     == " "
Backslash == "\\"
Quotes    == {"'", "\""}
NoQuote   == "none"

\* Names are made of letters.  (One with a blank or a quote in it can be used
\* in quotes only, and cannot be completed.)
ASSUME TextAssumption ==
  /\ Letters \cap ({Blank, Backslash, NoQuote} \cup Quotes) = {}
  /\ Commands \in Seq([name : Seq(Letters) \ {<<>>}, aliases : SUBSET Seq(Letters),
                       hidden : BOOLEAN, executable : BOOLEAN, parent : Nat])
  /\ \A n \in DOMAIN Commands : Commands[n].parent < n

-----------------------------------------------------------------------------
(* TextCommandParser::Tokenize.                                            *)

Keep(s, c) == [s EXCEPT !.current = Append(@, c), !.escape = FALSE]

\* An empty token is no token, also when it was quoted.
Cut(s) ==
  IF s.current = <<>> THEN s
  ELSE [s EXCEPT !.tokens = Append(@, s.current), !.current = <<>>]

\* Mutant: inside single quotes a backslash is a character like others, as it
\* is in a shell.
Scan_AsShells(s, c) ==
  CASE s.escape -> Keep(s, c)
    [] ~s.escape /\ c = Backslash /\ s.quote # "'" -> [s EXCEPT !.escape = TRUE]
    [] ~s.escape /\ (c # Backslash \/ s.quote = "'") /\ s.quote # NoQuote ->
         IF c = s.quote THEN [s EXCEPT !.quote = NoQuote] ELSE Keep(s, c)
    [] OTHER -> CASE c \in Quotes -> [s EXCEPT !.quote = c]
                  [] c = Blank -> Cut(s)
                  [] OTHER -> Keep(s, c)

\* One character: escapes come before quotes, and quotes before blanks.
Scan(s, c) ==
  IF s.escape THEN Keep(s, c)
  ELSE IF c = Backslash THEN [s EXCEPT !.escape = TRUE]
  ELSE IF s.quote = c THEN [s EXCEPT !.quote = NoQuote]
  ELSE IF s.quote = NoQuote /\ c \in Quotes THEN [s EXCEPT !.quote = c]
  ELSE IF s.quote = NoQuote /\ c = Blank THEN Cut(s)
  ELSE Keep(s, c)

Unread == [tokens |-> <<>>, current |-> <<>>, quote |-> NoQuote, escape |-> FALSE]

Scanned(text) ==
  LET scan[i \in 0 .. Len(text)] ==
        IF i = 0 THEN Unread ELSE Scan(scan[i - 1], text[i])
  IN  scan[Len(text)]

\* A backslash at the end stands for itself; an open quote is an error.
Tokenize(text) ==
  LET s == Scanned(text)
  IN  IF s.quote # NoQuote THEN [error |-> TRUE, tokens |-> <<>>]
      ELSE [error  |-> FALSE,
            tokens |-> Cut(IF s.escape THEN Keep(s, Backslash) ELSE s).tokens]

-----------------------------------------------------------------------------
(* The way of tokens through the tree.                                     *)

Root == 0

ChildrenOf(n) == {m \in DOMAIN Commands : Commands[m].parent = n}

Matches(n, token) == token = Commands[n].name \/ token \in Commands[n].aliases

\* The children that match; it is the first of them that is found.
FindChild(n, token) == {m \in ChildrenOf(n) : Matches(m, token)}

AtRoot == [node |-> Root, used |-> 0, open |-> TRUE]

Follow(w, token) ==
  IF w.open /\ FindChild(w.node, token) # {}
  THEN [w EXCEPT !.node = Min(FindChild(w.node, token)), !.used = @ + 1]
  ELSE [w EXCEPT !.open = FALSE]

\* InvokeTokens takes tokens for the path as long as a child matches; the rest
\* are arguments.
Descend(tokens) ==
  LET way[i \in 0 .. Len(tokens)] ==
        IF i = 0 THEN AtRoot ELSE Follow(way[i - 1], tokens[i])
  IN  way[Len(tokens)]

\* CommandRegistry::Invoke of a line, up to the binding of arguments.
Outcome(text) ==
  LET t == Tokenize(text)
      w == Descend(t.tokens)
  IN  CASE t.error -> "unterminated"
        [] ~t.error /\ t.tokens = <<>> -> "nothing"
        [] t.tokens # <<>> /\ t.tokens[1] \in HelpWords -> "help"
        [] t.tokens # <<>> /\ t.tokens[1] \notin HelpWords ->
             CASE w.node = Root -> "unknown"
               [] w.node # Root /\ ChildrenOf(w.node) # {}
                    /\ ~Commands[w.node].executable /\ w.used = Len(t.tokens) -> "incomplete"
               [] OTHER -> "bound"

\* The names HelpChildren writes, one line each.
HelpChildren(n) == {m \in ChildrenOf(n) : ~Commands[m].hidden}

\* The token that is being typed: none behind a blank.
Prefix(text) ==
  LET tokens == Tokenize(text).tokens
  IN  IF tokens = <<>> \/ Last(text) = Blank THEN <<>> ELSE Last(tokens)

\* Mutant: the path is followed as far as it goes.
Complete_Greedy(text) ==
  LET tokens == Tokenize(text).tokens
      path   == IF Prefix(text) = <<>> THEN tokens ELSE Front(tokens)
  IN  {m \in HelpChildren(Descend(path).node) : IsPrefix(Prefix(text), Commands[m].name)}

\* The visible children whose names begin with the token that is being typed.
Complete(text) ==
  LET tokens == Tokenize(text).tokens
      path   == IF Prefix(text) = <<>> THEN tokens ELSE Front(tokens)
      w      == Descend(path)
  IN  IF Tokenize(text).error \/ w.used < Len(path) THEN {}
      ELSE {m \in HelpChildren(w.node) : IsPrefix(Prefix(text), Commands[m].name)}

-----------------------------------------------------------------------------
(* Distance and Suggest.                                                   *)

\* Mutant: a row takes its diagonal from the row it is writing.
NextRow_DiagonalOverwritten(row, c, right) ==
  LET new[j \in 0 .. Len(right)] ==
        IF j = 0 THEN row[0] + 1
        ELSE Min({new[j - 1] + 1, row[j] + 1,
                  new[j - 1] + (IF c = right[j] THEN 0 ELSE 1)})
  IN  new

\* The row of the dynamic programme below "row", for the character c of the
\* left word.
NextRow(row, c, right) ==
  LET new[j \in 0 .. Len(right)] ==
        IF j = 0 THEN row[0] + 1
        ELSE Min({new[j - 1] + 1, row[j] + 1,
                  row[j - 1] + (IF c = right[j] THEN 0 ELSE 1)})
  IN  new

Distance(left, right) ==
  LET rows[i \in 0 .. Len(left)] ==
        IF i = 0 THEN [j \in 0 .. Len(right) |-> j]
        ELSE NextRow(rows[i - 1], left[i], right)
  IN  rows[Len(left)][Len(right)]

\* The first child at the smallest distance, when that is not too far.
Suggest(n, token) ==
  LET to(m)  == Distance(Commands[m].name, token)
      near   == Min({to(m) : m \in ChildrenOf(n)})
      nearby == {m \in ChildrenOf(n) : to(m) = near}
  IN  IF nearby = {} \/ near > Max({2, Len(token) \div 2}) THEN {} ELSE {Min(nearby)}

=============================================================================
