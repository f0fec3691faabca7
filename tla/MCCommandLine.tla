---------------------------- MODULE MCCommandLine ----------------------------
(* An instance of CommandLine for TLC. *)
EXTENDS CommandLine

Node == [name |-> <<"a">>, aliases |-> {}, hidden |-> FALSE, executable |-> TRUE, parent |-> 0]

\* a [alias ab] with children b and a hidden ba; a command ab that the alias
\* shadows; bab, which cannot be executed, with a child a; and a command with
\* the name of a help word.
MCCommands ==
  <<[Node EXCEPT !.aliases = {<<"a", "b">>}],
    [Node EXCEPT !.name = <<"a", "b">>],
    [Node EXCEPT !.name = <<"b", "a", "b">>, !.executable = FALSE],
    [Node EXCEPT !.name = <<"b">>, !.parent = 1],
    [Node EXCEPT !.name = <<"b", "a">>, !.hidden = TRUE, !.parent = 1],
    [Node EXCEPT !.parent = 3],
    [Node EXCEPT !.name = <<"b", "b">>]>>

MCHelpWords == {<<"b", "b">>}

=============================================================================
