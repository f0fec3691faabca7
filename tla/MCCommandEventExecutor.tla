----------------------- MODULE MCCommandEventExecutor -----------------------
(* Instances of CommandEventExecutor for TLC. *)
EXTENDS CommandEventExecutor

CONSTANTS d1, d2, c1, c2, remote, acknowledge, other, none

MCDispatchers == {d1, d2}
MCControllers == {c1, c2}

\* A remote Completion request, a remote Acceptance request, and an event of
\* another type.
MCEvents     == {remote, acknowledge, other}
MCInbound    == {remote, acknowledge}
MCCompleting == {remote}

=============================================================================
