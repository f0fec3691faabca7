----------------------- MODULE MCAsyncCommandRouting ------------------------
(* Instances of AsyncCommandRouting for TLC. *)
EXTENDS AsyncCommandRouting

CONSTANTS d1, none, e1, status, blink

MCDestinations == {d1}
MCExpirers     == {e1}
MCPaths        == {status, blink}
MCTimeouts     == {0, 1, 2}

\* Paths are only compared with one another.
PathSymmetry == Permutations(MCPaths)

=============================================================================
