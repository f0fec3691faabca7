----------------------- MODULE MCCommandRegistration ------------------------
(* Instances of CommandRegistration for TLC. *)
EXTENDS CommandRegistration

CONSTANTS wifi, gpio, h1, h2

MCNames   == {wifi, gpio}
MCHandles == {h1, h2}

\* Names and handles are compared and nothing else.
RegistrationSymmetry == Permutations(MCNames) \cup Permutations(MCHandles)

=============================================================================
