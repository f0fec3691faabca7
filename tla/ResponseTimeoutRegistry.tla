----------------------- MODULE ResponseTimeoutRegistry ----------------------
(***************************************************************************)
(* CommandResponseTimeoutRegistry                                          *)
(* (src/ESPressio_CommandPendingRequests.hpp): how long a requester waits  *)
(* for the answer to a command.  Every operation holds the mutex and is    *)
(* one step; Resolve changes nothing and is an operator.                   *)
(***************************************************************************)
EXTENDS Naturals, SequencesExt

CONSTANTS
  Paths,           \* command paths
  Timeouts,        \* values in milliseconds; 0 stands for "not given"
  InitialDefault   \* 100 in the code

VARIABLES
  timeouts,         \* _entries
  transportDefault, \* _transportDefaultMilliseconds
  configured        \* history: what each path was given last

vars == <<timeouts, transportDefault, configured>>

Init ==
  /\ timeouts = <<>>
  /\ transportDefault = InitialDefault
  /\ configured = [path \in Paths |-> 0]

SetTransportDefault(milliseconds) ==
  /\ transportDefault' = milliseconds
  /\ UNCHANGED <<timeouts, configured>>

\* Mutant: a path that is given a second timeout gets a second entry.
WithDefault_Appended(path, milliseconds) ==
  Append(timeouts, [Path |-> path, Milliseconds |-> milliseconds])

\* The path's entry is overwritten, also with 0, or a new one is appended.
WithDefault(path, milliseconds) ==
  IF \E n \in DOMAIN timeouts : timeouts[n].Path = path
  THEN [n \in DOMAIN timeouts |->
          IF timeouts[n].Path = path
          THEN [timeouts[n] EXCEPT !.Milliseconds = milliseconds] ELSE timeouts[n]]
  ELSE Append(timeouts, [Path |-> path, Milliseconds |-> milliseconds])

SetCommandDefault(path, milliseconds) ==
  /\ timeouts' = WithDefault(path, milliseconds)
  /\ configured' = [configured EXCEPT ![path] = milliseconds]
  /\ UNCHANGED transportDefault

\* The first entry of the path that is not 0.
Found(path) ==
  {n \in DOMAIN timeouts : timeouts[n].Path = path /\ timeouts[n].Milliseconds # 0}

Resolve(path, override) ==
  IF override # 0 THEN override
  ELSE IF Found(path) # {} THEN timeouts[Min(Found(path))].Milliseconds
  ELSE transportDefault

Next ==
  \/ \E milliseconds \in Timeouts : SetTransportDefault(milliseconds)
  \/ \E path \in Paths, milliseconds \in Timeouts : SetCommandDefault(path, milliseconds)

Spec == Init /\ [][Next]_vars

-----------------------------------------------------------------------------
\* The precedence the documentation states: the request's own timeout, then
\* what its command was given last, then the default of the transport.
Configured(path, override) ==
  CASE override # 0         -> override
    [] override = 0 /\ configured[path] # 0 -> configured[path]
    [] OTHER                -> transportDefault

=============================================================================
