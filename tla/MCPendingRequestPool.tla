------------------------ MODULE MCPendingRequestPool ------------------------
(* Instances of PendingRequestPool for TLC. *)
EXTENDS PendingRequestPool

CONSTANTS d1, none, e1, e2

MCRequestIds    == {0, 1}
MCRequestIds3   == {0, 1, 2}
MCDestinations  == {d1}
MCExpirers      == {e1, e2}
MCOneExpirer    == {e1}

=============================================================================
