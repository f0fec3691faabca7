---------------------- MODULE MCResponseRouteRegistry -----------------------
(* Instances of ResponseRouteRegistry for TLC. *)
EXTENDS ResponseRouteRegistry

CONSTANTS t1, t2, wifi, serial, null

MCThreads    == {t1, t2}
MCTransports == {wifi, serial}

=============================================================================
