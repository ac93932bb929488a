--------------------------- MODULE MCDetectionEngine ---------------------------
(* DetectionEngine on small instances. *)
EXTENDS DetectionEngine, TLC

CONSTANT MACs  \* source addresses, interchangeable

\* Events of one type and no BSSID, told apart by their source.
Ev(src, sev) == [EventType |-> "deauth", SrcMAC |-> src, BSSID |-> Nil, Severity |-> sev]

\* One event for every address.
PlainEvents == {Ev(m, 1) : m \in MACs}

Symmetry == Permutations(MACs)
================================================================================
