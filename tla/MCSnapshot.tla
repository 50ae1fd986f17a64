----------------------------- MODULE MCSnapshot -----------------------------
(* Instances of Snapshot for TLC.                                          *)
EXTENDS Snapshot

CONSTANTS vmstat, netstat

\* One event per counter; for answers that come late, two of the collector's.
OneEvent  == [f \in Fields |-> 1]
TwoEvents == [f \in Fields |-> IF f \in Tasks THEN 2 ELSE 1]
=============================================================================
