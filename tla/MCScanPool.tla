----------------------------- MODULE MCScanPool -----------------------------
(* Instances of ScanPool for TLC.                                          *)
EXTENDS ScanPool

CONSTANTS p1, p2, p3, w1, w2

\* Two processes of equal size and a smaller one; one PID may be unreadable.
MCRss == [p \in Pids |-> IF p = p3 THEN 1 ELSE 2]
MCHidden == {p3}
=============================================================================
