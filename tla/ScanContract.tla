---------------------------- MODULE ScanContract ----------------------------
(***************************************************************************)
(* What ScanProcesses promises its caller, without workers or channels: it *)
(* lists the PIDs once, reports some of them, each at most once and none   *)
(* that was not listed, and returns.  It may leave out a PID only with an  *)
(* excuse: the PID is unreadable, a process with it exited during the      *)
(* scan, or the context was cancelled, which excuses everything.           *)
(***************************************************************************)
EXTENDS Sequences, Integers

CONSTANT Pids

VARIABLES
  listed,     \* the PIDs found by the one directory read
  reported,   \* PIDs of the records gathered so far, in order of arrival
  excused,    \* PIDs that need not be reported
  status      \* "listing", "scanning", "done" or "failed"

cvars == <<listed, reported, excused, status>>

Reported == {reported[i] : i \in DOMAIN reported}

Init ==
  /\ listed = {} /\ reported = <<>>
  /\ excused \in SUBSET Pids
  /\ status = "listing"

\* Processes exit and contexts are cancelled at any time; excuses only grow.
Excuse ==
  /\ excused' \in SUBSET Pids /\ excused \subseteq excused'
  /\ UNCHANGED <<listed, reported, status>>

\* An unreadable /proc is reported as an error, an empty one as an empty slice.
List ==
  /\ status = "listing"
  /\ \/ status' = "failed" /\ UNCHANGED listed
     \/ /\ listed' \in SUBSET Pids
        /\ status' = IF listed' = {} THEN "done" ELSE "scanning"
  /\ UNCHANGED <<reported, excused>>

Report(p) ==
  /\ status = "scanning"
  /\ p \in listed \ Reported
  /\ reported' = Append(reported, p)
  /\ UNCHANGED <<listed, excused, status>>

Finish ==
  /\ status = "scanning"
  /\ listed \subseteq Reported \cup excused
  /\ status' = "done"
  /\ UNCHANGED <<listed, reported, excused>>

Next == Excuse \/ List \/ Finish \/ \E p \in Pids : Report(p)

\* Safety only: that the scan ends is a property of the pool (ScanReturns).
Spec == Init /\ [][Next]_cvars
=============================================================================
