------------------------------ MODULE RuleBase ------------------------------
(***************************************************************************)
(* What the rules of internal/analyzer are made of: their record and the   *)
(* conditions that many of them share.  A rule of the modules Tier1Rules,  *)
(* Tier2Rules and Tier3Rules is an operator on a diff that yields what its *)
(* methods return; `finds' is the result of Evaluate: its own ID, or       *)
(* nothing.  The texts of a finding and the process it names are left out. *)
(***************************************************************************)
EXTENDS Readings

\* types.go: what a Rule says of itself, confidence in hundredths.
Rule(id, tier, pidDependent, suppresses, severity, confidence, fires) ==
  [id |-> id, tier |-> tier, pidDependent |-> pidDependent,
   suppresses |-> suppresses, severity |-> severity, confidence |-> confidence,
   finds |-> IF fires THEN {id} ELSE {}]

\* IsPIDDependent and Suppresses of most rules.
HostWide == FALSE
PerProcess == TRUE
NoSuppression == {}

Hard(id, pid, suppresses, confidence, fires) ==
  Rule(id, 1, pid, suppresses, "CRITICAL", confidence, fires)
Contention(id, pid, confidence, fires) ==
  Rule(id, 2, pid, NoSuppression, "HIGH", confidence, fires)
Edge(id, pid, confidence, fires) ==
  Rule(id, 3, pid, NoSuppression, "MEDIUM", confidence, fires)
SevereEdge(id, pid, confidence, fires) ==
  Rule(id, 3, pid, NoSuppression, "HIGH", confidence, fires)

\* Percent and milliseconds are held in tenths, ratios in thousandths.
Pct(n) == 10 * n
Ms(n) == 10 * n
Ratio(part, whole) == IF whole = 0 THEN 0 ELSE (1000 * part) \div whole

\* At least one, or n, of the processes, disks, mounts or interfaces of f.
Some(f, Test(_)) == \E x \in DOMAIN f : Test(f[x])
AtLeast(n, f, Test(_)) == Cardinality({x \in DOMAIN f : Test(f[x])}) >= n

\* Processes waiting in one of the given channels, and processes in a state.
SomeIn(channels, d) == Some(d.Processes, LAMBDA p : p.Wchan \in channels)
ManyIn(n, channels, d) == AtLeast(n, d.Processes, LAMBDA p : p.Wchan \in channels)
ManyInState(n, state, d) == AtLeast(n, d.Processes, LAMBDA p : p.State = state)
BlockedIn(channels, d) ==
  Some(d.Processes, LAMBDA p : p.Wchan \in channels /\ p.State = "D")
\* Waiting, and using less than the given tenths of a percent of CPU.
IdleIn(channels, percent, d) ==
  Some(d.Processes, LAMBDA p : /\ p.Wchan \in channels
                               /\ p.State = "D" \/ p.CPUPercent < percent)

\* Not in the root cgroup, and of a known cgroup.
InSubgroup(p) == p.CgroupPath \notin {EmptyString, "/"}

\* The hottest zone has the given temperature.  Temperatures and frequencies are there
\* when some could be read; a core of which neither frequency could be read, and which
\* the code drops, is found by no rule.
Heated(d, degrees) == Some(d.Latest.Thermal, LAMBDA temp : temp >= degrees)

\* Sockets of both tables.
Sockets(d, state) ==
  LET Of(table) == IF table \in DOMAIN d.Latest.TCPSockets
                   THEN d.Latest.TCPSockets[table][state] ELSE 0
  IN  Of("tcp") + Of("tcp6")

\* The mean stall time of the last 10 s; the rules that check Available first.
MemoryStall(d, percent) == d.Latest.PSI.Available /\ d.Latest.PSI.Memory.Some >= percent
CPUStall(d, percent) == d.Latest.PSI.Available /\ d.Latest.PSI.CPU.Some >= percent
IOStall(d, percent) == d.Latest.PSI.Available /\ d.Latest.PSI.IO.Some >= percent
=============================================================================
