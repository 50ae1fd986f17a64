------------------------------ MODULE Diagnosis ------------------------------
(***************************************************************************)
(* From the kernel's counters to the findings: captureSamples and          *)
(* captureDifferential of cmd/why-slow/main.go take two snapshots per      *)
(* sample, DiffSnapshots turns them into a diff, MedianDiff turns the      *)
(* diffs of all samples into one, and the rules are evaluated on that.     *)
(* Cancellation and the watch loop are in Sampler, the goroutines that     *)
(* read in ScanPool and Snapshot, what becomes of the findings in Engine.  *)
(*                                                                         *)
(* The host is in module Host.  `fresh' runs alongside: the host with      *)
(* every counter set to zero when the first snapshot of the sample is      *)
(* taken, and never restarted since.                                       *)
(***************************************************************************)
EXTENDS Rulebook, Median, Host

CONSTANTS
  SampleCounts,     \* what the user may give as --samples
  Losses(_, _),     \* the readings that may fail together, with that many samples and
                    \* after what failed in the first snapshot
  CgroupOrders,     \* orders in which Go may iterate over the cgroups: each path once
  MaxMishaps        \* bound of the model: intervals of trouble and failing snapshots

ASSUME DiagnosisAssumption ==
  /\ SampleCounts \subseteq Nat \ {0}
  /\ \A paths \in CgroupOrders : \A i, j \in DOMAIN paths : paths[i] = paths[j] => i = j
  /\ \A paths, other \in CgroupOrders :
       \A i \in DOMAIN paths : \E j \in DOMAIN other : paths[i] = other[j]
  /\ MaxMishaps \in Nat

VARIABLES
  host,         \* what the kernel would answer
  fresh,        \* history: the same since the sample began
  samples,      \* cfg.samples
  order,        \* the order of the cgroups; only the last snapshot's is looked at
  taken,        \* the samples that captureSamples has been through
  pc,           \* "begin", "sleep", "end", "analyze" or "report"
  first,        \* the first snapshot of the sample and what it lacks
  windows,      \* history: the samples that gave a diff: the diff, what it would be
                \* on a host without a past, and what the snapshots lack
  mishaps,      \* number of troubles and failures so far
  restarted,    \* some counter began again at zero during a sample
  fired         \* IDs of the rules that fire

past == <<samples, order>>
vars == <<host, fresh, past, taken, pc, first, windows, mishaps, restarted, fired>>

Cost(t) == IF t = "calm" THEN 0 ELSE 1

\* What may be missing from the next snapshot, after `before' in the first.  What failed
\* there may go on failing.
Lost(before) ==
  {{}, before} \cup IF mishaps < MaxMishaps THEN Losses(samples, before) ELSE {}
Failures(lost) == IF lost = {} THEN 0 ELSE 1

\* CollectSnapshot returns an error, and captureDifferential nil.
Fatal(lost) == <<"CPU">> \in lost \/ <<"Memory">> \in lost

Init ==
  /\ samples \in SampleCounts /\ order \in CgroupOrders
  /\ \E t \in Troubles : /\ host = Interval(t, BootedHost)
                         /\ mishaps = Cost(t) /\ mishaps <= MaxMishaps
  /\ fresh = host
  /\ taken = 0 /\ pc = "begin" /\ first = <<>> /\ windows = <<>>
  /\ restarted = FALSE /\ fired = {}

NextSample == pc' = IF taken + 1 < samples THEN "begin" ELSE "analyze"

\* A sample without a diff is left out of the median (filterValidDiffs).
SampleFails ==
  /\ pc \in {"begin", "end"}
  /\ \E lost \in Lost(IF pc = "end" THEN first.lost ELSE {}) :
       Fatal(lost) /\ mishaps' = mishaps + 1
  /\ first' = <<>>
  /\ taken' = taken + 1 /\ NextSample
  /\ UNCHANGED <<host, fresh, past, windows, restarted, fired>>

SnapshotA ==
  /\ pc = "begin"
  /\ \E lost \in Lost({}) :
       /\ ~Fatal(lost)
       /\ first' = [snap |-> CollectSnapshot(host, lost, order), lost |-> lost,
                    fresh |-> CollectSnapshot(Fresh(host), {}, order)]
       /\ mishaps' = mishaps + Failures(lost)
  /\ fresh' = Fresh(host)
  /\ pc' = "sleep"
  /\ UNCHANGED <<host, past, taken, windows, restarted, fired>>

\* The interval between the two snapshots.
Sleep ==
  /\ pc = "sleep"
  /\ \E t \in Troubles :
       /\ mishaps + Cost(t) <= MaxMishaps
       /\ mishaps' = mishaps + Cost(t)
       /\ host' = Interval(t, Restart(t, host))
       /\ fresh' = Interval(t, fresh)
       /\ restarted' = (restarted \/ Restart(t, host) # host)
  /\ pc' = "end"
  /\ UNCHANGED <<past, taken, first, windows, fired>>

SnapshotB ==
  /\ pc = "end"
  /\ \E lost \in Lost(first.lost) :
       /\ ~Fatal(lost)
       /\ windows' = Append(windows,
            [diff |-> DiffSnapshots(first.snap, CollectSnapshot(host, lost, order)),
             fresh |-> DiffSnapshots(first.fresh, CollectSnapshot(fresh, {}, order)),
             lostA |-> first.lost, lostB |-> lost])
       /\ mishaps' = mishaps + Failures(lost \ first.lost)
  /\ first' = <<>>
  /\ taken' = taken + 1 /\ NextSample
  /\ UNCHANGED <<host, fresh, past, restarted, fired>>

Diffs == [k \in DOMAIN windows |-> windows[k].diff]
FreshDiffs == [k \in DOMAIN windows |-> windows[k].fresh]

\* The median, and every rule on it.  Nothing is found in no diff.
Analyze ==
  /\ pc = "analyze"
  /\ fired' = IF windows = <<>> THEN {} ELSE Fired(MedianDiff(Diffs))
  /\ pc' = "report"
  /\ UNCHANGED <<host, fresh, past, taken, first, windows, mishaps, restarted>>

Reported == pc = "report" /\ UNCHANGED vars

Next == SampleFails \/ SnapshotA \/ Sleep \/ SnapshotB \/ Analyze \/ Reported

Spec == Init /\ [][Next]_vars

-----------------------------------------------------------------------------
Percents(d) ==
  LET utils == {d.TotalCPUUtil} \cup {d.PerCoreCPUUtil[c] : c \in DOMAIN d.PerCoreCPUUtil}
  IN  (UNION {{u[f] : f \in DOMAIN u} : u \in utils})
        \cup {d.Disks[name].UtilPercent : name \in DOMAIN d.Disks}

TypeOK ==
  /\ samples \in SampleCounts /\ order \in CgroupOrders
  /\ taken \in 0..samples /\ pc \in {"begin", "sleep", "end", "analyze", "report"}
  /\ Len(windows) <= taken /\ mishaps \in 0..MaxMishaps /\ restarted \in BOOLEAN
  /\ \A k \in DOMAIN windows :
       /\ ~Fatal(windows[k].lostA) /\ ~Fatal(windows[k].lostB)
       /\ Percents(windows[k].diff) \subseteq 0..1000

\* The counters of one source, or of each device, cgroup or process of it, without
\* those whose file only the first snapshot lacks.  SnapshotWindow shows what happens
\* then.
Within(x, y, counters, missing) == \A f \in counters : x[f] \in 0..y[f] \/ f \in missing
AllWithin(x, y, counters, source, gone) ==
  \A name \in DOMAIN x : Within(x[name], y[name], counters, MissingOf(source, name, gone))
ByPath(groups) == [path \in {groups[k].Path : k \in DOMAIN groups} |->
                     CHOOSE g \in {groups[k] : k \in DOMAIN groups} : g.Path = path]

\* In one sample.
DeltasWithin(w) ==
  LET d == w.diff
      gone == w.lostA \ w.lostB
  IN  /\ Within(d, w.fresh, {"ContextSwitches", "ProcessesCreated"}, {})
      /\ <<"VMStat">> \in gone \/ Within(d.VMStat, w.fresh.VMStat, DOMAIN VMStatInfo, {})
      /\ \/ <<"NetStat">> \in gone
         \/ Within(d.NetStat, w.fresh.NetStat, DOMAIN NetStatInfo, Missing("NetStat", gone))
      /\ AllWithin(d.Disks, w.fresh.Disks, DiskCounters, "DiskStats", gone)
      /\ AllWithin(d.NetIfaces, w.fresh.NetIfaces, IfaceCounters, "NetIfaces", gone)
      /\ AllWithin(d.Processes, w.fresh.Processes, ProcessCounters \cup {"CPUTime"},
                   "Processes", gone)
      /\ AllWithin(ByPath(d.Cgroups), ByPath(w.fresh.Cgroups), CgroupCounters, "Cgroups", gone)

(***************************************************************************)
(* No counter moves by more than what was counted between the two          *)
(* snapshots, whatever was counted before, whichever driver or process     *)
(* began again at zero, and whichever file could not be read in one of     *)
(* them.                                                                   *)
(***************************************************************************)
DeltasWithinWindow == \A k \in DOMAIN windows : DeltasWithin(windows[k])

\* The rules that take totals since boot for what happened in the window.
SinceBootRules == {"CONT_SCHED_RUNQUEUE_STARVATION", "EDGE_IRQ_CORE_STORM"}

Undisturbed == /\ pc = "report" /\ windows # <<>> /\ ~restarted
               /\ \A k \in DOMAIN windows : windows[k].lostA \cup windows[k].lostB = {}

(***************************************************************************)
(* What went on before the first snapshot leaves no trace in the report:   *)
(* it is the report of a host whose counters all began at zero with each   *)
(* sample.  The two rules on totals since boot are left out; see           *)
(* FindingsAreOfTheWindow.                                                 *)
(***************************************************************************)
HistoryIsForgotten ==
  Undisturbed => fired \ SinceBootRules = Fired(MedianDiff(FreshDiffs)) \ SinceBootRules

\* What fails, without the name of the device, process, cgroup or core.
Kind(reading) == IF Len(reading) = 3 THEN <<reading[1], reading[2]>> ELSE reading

\* The rules that find something in what a failed reading leaves, and the readings: a
\* limit, a frequency or a migration cost of zero is low, the kernel's default may be
\* less than the limit, an interface without a state is not up, a disk turns or it does
\* not, no CPU mask is that of one core, and without some of the zones, tables or cgroups
\* the others are all there is.
MisledBy == [
  CONT_PID_EXHAUSTION |-> {<<"PIDMax">>},
  CONT_TIMEWAIT_PORT_EXHAUSTION |-> {<<"PortRange">>},
  CONT_SCHED_MIGRATION_COST_OVERHEAD |-> {<<"SchedMigrationCostNS">>, <<"SystemConfig">>},
  EDGE_INOTIFY_QUEUE_OVERFLOW |-> {<<"Inotify", "max_queued_events">>},
  CONT_ARP_NEIGHBOR_OVERFLOW |-> {<<"Neighbor", "gc_thresh3">>},
  CONT_NET_ARP_TABLE_TRASH |-> {<<"Neighbor", "gc_thresh3">>},
  BASE_THERMAL_THROTTLING |-> {<<"CPUFreq", "scaling_cur_freq">>},
  CONT_CPU_GOVERNOR_POWERSAVE_LAG |-> {<<"CPUFreq", "scaling_cur_freq">>},
  EDGE_SYSFS_POWER_THROTTLE_EVENT |->
    {<<"CPUFreq", "scaling_cur_freq">>, <<"Thermal", "entry">>},
  CONT_TCP_CLOSE_WAIT_LEAK |-> {<<"TCPSockets", "entry">>},
  EDGE_NET_IFACE_CARRIER_FLAP |-> {<<"NetIfaces", "OperState">>},
  EDGE_IO_SCHEDULER_MISMATCH |-> {<<"DiskStats", "rotational">>},
  CONT_RUNAWAY_CPU_PROCESS |-> {<<"Processes", "status">>},
  EDGE_MEMCG_SOCK_MEMORY_THROTTLE |->
    {<<"Cgroups", "memory_events">>, <<"Cgroups", "entry">>,
     <<"Processes", "cgroup">>, <<"Processes", "entry">>}]
Misled(lost) == {id \in DOMAIN MisledBy : \E reading \in lost : Kind(reading) \in MisledBy[id]}

\* The readings from which a delta is taken.  When only the first snapshot lacks one,
\* the delta is wrong, or zero: a busy process looks idle.
Baselines ==
  {<<"VMStat">>, <<"NetStat">>, <<"Processes">>, <<"Processes", "entry">>,
   <<"Processes", "io">>, <<"Processes", "status">>,
   <<"Cgroups", "cpu_stat">>, <<"Cgroups", "memory_events">>}
    \cup {<<"NetStat", file>> : file \in DOMAIN Files.NetStat}
    \cup {<<"NetIfaces", file>> : file \in IfaceCounters}

(***************************************************************************)
(* A source or a single file that cannot be read, in one or in both        *)
(* snapshots, may hide findings and never makes one up, except by the      *)
(* rules of MisledBy and with baselines that only the first snapshot lacks.*)
(* Of the fourteen, one compares the cgroups of both snapshots.            *)
(***************************************************************************)
LostReadingAddsNothing ==
  pc = "report" /\ ~restarted /\ Len(windows) = 1
    /\ (\A reading \in windows[1].lostA \ windows[1].lostB : Kind(reading) \notin Baselines)
  => fired \subseteq Fired(windows[1].fresh) \cup SinceBootRules \cup Misled(windows[1].lostB)
                \cup (Misled(windows[1].lostA) \cap {"EDGE_MEMCG_SOCK_MEMORY_THROTTLE"})

SameDeltas(d, e) == [d EXCEPT !.Latest = e.Latest] = e

\* The cores, disks and cgroups of d are in e, too.
SeenAlso(d, e) ==
  /\ Len(d.PerCoreCPUUtil) <= Len(e.PerCoreCPUUtil)
  /\ DOMAIN d.Disks \subseteq DOMAIN e.Disks
  /\ \A i \in DOMAIN d.Cgroups : \E j \in DOMAIN e.Cgroups :
       d.Cgroups[i].Path = e.Cgroups[j].Path

(***************************************************************************)
(* Noise reduction: of three samples one may be anything.  When the last   *)
(* one agrees with an earlier one, the findings are those of the last      *)
(* sample alone, whatever numbers the third saw.  It must have seen them   *)
(* on the same cores, disks and cgroups: the median drops those that any   *)
(* sample lacks.  The blocked file locks, which the median always drops,   *)
(* are left out; see SteadyTroubleIsFound.                                 *)
(***************************************************************************)
OutlierSampleIsIgnored ==
  (/\ Undisturbed /\ Len(windows) = 3
   /\ \E k \in 1..2 : SameDeltas(Diffs[k], Diffs[3])
   /\ \A k \in 1..2 : SeenAlso(Diffs[3], Diffs[k]))
  => fired = Fired(Diffs[3]) \ {"CONT_FILE_LOCK_GRAPH_BLOCKED"}

Reordered(d, paths) ==
  LET groups == ByPath(d.Cgroups)
      present == {k \in DOMAIN paths : paths[k] \in DOMAIN groups}
  IN  [d EXCEPT !.Cgroups = [k \in present |-> groups[paths[k]]]]

(***************************************************************************)
(* The order in which Go iterates over the cgroups decides no finding,     *)
(* except the one that looks at the first throttled cgroup only.           *)
(***************************************************************************)
CgroupOrderDecidesOneRule ==
  pc = "report" /\ windows # <<>> =>
    \A other \in CgroupOrders \ {order} :
      LET found == Fired(MedianDiff([k \in DOMAIN windows |-> Reordered(Diffs[k], other)]))
      IN  (found \ fired) \cup (fired \ found) \subseteq {"EDGE_MEMCG_SOCK_MEMORY_THROTTLE"}

(***************************************************************************)
(* CONTRIBUTING.md: "Analyzers compare Snapshot A and Snapshot B across a  *)
(* sampling window".  Then every finding would be one of the window.       *)
(***************************************************************************)
FindingsAreOfTheWindow ==
  Undisturbed => fired = Fired(MedianDiff(FreshDiffs))

(***************************************************************************)
(* README.md: --samples "evaluates median for noise reduction".  Then      *)
(* what every single sample finds would be in the report.                  *)
(***************************************************************************)
SteadyTroubleIsFound ==
  pc = "report" /\ windows # <<>> =>
    LET found == {Fired(Diffs[k]) : k \in DOMAIN windows}
    IN  \A id \in UNION found : (\A report \in found : id \in report) => id \in fired
=============================================================================
