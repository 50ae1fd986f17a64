# why-slow: a TLA+ model

`why-slow` takes two snapshots of a Linux machine's `/proc` and `/sys`, computes
what happened in between, evaluates 172 diagnostic rules over the
difference, and prints one primary blocker with contributing factors. It runs
once or, with `--watch`, in a loop. This directory holds TLA+ modules for the
parts whose correctness depends on order, concurrency, failure or a chain of
decisions, the TLC configurations that check them, and TLAPS proofs.

## 1. Inventory

| Part | State | Operations | Hard behaviour | What makes it correct |
|---|---|---|---|---|
| Process scan (`collector/process.go`) | PID list, `jobs` and `results` channels, wait group, one record per worker, the returned slice | `ScanProcesses`, `discoverPIDs`, `readProcessInfo`, `enrichTopRSSSmapsRollup` | N workers, a closing goroutine, cancellation, processes that exit and PIDs that are reused | close after the last send, no send waits, nobody lost or doubled, it returns |
| Snapshot (`collector/snapshot.go`) | the snapshot, one result channel and one deadline per collector, wait group | `CollectSnapshot`, `collectParallelIndependent` | 12 collectors in parallel, each with a 500 ms deadline; a hung one outlives the snapshot | no write after return, no stale answer, received answers kept, it returns |
| Differ (`collector/snapshot.go`) | none (pure) | `DiffSnapshots`, `diffUint64`, `calculate*Diff` | counters that restart at zero, devices and processes that come and go, joins by PID, sources that fail, clock jumps | deltas lie within the window, the past leaves no trace |
| Median (`collector/median.go`) | none (pure) | `MedianDiff`, `median*` | nil samples, devices present in some samples only, fields taken from the latest sample | one disturbed sample decides nothing, no field lost |
| Program flow (`cmd/why-slow/main.go`) | flags, context, signal channel, list of diffs | `runWatchLoop`, `captureSamples`, `captureDifferential`, `shouldAlert`, `renderReport` | signals at any moment, failed snapshots, timers racing with cancellation | a signal ends it, single shots end, reports are measured |
| Engine (`analyzer/engine.go`, `types.go`) | rules by tier, disabled rules, findings, report | `SetDisabledRules`, `Analyze`, `evaluateRule`, `calibrateDiagnoses`, `sortDiagnoses`, `categorizeDiagnoses` | penalties, early exit and calibration in a fixed order; suppression | no finding lost or doubled, worst finding first, confidence within [0, 1] |
| Rules (`analyzer/tier1_base.go`, `tier2_contention.go`, `tier3_edge.go`) | none (predicates over a diff) | `Evaluate` of each rule | absence read as zero, totals since boot, order of iteration | findings are of the window, a failed read adds none |
| Readers (`collector/{cpu,memory,psi,disk,system,cgroup,locks,tcp_sockets,loadavg,vm_config}.go`) | none (parsers) | `Collect*` | partial or missing files, header and value lines to pair; one file of a source that fails alone | a failed read leaves zeros, in a record that otherwise holds what was read, or the kernel's default for three limits |
| Presenter (`presenter/*.go`) | none | `RenderTerminal`, `RenderJSON` | - | formatting |

How they interact: `main` installs the signal handler, which cancels one
context, and runs single-shot or the watch loop. A round calls
`captureSamples`, which calls `captureDifferential` once or several times; that
takes snapshot A, sleeps, takes snapshot B and returns `DiffSnapshots(A, B)`, or
nil. `CollectSnapshot` reads a sequential batch, forks the parallel collectors,
waits for them, scans the processes and finally walks the cgroups. The context
reaches the workers of the scan and the wrappers of the collectors. `Analyze`
turns the diff into a report, `renderReport` writes it.

## 2. Modules

| Module | Models | State and actions |
|---|---|---|
| `ScanContract` | what `ScanProcesses` promises | abstract: `List`, `Report`, `Finish`, `Excuse` |
| `ScanPool` | `process.go` worker pool | each variable is a local variable, a channel or a program counter of `ScanProcesses` and its goroutines; the kernel's process table is the environment (`Exit`, `Fork`) |
| `ScanPoolProofs`, `ScanPoolFlowProofs`, `ScanPoolContractProofs` | proofs about `ScanPool` | - |
| `Snapshot` | `CollectSnapshot` and its fan-out, over several snapshots | a call of a collector is a pair (snapshot, task) with a wrapper, a task, a channel and a deadline of its own |
| `SnapshotProofs` | proofs about `Snapshot` | - |
| `Sampler` | `main.go` after flag parsing | main's program counter, the handler goroutine, the signal channel, the diffs of a round |
| `SamplerProofs` | proofs about `Sampler` | - |
| `Engine` | `engine.go` | the loop over rules is one action per rule (`Evaluate`), then `CalibrateDiagnoses`, `Sort`, `NamePrimary`, and one action per further finding (`Demote`) |
| `EngineProofs` | proofs about `Engine` | - |
| `Readings` | the records of `snapshot.go`, `CollectSnapshot` as a function of the host and of what cannot be read, `ParseCgroups`, `DiffSnapshots` with every `calculate*Diff` | operators only |
| `Median` | `median.go`: which fields become medians, which are the latest sample's, which are dropped | operators only |
| `RuleBase`, `Tier1Rules`, `Tier2Rules`, `Tier3Rules` | every rule: ID, tier, dependence on PIDs, suppression, severity, confidence and when it fires | one operator per Go type, under its name |
| `Rulebook` | the catalogue in order of registration; the classification of IDs for the calibration | operators only |
| `Host` | the environment of `Diagnosis`: what the kernel counts and leaves behind from one reading to the next | operators on a host: `Interval`, `Restart`, `Fresh` |
| `Diagnosis` | `captureSamples`, `captureDifferential` and `Analyze` over a changing host: composes `Readings`, `Median`, `Rulebook` and `Host` | `SnapshotA`, `Sleep`, `SnapshotB`, `SampleFails`, `Analyze` |
| `RuleProofs` | what all 172 rules have in common: none finds more in less | - |
| `DiagnosisProofs` | proofs about `Diagnosis` | - |
| `MC*` | instances for TLC | - |

`ScanPool` implements `ScanContract` (`ImplementsContract`: collected records
are mapped to reported PIDs, cancellation excuses every PID). `Snapshot` uses
the scan as one step (`CollectProcesses`) that returns, which is `ScanReturns`;
`Sampler` uses a snapshot as one step that fails or succeeds, which is
`SnapshotReturns`; `Diagnosis` follows the numbers through the samples that
`Sampler` schedules; `Engine` takes the rules that fire as an input, and the rules
of its instance are checked against the catalogue (`RulesAreOfTheCatalogue`).
`CatalogueIsARuleList` checks what `Engine` assumes of a list of rules on the whole
catalogue.

Abstractions. A process record keeps the incarnation of the PID seen by its
three groups of reads in place of the numbers. A collector reads one monotone
counter. A diff keeps its times only, in `Sampler`, and a confidence is an
integer number of 1/100000, in which all the products the engine forms from
two-decimal confidences are exact. Texts, evidence and formatting are left out.
The sequential batch of a snapshot is one step, as nothing runs beside it.

In `Readings` a snapshot keeps what some rule looks at. Percentages and
milliseconds are tenths, ratios thousandths, memory kB. Disks, mounts, interfaces
and processes are functions from their names. Cgroups keep an order, because rules
stop at the first that matches and Go iterates over a map in any order: a list of
cgroups is a function from places in that order, with gaps where one is absent.
Wait channels and command names stand for the strings that the rules do not tell
apart from them (`kcompactd0` for every `kcompactd*`). Of a rule's `Evaluate` the condition
is kept; the wording of evidence and the process it names are left out.

What can fail is modelled as finely as the code reads. A reading is a source, one file of a
source, the same file of one disk, interface, process, cgroup or core, all of one of these (a
mount, a thermal zone or a table of sockets, too), or `CollectSystemConfig` as a whole, which
may be late. `Files` is the table: which fields each file fills. `ReadSource` and
`ReadEntries` give what a snapshot holds when a set of readings fails. What a source leaves is
zero, nothing or "not available", but for the largest PID and the range of ports, for which
`ParsePIDMax` and `ParsePortRange` take the kernel's default. What a file leaves is zero in a
record that may well be marked as available (`Blank`: `max_queued_events` beside
`max_user_watches` that were read, `system.go:78`), but for `gc_thresh3`, for which
`ParseNeighborTable` takes 1024 (`system.go:710`). When the reader of the system's
configuration is late, everything it reads is zero, these three as well.

`Diagnosis` steps a host (`Host`) through intervals as long as the sampling window,
each calm or with one of ten troubles. `MCDiagnosis` says what an interval of
each counts and leaves behind (`Window`) and which counters begin again at zero
with it (`Restarts`). `EveryRuleCanFire` is an assumption TLC evaluates:
between them the troubles make every rule fire but two. `EveryRuleCanBeMisled` is another:
on this host some reading that fails makes every rule of `MisledBy` (section 3) find something,
except `CONT_PID_EXHAUSTION`, which would take 32768 processes.
`CONT_BALLOON_OVERCOMMIT` needs `VirtInfo.BalloonBytes`, which no collector sets
(nor `NetStatInfo.TCPOFODrop`), and `CONT_SCHED_MIGRATION_COST_OVERHEAD` needs
a migration cost of zero, which is what one that could not be read looks like. The
variable `fresh` runs alongside: the same host with every counter at zero when
the sample begins. What the tool may know of a window is what it would see
there.

Each operator marked "Faulty variant" is a deliberately wrong form of the
definition below it; it is used by nothing in the model. With the faulty form
in place TLC refutes the property named in `PROJECT.json`, which shows that the
property depends on that piece of the code.

## 3. Runs

| Run | Checks | Bounds | Why they are enough |
|---|---|---|---|
| `ScanPool` | `TypeOK`, `NoSendOnClosed`, `SendsNeverBlock`, `NoDuplicates`, `CompleteUnlessCancelled`, `ScanReturns`, `ImplementsContract` | 3 PIDs, one unreadable; 2 workers; 1 enriched record | more PIDs than workers and fewer, both orders of any two workers, ties and a cut-off in the enrichment |
| `Snapshot` | `TypeOK`, `ReceivedResultKept`, `NoStaleField`, `NoLateWrite`, `SnapshotReturns`, `LateTaskEnds` | 2 snapshots, 1 parallel collector with 2 events, 1 of the batch | an answer that arrives during the next snapshot, a counter that moves in between; `SnapshotProofs` covers any number of collectors |
| `Sampler` | `TypeOK`, `AtMostOneLateReport`, `WatchReportsMeasured`, `SignalEndsProgram`, `WatchKeepsSampling`, `SingleShotEnds` | 4 command lines, up to 3 samples a round, the number of rounds is unbounded | both modes, both paths of `captureSamples`, a threshold that is no severity |
| `Engine` | `TypeOK`, `EveryFindingAccounted`, `PrimaryIsWorst`, `ConfidenceInRange`, `EdgeCasesOnlyWithoutHardLimit` | 9 rules of the catalogue: 4 of tier 1, 3 of tier 2, 2 of tier 3; all 512 sets of firing rules; CPU and memory stall alike or one of them only, or no PSI | every severity order, dependent and independent of PIDs, with and without suppression and resource |
| `Diagnosis` | `TypeOK`, `DeltasWithinWindow`, `HistoryIsForgotten`, `LostReadingAddsNothing`, `OutlierSampleIsIgnored`, `CgroupOrderDecidesOneRule` | 1 to 3 samples; 10 troubles; 2 mishaps (troubles or failing snapshots) in a run; of one sample, any one reading lost in each snapshot: every source, all that `CollectSystemConfig` reads, every file of a source without names, every file of all disks, interfaces, processes, cgroups or cores, and one of each with all or some of its files; 2 orders of the cgroups | a trouble before the first snapshot and one in the window, in each pair; three samples of which one differs; a reading lost in either snapshot beside a trouble |

Every bound is a CONSTANT named in its module (`MaxIncarnation`, `MaxSnaps`,
`MaxCount`, `MaxShift`, `MaxMishaps`).

Runs that end with a counterexample, each a disagreement between a sentence of
the repository and its code (quoted in `PROJECT.json`, "findings"):

| Run | What happens |
|---|---|
| `ScanPoolReuse` | a PID is reused between two reads of one record: the record mixes two processes |
| `SnapshotWindow` | a collector misses its deadline in the first snapshot only: the "delta" is the total since boot |
| `SamplerHealthy` | a failed or interrupted single-shot measurement prints "SYSTEM HEALTHY" |
| `SamplerClock` | the wall clock is set back, but `Sub` compares monotonic readings: no clock jump is seen |
| `EngineSuppression` | only the primary blocker's suppression list is applied |
| `DiagnosisLocks` | a lock blocks in every sample, but the median has no lock graph: with `--samples` above 1 the rule never fires |
| `DiagnosisHistory` | a load before the first snapshot is reported in a calm window: two rules read totals since boot |

What the passing properties of `Diagnosis` leave out, and why:

- `DeltasWithinWindow`: counters whose source, or whose file, only the first snapshot lacks
  (the run `SnapshotWindow` shows the total since boot), and the average latencies of disks,
  which are quotients of two deltas.
- `HistoryIsForgotten`: `CONT_SCHED_RUNQUEUE_STARVATION` and
  `EDGE_IRQ_CORE_STORM`, which read totals since boot, and samples during which a
  counter restarted.
- `LostReadingAddsNothing`: fourteen rules that a failed reading can make find something
  that is not there, each after the readings named in `MisledBy` and after no others:

  | Rule | Reading | What the rule sees |
  |---|---|---|
  | `CONT_PID_EXHAUSTION`, `CONT_TIMEWAIT_PORT_EXHAUSTION` | `PIDMax`, `PortRange` | the kernel's default for a larger limit |
  | `CONT_ARP_NEIGHBOR_OVERFLOW`, `CONT_NET_ARP_TABLE_TRASH` | `gc_thresh3` | 1024 for a larger limit |
  | `EDGE_INOTIFY_QUEUE_OVERFLOW` | `max_queued_events` | 16384 for a larger limit (`tier3_edge.go:2157`) |
  | `CONT_SCHED_MIGRATION_COST_OVERHEAD` | `SchedMigrationCostNS`, or the late configuration | a cost of zero |
  | `BASE_THERMAL_THROTTLING`, `CONT_CPU_GOVERNOR_POWERSAVE_LAG`, `EDGE_SYSFS_POWER_THROTTLE_EVENT` | `scaling_cur_freq` | a core at 0 MHz |
  | `EDGE_SYSFS_POWER_THROTTLE_EVENT` | one thermal zone | the coolest zone as the hottest: low speed at a low temperature |
  | `CONT_TCP_CLOSE_WAIT_LEAK` | one of the two tables of sockets | a larger share of CLOSE_WAIT |
  | `EDGE_NET_IFACE_CARRIER_FLAP` | `operstate` | an interface that is not up |
  | `EDGE_IO_SCHEDULER_MISMATCH` | `rotational` | a disk that turns as one that does not |
  | `CONT_RUNAWAY_CPU_PROCESS` | `status` of a process | no CPU mask in place of a single core |
  | `EDGE_MEMCG_SOCK_MEMORY_THROTTLE` | a cgroup, its `memory.events`, a process or its `cgroup` | another cgroup as the first throttled one |

  Also left out are readings that are the baseline of a delta (`Baselines`) and are lost in
  the first snapshot only, where a busy process looks idle or a delta is the total since boot.
- `OutlierSampleIsIgnored`: the blocked file locks (`DiagnosisLocks`). It asks that
  the last sample is one of the two that agree, because interfaces, processes and
  most VMStat and NetStat counters are the latest sample's; of two samples the
  median is the larger number. It also asks that the other samples have the cores, disks and
  cgroups of the last one, because the median drops those that any sample lacks: an
  attempt to prove the property without this failed there.
- `CgroupOrderDecidesOneRule`: `EDGE_MEMCG_SOCK_MEMORY_THROTTLE` picks the first
  cgroup over its `memory.high` and gives up if no process of that one qualifies.

Four more divergences have no run.

- When the range of ports cannot be read and is wider than the default that is taken for it
  (`system.go:143`), `CONT_TIMEWAIT_PORT_EXHAUSTION` fires although less than half of the
  ports are taken; `docs/DIAGNOSTIC_DISAMBIGUATION.md:119` speaks of 85% of
  `ip_local_port_range`. The instance reaches this (`LimitTrouble`), and a case for each other
  rule of the table above except `CONT_PID_EXHAUSTION`: without its entry in `MisledBy`,
  `LostReadingAddsNothing` is refuted.
- When only `max_queued_events` cannot be read, `EDGE_INOTIFY_QUEUE_OVERFLOW` calls a limit
  of 16384 undersized on a host that has a larger one (`StuckTrouble`).
- `engine.go:209` scales rules that depend on PIDs by 0.60,
  `docs/DIAGNOSTIC_DISAMBIGUATION.md:160` says 0.80.
- `docs/DIAGNOSTIC_DISAMBIGUATION.md:158` says of secondary symptoms that they are "demoted
  to secondary contributing factors". `categorizeDiagnoses` removes what the primary blocker
  suppresses from the report (`types.go:113`, and `engine_test.go` tests for that);
  `Engine` models the code.

### Fairness

`ScanPool`: weak fairness of the caller, of the closing goroutine and of each
worker. Go's scheduler runs every runnable goroutine, and reads of `/proc/<pid>`
return. `Snapshot`: weak fairness of the caller once it has begun a snapshot (that another
follows is never promised), of each wrapper, of the timer
of each deadline and of the send of a task; the read of a task has none, as it
may hang on a dead mount. `Sampler`: weak fairness of main and of the handler;
a signal is never promised. Nothing is assumed of the kernel, of cancellation or
of events.

## 4. Proofs

All safety properties that the run `ScanPool` checks are proved, for every set of PIDs and
workers, in three modules that extend one another:

| module | theorem | invariant it rests on |
|---|---|---|
| `ScanPoolProofs` | `PoolTypeOK`: `Spec => []TypeOK`; `PoolNoSendOnClosed`: `Spec => []NoSendOnClosed` | `PoolInv` |
| `ScanPoolFlowProofs` | `PoolNoDuplicates`: `Spec => []NoDuplicates`; `PoolSendsNeverBlock`: `Spec => []SendsNeverBlock` | `FlowInv` |
| `ScanPoolContractProofs` | `PoolComplete`: `Spec => []CompleteUnlessCancelled`; `PoolImplementsContract`: `Spec => ImplementsContract` | `PhaseInv`, `AccountInv` |

None of the properties is inductive.

- That the counter of the wait group stays a natural number needs that it counts
  exactly the workers that were started and have not returned, and the close of
  the results channel is ordered behind their sends only through that counter.
  `PoolInv` adds this (`wg = Cardinality(Live)`) and which of the two goroutines
  has come how far.
- `FlowInv` says where a PID can be. The jobs channel holds the next PIDs of the
  listing in order; a PID received from it is in the hands of at most one worker
  or in at most one record, and the records in the slice and in the results
  channel together (`Gathered`) never repeat one. `NoDuplicates` follows.
  `SendsNeverBlock` follows by counting: the records made and the one in a
  worker's hands name different PIDs of the listing, so there are no more of
  them than slots.
- `PhaseInv` relates the phases of main, the workers and the channels: when the
  loop over the results ends, the jobs channel is closed, all workers have
  returned, and, unless the context was cancelled, they returned because the
  jobs were used up. `AccountInv` says that until a cancellation every PID
  received is in a worker's hands, in a record or excused. Together they give
  `PoolComplete`, and the step by which the scan finishes in the contract.

Each invariant has an initial lemma and a step lemma with one step per action;
lemmas such as `BusyWorker`, `QuietFlow` and `QuietAccount` treat actions that
disturb an invariant in the same way. The refinement maps every action: the
listing to `List`, `Collect` to `Report`, `Enrich` to `Finish`, every other
action to `Excuse` or a stutter (`ContractStep`). The only assumption is
`ScanAssumption`: finitely many PIDs and workers, at least one of each.

`SnapshotProofs` proves the safety properties of `Snapshot` for every set of
collectors and any number of snapshots:

| theorem | invariants it rests on |
|---|---|
| `SnapshotTypeOK`: `Spec => []TypeOK` | `CallInv` |
| `SnapshotNoLateWrite`: `Spec => NoLateWrite` | `CallInv` |
| `SnapshotReceivedResultKept`: `Spec => []ReceivedResultKept` | `CallInv`, `HandoverInv` |
| `SnapshotNoStaleField`: `Spec => []NoStaleField` | `CallInv`, `HandoverInv`, `FreshInv` |

- `CallInv`: the wait group counts the wrappers that are running, and these all
  belong to the snapshot being taken, whose number is not yet among the good
  ones. So no step that writes a snapshot can meet a finished one.
- `HandoverInv`: an answer is with its task, in its channel or with its wrapper;
  the channel is filled once, with the task's result, and an answer that has
  left both is in the field of the call's own snapshot.
- `FreshInv`: a result and a field are zero or were read between the beginning
  of the snapshot they belong to and now (`FreshStays`: counters only grow).

The only assumption is `SnapshotAssumption`: finitely many collectors, none of
them a field of the sequential batch.

`SamplerProofs` proves the safety properties of `Sampler` for every set of command
lines, any threshold and any number of rounds:

| theorem | invariants it rests on |
|---|---|
| `SamplerTypeOK`: `Spec => []TypeOK` | `TypeInv` |
| `SamplerAtMostOneLateReport`: `Spec => []AtMostOneLateReport` | `TypeInv`, `RoundInv` |
| `SamplerWatchReportsMeasured`: `Spec => []WatchReportsMeasured` | `TypeInv`, `RoundInv` |

`RoundInv` says what a round has in hand before it reports: each of its diffs, and
the median made of them, spans at least one interval; a watching main that is
about to render has a diff; and after a
late report main is at the top of the loop with a cancelled context, or has left
it. The last clause is what makes `AtMostOneLateReport` inductive. The only
assumption is `SamplerAssumption`: what `validateConfig` leaves through.

`EngineProofs` proves the properties of `Engine` for every list of rules, every
set of them that fires or is disabled, and every pressure reading:

| theorem | invariants it rests on |
|---|---|
| `EngineTypeOK`: `Spec => []TypeOK` | `TypeInv` |
| `EngineConfidenceInRange`: `Spec => []ConfidenceInRange` | `TypeInv`, `CertaintyInv` |
| `EngineEdgeCasesOnlyWithoutHardLimit`: `Spec => []EdgeCasesOnlyWithoutHardLimit` | `TypeInv`, `CertaintyInv` |
| `EnginePrimaryIsWorst`: `Spec => []PrimaryIsWorst` | `EngineInv` |
| `EngineEveryFindingAccounted`: `Spec => []EveryFindingAccounted` | `EngineInv` |

- `TypeInv` adds to the types that there are findings from the calibration on;
  `NamePrimary` would otherwise take the first of none.
- `CertaintyInv`: tier 3 is reached only while no confident hard limit was found,
  and a hard limit that was not confident when it was evaluated has a confidence
  of at most 0.60, and of at most 0.66 after the calibration. The step that
  matters is `Evaluate`: a penalty takes any confidence to 0.60 or less
  (`PenalisedBounds`), and without one a hard limit is at least 0.90 certain. This
  is the assumption `IsRuleList` makes of tier 1. Without it the property is
  false: a hard limit of 0.88 would not stop tier 3 and the calibration would
  lift it to 0.96.
- `FindingsInv`: the findings are those of the rules visited (`Visited`), each
  once. A step of the loop visits exactly one rule, and moving on to the next tier
  none (`VisitedStep`).
- `SortPermutes`: `SortDiagnoses` puts every finding in exactly one place and a
  worst one first. The places are given by counting the findings ahead, and
  `Ahead` is a strict total order of the positions (`AheadIsTotalOrder`), so the
  counts are all different and, by the pigeonhole principle, all taken
  (`EveryPlaceOnce`).
- `ReportInv`: a finding that was filed (`Filed`) is suppressed or in exactly one
  of the two lists. `DemoteFiles` shows this for one iteration of the loop, and
  `Concatenation` carries it over to the whole report.

The only assumption is `EngineAssumption`: rule IDs are different, confidences
are between 0 and 1, and those of tier 1 at least 0.90.

`DiagnosisProofs` proves all properties that the run `Diagnosis` checks, for every host, every
set of troubles, whatever each of them counts, leaves behind and restarts, any readings
that fail together in either snapshot, any orders of the cgroups and any numbers of samples:

| theorem | what it takes beside `DiagnosisInv` |
|---|---|
| `DiagnosisTypeOK`: `Spec => []TypeOK` | percentages of one diff |
| `DiagnosisDeltasWithinWindow`: `Spec => []DeltasWithinWindow` | deltas of one diff |
| `DiagnosisHistoryForgotten`: `Spec => []HistoryIsForgotten` | the diffs of two hosts that differ in their past, and all rules |
| `DiagnosisLostReading`: `Spec => []LostReadingAddsNothing` | the diffs with and without failed readings, and all rules |
| `DiagnosisOutlierIgnored`: `Spec => []OutlierSampleIsIgnored` | the median of three, and all rules |
| `DiagnosisCgroupOrder`: `Spec => []CgroupOrderDecidesOneRule` | the medians of two orders, and all rules |

None is inductive: what a diff says of the window depends on both its snapshots, and the
second is taken two steps after the first. `DiagnosisInv` therefore keeps, in
`SnapshotsMatch`, that the first snapshot is one of a host `h`, and that the host
is `h` (while main is about to sleep) or `h` after a restart and an interval
(before the second snapshot), and that the host of the history is the same with
every counter at zero. Of every sample taken it keeps that some host `h` and some trouble
explain it (`Explained`): its diff is that of `h` and of `h` an interval later, its `fresh`
that of the same host without a past, and nothing began again in between unless the
run says so. And it keeps that the report is what all rules find in the median
(`ReportIsOfMedian`). Every property then follows from the invariant in one state.

The facts about one diff:

- `DiffUint64Window`, `RecordWindow`, `FunctionWindow`: a counter, a record of counters,
  and one of many devices, cgroups or processes that goes on by `w`, perhaps from
  zero, moves by at most `w`; what began at zero moves by `w`. The case that matters is
  the restart, where the newer value may be smaller than, or have overtaken, the
  older one.
- `DisksWithin`, `IfacesWithin`, `ProcessesWithin`, `CgroupsWithin`: the same for each of
  the joins of the differ, for a source, one of its names or a file of it that may be lost in either snapshot. For
  processes `CPUTimeWithin` adds that both kinds of CPU time restart together. For cgroups
  it needs that a path is found once (`CgroupDiffByPath`) and that a snapshot without
  processes finds no cgroup that one with processes does not (`FewerFound`).
- `CoreUtilPercents`, `DiskPercents`: no utilization leaves 0 to 100 percent, for any two
  readings, also when the total shrank.
- `FreshIsHost`, `RestartIsHost`, `IntervalIsHost`: a host stays one.

The four properties of the findings compare what all rules find in two diffs.
`RuleProofs` does this once for all of them. `Poorer(d, e, differ)` says that `d` holds what
`e` holds or less of it, field by field: zero, nothing or "not available" where `e` has numbers, some of its devices,
processes and cgroups, in any order. `PoorerFindsLess` says that what fires on
`d` fires on `e`, for all 172 rules but those in `differ`. Where a field that is not there
could mislead a rule, `Poorer` asks that it is the same in both or that the rule is in
`differ`: the conditions on `differ` in `RuleProofs` are the fourteen rules of `MisledBy`, the
two on totals since boot and the one on blocked locks, and no others were needed. Each rule is
one step of the proof (`Tier1Keeps`, `Tier2Keeps`, `Tier3Keeps`) and cites the sources it looks
at, so the proof is also a table of what each rule reads. Two diffs that are each poorer than the other
have the same findings. What remains is to relate the diffs:

- Order of the cgroups: a listing is given by places in an order, so two orders give the
  same cgroups by path (`ReorderedGroups`), and so do the medians (`MedianGroups`). `differ`
  holds the one rule that stops at the first throttled cgroup.
- Past: the hosts with and without one are alike in all that counts nothing
  (`SnapshotsAlike`) and a counter that goes on by `w` moves by `w` from anywhere
  (`RecordForgets`, `CoreForgets` and one lemma per join), so their diffs are the same but
  for the latest counters, at which only the two rules on totals since boot look
  (`WindowForgets`, `SameWindowFindsTheSame`).
- Outlier: the middle one of three numbers of which two agree is that number
  (`MedianOfThree`), which the lemmas named `Outlier*` carry through each field of the
  median. That the rules are given numbers there at all is `WholeMeasured`.
- Failed readings: a diff of snapshots some of whose readings failed (`PartialDiff`) is poorer than
  the diff of the same snapshots without failures (`PartialPoorer`), whose findings are those of
  a host without a past. `PartialFields` takes the diff apart; there is a lemma named
  `Partial*` for every source, which rests on what a missing file leaves in a record
  (`ReadInPart`, `RecordInPart`, `FieldMissing`). For the joins, the loss of a baseline in the
  first snapshot is where `Baselines` is needed. `Misleading(A, B)` names the rules that the
  failures `A` and `B` mislead, and is what `differ` is.

The proofs changed the model in three places. `OutlierSampleIsIgnored` was false in cases
TLC's instance does not reach (see section 3). `IsHost` now says of the environment what the
code's types say: the numbers that a rule divides by are unsigned and the
cores are a list. And that each order of the cgroups names the same paths once, which
iterating over a Go map gives, became part of `DiagnosisAssumption`.

The assumptions are `HostAssumption` (the host when booted and what an interval counts are
hosts: counters are natural numbers, and a cgroup is known by its path) and
`DiagnosisAssumption`. TLC evaluates both on its instance.

Every safety property and every action property that a passing run checks is the statement
of a theorem, and so is the refinement. What is model-checked only: `ScanReturns`,
`SnapshotReturns`, `LateTaskEnds`, `SignalEndsProgram`, `WatchKeepsSampling` and
`SingleShotEnds`, which are liveness under fairness and out of the prover's reach, and the
runs that end with a counterexample.

## 5. Plan

What is left to model:

- the parsers of the cgroup files; pairing of header and value lines in the
  network readers, the lock graph;
- `--top` and `--pid` tables of `main.go`.

## 6. Not modelled

The text of procfs files and its parsers, the wording of findings, the
presenter's layout, flag parsing and the commands `--explain` and
`--list-rules`, the `--top` and `--pid` tables; memory use. The process a finding
names and disk throughput, which no rule compares, are left out of `Readings`.
Nothing bounds the goroutines that a collector hung for ever leaves behind.
Calibration by words in an ID scales `BASE_TCP_SOCKET_MEM_PRESS` by memory pressure;
the code states no other intent to check this against. The sequential batch, the scan and the cgroup walk
have no deadline in the code, so a read that hangs there blocks the program; the
liveness properties hold for reads that return.
