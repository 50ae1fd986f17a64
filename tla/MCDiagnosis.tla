---------------------------- MODULE MCDiagnosis ----------------------------
(***************************************************************************)
(* A host for Diagnosis: four cores, two thermal zones, two disks, dm and  *)
(* loop devices, two interfaces, three cgroups, kernel threads and         *)
(* services, and ten troubles that between them can make every rule fire.  *)
(***************************************************************************)
EXTENDS Diagnosis

\* Some fields of record r replaced, or some counters of it moved.
With(r, new) == [k \in DOMAIN r |-> IF k \in DOMAIN new THEN new[k] ELSE r[k]]
Add(r, counters, n) == [k \in DOMAIN r |-> IF k \in counters THEN r[k] + n ELSE r[k]]
Each(f, names, Op(_)) == [x \in DOMAIN f |-> IF x \in names THEN Op(f[x]) ELSE f[x]]

Process(fields) ==
  With(With(ProcessInfo, [Comm |-> "app", State |-> "S", PPID |-> 1, NumThreads |-> 1,
                          CgroupPath |-> "/", CpusAllowed |-> 2]), fields)

\* The processes by PID.
Kswapd == 1
Kcompactd == 2
Khugepaged == 3
Ksmd == 4
Ksoftirqd == 5
Db == 6
Db2 == 7
Batch == 8
Threads == 9
Workers == 11..18

Services ==
  [pid \in (1..9) \cup Workers |->
     CASE pid = Kswapd -> Process([Comm |-> "kswapd0"])
       [] pid = Kcompactd -> Process([Comm |-> "kcompactd0"])
       [] pid = Khugepaged -> Process([Comm |-> "khugepaged"])
       [] pid = Ksmd -> Process([Comm |-> "ksmd"])
       [] pid = Ksoftirqd -> Process([Comm |-> "ksoftirqd/0"])
       [] pid \in {Db, Db2} -> Process([Comm |-> "db", CgroupPath |-> "/a"])
       [] pid = Batch -> Process([CgroupPath |-> "/b"])
       [] pid = Threads -> Process([NumThreads |-> 20, State |-> "R"])
       [] OTHER -> Process([Comm |-> "worker", Wchan |-> "ep_poll", OpenFDs |-> 100,
                            MaxFDs |-> 1024])]

Readable(r, fields) == With(With(r, [Available |-> TRUE]), fields)
Core == [MaxFreq |-> 3000, CurFreq |-> 2900, Governor |-> "powersave"]
Mount == [UsedPercent |-> 400, InodesTotal |-> 1000, InodesUsedPercent |-> 400,
          InodesFree |-> 600, ReadOnly |-> FALSE]

MCBootedHost == With(SystemSnapshot, [
  PSI |-> With(SystemSnapshot.PSI, [Available |-> TRUE]),
  CPU |-> With(SystemSnapshot.CPU, [PerCore |-> [c \in 1..4 |-> CoreCPUStat],
                                    ProcsRunning |-> 1]),
  Memory |-> With(MemInfo, [MemTotal |-> 2100000, MemAvailable |-> 1500000,
                            SwapTotal |-> 1000000, SwapFree |-> 1000000]),
  DiskStats |-> [name \in {"sda", "sdb", "dm-0", "loop0"} |-> DiskDeviceStat],
  DiskSpace |-> [path \in {"/", "/data"} |-> Mount],
  NetIfaces |-> [name \in {"eth0", "eth1"} |-> With(NetIfaceStat, [OperState |-> "up"])],
  Processes |-> Services,
  Cgroups |-> [path \in {"/", "/a", "/b"} |-> With(CgroupEntry,
                 [Path |-> path, CPUShares |-> IF path = "/b" THEN 64 ELSE 1024])],
  CPUFreq |-> [c \in 1..4 |-> Core],
  Thermal |-> [acpitz |-> 40, x86_pkg |-> 50],
  Clocksource |-> "tsc",
  LoadAvg |-> Readable(SystemSnapshot.LoadAvg, [Load1 |-> 10, Load5 |-> 10]),
  TCPSockets |-> [table \in {"tcp", "tcp6"} |-> [Established |-> 10, CloseWait |-> 0]],
  FileLocks |-> [Available |-> TRUE, BlockedLocks |-> <<>>],
  PIDMax |-> 32768, PortRange |-> [Low |-> 32768, High |-> 60999],
  SockStat |-> [TCPInUse |-> 10, TCPOrphan |-> 0, TCPTimeWait |-> 10],
  Conntrack |-> Readable(SystemSnapshot.Conntrack, [Count |-> 10, Max |-> 1000]),
  BuddyInfo |-> Readable(SystemSnapshot.BuddyInfo,
    [DMA32FreePages |-> 1000, NormalFreePages |-> 300000, NormalOrder0Pages |-> 500,
     NormalHighOrderPages |-> 10]),
  KSM |-> Readable(SystemSnapshot.KSM, [Running |-> TRUE, PagesToScan |-> 10000]),
  IRQStat |-> Readable(SystemSnapshot.IRQStat, [MaxCoreIRQs |-> 0]),
  Neighbor |-> Readable(SystemSnapshot.Neighbor,
                        [ActiveEntries |-> 10, GCThresh3 |-> 1024]),
  Inotify |-> Readable(SystemSnapshot.Inotify,
                       [MaxUserWatches |-> 65536, MaxQueuedEvents |-> 16384]),
  SchedStat |-> Readable(SystemSnapshot.SchedStat, [RunningTimeMS |-> 0]),
  MinFreeKbytes |-> 1000, TCPMaxTWBuckets |-> 32768, NumaBalancing |-> 1,
  SchedRTRuntimeUS |-> 950000, SchedMigrationCostNS |-> 500000,
  THPDefragMode |-> "madvise",
  SysVSem |-> Readable(SystemSnapshot.SysVSem, [SemMNS |-> 32000, SemMNI |-> 32000]),
  AIO |-> [AIONR |-> 0, AIOMaxNR |-> 65536],
  SysVShm |-> Readable(SystemSnapshot.SysVShm, [ShmMNI |-> 4096, ShmAll |-> 1000000]),
  MDStat |-> [Available |-> TRUE, ActiveResync |-> FALSE],
  FileNR |-> Readable(SystemSnapshot.FileNR, [Allocated |-> 1000, Max |-> 100000]),
  Slab |-> Readable(SystemSnapshot.Slab, [DentryCacheActive |-> 10000])])

-----------------------------------------------------------------------------
\* What a core does in the 1000 ticks of an interval.
Time(user, system, softirq, steal) ==
  With(CoreCPUStat, [User |-> user, System |-> system, SoftIRQ |-> softirq,
                     Steal |-> steal, Idle |-> 1000 - user - system - softirq - steal])
IdleTime == Time(0, 10, 0, 0)

\* Ten seconds go by: and whatever is not a counter is as it was at boot.  The first
\* core spends its time in its own way.
Elapse(one, others) ==
  [MCBootedHost EXCEPT
     !.Timestamp = 10,
     !.CPU.PerCore = [c \in 1..4 |-> IF c = 1 THEN one ELSE others],
     !.CPU.TotalCPU = [k \in DOMAIN CoreCPUStat |-> one[k] + 3 * others[k]],
     !.CPU.ContextSwitches = 1000, !.CPU.ProcessesCreated = 5]

Calm == Elapse(IdleTime, IdleTime)

\* Every core busy, one process in the kernel, one real-time.
CPUTrouble ==
  LET busy == Time(190, 450, 200, 150)
      now == Elapse(busy, busy)
  IN  [now EXCEPT
        !.CPU.ProcsRunning = 10, !.CPU.ContextSwitches = @ + 1200000,
        !.CPU.ProcessesCreated = @ + 200,
        !.PSI.CPU.Some = 500, !.LoadAvg.Load1 = 100, !.LoadAvg.Load5 = 100,
        !.CPUFreq[1].CurFreq = 1000,
        !.VMStat = Add(@, {"NumaPteUpdates", "THPZeroPageAlloc"}, 30000),
        !.SchedStat = Add(Add(@, {"RunqueueWaitTimeMS"}, 3000), {"RunningTimeMS"}, 1000),
        !.Processes[Batch].STime = @ + 950, !.Processes[Batch].TracerPID = Db,
        !.Processes[Batch].VoluntaryCtxtSwitches = @ + 20000,
        !.Processes[Batch].NonvoluntaryCtxtSwitches = @ + 10000,
        !.Processes[Db].UTime = @ + 950, !.Processes[Db].Policy = 1,
        !.Processes[Ksoftirqd].STime = @ + 500]

\* One core takes all interrupts, and a process may run nowhere else.  It is warm.
PinnedTrouble ==
  [Elapse(Time(100, 0, 900, 0), Time(0, 0, 0, 0)) EXCEPT
     !.Thermal.x86_pkg = 80,
     !.Processes[Batch].UTime = @ + 950, !.Processes[Batch].CpusAllowed = 1,
     !.IRQStat = Add(Add(@, {"MaxCoreIRQs"}, 60000), {"OtherCoresAvgIRQs"}, 100)]

\* All cores are busy with it, and run hot at full speed.
MemoryTrouble ==
  LET now == Elapse(Time(0, 900, 0, 0), Time(0, 900, 0, 0)) IN
  [now EXCEPT
     !.VMStat = Add(@, DOMAIN @ \ {"THPFaultAlloc"}, 60000),
     !.PSI.Memory = [Some |-> 500, Full |-> 300],
     !.Memory = With(@, [MemAvailable |-> 40000, SwapFree |-> 10000, Dirty |-> 400000,
                         Shmem |-> 500000, SUnreclaim |-> 900000,
                         HugePagesTotal |-> 300, HugePagesRsvd |-> 10,
                         CmaTotal |-> 1000, CmaFree |-> 10]),
     !.Slab.DentryCacheActive = 3000000, !.Thermal.x86_pkg = 90,
     !.BuddyInfo.DMA32FreePages = 0, !.BuddyInfo.NormalHighOrderPages = 0,
     !.Processes = Each(@, {Kswapd, Kcompactd, Khugepaged, Ksmd},
                        LAMBDA p : Add(p, {"STime"}, 950)),
     !.Processes[Db] = With(Add(now.Processes[Db], {"ReadBytes"}, 60000000),
       [Wchan |-> "balance_dirty_pages", RSSKB |-> 700000, OOMScoreAdj |-> -1000,
        SmapsAvailable |-> TRUE, Swap |-> 600000, PSS |-> 300000,
        SharedClean |-> 500000])]

NetworkTrouble ==
  [Calm EXCEPT
     !.NetStat = Add(@, DOMAIN @ \ {"TCPOFODrop"}, 2000),
     !.TCPSockets.tcp.CloseWait = 1000,
     !.SockStat = [TCPInUse |-> 10, TCPOrphan |-> 6000, TCPTimeWait |-> 30000],
     !.Conntrack.Count = 1000, !.Neighbor.ActiveEntries = 1024,
     !.Processes[Db].Wchan = "sk_stream_wait_memory"]

\* All disks saturated, one of them without an answer.
DiskTrouble ==
  LET Slow(k) == With(Add(Add(Add(k, {"ReadsCompleted", "WritesCompleted"}, 100),
                              {"TimeReadingMS", "TimeWritingMS", "IOTicks"}, 10500),
                          {"WeightedIOTicks"}, 30000),
                      [IOsInProgress |-> 6, Scheduler |-> "bfq"])
      Wait(p) == With(Add(p, {"ReadBytes"}, 5000), [Wchan |-> "blk_mq_get_tag",
                                                    State |-> "D"])
  IN  [Calm EXCEPT
        !.CPU.ProcsBlocked = 4, !.PSI.IO = [Some |-> 400, Full |-> 300],
        !.DiskStats = Each(@, {"sda", "dm-0", "loop0"}, Slow),
        !.DiskStats["sdb"].IOTicks = @ + 9900, !.DiskStats["sdb"].IOsInProgress = 6,
        !.DiskSpace["/"] = [UsedPercent |-> 995, InodesTotal |-> 1000,
                            InodesUsedPercent |-> 1000, InodesFree |-> 0,
                            ReadOnly |-> TRUE],
        !.Processes = Each(@, {Db, Db2, Batch}, Wait),
        !.AIO.AIONR = 65000, !.MDStat.ActiveResync = TRUE]

\* One for each group of channels that a rule asks for.
Channels == <<
  "mmap_lock", "jbd2_log_wait_commit", "unix_stream_sendmsg", "kauditd_wait",
  "xfs_log_reserve", "futex_lock_pi", "sync_inodes", "rpc_wait_bit_killable",
  "inode_lock", "fcntl_setlk", "ring_buffer_wait", "sk_wait_data",
  "throtl_pending_timer_fn", "mem_cgroup_reclaim", "xfs_btree_lookup", "pipe_read",
  "fanotify_get_response", "nfs_wait_bit_killable", "compact_zone", "n_tty_write",
  "balance_dirty_pages", "rcu_sched", "fuse_request_wait", "do_coredump",
  "cgroup_do_freeze", "cpu_hotplug_lock", "do_prctl", "do_epoll_wait">>

\* Two processes in every channel, one of them uninterruptible; a long inotify queue.
StuckTrouble ==
  LET Stuck(pid) == Process([
        Comm |-> IF pid = 100 THEN "apport" ELSE "app",
        State |-> IF pid % 2 = 0 THEN "D" ELSE "S", Wchan |-> Channels[pid \div 2 - 49],
        NumThreads |-> 500, OpenFDs |-> 1000, MaxFDs |-> 1024, TracerPID |-> Db,
        SigQQueued |-> 900, SigQMax |-> 1000])
  IN  [Calm EXCEPT
        !.CPU.ProcsBlocked = Len(Channels), !.CPU.ProcessesCreated = @ + 200,
        !.Processes = @ @@ [pid \in 100..(99 + 2 * Len(Channels)) |-> Stuck(pid)],
        !.FileLocks.BlockedLocks = <<"lock">>, !.Cgroups["/b"].Frozen = TRUE,
        !.Inotify.MaxQueuedEvents = 65536]

\* Links that lose packets, cgroups over their limits, and zombies of a waiting parent.
TenantTrouble ==
  [Calm EXCEPT
     !.NetIfaces = Each(@, {"eth0", "eth1"}, LAMBDA nic : Add(nic, IfaceCounters, 30)),
     !.NetIfaces["eth1"].OperState = "down",
     !.Cgroups = Each(@, {"/a", "/b"}, LAMBDA g : Add(g, CgroupCounters, 200000)),
     !.Processes = @ @@ [pid \in 200..249 |-> Process([State |-> "Z", PPID |-> Db])],
     !.Processes[Batch].WriteBytes = @ + 5000, !.Processes[Db].Wchan = "do_wait"]

\* A hot machine with every table full, but more ports, neighbors and sockets than full
\* tables of the default sizes would hold.
LimitTrouble ==
  [Calm EXCEPT
     !.PIDMax = 17, !.Memory.Shmem = 500000, !.Inotify.MaxUserWatches = 8192,
     !.SysVSem.AllocatedSemaphores = 32000, !.SysVShm.AllocatedSegments = 4096,
     !.FileNR.Allocated = 100000, !.Thermal = [acpitz |-> 80, x86_pkg |-> 90],
     !.PortRange.Low = 1024, !.SockStat.TCPTimeWait = 25000,
     !.Neighbor.ActiveEntries = 1000, !.Neighbor.GCThresh3 = 8192,
     !.TCPSockets.tcp.CloseWait = 200, !.TCPSockets.tcp6.Established = 5000,
     !.CPUFreq[1].CurFreq = 1000]

\* A warm machine with settings that do not suit it, a slow disk that turns, and memory
\* for which kswapd still does enough.
TuningTrouble ==
  [Calm EXCEPT
     !.Memory.MemAvailable = 100000, !.VMStat.PgScanDirect = @ + 60,
     !.Clocksource = "hpet", !.THPDefragMode = "always", !.SchedMigrationCostNS = 25000,
     !.VMStat = Add(@, {"CompactStall", "NumaMiss"}, 3000), !.Thermal.x86_pkg = 80,
     !.CPUFreq[1].CurFreq = 2000, !.NetIfaces["eth0"].CarrierChanges = @ + 5,
     !.DiskStats["sdb"] = With(Add(Add(@, {"ReadsCompleted"}, 100),
                                   {"WeightedIOTicks"}, 3000),
                               [Scheduler |-> "bfq", Rotational |-> TRUE])]

\* Little happens after a driver was reloaded, and in a process that took over a PID.
RenewalTrouble ==
  [Calm EXCEPT
     !.DiskStats = Each(@, {"sda"}, LAMBDA k : Add(k, DiskCounters, 7)),
     !.NetIfaces = Each(@, {"eth0"}, LAMBDA nic : Add(nic, IfaceCounters, 2)),
     !.Processes[Db].UTime = @ + 3]

MCTroubles == {"cpu", "pinned", "memory", "network", "disk", "stuck", "tenant", "limits",
               "tuning", "renewal", "calm"}

MCWindow == [t \in MCTroubles |->
  CASE t = "cpu" -> CPUTrouble [] t = "pinned" -> PinnedTrouble
    [] t = "memory" -> MemoryTrouble [] t = "network" -> NetworkTrouble
    [] t = "disk" -> DiskTrouble [] t = "stuck" -> StuckTrouble
    [] t = "tenant" -> TenantTrouble [] t = "limits" -> LimitTrouble
    [] t = "tuning" -> TuningTrouble [] t = "renewal" -> RenewalTrouble
    [] t = "calm" -> Calm]

MCRestarts == [t \in MCTroubles |->
  IF t = "renewal"
    THEN [DiskStats |-> DOMAIN MCBootedHost.DiskStats,
          NetIfaces |-> DOMAIN MCBootedHost.NetIfaces, Processes |-> {Db}]
    ELSE [DiskStats |-> {}, NetIfaces |-> {}, Processes |-> {}]]

-----------------------------------------------------------------------------
Orders == {<<"/", "/a", "/b">>, <<"/b", "/", "/a">>}

\* Readings that fail together: a source; a file of it; a file of all disks, interfaces,
\* processes, cgroups or cores, or of one of them; one of them altogether.
Chosen == [DiskStats |-> "sdb", DiskSpace |-> "/", NetIfaces |-> "eth0", Processes |-> Batch,
           Cgroups |-> "/a", CPUFreq |-> 1, Thermal |-> "x86_pkg", TCPSockets |-> "tcp6"]
Sourced == {{<<source>>} : source \in Sources \cup {"SystemConfig"}}
Filed == UNION {{{<<source, file>>} : file \in DOMAIN Files[source]} :
                  source \in DOMAIN Files \ DOMAIN Chosen}
FiledOfAll ==
  UNION {{{<<source, file, name>> : name \in DOMAIN MCBootedHost[source]} :
            file \in DOMAIN Files[source]} : source \in DOMAIN Files \cap DOMAIN Chosen}
OfOne == {{<<source, "entry", Chosen[source]>>} : source \in DOMAIN Chosen}
           \cup {{<<source, file, Chosen[source]>>} :
                   source \in {"NetIfaces"}, file \in {"OperState", "CarrierChanges"}}
           \cup {{<<"Cgroups", "memory_events", "/a">>}, {<<"Processes", "status", Batch>>},
                  {<<"Processes", "cgroup", Batch>>}}

\* Of a single sample any of them, and then only of the same source; with more samples
\* only failing snapshots.
AnyLoss == Sourced \cup Filed \cup FiledOfAll \cup OfOne
MCLosses(n, before) ==
  IF n > 1 THEN {{<<"CPU">>}}
  ELSE {lost \in AnyLoss : \A r \in before : \E q \in lost : q[1] = r[1]}
NoLosses(n, before) == {}

\* What is found in an interval of t on a calm host without a past.
Seen(t, lost, paths) ==
  LET a == Fresh(Interval("calm", BootedHost))
      b == Interval(t, a)
  IN  Fired(DiffSnapshots(CollectSnapshot(a, lost, paths), CollectSnapshot(b, lost, paths)))

\* Every rule fires in some window of this host, except the two that cannot: nothing
\* reads the size of a balloon, and a migration cost of zero means that it could not
\* be read.
EveryRuleCanFire ==
  UNION {Seen(t, {}, <<"/b", "/", "/a">>) : t \in MCTroubles} =
    RuleIds \ {"CONT_BALLOON_OVERCOMMIT", "CONT_SCHED_MIGRATION_COST_OVERHEAD"}

\* Every rule of MisledBy is misled on this host, except the one that would take as many
\* processes as the kernel has PIDs by default.
EveryRuleCanBeMisled ==
  LET paths == <<"/", "/a", "/b">>
      losses == {lost \in AnyLoss : ~Fatal(lost)}
      MadeUp(t) == UNION {Seen(t, lost, paths) : lost \in losses} \ Seen(t, {}, paths)
  IN  UNION {MadeUp(t) : t \in MCTroubles} = DOMAIN MisledBy \ {"CONT_PID_EXHAUSTION"}

ASSUME EveryRuleCanBeMisled
ASSUME EveryRuleCanFire
=============================================================================
