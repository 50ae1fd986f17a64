----------------------------- MODULE Tier3Rules -----------------------------
(***************************************************************************)
(* The edge cases of internal/analyzer/tier3_edge.go, in the order in      *)
(* which GetTier3Rules registers them.                                     *)
(***************************************************************************)
EXTENDS RuleBase

RuleTHPCompactionStall(d) ==
  Edge("EDGE_THP_COMPACTION_STALL", HostWide, 88,
    d.VMStat.CompactStall > 0 \/ SomeIn({"compact_zone"}, d))

RulePTYStdoutLock(d) ==
  Edge("EDGE_PTY_STDOUT_LOCK", PerProcess, 90,
    Some(d.Processes, LAMBDA p :
           /\ p.Wchan \in {"n_tty_write", "pty_write", "pipe_wait", "pipe_write"}
           /\ p.State = "S"))

RuleHPETClocksourceDegrade(d) ==
  SevereEdge("EDGE_HPET_CLOCKSOURCE_DEGRADE", HostWide, 95,
    d.Latest.Clocksource \notin {EmptyString, "unknown", "tsc", "kvm-clock"})

RuleCgroupDirtyThrottle(d) ==
  Edge("EDGE_CGROUP_DIRTY_THROTTLE", PerProcess, 88, SomeIn({"balance_dirty_pages"}, d))

RuleFutexContention(d) ==
  Edge("EDGE_FUTEX_CONTENTION", PerProcess, 85,
    Some(d.Processes, LAMBDA p :
           /\ p.Wchan \in {"futex_wait", "futex_lock_pi", "futex_wait_requeue_pi"}
           /\ p.NumThreads >= 50))

RuleNUMARemoteThrashing(d) ==
  Edge("EDGE_NUMA_REMOTE_THRASHING", HostWide, 85,
    d.VMStat.NumaMiss >= 5000 \/ d.VMStat.NumaForeign >= 5000)

RuleCPUAffinityPin(d) ==
  Edge("EDGE_CPU_AFFINITY_PIN", PerProcess, 90,
    /\ Len(d.Latest.CPU.PerCore) >= 2 /\ d.TotalCPUUtil.IdlePercent >= Pct(75)
    /\ Some(d.Processes, LAMBDA p :
              p.CpusAllowed = 1 /\ (p.CPUPercent >= Pct(90) \/ p.CPUTime >= 90)))

RuleZombieDefunctLeak(d) ==
  Edge("EDGE_ZOMBIE_DEFUNCT_LEAK", PerProcess, 90,
    ManyInState(50, "Z", d))

RuleCgroupOOMKillEvent(d) ==
  SevereEdge("EDGE_CGROUP_OOM_KILL_EVENT", PerProcess, 95,
    Some(d.Cgroups, LAMBDA g : g.OOMKills > 0))

RuleDMA32ZoneExhaustion(d) ==
  LET buddy == d.Latest.BuddyInfo IN
  Edge("EDGE_ZONE_DMA32_EXHAUSTION", HostWide, 88,
    buddy.Available /\ buddy.DMA32FreePages = 0 /\ buddy.NormalFreePages >= 250000)

RuleKSMScanStall(d) ==
  LET ksm == d.Latest.KSM IN
  Edge("EDGE_KSM_SCAN_STALL", PerProcess, 85,
    /\ ksm.Available /\ ksm.Running /\ ksm.PagesToScan >= 10000
    /\ \/ Some(d.Processes, LAMBDA p : p.Comm = "ksmd" /\ p.CPUPercent >= Pct(50))
       \/ ksm.PagesSharing > 50000)

\* The interrupts are those since boot; a single core has no others to compare with.
RuleIRQCoreStorm(d) ==
  LET irq == d.Latest.IRQStat IN
  Edge("EDGE_IRQ_CORE_STORM", HostWide, 88,
    /\ irq.Available /\ irq.MaxCoreIRQs >= 50000
    /\ irq.OtherCoresAvgIRQs = 0 \/ irq.MaxCoreIRQs >= 5 * irq.OtherCoresAvgIRQs)

RuleSlabUnreclaimableLeak(d) ==
  LET mem == d.Latest.Memory IN
  Edge("EDGE_SLAB_UNRECLAIM_LEAK", HostWide, 90,
    mem.MemTotal # 0 /\ Ratio(mem.SUnreclaim, mem.MemTotal) >= 400)

RuleInotifyWatchExhaustion(d) ==
  LET inotify == d.Latest.Inotify IN
  Edge("EDGE_INOTIFY_WATCH_EXHAUSTION", HostWide, 80,
    /\ inotify.Available /\ inotify.MaxUserWatches > 0
    /\ inotify.MaxUserWatches <= 8192)

RuleRCUSchedulerStall(d) ==
  Edge("EDGE_RCU_SCHEDULER_STALL", PerProcess, 85,
    ManyIn(2, {"rcu_gp_kthread", "synchronize_rcu", "rcu_sched"}, d))

RuleTHPCollapseStall(d) ==
  Edge("EDGE_THP_COLLAPSE_STALL", HostWide, 88,
    d.VMStat.THPCollapseAlloc > 0 /\ d.VMStat.AllocStallDirect > 0)

RuleFUSEFilesystemLatency(d) ==
  Edge("EDGE_FUSE_FS_STALL", PerProcess, 88,
    SomeIn({"fuse_request_wait", "request_wait_answer", "fuse_wait_aborted"}, d))

RuleCompactionFailureRate(d) ==
  LET vm == d.VMStat IN
  Edge("EDGE_COMPACT_FAIL_RATE", HostWide, 86,
    /\ vm.CompactStall >= 50 /\ vm.CompactFail >= 25
    /\ Ratio(vm.CompactFail, vm.CompactStall) >= 500)

RuleMajorPageFaultStorm(d) ==
  Edge("EDGE_MAJOR_PAGE_FAULT_STORM", HostWide, 82, d.VMStat.PgMajFault >= 500)

RuleTHPSplitStorm(d) ==
  LET vm == d.VMStat IN
  Edge("EDGE_THP_SPLIT_STORM", HostWide, 86,
    /\ vm.THPSplit >= 500
    /\ vm.AllocStallDirect > 0 \/ vm.CompactStall > 0 \/ vm.PgScanDirect > 0)

\* A kernel thread that uses at least 40% of a core.
Burns(comm, d) ==
  Some(d.Processes, LAMBDA p : p.Comm = comm /\ p.CPUPercent >= Pct(40))

RuleKHugepagedCPUBurn(d) ==
  LET vm == d.VMStat IN
  Edge("EDGE_KHUGEPAGED_CPU_BURN", PerProcess, 88,
    /\ Burns("khugepaged", d)
    /\ vm.THPCollapseAllocFailed > 0 \/ vm.CompactFail > 0 \/ vm.CompactStall > 0)

RuleDiskDeviceIOErrHang(d) ==
  SevereEdge("EDGE_DISK_DEVICE_IOERR_HANG", HostWide, 89,
    Some(d.Disks, LAMBDA k :
           /\ k.IOsInProgress >= 3 /\ k.ReadsCompleted = 0 /\ k.WritesCompleted = 0
           /\ k.UtilPercent >= Pct(85)))

RuleKcompactdCPUSpin(d) ==
  LET vm == d.VMStat IN
  Edge("EDGE_KCOMPACTD_CPU_SPIN", PerProcess, 88,
    /\ Burns("kcompactd0", d)
    /\ vm.CompactFail > 0 \/ vm.CompactStall > 0 \/ vm.AllocStallDirect > 0)

RuleMinFreeKbytesStall(d) ==
  LET total == d.Latest.Memory.MemTotal IN
  Edge("EDGE_MIN_FREE_KBYTES_STALL", HostWide, 86,
    /\ d.Latest.MinFreeKbytes > 0 /\ total > 2 * 1024 * 1024
    /\ d.Latest.MinFreeKbytes < total \div 400 /\ d.VMStat.AllocStallDirect >= 10)

RuleCorePatternPipeStall(d) ==
  Edge("EDGE_CORE_PATTERN_PIPE_STALL", PerProcess, 89,
    AtLeast(2, d.Processes, LAMBDA p :
              p.Wchan \in {"do_coredump", "pipe_wait"} /\ p.State \in {"D", "S"}))

RuleTCPPAWSDrop(d) ==
  Edge("EDGE_TCP_PAWS_DROP", HostWide, 88,
    d.NetStat.PAWSEstab >= 10 \/ d.NetStat.PAWSPassive >= 10)

RuleCMAZoneExhaustion(d) ==
  LET mem == d.Latest.Memory IN
  Edge("EDGE_CMA_ZONE_EXHAUSTION", HostWide, 90,
    mem.CmaTotal > 0 /\ mem.CmaFree <= (mem.CmaTotal * 5) \div 100)

RuleLoopDeviceSerialization(d) ==
  Edge("EDGE_LOOP_DEVICE_SERIALIZATION", HostWide, 87,
    \E name \in DOMAIN d.Disks \cap {"loop0"} : d.Disks[name].UtilPercent >= Pct(80))

RuleRTSchedThrottling(d) ==
  Edge("EDGE_RT_SCHED_THROTTLING", PerProcess, 89,
    /\ d.Latest.SchedRTRuntimeUS > 0
    /\ Some(d.Processes, LAMBDA p : p.Policy \in {1, 2} /\ p.CPUPercent >= Pct(90)))

RuleNumaAutoBalancingScanStall(d) ==
  Edge("EDGE_NUMA_AUTO_BALANCING_SCAN_STALL", HostWide, 86,
    /\ d.Latest.NumaBalancing > 0 /\ d.VMStat.NumaPteUpdates >= 20000
    /\ d.TotalCPUUtil.SystemPercent >= Pct(10))

\* A queue length that could not be read counts as the default of 16384.
RuleInotifyQueueOverflow(d) ==
  LET inotify == d.Latest.Inotify IN
  Edge("EDGE_INOTIFY_QUEUE_OVERFLOW", HostWide, 85,
    /\ inotify.Available /\ inotify.MaxQueuedEvents <= 16384
    /\ inotify.MaxUserWatches >= 65536
    /\ d.ContextSwitches >= 40000 \/ d.ProcessesCreated >= 100)

RuleCgroupCFSBurstStarvation(d) ==
  Edge("EDGE_CGROUP_CFS_BURST_STARVATION", PerProcess, 92,
    Some(d.Cgroups, LAMBDA g :
           g.NrBursts > 0 /\ g.NrThrottled > 0 /\ g.ThrottledUsec >= 50000))

RuleZswapCompressorContention(d) ==
  LET vm == d.VMStat IN
  Edge("EDGE_ZSWAP_COMPRESSOR_CONTENTION", HostWide, 86,
    /\ vm.Zswpout >= 500 \/ vm.ZswapRejectReclaimFail > 0
    /\ vm.AllocStallDirect > 0 \/ d.TotalCPUUtil.SystemPercent >= Pct(20))

RuleNetIfaceCarrierFlap(d) ==
  Edge("EDGE_NET_IFACE_CARRIER_FLAP", HostWide, 90,
    Some(d.NetIfaces, LAMBDA i :
           /\ i.CarrierChanges >= 3
           /\ i.RxCRCErrors > 0 \/ i.TxCarrierErrors > 0 \/ i.OperState # "up"))

RuleTHPAllocFallbackStall(d) ==
  LET vm == d.VMStat IN
  Edge("EDGE_THP_ALLOC_FALLBACK_STALL", HostWide, 88,
    /\ vm.THPFaultFallback >= 500 \/ vm.THPCollapseAllocFailed >= 20
    /\ vm.CompactStall > 0 \/ vm.AllocStallDirect > 0)

RuleSchedMigrationBounce(d) ==
  Edge("EDGE_SCHED_MIGRATION_BOUNCE", HostWide, 85,
    /\ d.Latest.SchedMigrationCostNS > 0 /\ d.Latest.SchedMigrationCostNS <= 25000
    /\ \/ d.VMStat.NumaMiss >= 2500
       \/ d.ContextSwitches >= 35000 /\ d.TotalCPUUtil.BusyPercent >= Pct(50))

RuleIPFragReasmDrops(d) ==
  LET net == d.NetStat IN
  Edge("EDGE_IP_FRAG_REASM_DROPS", HostWide, 85,
    /\ net.IPReasmFails >= 10 \/ net.IPReasmTimeout >= 5
    /\ net.IPReasmReqds >= 20 \/ net.UDPRcvbufErrors # 0)

RuleCgroupV2FreezeHang(d) ==
  Edge("EDGE_CGROUP_V2_FREEZE_HANG", PerProcess, 96,
    \/ d.Latest.Cgroups.Frozen
    \/ Some(d.Processes, LAMBDA p :
              /\ p.Wchan \in {"cgroup_freeze_task", "cgroup_do_freeze"}
              /\ p.State \in {"D", "T", "S"}))

\* Ratios to limits that could not be read are zero.
RuleSysVShmSegmentLimit(d) ==
  LET shm == d.Latest.SysVShm
      mem == d.Latest.Memory
  IN  Edge("EDGE_SYSV_SHM_SEGMENT_LIMIT", HostWide, 91,
        /\ shm.Available
        /\ \/ Ratio(shm.AllocatedSegments, shm.ShmMNI) >= 900
           \/ Ratio(shm.AllocatedPages, shm.ShmAll) >= 900
        /\ \/ mem.MemTotal > 0 /\ mem.Shmem >= mem.MemTotal \div 5
           \/ shm.AllocatedSegments >= 3000)

RuleNetDevRxNoBuffers(d) ==
  Edge("EDGE_NET_DEV_RX_NO_BUFFERS", HostWide, 89,
    Some(d.NetIfaces, LAMBDA i :
           i.OperState = "up" /\ (i.RxMissedErrors >= 20 \/ i.RxFIFOErrors >= 20)))

RuleTHPDefragAlways(d) ==
  Edge("EDGE_TRANSPARENT_HUGEPAGE_DEFRAG_ALWAYS", HostWide, 86,
    /\ d.Latest.THPDefragMode = "always"
    /\ d.VMStat.CompactStall >= 15 \/ d.VMStat.AllocStallDirect >= 5)

RuleCgroupMemoryMaxOOMStall(d) ==
  Edge("EDGE_CGROUP_MEMORY_MAX_OOM_STALL", PerProcess, 90,
    Some(d.Cgroups, LAMBDA g : g.MemEventsMax >= 5))

RuleTHPScanExhaustionStall(d) ==
  Edge("EDGE_THP_SCAN_EXHAUSTION_STALL", HostWide, 86, d.VMStat.THPScanExceed >= 50)

RuleNetDevTxQueueTimeout(d) ==
  Edge("EDGE_NET_DEV_TX_QUEUE_TIMEOUT", HostWide, 88,
    Some(d.NetIfaces, LAMBDA i :
           i.OperState = "up" /\ (i.TxErrors >= 20 \/ i.TxCarrierErrors >= 5)))

RuleCgroupCPUCorePinStarvation(d) ==
  Edge("EDGE_CGROUP_CPU_CORE_PIN_STARVATION", PerProcess, 90,
    /\ d.TotalCPUUtil.IdlePercent >= Pct(50)
    /\ Some(d.Processes, LAMBDA p :
              /\ InSubgroup(p) /\ p.CpusAllowed = 1
              /\ p.CPUPercent >= Pct(85)))

RuleHugeTLBVMAFaultMisalign(d) ==
  LET vm == d.VMStat IN
  Edge("EDGE_HUGETLB_VMA_MISALIGN_FAULT", HostWide, 86,
    /\ vm.THPFaultFallback >= 50
    /\ vm.THPFaultAlloc = 0 \/ vm.THPFaultFallback >= 2 * vm.THPFaultAlloc)

RuleTCPChronicRTOCollapse(d) ==
  LET net == d.NetStat IN
  Edge("EDGE_TCP_CHRONIC_RTO_COLLAPSE", HostWide, 88,
    net.TCPTimeouts >= 15 \/ (net.TCPTimeouts >= 5 /\ net.RetransSegs >= 50))

\* Only the first cgroup that was throttled is looked at.
RuleMemcgSockMemoryThrottle(d) ==
  LET throttled == {k \in DOMAIN d.Cgroups : /\ d.Cgroups[k].MemoryHighEvents > 0
                                             /\ d.Cgroups[k].Path # "/"}
      First(k) == k \in throttled /\ \A other \in throttled : k <= other
      Active(p) == p.ReadBytes > 0 \/ p.WriteBytes > 0 \/ p.OpenFDs >= 10
  IN  Edge("EDGE_MEMCG_SOCK_MEMORY_THROTTLE", PerProcess, 85,
        \E k \in throttled : First(k) /\
          Some(d.Processes, LAMBDA p : p.CgroupPath = d.Cgroups[k].Path /\ Active(p)))

RuleTHPUseZeroPageSpin(d) ==
  Edge("EDGE_TRANSPARENT_HUGEPAGE_USE_ZERO_PAGE_SPIN", HostWide, 87,
    d.VMStat.THPZeroPageAlloc >= 100 /\ d.TotalCPUUtil.SystemPercent >= Pct(15))

RuleSysfsCPUHotplugLockContention(d) ==
  Edge("EDGE_SYSFS_CPU_HOTPLUG_LOCK_CONTENTION", PerProcess, 89,
    IdleIn({"cpu_hotplug_lock", "cpuset_mutex", "cpufreq_policy_rwsem"}, Pct(1), d))

RuleNetIPMulticastIGMPReportStall(d) ==
  LET net == d.NetStat IN
  Edge("EDGE_NET_IP_MULTICAST_IGMP_REPORT_STALL", HostWide, 86,
    net.UDPInErrors >= 50 \/ (net.UDPInErrors >= 20 /\ net.UDPRcvbufErrors >= 10))

RuleProcPIDTaskPthreadLimit(d) ==
  Edge("EDGE_PROC_PID_TASK_PTHREAD_LIMIT", PerProcess, 88,
    Some(d.Processes, LAMBDA p : p.NumThreads >= 500))

RuleZoneNormalFragmentation(d) ==
  LET buddy == d.Latest.BuddyInfo IN
  Edge("EDGE_ZONE_NORMAL_FRAGMENTATION", HostWide, 88,
    /\ buddy.Available /\ buddy.NormalFreePages # 0
    /\ buddy.NormalOrder0Pages >= 500 /\ buddy.NormalHighOrderPages = 0)

RuleNetDevCarrierDownDrop(d) ==
  Edge("EDGE_NET_DEV_CARRIER_DOWN_DROP", HostWide, 92,
    Some(d.NetIfaces, LAMBDA i :
           /\ i.OperState \in {"down", "dormant"}
           /\ i.TxErrors > 0 \/ i.TxCarrierErrors > 0))

RuleProcPtracedStoppedStall(d) ==
  Edge("EDGE_PROC_PTRACED_STOPPED_STALL", PerProcess, 94,
    Some(d.Processes, LAMBDA p :
           /\ p.State \in {"T", "t"} \/ (p.TracerPID # 0 /\ p.CPUTime = 0)
           /\ p.NumThreads > 0))

RuleMemSlabDentryPressure(d) ==
  LET mem == d.Latest.Memory IN
  Edge("EDGE_MEM_SLAB_DENTRY_PRESSURE", HostWide, 89,
    /\ mem.MemTotal > 0 /\ Ratio(mem.SUnreclaim, mem.MemTotal) >= 300
    /\ d.VMStat.PgScanDirect >= 100)

RuleNetIPReasmTimeoutStall(d) ==
  Edge("EDGE_NET_IP_REASM_TIMEOUT_STALL", HostWide, 90,
    d.NetStat.IPReasmTimeout >= 5 \/ d.NetStat.IPReasmFails >= 20)

RuleMemMinWatermarkBounce(d) ==
  LET mem == d.Latest.Memory IN
  Edge("EDGE_MEM_MIN_WATERMARK_BOUNCE", HostWide, 88,
    /\ mem.MemTotal > 0 /\ mem.MemAvailable < mem.MemTotal \div 10
    /\ d.VMStat.PgScanDirect >= 50 /\ d.VMStat.AllocStallDirect = 0)

RuleProcCommSwitchTruncation(d) ==
  Edge("EDGE_PROC_COMM_SWITCH_TRUNCATION", PerProcess, 87,
    Some(d.Processes, LAMBDA p :
           p.NumThreads >= 150 /\ p.Wchan \in {"do_prctl", "prctl_set_mm"}))

RuleEpollPollTimeoutBurst(d) ==
  Edge("EDGE_EPOLL_POLL_TIMEOUT_BURST", PerProcess, 88,
    Some(d.Processes, LAMBDA p :
           /\ p.Wchan \in {"epoll_pwait", "do_epoll_wait", "ep_poll"}
           /\ p.NumThreads >= 50 /\ p.CPUPercent < 2 /\ p.OpenFDs >= 100))

RuleNetTCPSynFloodDrop(d) ==
  Edge("EDGE_NET_TCP_SYN_FLOOD_DROP", HostWide, 91, d.NetStat.SyncookiesFailed >= 10)

RuleSysfsPowerThrottleEvent(d) ==
  Edge("EDGE_SYSFS_POWER_THROTTLE_EVENT", HostWide, 89,
    /\ Heated(d, 75) /\ ~Heated(d, 85)
    /\ Some(d.Latest.CPUFreq, LAMBDA c : c.MaxFreq > 0 /\ 4 * c.CurFreq < 3 * c.MaxFreq))

RuleProcZombieParentDeadlock(d) ==
  Edge("EDGE_PROC_ZOMBIE_PARENT_DEADLOCK", PerProcess, 92,
    /\ ManyInState(10, "Z", d)
    /\ Some(d.Processes, LAMBDA p :
              p.Wchan \in {"do_wait", "wait4", "sys_wait4"} /\ p.State = "S"))

RuleIOSchedulerMismatch(d) ==
  Edge("EDGE_IO_SCHEDULER_MISMATCH", HostWide, 70,
    Some(d.Disks, LAMBDA k :
           /\ k.Scheduler = (IF k.Rotational THEN "none" ELSE "bfq")
           /\ k.AvgQueueLatencyMS > Ms(20)))

oomWhitelistedComms ==
  {"systemd", "init", "sshd", "kubelet", "containerd", "dockerd", "journald"}

RuleOOMImmuneMemoryHog(d) ==
  LET mem == d.Latest.Memory IN
  SevereEdge("EDGE_OOM_IMMUNE_MEMORY_HOG", PerProcess, 80,
    /\ mem.MemTotal # 0 /\ Ratio(mem.MemAvailable, mem.MemTotal) < 150
    /\ Some(d.Processes, LAMBDA p :
              /\ p.OOMScoreAdj = -1000 /\ p.Comm \notin oomWhitelistedComms
              /\ 10 * p.RSSKB > 3 * mem.MemTotal))

RuleSharedCacheRSSIllusion(d) ==
  Edge("EDGE_SHARED_CACHE_RSS_ILLUSION", PerProcess, 92,
    Some(d.Processes, LAMBDA p :
           /\ p.SmapsAvailable /\ p.RSSKB >= 500 * 1024
           /\ 10 * p.SharedClean >= 7 * p.RSSKB /\ 2 * p.PSS <= p.RSSKB))

GetTier3Rules(d) ==
  <<RuleTHPCompactionStall(d), RulePTYStdoutLock(d),
    RuleHPETClocksourceDegrade(d), RuleCgroupDirtyThrottle(d),
    RuleFutexContention(d), RuleNUMARemoteThrashing(d), RuleCPUAffinityPin(d),
    RuleZombieDefunctLeak(d), RuleCgroupOOMKillEvent(d),
    RuleDMA32ZoneExhaustion(d), RuleKSMScanStall(d), RuleIRQCoreStorm(d),
    RuleSlabUnreclaimableLeak(d), RuleInotifyWatchExhaustion(d),
    RuleRCUSchedulerStall(d), RuleTHPCollapseStall(d),
    RuleFUSEFilesystemLatency(d), RuleCompactionFailureRate(d),
    RuleMajorPageFaultStorm(d), RuleTHPSplitStorm(d),
    RuleKHugepagedCPUBurn(d), RuleDiskDeviceIOErrHang(d),
    RuleKcompactdCPUSpin(d), RuleMinFreeKbytesStall(d),
    RuleCorePatternPipeStall(d), RuleTCPPAWSDrop(d), RuleCMAZoneExhaustion(d),
    RuleLoopDeviceSerialization(d), RuleRTSchedThrottling(d),
    RuleNumaAutoBalancingScanStall(d), RuleInotifyQueueOverflow(d),
    RuleCgroupCFSBurstStarvation(d), RuleZswapCompressorContention(d),
    RuleNetIfaceCarrierFlap(d), RuleTHPAllocFallbackStall(d),
    RuleSchedMigrationBounce(d), RuleIPFragReasmDrops(d),
    RuleCgroupV2FreezeHang(d), RuleSysVShmSegmentLimit(d),
    RuleNetDevRxNoBuffers(d), RuleTHPDefragAlways(d),
    RuleCgroupMemoryMaxOOMStall(d), RuleTHPScanExhaustionStall(d),
    RuleNetDevTxQueueTimeout(d), RuleCgroupCPUCorePinStarvation(d),
    RuleHugeTLBVMAFaultMisalign(d), RuleTCPChronicRTOCollapse(d),
    RuleMemcgSockMemoryThrottle(d), RuleTHPUseZeroPageSpin(d),
    RuleSysfsCPUHotplugLockContention(d),
    RuleNetIPMulticastIGMPReportStall(d), RuleProcPIDTaskPthreadLimit(d),
    RuleZoneNormalFragmentation(d), RuleNetDevCarrierDownDrop(d),
    RuleProcPtracedStoppedStall(d), RuleMemSlabDentryPressure(d),
    RuleNetIPReasmTimeoutStall(d), RuleMemMinWatermarkBounce(d),
    RuleProcCommSwitchTruncation(d), RuleEpollPollTimeoutBurst(d),
    RuleNetTCPSynFloodDrop(d), RuleSysfsPowerThrottleEvent(d),
    RuleProcZombieParentDeadlock(d), RuleIOSchedulerMismatch(d),
    RuleOOMImmuneMemoryHog(d), RuleSharedCacheRSSIllusion(d)>>
=============================================================================
