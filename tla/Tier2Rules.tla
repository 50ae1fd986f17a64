----------------------------- MODULE Tier2Rules -----------------------------
(***************************************************************************)
(* The contention rules of internal/analyzer/tier2_contention.go, in the   *)
(* order in which GetTier2Rules registers them.                            *)
(***************************************************************************)
EXTENDS RuleBase

RuleDStatePileup(d) ==
  Contention("CONT_DSTATE_PILEUP", PerProcess, 88,
    ManyInState(3, "D", d))

RuleSwapThrashing(d) ==
  Contention("CONT_SWAP_THRASHING", HostWide,
    IF MemoryStall(d, Pct(30)) THEN 95 ELSE 85,
    d.VMStat.PgScanDirect > 0 /\ d.VMStat.AllocStallDirect > 0)

\* Faulty variant: only the first cgroup is looked at.
RuleFirstCgroupThrottled(d) ==
  Contention("CONT_CGROUP_THROTTLED", PerProcess, 92,
    \E k \in DOMAIN d.Cgroups :
      /\ \A other \in DOMAIN d.Cgroups : k <= other
      /\ d.Cgroups[k].ThrottledUsec >= 100000 /\ d.Cgroups[k].NrThrottled > 0)

RuleCgroupThrottled(d) ==
  Contention("CONT_CGROUP_THROTTLED", PerProcess, 92,
    Some(d.Cgroups, LAMBDA g : g.ThrottledUsec >= 100000 /\ g.NrThrottled > 0))

RuleFDExhaustion(d) ==
  Contention("CONT_FD_EXHAUSTION", PerProcess, 95,
    Some(d.Processes, LAMBDA p :
           p.MaxFDs > 0 /\ p.OpenFDs > 0 /\ Ratio(p.OpenFDs, p.MaxFDs) >= 900))

RuleSoftIRQUnbalance(d) ==
  Contention("CONT_SOFTIRQ_UNBALANCE", HostWide, 88,
    /\ Len(d.PerCoreCPUUtil) >= 2 /\ d.TotalCPUUtil.IdlePercent >= Pct(50)
    /\ Some(d.PerCoreCPUUtil, LAMBDA c : c.SoftIRQPercent >= Pct(80)))

RuleTCPListenDrops(d) ==
  Rule("CONT_TCP_LISTEN_DROPS", 2, HostWide,
    {"CONT_TCP_LISTEN_OVERFLOW_STALL", "CONT_TCP_SYN_QUEUE_OVERFLOW"}, "HIGH", 92,
    d.NetStat.ListenDrops > 0 \/ d.NetStat.ListenOverflows > 0)

RulePIDExhaustion(d) ==
  Contention("CONT_PID_EXHAUSTION", PerProcess, 92,
    Ratio(Cardinality(DOMAIN d.Processes), d.Latest.PIDMax) >= 950)

RuleTimeWaitPortExhaustion(d) ==
  LET ports == d.Latest.PortRange IN
  Contention("CONT_TIMEWAIT_PORT_EXHAUSTION", HostWide, 90,
    /\ ports.High > ports.Low
    /\ Ratio(d.Latest.SockStat.TCPTimeWait, ports.High - ports.Low + 1) >= 850)

RuleVCPUStealTime(d) ==
  Contention("CONT_VCPU_STEAL_TIME", HostWide, 95,
    \/ d.TotalCPUUtil.StealPercent >= Pct(15)
    \/ Some(d.PerCoreCPUUtil, LAMBDA c : c.StealPercent >= Pct(30)))

\* Ratios to the memory of the host: no reading, no ratio.
RuleBalloonMemoryOvercommit(d) ==
  LET mem == d.Latest.Memory
      balloon == d.Latest.Virt.BalloonKB
  IN  Contention("CONT_BALLOON_OVERCOMMIT", HostWide, 90,
        /\ mem.MemTotal # 0
        /\ \/ Ratio(balloon, mem.MemTotal) >= 200
           \/ balloon # 0 /\ Ratio(mem.MemAvailable, mem.MemTotal) < 150)

RuleConntrackExhaustion(d) ==
  LET ct == d.Latest.Conntrack IN
  Contention("CONT_CONNTRACK_EXHAUSTION", HostWide, 95,
    ct.Available /\ Ratio(ct.Count, ct.Max) >= 900)

RuleARPNeighborTableOverflow(d) ==
  LET neigh == d.Latest.Neighbor IN
  Contention("CONT_ARP_NEIGHBOR_OVERFLOW", HostWide, 90,
    neigh.Available /\ Ratio(neigh.ActiveEntries, neigh.GCThresh3) >= 850)

RuleTCPSYNQueueOverflow(d) ==
  Contention("CONT_TCP_SYN_QUEUE_OVERFLOW", HostWide, 90,
    d.NetStat.TCPReqQFullDoCookies > 0)

RuleBlockHardwareTagStarvation(d) ==
  Contention("CONT_BLK_MQ_TAG_STARVATION", PerProcess, 88,
    AtLeast(2, d.Processes, LAMBDA p : /\ p.Wchan \in {"blk_mq_get_tag", "io_schedule"}
                                       /\ p.ReadBytes > 0 \/ p.WriteBytes > 0))

\* The times are those since boot.
RuleSchedRunqueueStarvation(d) ==
  LET sched == d.Latest.SchedStat IN
  Contention("CONT_SCHED_RUNQUEUE_STARVATION", HostWide, 85,
    /\ sched.Available /\ sched.RunningTimeMS >= 100
    /\ Ratio(sched.RunqueueWaitTimeMS, sched.RunningTimeMS) >= 1500)

RuleCgroupMemoryHighThrottle(d) ==
  Contention("CONT_CGROUP_MEM_HIGH_THROTTLE", HostWide, 92,
    Some(d.Cgroups, LAMBDA g : g.MemoryHighEvents > 0))

RuleIOSchedulerQueueLatency(d) ==
  Contention("CONT_IO_QUEUE_LATENCY", HostWide, 88,
    Some(d.Disks, LAMBDA k : /\ k.ReadsCompleted + k.WritesCompleted >= 20
                             /\ k.AvgQueueLatencyMS >= Ms(100)))

RulePageTableLockContention(d) ==
  Contention("CONT_PAGE_TABLE_LOCK", PerProcess, 85,
    ManyIn(2, {"mmap_lock", "mmap_read_lock", "page_table_lock",
               "down_read_killable"}, d))

RuleOrphanSocketLeak(d) ==
  LET sock == d.Latest.SockStat IN
  Contention("CONT_ORPHAN_SOCKET_LEAK", HostWide, 88,
    /\ sock.TCPOrphan >= 1000
    /\ \/ sock.TCPOrphan >= 5000
       \/ sock.TCPInUse > 0 /\ sock.TCPOrphan >= sock.TCPInUse \div 2)

RuleContextSwitchStorm(d) ==
  Contention("CONT_CONTEXT_SWITCH_STORM", HostWide, 88,
    /\ d.ContextSwitches \div d.Duration >= 100000
    /\ d.TotalCPUUtil.SystemPercent >= Pct(20) /\ d.TotalCPUUtil.IdlePercent < Pct(25))

RuleCPUGovernorPowersaveLag(d) ==
  Contention("CONT_CPU_GOVERNOR_POWERSAVE_LAG", HostWide, 86,
    /\ d.TotalCPUUtil.BusyPercent >= Pct(75)
    /\ Some(d.Latest.CPUFreq, LAMBDA c :
              /\ c.Governor = "powersave" /\ c.MaxFreq > 0
              /\ c.CurFreq <= c.MaxFreq \div 2))

RuleKsoftirqdSaturation(d) ==
  Contention("CONT_KSOFTIRQD_SATURATION", PerProcess, 89,
    /\ Some(d.Processes, LAMBDA p : p.Comm = "ksoftirqd/0" /\ p.CPUPercent >= Pct(40))
    /\ \/ d.TotalCPUUtil.SoftIRQPercent >= Pct(20)
       \/ d.TotalCPUUtil.BusyPercent >= Pct(50))

RuleWorkingsetRefaultThrashing(d) ==
  Contention("CONT_WORKINGSET_REFAULT_THRASHING", HostWide, 87,
    /\ d.VMStat.WorkingsetRefaultFile >= 5000
    /\ \/ d.VMStat.AllocStallDirect > 0 \/ d.VMStat.PgScanDirect > 0
       \/ MemoryStall(d, Pct(15)))

RuleDirtyPageFlushSaturation(d) ==
  LET mem == d.Latest.Memory IN
  Contention("CONT_DIRTY_PAGE_FLUSH_SATURATION", PerProcess, 90,
    /\ mem.MemTotal # 0
    /\ \/ Ratio(mem.Dirty, mem.MemTotal) >= 150
       \/ Ratio(mem.Writeback, mem.MemTotal) >= 100
    /\ SomeIn({"balance_dirty_pages"}, d))

RuleFsyncJournalStall(d) ==
  Contention("CONT_FSYNC_JOURNAL_STALL", PerProcess, 88,
    ManyIn(2, {"jbd2_log_wait_commit", "vfs_fsync", "xfs_log_reserve",
               "sync_buffer"}, d))

RulePageCachePollutionStream(d) ==
  Contention("CONT_PAGECACHE_POLLUTION_STREAM", PerProcess, 86,
    /\ Some(d.Processes, LAMBDA p : p.ReadBytes + p.WriteBytes >= 50 * 1024 * 1024)
    /\ d.VMStat.WorkingsetRefaultFile >= 1000 \/ d.VMStat.PgScanDirect > 0)

RuleSoftnetBacklogDrops(d) ==
  Contention("CONT_NET_SOFTNET_BACKLOG_DROPS", HostWide, 89,
    d.NetStat.SoftnetDropped > 0 \/ d.NetStat.SoftnetTimeSqueeze >= 50)

RuleTCPRetransmitStorm(d) ==
  LET net == d.NetStat IN
  Contention("CONT_TCP_RETRANSMIT_STORM", HostWide, 88,
    net.OutSegs >= 500 /\ Ratio(net.RetransSegs, net.OutSegs) >= 50)

RuleTCPZeroWindowStall(d) ==
  LET net == d.NetStat IN
  Contention("CONT_TCP_ZEROWINDOW_STALL", PerProcess, 87,
    \/ net.TCPWinProbe >= 5 \/ net.TCPZeroWindowDrop > 0
    \/ SomeIn({"sk_stream_wait_memory"}, d) /\ net.TCPWinProbe > 0)

RuleCoredumpBurstStorm(d) ==
  Contention("CONT_COREDUMP_BURST_STORM", PerProcess, 91,
    /\ Some(d.Processes, LAMBDA p :
              p.Comm \in {"systemd-coredum", "apport", "abrt-hook-ccpp"})
    /\ d.ProcessesCreated >= 10)

RuleUnixSocketLogBlock(d) ==
  Contention("CONT_UNIX_SOCKET_LOG_BLOCK", PerProcess, 88,
    ManyIn(2, {"unix_wait_for_peer", "unix_stream_sendmsg", "unix_dgram_sendmsg"}, d))

RuleUDPBufferOverrun(d) ==
  LET net == d.NetStat IN
  Contention("CONT_UDP_BUFFER_OVERRUN", HostWide, 89,
    \/ net.UDPRcvbufErrors > 0 \/ net.UDPSndbufErrors > 0
    \/ net.UDPInErrors >= 10 /\ net.OutSegs > 0)

RuleTCPListenOverflowStall(d) ==
  LET net == d.NetStat IN
  Contention("CONT_TCP_LISTEN_OVERFLOW_STALL", HostWide, 91,
    /\ net.ListenOverflows > 0
    /\ net.TCPAbortOnData > 0 \/ net.ListenDrops > 0)

RuleHugeTLBPoolExhaustion(d) ==
  LET mem == d.Latest.Memory IN
  Contention("CONT_HUGETLB_POOL_EXHAUSTION", HostWide, 93,
    mem.HugePagesTotal > 0 /\ mem.HugePagesFree = 0 /\ mem.HugePagesRsvd > 0)

RulePtraceTracerAttach(d) ==
  Contention("CONT_PTRACE_TRACER_ATTACH", PerProcess, 94,
    Some(d.Processes, LAMBDA p :
           p.TracerPID > 0 /\ (p.CPUPercent >= Pct(20) \/ p.CPUTime > 0)))

RuleSysVSemaphoreLimit(d) ==
  LET sem == d.Latest.SysVSem IN
  Contention("CONT_SYSV_SEMAPHORE_LIMIT", HostWide, 92,
    /\ sem.Available
    /\ \/ sem.SemMNS > 0 /\ sem.AllocatedSemaphores >= (sem.SemMNS * 90) \div 100
       \/ sem.SemMNI > 0 /\ sem.AllocatedSemSets >= (sem.SemMNI * 90) \div 100)

RuleTCPTimeWaitBucketOverflow(d) ==
  LET buckets == d.Latest.TCPMaxTWBuckets IN
  Contention("CONT_TCP_TIMEWAIT_BUCKET_OVERFLOW", HostWide, 94,
    \/ d.NetStat.TCPTimeWaitOverflow > 0
    \/ /\ buckets > 0 /\ d.Latest.SockStat.TCPTimeWait >= (buckets * 85) \div 100
       /\ d.NetStat.OutSegs > 0)

\* The pressure is compared without asking whether it could be read.
RuleCgroupIOThrottleStall(d) ==
  Contention("CONT_CGROUP_IO_THROTTLE_STALL", PerProcess, 91,
    /\ d.Latest.PSI.IO.Full >= Pct(10)
    /\ Some(d.Processes, LAMBDA p :
              /\ InSubgroup(p)
              /\ p.Wchan \in {"io_schedule", "bdi_writeback_workfn"} \/ p.State = "D"))

RuleAuditdBacklogWaitStall(d) ==
  LET channels == {"kauditd_wait", "audit_log_start", "audit_receive"} IN
  Contention("CONT_AUDITD_BACKLOG_WAIT_STALL", PerProcess, 90,
    ManyIn(2, channels, d) /\ (d.ProcsBlocked >= 2 \/ BlockedIn(channels, d)))

RuleTCPSndbufExhaustion(d) ==
  LET net == d.NetStat IN
  Contention("CONT_TCP_SNDBUF_EXHAUSTION", PerProcess, 88,
    /\ SomeIn({"sk_stream_wait_memory", "tcp_sendmsg_locked"}, d)
    /\ \/ net.TCPSlowStartRetrans > 0 \/ net.TCPMemoryPressures > 0
       \/ net.TCPWinProbe > 0 \/ net.RetransSegs >= 10)

\* The pressure is compared without asking whether it could be read.
RuleXFSAILPushStall(d) ==
  Contention("CONT_XFS_AIL_PUSH_STALL", PerProcess, 89,
    /\ ManyIn(2, {"xfs_log_reserve", "xfs_trans_reserve", "xfs_iomap_write_allocate",
                  "xfsaild", "xfslogd"}, d)
    /\ \/ d.Latest.PSI.IO.Some >= Pct(15) \/ d.ProcsBlocked >= 2
       \/ ManyInState(2, "D", d))

\* "dm-0" and "kcryptd" stand for the names that begin with or contain them.
RuleDMQueueCongestion(d) ==
  LET Congested(k) == k.UtilPercent >= Pct(80) /\ k.AvgWriteLatencyMS >= Ms(50)
      congested == {k \in DOMAIN d.Disks \cap {"dm-0"} : Congested(d.Disks[k])}
      Worker(p) == \/ p.Wchan \in {"kcryptd", "dm_bufio_prefetch", "dm_request_fn"}
                   \/ p.Comm = "kcryptd"
  IN  Contention("CONT_DM_QUEUE_CONGESTION", PerProcess, 89,
        \E k \in congested : \/ d.Disks[k].IOsInProgress >= 5
                             \/ Some(d.Processes, Worker))

RuleTCPSYNCookieFloodStall(d) ==
  LET net == d.NetStat IN
  Contention("CONT_TCP_SYN_COOKIE_FLOOD_STALL", HostWide, 91,
    /\ net.SyncookiesSent >= 50 \/ net.TCPReqQFullDoCookies >= 50
    /\ net.SyncookiesFailed > 0 \/ net.OutSegs >= 500)

RuleEpollWakeupContention(d) ==
  Contention("CONT_EPOLL_WAKEUP_CONTENTION", PerProcess, 87,
    /\ ManyIn(8, {"do_epoll_wait", "ep_poll", "ep_poll_callback"}, d)
    /\ d.ContextSwitches >= 50000 /\ d.TotalCPUUtil.SystemPercent >= Pct(15))

RuleAIOEventLimitSaturation(d) ==
  LET Submits(p) == \/ p.Wchan \in {"io_submit", "io_getevents", "wait_on_page_bit"}
                    \/ p.State = "D"
  IN  Contention("CONT_AIO_EVENT_LIMIT_SATURATION", PerProcess, 95,
        /\ Ratio(d.Latest.AIO.AIONR, d.Latest.AIO.AIOMaxNR) >= 900
        /\ Some(d.Processes, Submits) \/ d.ProcsBlocked >= 2)

RuleKswapdCPUSpin(d) ==
  Contention("CONT_KSWAPD_CPU_SPIN", PerProcess, 92,
    /\ Some(d.Processes, LAMBDA p : p.Comm = "kswapd0" /\ p.CPUPercent >= Pct(40))
    /\ \/ d.VMStat.PgScanDirect > 0 \/ d.VMStat.AllocStallDirect > 0
       \/ d.VMStat.WorkingsetRefaultFile >= 1000 \/ MemoryStall(d, Pct(15)))

RuleMDRAIDResyncStall(d) ==
  Contention("CONT_MD_RAID_RESYNC_STALL", HostWide, 94,
    /\ d.Latest.MDStat.Available /\ d.Latest.MDStat.ActiveResync
    /\ \/ Some(d.Disks, LAMBDA k : \/ k.IOsInProgress >= 4
                                   \/ k.AvgWriteLatencyMS >= Ms(50)
                                   \/ k.UtilPercent >= Pct(80))
       \/ IOStall(d, Pct(15)))

RuleNetOutOfOrderStall(d) ==
  LET net == d.NetStat IN
  Contention("CONT_NET_OUT_OF_ORDER_STALL", HostWide, 88,
    /\ net.TCPOFOQueue >= 500
    /\ \/ net.TCPRcvCollapsed # 0 \/ net.TCPOFODrop # 0
       \/ net.OutSegs >= 300 /\ Ratio(net.RetransSegs, net.OutSegs) >= 30)

RulePOSIXRTSigQueueSaturation(d) ==
  Contention("CONT_POSIX_RTSIG_QUEUE_SATURATION", PerProcess, 90,
    Some(d.Processes, LAMBDA p :
           /\ Ratio(p.SigQQueued, p.SigQMax) >= 850
           /\ p.NumThreads >= 16 \/ p.CPUPercent >= Pct(20) \/ p.State = "D"))

RuleUDPSndbufExhaustion(d) ==
  LET net == d.NetStat IN
  Contention("CONT_UDP_SNDBUF_EXHAUSTION", HostWide, 88,
    net.UDPSndbufErrors >= 25 /\ (net.OutSegs >= 200 \/ net.UDPRcvbufErrors # 0))

RuleCgroupV1CPUSharesStarvation(d) ==
  Contention("CONT_CGROUP_V1_CPU_SHARES_STARVATION", PerProcess, 86,
    /\ d.TotalCPUUtil.BusyPercent >= Pct(70)
    /\ Some(d.Latest.Cgroups.Groups, LAMBDA g :
              g.CPUShares > 0 /\ g.CPUShares <= 64 /\ g.Path # "/"))

\* A huge page is 2048 kB.
RuleHugepageLeakNoReuse(d) ==
  LET mem == d.Latest.Memory IN
  Contention("CONT_HUGEPAGE_LEAK_NO_REUSE", HostWide, 89,
    /\ mem.HugePagesTotal # 0 /\ mem.HugePagesRsvd # 0 /\ mem.MemTotal # 0
    /\ Ratio(mem.HugePagesTotal * 2048, mem.MemTotal) >= 250
    /\ Ratio(mem.MemAvailable, mem.MemTotal) < 200)

RuleNetTCPAbortOnClose(d) ==
  Contention("CONT_NET_TCP_ABORT_ON_CLOSE", HostWide, 87,
    d.NetStat.TCPAbortOnClose >= 20 /\ d.NetStat.OutSegs >= 200)

RuleSchedYieldSpinChurn(d) ==
  Contention("CONT_SCHED_YIELD_SPIN_CHURN", PerProcess, 92,
    Some(d.Processes, LAMBDA p :
           p.VoluntaryCtxtSwitches >= 15000 /\ p.CPUPercent >= Pct(35)))

RuleNetTCPCollapsePrune(d) ==
  LET net == d.NetStat IN
  Contention("CONT_NET_TCP_COLLAPSE_PRUNE", HostWide, 89,
    /\ net.TCPRcvCollapsed >= 20
    /\ \/ net.RetransSegs >= 50 \/ net.TCPAbortOnMemory # 0
       \/ net.TCPZeroWindowDrop # 0)

RuleNetTCPMemoryAllocFail(d) ==
  LET net == d.NetStat IN
  Contention("CONT_NET_TCP_MEMORY_ALLOC_FAIL", HostWide, 91,
    /\ net.TCPAbortOnMemory >= 5
    /\ \/ net.TCPMemoryPressures # 0 \/ net.TCPZeroWindowDrop # 0
       \/ net.TCPReqQFullDoCookies # 0)

RuleNetTCPZeroWindowDrop(d) ==
  LET net == d.NetStat IN
  Contention("CONT_NET_TCP_ZERO_WINDOW_DROP", HostWide, 89,
    net.TCPZeroWindowDrop >= 10 \/ (net.TCPWinProbe >= 10 /\ net.OutSegs >= 200))

RuleFutexPIDeadlockStall(d) ==
  Contention("CONT_FUTEX_PI_DEADLOCK_STALL", PerProcess, 90,
    Some(d.Processes, LAMBDA p :
           /\ p.Wchan \in {"futex_lock_pi", "rt_mutex_slowlock", "futex_wait_requeue_pi"}
           /\ p.CPUPercent < Pct(1) /\ (p.State = "D" \/ p.NumThreads >= 4)))

RuleNetARPTableTrash(d) ==
  LET arp == d.Latest.Neighbor IN
  Contention("CONT_NET_ARP_TABLE_TRASH", HostWide, 92,
    /\ arp.Available /\ arp.GCThresh3 # 0
    /\ \/ Ratio(arp.ActiveEntries, arp.GCThresh3) >= 850
       \/ arp.ActiveEntries >= (arp.GCThresh3 * 85) \div 100)

RuleDirtyPagesDirectSyncStall(d) ==
  Contention("CONT_DIRTY_PAGES_DIRECT_SYNC_STALL", PerProcess, 91,
    \/ IdleIn({"sync_inodes", "wait_on_page_writeback", "write_cache_pages"}, Pct(5), d)
    \/ d.VMStat.NRDirty >= 2000)

RuleNFSRPCClientSaturation(d) ==
  Contention("CONT_NFS_RPC_SLOT_TABLE_SATURATION", PerProcess, 93,
    BlockedIn({"nfs_wait_client", "rpc_wait_bit_killable", "xprt_reserve_xprt"}, d))

RuleUnixSocketBacklogOverflow(d) ==
  Contention("CONT_UNIX_SOCKET_BACKLOG_OVERFLOW", PerProcess, 90,
    IdleIn({"unix_stream_sendmsg", "unix_wait_for_peer", "unix_dgram_sendmsg"}, Pct(1), d))

RuleVFSInodeLockContention(d) ==
  Contention("CONT_VFS_INODE_LOCK_CONTENTION", PerProcess, 91,
    BlockedIn({"inode_lock_shared", "inode_lock", "ext4_file_write_iter",
               "xfs_file_write_iter"}, d))

RuleKernelLockdBlocked(d) ==
  Contention("CONT_KERNEL_LOCKD_BLOCKED", PerProcess, 89,
    Some(d.Processes, LAMBDA p :
           /\ p.Wchan \in {"fcntl_setlk", "locks_lock_inode_wait", "flock_lock_inode"}
           /\ p.State \in {"D", "S"} /\ p.CPUPercent < Pct(1)))

RuleSchedAutogroupStarvation(d) ==
  Contention("CONT_SCHED_AUTOGROUP_STARVATION", PerProcess, 88,
    /\ d.TotalCPUUtil.IdlePercent <= Pct(40) /\ d.ProcsRunning >= 4
    /\ Some(d.Processes, LAMBDA p :
              p.NumThreads >= 16 /\ p.CPUPercent < Pct(15) /\ p.State = "R"))

RuleFtraceRingBufferStall(d) ==
  Contention("CONT_FTRACE_RING_BUFFER_STALL", PerProcess, 90,
    IdleIn({"ring_buffer_wait", "tracing_wait_pipe", "trace_event_raw_event"}, Pct(1), d))

RuleNetDevGROCellDrop(d) ==
  Contention("CONT_NET_DEV_GRO_CELL_DROP", HostWide, 92,
    d.NetStat.SoftnetDropped >= 20 /\ d.NetStat.SoftnetTimeSqueeze >= 20)

RuleMemCompactMigrationFailRate(d) ==
  LET vm == d.VMStat IN
  Contention("CONT_MEM_COMPACT_MIGRATION_FAIL_RATE", HostWide, 91,
    vm.CompactStall >= 50 /\ vm.CompactFail >= 25 /\ 2 * vm.CompactFail >= vm.CompactStall)

RuleNetTCPFastOpenFail(d) ==
  Contention("CONT_NET_TCP_FASTOPEN_FAIL", HostWide, 90,
    d.NetStat.TCPFastOpenActiveFail + d.NetStat.TCPFastOpenPassiveFail >= 5)

RuleNetTCPSynAckRetransStall(d) ==
  Contention("CONT_NET_TCP_SYN_ACK_RETRANS_STALL", HostWide, 92,
    d.NetStat.TCPSynRetrans >= 20)

RuleNetSocketRecvStall(d) ==
  Contention("CONT_NET_SOCKET_RECV_STALL", PerProcess, 90,
    BlockedIn({"sk_wait_data", "tcp_recvmsg", "inet_csk_accept"}, d))

RuleStorageBlkThrottleStall(d) ==
  Contention("CONT_STORAGE_BLK_THROTTLE_STALL", PerProcess, 94,
    BlockedIn({"blk_throtl_dispatch_work_fn", "throtl_pending_timer_fn"}, d))

RuleNetTCPDeferAcceptTimeout(d) ==
  Contention("CONT_NET_TCP_DEFER_ACCEPT_TIMEOUT", HostWide, 88,
    d.NetStat.TCPDeferAcceptDrop >= 10)

RuleMemcgReclaimDirectStall(d) ==
  Contention("CONT_MEMCG_RECLAIM_DIRECT_STALL", PerProcess, 94,
    BlockedIn({"try_to_free_mem_cgroup_pages", "mem_cgroup_reclaim",
               "mem_cgroup_handle_over_high"}, d))

RuleXFSAllocBtreeContention(d) ==
  Contention("CONT_XFS_ALLOC_BTREE_CONTENTION", PerProcess, 92,
    BlockedIn({"xfs_btree_lookup", "xfs_alloc_ag_vextent", "xfs_alloc_fixup_trees"}, d))

\* A migration cost that could not be read is zero too.
RuleSchedMigrationCostOverhead(d) ==
  Contention("CONT_SCHED_MIGRATION_COST_OVERHEAD", HostWide, 89,
    d.Latest.SchedMigrationCostNS = 0 /\ d.ContextSwitches >= 50000)

RuleNetTCPZeroWindowAdvert(d) ==
  Contention("CONT_NET_TCP_ZERO_WINDOW_ADVERT", HostWide, 91,
    d.NetStat.TCPWinProbe >= 20 \/ d.NetStat.TCPZeroWindowDrop >= 10)

RulePSISomeIOPressureSpike(d) ==
  Contention("CONT_PSI_SOME_IO_PRESSURE_SPIKE", HostWide, 93, IOStall(d, Pct(25)))

RulePSISomeCPUPressureSpike(d) ==
  Contention("CONT_PSI_SOME_CPU_PRESSURE_SPIKE", HostWide, 92, CPUStall(d, Pct(30)))

RulePSIFullMemoryPressureSpike(d) ==
  Contention("CONT_PSI_FULL_MEMORY_PRESSURE_SPIKE", HostWide, 95,
    d.Latest.PSI.Available /\ d.Latest.PSI.Memory.Full >= Pct(15))

RulePipeReadBurstBlock(d) ==
  Contention("CONT_PIPE_READ_BURST_BLOCK", PerProcess, 90,
    BlockedIn({"pipe_read", "fifo_read"}, d))

RuleTCPCloseWaitLeak(d) ==
  LET closeWait == Sockets(d, "CloseWait") IN
  Contention("CONT_TCP_CLOSE_WAIT_LEAK", PerProcess, 90,
    /\ closeWait >= 100
    /\ \/ Ratio(closeWait, Sockets(d, "Established") + 1) >= 100
       \/ closeWait >= 500)

\* The load is in tenths.  Cores that could not be read count as one.
RuleSustainedLoadSaturation(d) ==
  LET cores == Len(d.Latest.CPU.PerCore)
      numCores == IF cores = 0 THEN 1 ELSE cores
  IN  Contention("CONT_SUSTAINED_LOAD_SATURATION", HostWide,
        IF d.Latest.PSI.Available /\ d.Latest.PSI.CPU.Some > Pct(10) THEN 95 ELSE 88,
        /\ d.Latest.LoadAvg.Available
        /\ d.Latest.LoadAvg.Load1 >= 20 * numCores
        /\ d.Latest.LoadAvg.Load5 >= 15 * numCores)

RuleRunawayCPUProcess(d) ==
  Contention("CONT_RUNAWAY_CPU_PROCESS", PerProcess, 92,
    Some(d.Processes, LAMBDA p :
           p.CpusAllowed # 1 /\ p.Policy = 0 /\ p.CPUPercent >= Pct(80)))

\* Less than a fifth of the memory is available.
MemoryScarce(mem) == mem.MemTotal > 0 /\ mem.MemAvailable < (mem.MemTotal \div 5)

RuleProcessSwapPinned(d) ==
  Contention("CONT_PROCESS_SWAP_PINNED", PerProcess, 85,
    /\ Some(d.Processes, LAMBDA p : p.SmapsAvailable /\ p.Swap > 512000)
    /\ MemoryScarce(d.Latest.Memory) \/ d.VMStat.Pswpin > 0)

RuleDentryCacheExplosion(d) ==
  Contention("CONT_DENTRY_CACHE_EXPLOSION", HostWide, 75,
    /\ d.Latest.Slab.Available /\ d.Latest.Slab.DentryCacheActive > 2000000
    /\ MemoryScarce(d.Latest.Memory))

RuleSecurityFanotifyStall(d) ==
  Contention("CONT_SECURITY_FANOTIFY_STALL", PerProcess, 95,
    Some(d.Processes, LAMBDA p :
           /\ p.Wchan \in {"fanotify_get_response", "fanotify_handle_event"}
           /\ p.State \in {"S", "D"} /\ p.CPUPercent < Pct(5)))

RuleFileLockGraphBlocked(d) ==
  Contention("CONT_FILE_LOCK_GRAPH_BLOCKED", PerProcess, 95,
    d.FileLocks.Available /\ d.FileLocks.BlockedLocks # <<>>)

RuleIPCUnixPeerCongestion(d) ==
  Contention("CONT_IPC_UNIX_PEER_CONGESTION", PerProcess, 90,
    Some(d.Processes, LAMBDA p :
           /\ p.Wchan \in {"unix_stream_sendmsg", "unix_wait_for_peer",
                           "sk_stream_wait_memory"}
           /\ p.State \in {"S", "D"} /\ p.CPUPercent < Pct(1)))

RuleMemDirectReclaimStall(d) ==
  LET mem == d.Latest.Memory IN
  Contention("CONT_MEM_DIRECT_RECLAIM_STALL", PerProcess, 95,
    /\ d.VMStat.AllocStallDirect > 0 /\ d.VMStat.PgScanDirect >= 100
    /\ \/ MemoryStall(d, Pct(10))
       \/ d.Latest.PSI.Available /\ d.Latest.PSI.Memory.Full >= Pct(5)
       \/ mem.MemTotal > 0 /\ mem.MemAvailable < (mem.MemTotal \div 10)
       \/ SomeIn({"alloc_pages_slowpath", "shrink_inactive_list"}, d))

RuleRemoteStorageRPCHang(d) ==
  Contention("CONT_REMOTE_STORAGE_RPC_HANG", PerProcess, 98,
    Some(d.Processes, LAMBDA p :
           /\ p.Wchan \in {"nfs_wait_bit_killable", "rpc_wait_bit_killable",
                           "nfs4_wait_clnt_recover", "cifs_reconnect_tcon",
                           "cifs_wait_for_response", "xprt_wait_for_buffer_space"}
           /\ p.State = "D" /\ p.CPUPercent = 0 /\ p.CPUTime = 0))

RuleCPUKernelSpinlockBurn(d) ==
  Contention("CONT_CPU_KERNEL_SPINLOCK_BURN", PerProcess, 94,
    Some(d.Processes, LAMBDA p :
           /\ p.CPUPercent >= Pct(75) /\ Ratio(p.STime, p.CPUTime) >= 800
           /\ \/ p.NonvoluntaryCtxtSwitches >= 5000
              \/ d.TotalCPUUtil.SystemPercent >= Pct(40)))

RuleCgroupCFSBurstThrottle(d) ==
  Contention("CONT_CGROUP_CFS_BURST_THROTTLE", PerProcess, 96,
    Some(d.Cgroups, LAMBDA g :
           /\ g.NrPeriods >= 10 /\ Ratio(g.NrThrottled, g.NrPeriods) >= 250
           /\ g.ThrottledUsec >= 150000 \/ CPUStall(d, Pct(15))))

GetTier2Rules(d) ==
  <<RuleDStatePileup(d), RuleSwapThrashing(d), RuleCgroupThrottled(d),
    RuleFDExhaustion(d), RuleSoftIRQUnbalance(d), RuleTCPListenDrops(d),
    RulePIDExhaustion(d), RuleTimeWaitPortExhaustion(d), RuleVCPUStealTime(d),
    RuleBalloonMemoryOvercommit(d), RuleConntrackExhaustion(d),
    RuleARPNeighborTableOverflow(d), RuleTCPSYNQueueOverflow(d),
    RuleBlockHardwareTagStarvation(d), RuleSchedRunqueueStarvation(d),
    RuleCgroupMemoryHighThrottle(d), RuleIOSchedulerQueueLatency(d),
    RulePageTableLockContention(d), RuleOrphanSocketLeak(d),
    RuleContextSwitchStorm(d), RuleCPUGovernorPowersaveLag(d),
    RuleKsoftirqdSaturation(d), RuleWorkingsetRefaultThrashing(d),
    RuleDirtyPageFlushSaturation(d), RuleFsyncJournalStall(d),
    RulePageCachePollutionStream(d), RuleSoftnetBacklogDrops(d),
    RuleTCPRetransmitStorm(d), RuleTCPZeroWindowStall(d),
    RuleCoredumpBurstStorm(d), RuleUnixSocketLogBlock(d),
    RuleUDPBufferOverrun(d), RuleTCPListenOverflowStall(d),
    RuleHugeTLBPoolExhaustion(d), RulePtraceTracerAttach(d),
    RuleSysVSemaphoreLimit(d), RuleTCPTimeWaitBucketOverflow(d),
    RuleCgroupIOThrottleStall(d), RuleAuditdBacklogWaitStall(d),
    RuleTCPSndbufExhaustion(d), RuleXFSAILPushStall(d),
    RuleDMQueueCongestion(d), RuleTCPSYNCookieFloodStall(d),
    RuleEpollWakeupContention(d), RuleAIOEventLimitSaturation(d),
    RuleKswapdCPUSpin(d), RuleMDRAIDResyncStall(d), RuleNetOutOfOrderStall(d),
    RulePOSIXRTSigQueueSaturation(d), RuleUDPSndbufExhaustion(d),
    RuleCgroupV1CPUSharesStarvation(d), RuleHugepageLeakNoReuse(d),
    RuleNetTCPAbortOnClose(d), RuleSchedYieldSpinChurn(d),
    RuleNetTCPCollapsePrune(d), RuleNetTCPMemoryAllocFail(d),
    RuleNetTCPZeroWindowDrop(d), RuleFutexPIDeadlockStall(d),
    RuleNetARPTableTrash(d), RuleDirtyPagesDirectSyncStall(d),
    RuleNFSRPCClientSaturation(d), RuleUnixSocketBacklogOverflow(d),
    RuleVFSInodeLockContention(d), RuleKernelLockdBlocked(d),
    RuleSchedAutogroupStarvation(d), RuleFtraceRingBufferStall(d),
    RuleNetDevGROCellDrop(d), RuleMemCompactMigrationFailRate(d),
    RuleNetTCPFastOpenFail(d), RuleNetTCPSynAckRetransStall(d),
    RuleNetSocketRecvStall(d), RuleStorageBlkThrottleStall(d),
    RuleNetTCPDeferAcceptTimeout(d), RuleMemcgReclaimDirectStall(d),
    RuleXFSAllocBtreeContention(d), RuleSchedMigrationCostOverhead(d),
    RuleNetTCPZeroWindowAdvert(d), RulePSISomeIOPressureSpike(d),
    RulePSISomeCPUPressureSpike(d), RulePSIFullMemoryPressureSpike(d),
    RulePipeReadBurstBlock(d), RuleTCPCloseWaitLeak(d),
    RuleSustainedLoadSaturation(d), RuleRunawayCPUProcess(d),
    RuleProcessSwapPinned(d), RuleDentryCacheExplosion(d),
    RuleSecurityFanotifyStall(d), RuleFileLockGraphBlocked(d),
    RuleIPCUnixPeerCongestion(d), RuleMemDirectReclaimStall(d),
    RuleRemoteStorageRPCHang(d), RuleCPUKernelSpinlockBurn(d),
    RuleCgroupCFSBurstThrottle(d)>>
=============================================================================
