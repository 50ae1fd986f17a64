----------------------------- MODULE Tier1Rules -----------------------------
(***************************************************************************)
(* The hard limits of internal/analyzer/tier1_base.go, in the order in     *)
(* which GetTier1Rules registers them.                                     *)
(***************************************************************************)
EXTENDS RuleBase

RuleCPUSaturation(d) ==
  LET cores == Len(d.Latest.CPU.PerCore)
      numCores == IF cores = 0 THEN 1 ELSE cores
  IN  Hard("BASE_CPU_SATURATION", PerProcess,
           {"CONT_CONTEXT_SWITCH_STORM", "CONT_SCHED_RUNQUEUE_STARVATION",
            "CONT_RUNAWAY_CPU_PROCESS"}, 95,
           /\ d.TotalCPUUtil.IdlePercent < Pct(2)
           /\ d.ProcsRunning >= 2 * numCores /\ d.ProcsRunning >= 4)

RuleOOMDanger(d) ==
  LET mem == d.Latest.Memory IN
  Hard("BASE_OOM_DANGER", PerProcess,
       {"CONT_KSWAPD_CPU_SPIN", "CONT_WORKINGSET_REFAULT_THRASHING",
        "CONT_SWAP_THRASHING", "CONT_MEMCG_RECLAIM_DIRECT_STALL"}, 95,
       /\ mem.MemTotal # 0 /\ Ratio(mem.MemAvailable, mem.MemTotal) < 30
       /\ mem.SwapTotal = 0 \/ Ratio(mem.SwapFree, mem.SwapTotal) < 50)

RuleDiskSpaceFull(d) ==
  Hard("BASE_DISK_SPACE_FULL", HostWide, NoSuppression, 100,
       Some(d.Latest.DiskSpace, LAMBDA m : m.UsedPercent >= Pct(99)))

\* Physical devices: not dm-* and loop*, here "dm-0" and "loop0".
Physical(disks) == DOMAIN disks \ {"dm-0", "loop0"}

RuleDiskHWSaturation(d) ==
  Hard("BASE_DISK_HARDWARE_SATURATION", PerProcess,
       {"CONT_IO_QUEUE_LATENCY", "CONT_DSTATE_PILEUP"}, 95,
       \E name \in Physical(d.Disks) : d.Disks[name].UtilPercent >= Pct(95))

RuleThermalThrottling(d) ==
  Hard("BASE_THERMAL_THROTTLING", HostWide, NoSuppression, 90,
       /\ Heated(d, 85)
       /\ Some(d.Latest.CPUFreq, LAMBDA c :
                 c.MaxFreq > 0 /\ 10 * c.CurFreq < 4 * c.MaxFreq))

RuleInodeExhaustion(d) ==
  Hard("BASE_INODE_EXHAUSTION", HostWide, NoSuppression, 100,
       Some(d.Latest.DiskSpace, LAMBDA m :
              m.InodesTotal > 0 /\ (m.InodesUsedPercent >= Pct(99) \/ m.InodesFree = 0)))

RuleIOServiceLatency(d) ==
  Hard("BASE_IO_SERVICE_LATENCY", HostWide, NoSuppression, 92,
       Some(d.Disks, LAMBDA k :
              /\ k.ReadsCompleted + k.WritesCompleted >= 10
              /\ \/ k.ReadsCompleted > 0 /\ k.AvgReadLatencyMS >= Ms(50)
                 \/ k.WritesCompleted > 0 /\ k.AvgWriteLatencyMS >= Ms(50)))

RuleTCPSocketMemoryPressure(d) ==
  Hard("BASE_TCP_SOCKET_MEM_PRESS", HostWide, NoSuppression, 95,
       d.NetStat.TCPMemoryPressures > 0 /\ d.NetStat.TCPAbortOnMemory > 0)

RuleSwapDeviceSaturation(d) ==
  Hard("BASE_SWAP_DEVICE_SATURATION", HostWide, NoSuppression, 92,
       \/ d.VMStat.Pswpout >= 25000
       \/ d.VMStat.Pswpout >= 10000 /\ d.VMStat.Pswpin >= 2000)

RuleFSReadOnlyRemount(d) ==
  Hard("BASE_FS_READONLY_REMOUNT", HostWide, NoSuppression, 98,
       \E path \in DOMAIN d.Latest.DiskSpace \cap {"/", "/var", "/tmp", "/home", "/data"} :
         d.Latest.DiskSpace[path].ReadOnly)

RuleSystemFileTableFull(d) ==
  LET fnr == d.Latest.FileNR IN
  Hard("BASE_SYSTEM_FILE_TABLE_FULL", HostWide, {"CONT_FD_EXHAUSTION"}, 98,
       /\ fnr.Available /\ fnr.Max # 0
       /\ Ratio(fnr.Allocated, fnr.Max) >= 990 /\ fnr.Allocated >= 1000)

RuleGlobalOOMKillActive(d) ==
  Hard("BASE_GLOBAL_OOM_KILL_ACTIVE", HostWide,
       {"BASE_OOM_DANGER", "CONT_KSWAPD_CPU_SPIN"}, 99, d.VMStat.OOMKill > 0)

RuleConntrackTableHardDrop(d) ==
  LET ct == d.Latest.Conntrack IN
  Hard("BASE_CONNTRACK_TABLE_HARD_DROP", HostWide, {"CONT_CONNTRACK_EXHAUSTION"}, 97,
       /\ ct.Available /\ ct.Max # 0
       /\ Ratio(ct.Count, ct.Max) >= 995 /\ ct.Count >= ct.Max)

GetTier1Rules(d) ==
  <<RuleCPUSaturation(d), RuleOOMDanger(d), RuleDiskSpaceFull(d),
    RuleDiskHWSaturation(d), RuleThermalThrottling(d), RuleInodeExhaustion(d),
    RuleIOServiceLatency(d), RuleTCPSocketMemoryPressure(d),
    RuleSwapDeviceSaturation(d), RuleFSReadOnlyRemount(d),
    RuleSystemFileTableFull(d), RuleGlobalOOMKillActive(d),
    RuleConntrackTableHardDrop(d)>>
=============================================================================
