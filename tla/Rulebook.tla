------------------------------ MODULE Rulebook ------------------------------
(***************************************************************************)
(* The catalogue: all rules as NewCorrelationEngine registers them, and    *)
(* the resource by whose pressure the engine calibrates each of them.      *)
(***************************************************************************)
EXTENDS Tier1Rules, Tier2Rules, Tier3Rules

RegisteredRules(d) == GetTier1Rules(d) \o GetTier2Rules(d) \o GetTier3Rules(d)

\* What the rules say of themselves when nothing happens.
Catalogue == RegisteredRules(DiffSnapshots(SystemSnapshot, SystemSnapshot))

RuleIds == {Catalogue[i].id : i \in DOMAIN Catalogue}

\* What is found by the rules of one tier, and of all three.
FoundBy(rules) == UNION {rules[i].finds : i \in DOMAIN rules}
Fired(d) ==
  FoundBy(GetTier1Rules(d)) \cup FoundBy(GetTier2Rules(d)) \cup FoundBy(GetTier3Rules(d))

\* isMemoryRule, isIORule and isCPURule go by words in the ID.  These are the IDs
\* that hold them.
MemoryRules == {
  "BASE_OOM_DANGER", "BASE_TCP_SOCKET_MEM_PRESS", "BASE_SWAP_DEVICE_SATURATION",
  "BASE_GLOBAL_OOM_KILL_ACTIVE", "CONT_SWAP_THRASHING",
  "CONT_CGROUP_MEM_HIGH_THROTTLE", "CONT_WORKINGSET_REFAULT_THRASHING",
  "CONT_PAGECACHE_POLLUTION_STREAM", "CONT_HUGETLB_POOL_EXHAUSTION",
  "CONT_KSWAPD_CPU_SPIN", "CONT_NET_TCP_MEMORY_ALLOC_FAIL",
  "CONT_MEM_COMPACT_MIGRATION_FAIL_RATE", "CONT_MEMCG_RECLAIM_DIRECT_STALL",
  "CONT_PSI_FULL_MEMORY_PRESSURE_SPIKE", "CONT_PROCESS_SWAP_PINNED",
  "CONT_MEM_DIRECT_RECLAIM_STALL", "EDGE_THP_COMPACTION_STALL",
  "EDGE_CGROUP_OOM_KILL_EVENT", "EDGE_ZONE_DMA32_EXHAUSTION",
  "EDGE_SLAB_UNRECLAIM_LEAK", "EDGE_THP_COLLAPSE_STALL", "EDGE_THP_SPLIT_STORM",
  "EDGE_CMA_ZONE_EXHAUSTION", "EDGE_ZSWAP_COMPRESSOR_CONTENTION",
  "EDGE_THP_ALLOC_FALLBACK_STALL", "EDGE_CGROUP_MEMORY_MAX_OOM_STALL",
  "EDGE_THP_SCAN_EXHAUSTION_STALL", "EDGE_HUGETLB_VMA_MISALIGN_FAULT",
  "EDGE_MEMCG_SOCK_MEMORY_THROTTLE", "EDGE_MEM_SLAB_DENTRY_PRESSURE",
  "EDGE_MEM_MIN_WATERMARK_BOUNCE", "EDGE_OOM_IMMUNE_MEMORY_HOG"}

IORules == {
  "BASE_DISK_SPACE_FULL", "BASE_DISK_HARDWARE_SATURATION",
  "BASE_IO_SERVICE_LATENCY", "CONT_DSTATE_PILEUP", "CONT_BLK_MQ_TAG_STARVATION",
  "CONT_IO_QUEUE_LATENCY", "CONT_CGROUP_IO_THROTTLE_STALL",
  "CONT_DM_QUEUE_CONGESTION", "CONT_AIO_EVENT_LIMIT_SATURATION",
  "CONT_STORAGE_BLK_THROTTLE_STALL", "CONT_PSI_SOME_IO_PRESSURE_SPIKE",
  "CONT_REMOTE_STORAGE_RPC_HANG", "EDGE_DISK_DEVICE_IOERR_HANG",
  "EDGE_IO_SCHEDULER_MISMATCH"}

CPURules == {
  "BASE_CPU_SATURATION", "CONT_VCPU_STEAL_TIME",
  "CONT_SCHED_RUNQUEUE_STARVATION", "CONT_CPU_GOVERNOR_POWERSAVE_LAG",
  "CONT_KSOFTIRQD_SATURATION", "CONT_CGROUP_V1_CPU_SHARES_STARVATION",
  "CONT_SCHED_YIELD_SPIN_CHURN", "CONT_SCHED_AUTOGROUP_STARVATION",
  "CONT_SCHED_MIGRATION_COST_OVERHEAD", "CONT_PSI_SOME_CPU_PRESSURE_SPIKE",
  "CONT_RUNAWAY_CPU_PROCESS", "CONT_CPU_KERNEL_SPINLOCK_BURN",
  "EDGE_CPU_AFFINITY_PIN", "EDGE_RCU_SCHEDULER_STALL",
  "EDGE_KHUGEPAGED_CPU_BURN", "EDGE_KCOMPACTD_CPU_SPIN",
  "EDGE_RT_SCHED_THROTTLING", "EDGE_SCHED_MIGRATION_BOUNCE",
  "EDGE_CGROUP_CPU_CORE_PIN_STARVATION",
  "EDGE_SYSFS_CPU_HOTPLUG_LOCK_CONTENTION"}

ResourceOf(id) ==
  IF id \in MemoryRules THEN "memory"
  ELSE IF id \in IORules THEN "io"
  ELSE IF id \in CPURules THEN "cpu" ELSE "none"
=============================================================================
