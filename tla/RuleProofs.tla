----------------------------- MODULE RuleProofs -----------------------------
(***************************************************************************)
(* What all rules have in common: none of them finds more in a diff that   *)
(* holds less.  Poorer says what less is: a source that could not be read  *)
(* leaves zero, nothing or "not available" where another diff has its      *)
(* numbers.  Every rule is looked at once, in the order of registration.   *)
(***************************************************************************)
EXTENDS Rulebook, FiniteSetTheorems, TLAPS

\* The one rule that looks at the blocked file locks.
FileLocksRule == "CONT_FILE_LOCK_GRAPH_BLOCKED"

-----------------------------------------------------------------------------
(***************************************************************************)
(* d holds what e holds, or less of it.  The rules in `differ' may look at *)
(* the difference.                                                         *)
(***************************************************************************)

\* What is in every diff, and in every snapshot.
SameTotals(d, e) ==
  /\ d.Duration = e.Duration
  /\ d.ProcsRunning = e.ProcsRunning /\ d.ProcsBlocked = e.ProcsBlocked
  /\ d.ContextSwitches = e.ContextSwitches /\ d.ProcessesCreated = e.ProcessesCreated
  /\ d.TotalCPUUtil = e.TotalCPUUtil /\ d.PerCoreCPUUtil = e.PerCoreCPUUtil
  /\ d.Latest.Memory = e.Latest.Memory
  /\ Len(d.Latest.CPU.PerCore) = Len(e.Latest.CPU.PerCore)

\* The same, or what is left of it when it was not read.
OrZero(x, y) == x = y \/ x = 0
OrEmpty(x, y) == x = y \/ x = EmptyString
AllOrZero(r, s, fields) == (\A f \in fields : r[f] = s[f]) \/ (\A f \in fields : r[f] = 0)

\* The counters of the files with more than one.
NetstatCounters == DOMAIN NetStatInfo \ (SNMPCounters \cup SNMPIPCounters \cup SoftnetCounters)
StatusCounters ==
  {"VoluntaryCtxtSwitches", "NonvoluntaryCtxtSwitches", "TracerPID", "SigQQueued", "SigQMax"}
ThrottleCounters == {"ThrottledUsec", "NrThrottled", "NrPeriods", "NrBursts", "BurstUsec"}
MemoryEvents == {"OOMKills", "MemoryHighEvents", "MemEventsMax"}

\* The deltas.
VMStatPoorer(d, e) == d.VMStat = e.VMStat \/ \A c \in DOMAIN VMStatInfo : d.VMStat[c] = 0
NetStatPoorer(d, e) ==
  /\ AllOrZero(d.NetStat, e.NetStat, NetstatCounters)
  /\ AllOrZero(d.NetStat, e.NetStat, SNMPCounters)
  /\ AllOrZero(d.NetStat, e.NetStat, SNMPIPCounters)
  /\ AllOrZero(d.NetStat, e.NetStat, SoftnetCounters)

\* The devices and processes of which there are some.
SameRequests(k, l) ==
  /\ k.IOsInProgress = l.IOsInProgress /\ k.UtilPercent = l.UtilPercent
  /\ k.ReadsCompleted = l.ReadsCompleted /\ k.WritesCompleted = l.WritesCompleted
  /\ k.AvgReadLatencyMS = l.AvgReadLatencyMS /\ k.AvgWriteLatencyMS = l.AvgWriteLatencyMS
  /\ k.AvgQueueLatencyMS = l.AvgQueueLatencyMS
QueuePoorer(k, l, differ) ==
  /\ OrEmpty(k.Scheduler, l.Scheduler)
  /\ k.Rotational = l.Rotational \/ "EDGE_IO_SCHEDULER_MISMATCH" \in differ
DisksPoorer(d, e, differ) ==
  \A name \in DOMAIN d.Disks :
    /\ name \in DOMAIN e.Disks /\ SameRequests(d.Disks[name], e.Disks[name])
    /\ QueuePoorer(d.Disks[name], e.Disks[name], differ)

NetIfacesPoorer(d, e, differ) ==
  \A name \in DOMAIN d.NetIfaces :
    /\ name \in DOMAIN e.NetIfaces
    /\ \A c \in IfaceCounters : OrZero(d.NetIfaces[name][c], e.NetIfaces[name][c])
    /\ \/ d.NetIfaces[name].OperState = e.NetIfaces[name].OperState
       \/ /\ d.NetIfaces[name].OperState = EmptyString
          /\ "EDGE_NET_IFACE_CARRIER_FLAP" \in differ

\* What is read of a process, by file.
StatPoorer(p, q) ==
  /\ p.Comm = q.Comm /\ p.State = q.State /\ p.NumThreads = q.NumThreads
  /\ p.RSSKB = q.RSSKB /\ p.Policy = q.Policy /\ p.STime = q.STime
  /\ p.CPUTime = q.CPUTime /\ p.CPUPercent = q.CPUPercent
WchanPoorer(p, q) == OrEmpty(p.Wchan, q.Wchan)
IOPoorer(p, q) == \/ p.ReadBytes = q.ReadBytes /\ p.WriteBytes = q.WriteBytes
                  \/ p.ReadBytes = 0 /\ p.WriteBytes = 0
FDPoorer(p, q) == OrZero(p.OpenFDs, q.OpenFDs) /\ OrZero(p.MaxFDs, q.MaxFDs)
StatusPoorer(p, q, differ) ==
  /\ AllOrZero(p, q, StatusCounters)
  /\ \/ p.CpusAllowed = q.CpusAllowed
     \/ p.CpusAllowed = 0 /\ "CONT_RUNAWAY_CPU_PROCESS" \in differ
SmapsPoorer(p, q) ==
  \/ ~p.SmapsAvailable
  \/ /\ p.SmapsAvailable = q.SmapsAvailable /\ p.Swap = q.Swap /\ p.PSS = q.PSS
     /\ p.SharedClean = q.SharedClean
ProcessPoorer(p, q, differ) ==
  /\ StatPoorer(p, q) /\ WchanPoorer(p, q) /\ IOPoorer(p, q) /\ FDPoorer(p, q)
  /\ OrEmpty(p.CgroupPath, q.CgroupPath) /\ OrZero(p.OOMScoreAdj, q.OOMScoreAdj)
  /\ StatusPoorer(p, q, differ) /\ SmapsPoorer(p, q)
SomeProcesses(d, e, differ) ==
  \A pid \in DOMAIN d.Processes :
    /\ pid \in DOMAIN e.Processes
    /\ ProcessPoorer(d.Processes[pid], e.Processes[pid], differ)
ProcessesPoorer(d, e, differ) ==
  /\ SomeProcesses(d, e, differ)
  /\ d.Processes = e.Processes \/ IsFiniteSet(DOMAIN e.Processes)

\* Some of the cgroups.  One rule looks at the first throttled cgroup and its processes.
CgroupPoorer(g, h) ==
  /\ g.Path = h.Path
  /\ AllOrZero(g, h, ThrottleCounters) /\ AllOrZero(g, h, MemoryEvents)
SameThrottled(d, e) ==
  /\ DOMAIN d.Cgroups = DOMAIN e.Cgroups
  /\ \A k \in DOMAIN d.Cgroups :
       /\ d.Cgroups[k].Path = e.Cgroups[k].Path
       /\ d.Cgroups[k].MemoryHighEvents = e.Cgroups[k].MemoryHighEvents
  /\ \A pid \in DOMAIN d.Processes : d.Processes[pid].CgroupPath = e.Processes[pid].CgroupPath
CgroupsPoorer(d, e, differ) ==
  /\ \A k \in DOMAIN d.Cgroups : \E j \in DOMAIN e.Cgroups :
       CgroupPoorer(d.Cgroups[k], e.Cgroups[j])
  /\ \/ SameThrottled(d, e) \/ (\A x : x \notin DOMAIN d.Cgroups)
     \/ (\A x : x \notin DOMAIN d.Processes) \/ "EDGE_MEMCG_SOCK_MEMORY_THROTTLE" \in differ

CgroupDirPoorer(d, e) ==
  /\ d.Latest.Cgroups.Frozen => e.Latest.Cgroups.Frozen
  /\ \A k \in DOMAIN d.Latest.Cgroups.Groups : \E j \in DOMAIN e.Latest.Cgroups.Groups :
       /\ d.Latest.Cgroups.Groups[k].Path = e.Latest.Cgroups.Groups[j].Path
       /\ OrZero(d.Latest.Cgroups.Groups[k].CPUShares, e.Latest.Cgroups.Groups[j].CPUShares)

FileLocksPoorer(d, e, differ) ==
  d.FileLocks = e.FileLocks \/ d.FileLocks = SystemSnapshot.FileLocks \/ FileLocksRule \in differ

\* What the newer snapshot says: it is as in e, or it was not read.
PSIPoorer(d, e) ==
  LET Poor(p, q) == p = q \/ (p.Some = 0 /\ p.Full = 0)
  IN  /\ d.Latest.PSI.Available = e.Latest.PSI.Available \/ ~d.Latest.PSI.Available
      /\ Poor(d.Latest.PSI.CPU, e.Latest.PSI.CPU)
      /\ Poor(d.Latest.PSI.Memory, e.Latest.PSI.Memory)
      /\ Poor(d.Latest.PSI.IO, e.Latest.PSI.IO)

DiskSpacePoorer(d, e) ==
  \A path \in DOMAIN d.Latest.DiskSpace :
    /\ path \in DOMAIN e.Latest.DiskSpace
    /\ d.Latest.DiskSpace[path] = e.Latest.DiskSpace[path]

\* Without a frequency a core seems slow, without a zone or a table the others are all.
FrequencyRules ==
  {"BASE_THERMAL_THROTTLING", "CONT_CPU_GOVERNOR_POWERSAVE_LAG", "EDGE_SYSFS_POWER_THROTTLE_EVENT"}
CPUFreqPoorer(d, e, differ) ==
  \A c \in DOMAIN d.Latest.CPUFreq :
    /\ c \in DOMAIN e.Latest.CPUFreq
    /\ OrZero(d.Latest.CPUFreq[c].MaxFreq, e.Latest.CPUFreq[c].MaxFreq)
    /\ OrEmpty(d.Latest.CPUFreq[c].Governor, e.Latest.CPUFreq[c].Governor)
    /\ \/ d.Latest.CPUFreq[c].CurFreq = e.Latest.CPUFreq[c].CurFreq
       \/ FrequencyRules \subseteq differ
ThermalPoorer(d, e, differ) ==
  /\ \A z \in DOMAIN d.Latest.Thermal : /\ z \in DOMAIN e.Latest.Thermal
                                       /\ d.Latest.Thermal[z] = e.Latest.Thermal[z]
  /\ \/ DOMAIN d.Latest.Thermal = DOMAIN e.Latest.Thermal
     \/ (\A z : z \notin DOMAIN d.Latest.Thermal)
     \/ "EDGE_SYSFS_POWER_THROTTLE_EVENT" \in differ
SocketsPoorer(d, e, differ) ==
  \/ /\ DOMAIN d.Latest.TCPSockets = DOMAIN e.Latest.TCPSockets
     /\ \A table \in DOMAIN d.Latest.TCPSockets :
          d.Latest.TCPSockets[table] = e.Latest.TCPSockets[table]
  \/ (\A table : table \notin DOMAIN d.Latest.TCPSockets)
  \/ "CONT_TCP_CLOSE_WAIT_LEAK" \in differ

Gauges == {"LoadAvg", "Conntrack", "BuddyInfo", "MDStat", "FileNR", "Slab"}
GaugesPoorer(d, e) ==
  \A s \in Gauges : d.Latest[s] = e.Latest[s] \/ ~d.Latest[s].Available

\* Gauges of several files.
KSMPoorer(d, e) ==
  LET ksm == d.Latest.KSM IN
  \/ ~ksm.Available
  \/ /\ ksm.Available = e.Latest.KSM.Available /\ ksm.Running = e.Latest.KSM.Running
     /\ OrZero(ksm.PagesToScan, e.Latest.KSM.PagesToScan)
     /\ OrZero(ksm.PagesSharing, e.Latest.KSM.PagesSharing)
NeighborRules == {"CONT_ARP_NEIGHBOR_OVERFLOW", "CONT_NET_ARP_TABLE_TRASH"}
NeighborPoorer(d, e, differ) ==
  LET neigh == d.Latest.Neighbor IN
  \/ ~neigh.Available
  \/ /\ neigh.Available = e.Latest.Neighbor.Available
     /\ neigh.ActiveEntries = e.Latest.Neighbor.ActiveEntries
     /\ neigh.GCThresh3 = e.Latest.Neighbor.GCThresh3 \/ NeighborRules \subseteq differ
InotifyPoorer(d, e, differ) ==
  LET inotify == d.Latest.Inotify IN
  \/ ~inotify.Available
  \/ /\ inotify.Available = e.Latest.Inotify.Available
     /\ inotify.MaxUserWatches = e.Latest.Inotify.MaxUserWatches
     /\ \/ inotify.MaxQueuedEvents = e.Latest.Inotify.MaxQueuedEvents
        \/ "EDGE_INOTIFY_QUEUE_OVERFLOW" \in differ
SemaphoresPoorer(d, e) ==
  LET sem == d.Latest.SysVSem IN
  \/ ~sem.Available
  \/ /\ sem.Available = e.Latest.SysVSem.Available
     /\ sem.SemMNS = e.Latest.SysVSem.SemMNS /\ sem.SemMNI = e.Latest.SysVSem.SemMNI
     /\ OrZero(sem.AllocatedSemaphores, e.Latest.SysVSem.AllocatedSemaphores)
     /\ OrZero(sem.AllocatedSemSets, e.Latest.SysVSem.AllocatedSemSets)
SegmentsPoorer(d, e) ==
  LET shm == d.Latest.SysVShm IN
  \/ ~shm.Available
  \/ /\ shm.Available = e.Latest.SysVShm.Available
     /\ shm.AllocatedSegments = e.Latest.SysVShm.AllocatedSegments
     /\ shm.AllocatedPages = e.Latest.SysVShm.AllocatedPages
     /\ OrZero(shm.ShmMNI, e.Latest.SysVShm.ShmMNI)
     /\ OrZero(shm.ShmAll, e.Latest.SysVShm.ShmAll)

Settings == {"MinFreeKbytes", "TCPMaxTWBuckets", "NumaBalancing", "SchedRTRuntimeUS"}
SettingsPoorer(d, e) ==
  \A s \in Settings : OrZero(d.Latest[s], e.Latest[s])

ModesPoorer(d, e) ==
  /\ OrEmpty(d.Latest.Clocksource, e.Latest.Clocksource)
  /\ OrEmpty(d.Latest.THPDefragMode, e.Latest.THPDefragMode)

TablesPoorer(d, e) ==
  /\ \/ d.Latest.SockStat = e.Latest.SockStat
     \/ /\ d.Latest.SockStat.TCPInUse = 0 /\ d.Latest.SockStat.TCPOrphan = 0
        /\ d.Latest.SockStat.TCPTimeWait = 0
  /\ OrZero(d.Latest.AIO.AIONR, e.Latest.AIO.AIONR)
  /\ OrZero(d.Latest.AIO.AIOMaxNR, e.Latest.AIO.AIOMaxNR)
  /\ d.Latest.Virt = e.Latest.Virt \/ d.Latest.Virt.BalloonKB = 0

\* The totals since boot that are taken for deltas.
SinceBootPoorer(d, e, differ) ==
  /\ \/ d.Latest.SchedStat = e.Latest.SchedStat \/ ~d.Latest.SchedStat.Available
     \/ "CONT_SCHED_RUNQUEUE_STARVATION" \in differ
  /\ \/ d.Latest.IRQStat = e.Latest.IRQStat \/ ~d.Latest.IRQStat.Available
     \/ "EDGE_IRQ_CORE_STORM" \in differ

\* What is assumed when it was not read: a low migration cost, a low limit, few ports.
AssumedPoorer(d, e, differ) ==
  /\ \/ d.Latest.SchedMigrationCostNS = e.Latest.SchedMigrationCostNS
     \/ d.Latest.SchedMigrationCostNS = 0 /\ "CONT_SCHED_MIGRATION_COST_OVERHEAD" \in differ
  /\ d.Latest.PIDMax \in {e.Latest.PIDMax, 0} \/ "CONT_PID_EXHAUSTION" \in differ
  /\ \/ d.Latest.PortRange = e.Latest.PortRange \/ "CONT_TIMEWAIT_PORT_EXHAUSTION" \in differ
     \/ d.Latest.PortRange.Low = 0 /\ d.Latest.PortRange.High = 0

\* The numbers that rules divide by, or compare with what was not read.
Numbers(s) ==
  /\ s.Memory.MemTotal \in Nat /\ s.PIDMax \in Nat
  /\ s.PortRange.Low \in Nat /\ s.PortRange.High \in Nat
  /\ s.SockStat.TCPTimeWait \in Nat /\ s.TCPMaxTWBuckets \in Nat
  /\ s.SysVSem.SemMNS \in Nat /\ s.SysVSem.SemMNI \in Nat
  /\ s.SysVSem.AllocatedSemaphores \in Nat /\ s.SysVSem.AllocatedSemSets \in Nat
  /\ s.AIO.AIOMaxNR \in Nat

GaugesOfFilesPoorer(d, e, differ) ==
  /\ CPUFreqPoorer(d, e, differ) /\ ThermalPoorer(d, e, differ) /\ SocketsPoorer(d, e, differ)
  /\ KSMPoorer(d, e) /\ NeighborPoorer(d, e, differ) /\ InotifyPoorer(d, e, differ)
  /\ SemaphoresPoorer(d, e) /\ SegmentsPoorer(d, e)

Poorer(d, e, differ) ==
  /\ SameTotals(d, e) /\ VMStatPoorer(d, e) /\ NetStatPoorer(d, e)
  /\ DisksPoorer(d, e, differ) /\ NetIfacesPoorer(d, e, differ)
  /\ ProcessesPoorer(d, e, differ) /\ CgroupsPoorer(d, e, differ)
  /\ CgroupDirPoorer(d, e) /\ FileLocksPoorer(d, e, differ)
  /\ PSIPoorer(d, e) /\ DiskSpacePoorer(d, e) /\ GaugesPoorer(d, e)
  /\ GaugesOfFilesPoorer(d, e, differ)
  /\ SettingsPoorer(d, e) /\ ModesPoorer(d, e) /\ TablesPoorer(d, e)
  /\ SinceBootPoorer(d, e, differ) /\ AssumedPoorer(d, e, differ)
  /\ Numbers(e.Latest)

-----------------------------------------------------------------------------
(***************************************************************************)
(* One rule at a time: r on the poorer diff, with its locks, s on the      *)
(* other.                                                                  *)
(***************************************************************************)
Keeps(r, s, locks, differ) ==
  /\ r.finds \subseteq s.finds \cup differ
  /\ FileLocksRule \in r.finds => locks # SystemSnapshot.FileLocks

\* Where there are fewer processes, fewer are counted.
LEMMA FewerCounted ==
  ASSUME NEW d, NEW e, NEW differ, ProcessesPoorer(d, e, differ),
         NEW S, NEW T \in SUBSET DOMAIN e.Processes, S \subseteq T,
         d.Processes = e.Processes => S = T,
         NEW n \in Int, Cardinality(S) >= n
  PROVE  Cardinality(T) >= n
<1>1. CASE d.Processes = e.Processes
  BY <1>1
<1>2. CASE IsFiniteSet(DOMAIN e.Processes)
  <2>1. IsFiniteSet(T)
    BY <1>2, FS_Subset
  <2>2. Cardinality(S) <= Cardinality(T)
    BY <2>1, FS_Subset
  <2>3. Cardinality(S) \in Nat /\ Cardinality(T) \in Nat
    BY <2>1, FS_Subset, FS_CardinalityType
  <2> QED  BY <2>2, <2>3, SMT
<1> QED  BY <1>1, <1>2 DEF ProcessesPoorer

\* Those that wait in one of some channels, and those in a state.
LEMMA ManyInKept ==
  ASSUME NEW d, NEW e, NEW differ, ProcessesPoorer(d, e, differ)
  PROVE  \A n \in Int : \A channels :
           EmptyString \notin channels /\ ManyIn(n, channels, d) => ManyIn(n, channels, e)
<1> SUFFICES ASSUME NEW n \in Int, NEW channels, EmptyString \notin channels,
                    ManyIn(n, channels, d)
             PROVE  ManyIn(n, channels, e)
  OBVIOUS
<1> DEFINE Waiting(f) == {x \in DOMAIN f : f[x].Wchan \in channels}
<1>1. Cardinality(Waiting(d.Processes)) >= n
  BY DEF ManyIn, AtLeast
<1>2. Waiting(d.Processes) \subseteq Waiting(e.Processes)
  BY SMT DEF ProcessesPoorer, SomeProcesses, ProcessPoorer, WchanPoorer, OrEmpty
<1>3. Waiting(e.Processes) \in SUBSET DOMAIN e.Processes
  OBVIOUS
<1>4. d.Processes = e.Processes => Waiting(d.Processes) = Waiting(e.Processes)
  OBVIOUS
<1>5. Cardinality(Waiting(e.Processes)) >= n
  <2> HIDE DEF Waiting
  <2> QED  BY <1>1, <1>2, <1>3, <1>4, FewerCounted
<1> QED  BY <1>5 DEF ManyIn, AtLeast

LEMMA StateKept ==
  ASSUME NEW d, NEW e, NEW differ, ProcessesPoorer(d, e, differ)
  PROVE  \A n \in Int : \A state : ManyInState(n, state, d) => ManyInState(n, state, e)
<1> SUFFICES ASSUME NEW n \in Int, NEW state, ManyInState(n, state, d)
             PROVE  ManyInState(n, state, e)
  OBVIOUS
<1> DEFINE In(f) == {x \in DOMAIN f : f[x].State = state}
<1>1. Cardinality(In(d.Processes)) >= n
  BY DEF ManyInState, AtLeast
<1>2. In(d.Processes) \subseteq In(e.Processes)
  BY SMT DEF ProcessesPoorer, SomeProcesses, ProcessPoorer, StatPoorer
<1>3. In(e.Processes) \in SUBSET DOMAIN e.Processes
  OBVIOUS
<1>4. d.Processes = e.Processes => In(d.Processes) = In(e.Processes)
  OBVIOUS
<1>5. Cardinality(In(e.Processes)) >= n
  <2> HIDE DEF In
  <2> QED  BY <1>1, <1>2, <1>3, <1>4, FewerCounted
<1> QED  BY <1>5 DEF ManyInState, AtLeast

LEMMA SubgroupKept ==
  \A p, q : OrEmpty(p.CgroupPath, q.CgroupPath) /\ InSubgroup(p) => InSubgroup(q)
BY Zenon DEF OrEmpty, InSubgroup

LEMMA NoLocksRead == ~SystemSnapshot.FileLocks.Available
BY SMT DEF SystemSnapshot

\* The hard limits.
LEMMA Tier1Keeps ==
  ASSUME NEW d, NEW e, NEW differ, Poorer(d, e, differ)
  PROVE  \A j \in 1..13 : Keeps(GetTier1Rules(d)[j], GetTier1Rules(e)[j], d.FileLocks, differ)
<1> USE DEF Keeps, Poorer, FileLocksRule, Hard
<1>1. Keeps(RuleCPUSaturation(d), RuleCPUSaturation(e), d.FileLocks, differ)
  BY SMT DEF Rule, RuleCPUSaturation, SameTotals, Pct
<1>2. Keeps(RuleOOMDanger(d), RuleOOMDanger(e), d.FileLocks, differ)
  BY SMT DEF Rule, RuleOOMDanger, SameTotals, Ratio
<1>3. Keeps(RuleDiskSpaceFull(d), RuleDiskSpaceFull(e), d.FileLocks, differ)
  BY SMT DEF Rule, RuleDiskSpaceFull, DiskSpacePoorer, Some, Pct
<1>4. Keeps(RuleDiskHWSaturation(d), RuleDiskHWSaturation(e), d.FileLocks, differ)
  BY SMT DEF Rule, RuleDiskHWSaturation, DisksPoorer, SameRequests, Pct, Physical
<1>5. Keeps(RuleThermalThrottling(d), RuleThermalThrottling(e), d.FileLocks, differ)
  BY SMT DEF Rule, RuleThermalThrottling, GaugesOfFilesPoorer, Heated, Some, CPUFreqPoorer,
     ThermalPoorer, FrequencyRules, OrZero, OrEmpty
<1>6. Keeps(RuleInodeExhaustion(d), RuleInodeExhaustion(e), d.FileLocks, differ)
  BY SMT DEF Rule, RuleInodeExhaustion, DiskSpacePoorer, Some, Pct
<1>7. Keeps(RuleIOServiceLatency(d), RuleIOServiceLatency(e), d.FileLocks, differ)
  BY SMT DEF Rule, RuleIOServiceLatency, DisksPoorer, SameRequests, Some, Ms
<1>8. Keeps(RuleTCPSocketMemoryPressure(d), RuleTCPSocketMemoryPressure(e), d.FileLocks, differ)
  BY SMT DEF Rule, RuleTCPSocketMemoryPressure, NetStatPoorer, AllOrZero, NetstatCounters,
     SNMPCounters, SNMPIPCounters, SoftnetCounters, NetStatInfo, Counters
<1>9. Keeps(RuleSwapDeviceSaturation(d), RuleSwapDeviceSaturation(e), d.FileLocks, differ)
  BY SMT DEF Rule, RuleSwapDeviceSaturation, VMStatPoorer, VMStatInfo, Counters
<1>10. Keeps(RuleFSReadOnlyRemount(d), RuleFSReadOnlyRemount(e), d.FileLocks, differ)
  BY SMT DEF Rule, RuleFSReadOnlyRemount, DiskSpacePoorer
<1>11. Keeps(RuleSystemFileTableFull(d), RuleSystemFileTableFull(e), d.FileLocks, differ)
  BY SMT DEF Rule, RuleSystemFileTableFull, GaugesPoorer, Gauges, Ratio
<1>12. Keeps(RuleGlobalOOMKillActive(d), RuleGlobalOOMKillActive(e), d.FileLocks, differ)
  BY SMT DEF Rule, RuleGlobalOOMKillActive, VMStatPoorer, VMStatInfo, Counters
<1>13. Keeps(RuleConntrackTableHardDrop(d), RuleConntrackTableHardDrop(e), d.FileLocks, differ)
  BY SMT DEF Rule, RuleConntrackTableHardDrop, GaugesPoorer, Gauges, Ratio
<1> HIDE DEF Keeps, Poorer, FileLocksRule, Hard
<1> QED
  BY <1>1, <1>2, <1>3, <1>4, <1>5, <1>6, <1>7, <1>8, <1>9, <1>10, <1>11, <1>12, <1>13
  DEF GetTier1Rules

\* Contention.
LEMMA Tier2Keeps ==
  ASSUME NEW d, NEW e, NEW differ, Poorer(d, e, differ)
  PROVE  \A j \in 1..93 : Keeps(GetTier2Rules(d)[j], GetTier2Rules(e)[j], d.FileLocks, differ)
<1> USE DEF Keeps, Poorer, FileLocksRule, Contention
<1>1. Keeps(RuleDStatePileup(d), RuleDStatePileup(e), d.FileLocks, differ)
  BY StateKept, SMT DEF Rule, RuleDStatePileup
<1>2. Keeps(RuleSwapThrashing(d), RuleSwapThrashing(e), d.FileLocks, differ)
  BY SMT DEF Rule, RuleSwapThrashing, VMStatPoorer, PSIPoorer, VMStatInfo, Counters,
     MemoryStall, Pct
<1>3. Keeps(RuleCgroupThrottled(d), RuleCgroupThrottled(e), d.FileLocks, differ)
  BY SMT DEF Rule, RuleCgroupThrottled, CgroupsPoorer, CgroupPoorer, AllOrZero,
     ThrottleCounters, MemoryEvents, Some
<1>4. Keeps(RuleFDExhaustion(d), RuleFDExhaustion(e), d.FileLocks, differ)
  BY SMT DEF Rule, RuleFDExhaustion, ProcessesPoorer, SomeProcesses, ProcessPoorer, FDPoorer,
     OrZero, Some, Ratio
<1>5. Keeps(RuleSoftIRQUnbalance(d), RuleSoftIRQUnbalance(e), d.FileLocks, differ)
  BY SMT DEF Rule, RuleSoftIRQUnbalance, SameTotals, Some, Pct
<1>6. Keeps(RuleTCPListenDrops(d), RuleTCPListenDrops(e), d.FileLocks, differ)
  BY SMT DEF Rule, RuleTCPListenDrops, NetStatPoorer, AllOrZero, NetstatCounters, SNMPCounters,
     SNMPIPCounters, SoftnetCounters, NetStatInfo, Counters
<1>7. Keeps(RulePIDExhaustion(d), RulePIDExhaustion(e), d.FileLocks, differ)
  <2> DEFINE n == Cardinality(DOMAIN d.Processes)
             m == Cardinality(DOMAIN e.Processes)
  <2>1. CASE d.Processes = e.Processes
    BY <2>1, SMT DEF Rule, RulePIDExhaustion, Numbers, AssumedPoorer, Ratio
  <2>2. CASE IsFiniteSet(DOMAIN e.Processes)
    <3>1. DOMAIN d.Processes \subseteq DOMAIN e.Processes
      BY SMT DEF ProcessesPoorer, SomeProcesses
    <3>2. n \in Nat /\ m \in Nat /\ n <= m
      BY <2>2, <3>1, FS_Subset, FS_CardinalityType
    <3>3. \A max \in Nat \ {0} : (1000 * n) \div max >= 950 => (1000 * m) \div max >= 950
      BY <3>2, SMT
    <3> HIDE DEF n, m
    <3>4. Ratio(n, d.Latest.PIDMax) >= 950 =>
            Ratio(m, e.Latest.PIDMax) >= 950 \/ "CONT_PID_EXHAUSTION" \in differ
      BY <3>3, SMT DEF Numbers, AssumedPoorer, Ratio
    <3> QED  BY <3>4 DEF n, m, Rule, RulePIDExhaustion
  <2> QED  BY <2>1, <2>2 DEF ProcessesPoorer
<1>8. Keeps(RuleTimeWaitPortExhaustion(d), RuleTimeWaitPortExhaustion(e), d.FileLocks, differ)
  BY SMT DEF Rule, RuleTimeWaitPortExhaustion, Numbers, AssumedPoorer, TablesPoorer, Ratio
<1>9. Keeps(RuleVCPUStealTime(d), RuleVCPUStealTime(e), d.FileLocks, differ)
  BY SMT DEF Rule, RuleVCPUStealTime, SameTotals, Some, Pct
<1>10. Keeps(RuleBalloonMemoryOvercommit(d), RuleBalloonMemoryOvercommit(e), d.FileLocks, differ)
  <2>1. e.Latest.Memory.MemTotal \in Nat
    BY DEF Numbers
  <2> QED
    BY <2>1, SMT DEF Rule, RuleBalloonMemoryOvercommit, SameTotals, TablesPoorer, Ratio
<1>11. Keeps(RuleConntrackExhaustion(d), RuleConntrackExhaustion(e), d.FileLocks, differ)
  BY SMT DEF Rule, RuleConntrackExhaustion, GaugesPoorer, Gauges, Ratio
<1>12. Keeps(RuleARPNeighborTableOverflow(d), RuleARPNeighborTableOverflow(e), d.FileLocks, differ)
  BY SMT DEF Rule, RuleARPNeighborTableOverflow, GaugesOfFilesPoorer, NeighborPoorer,
     NeighborRules, Ratio
<1>13. Keeps(RuleTCPSYNQueueOverflow(d), RuleTCPSYNQueueOverflow(e), d.FileLocks, differ)
  BY SMT DEF Rule, RuleTCPSYNQueueOverflow, NetStatPoorer, AllOrZero, NetstatCounters,
     SNMPCounters, SNMPIPCounters, SoftnetCounters, NetStatInfo, Counters
<1>14. Keeps(RuleBlockHardwareTagStarvation(d), RuleBlockHardwareTagStarvation(e), d.FileLocks, differ)
  <2> DEFINE Writes(p) == /\ p.Wchan \in {"blk_mq_get_tag", "io_schedule"}
                          /\ p.ReadBytes > 0 \/ p.WriteBytes > 0
             Starved(f) == {x \in DOMAIN f : Writes(f[x])}
  <2>1. Starved(d.Processes) \subseteq Starved(e.Processes)
    BY SMT DEF ProcessesPoorer, SomeProcesses, ProcessPoorer, WchanPoorer, OrEmpty,
       EmptyString, IOPoorer
  <2>2. Starved(e.Processes) \in SUBSET DOMAIN e.Processes
    OBVIOUS
  <2>3. d.Processes = e.Processes => Starved(d.Processes) = Starved(e.Processes)
    OBVIOUS
  <2>4. Cardinality(Starved(d.Processes)) >= 2 => Cardinality(Starved(e.Processes)) >= 2
    <3> HIDE DEF Starved
    <3> QED  BY <2>1, <2>2, <2>3, FewerCounted
  <2> QED  BY <2>4 DEF Rule, RuleBlockHardwareTagStarvation, AtLeast
<1>15. Keeps(RuleSchedRunqueueStarvation(d), RuleSchedRunqueueStarvation(e), d.FileLocks, differ)
  BY SMT DEF Rule, RuleSchedRunqueueStarvation, SinceBootPoorer, Ratio
<1>16. Keeps(RuleCgroupMemoryHighThrottle(d), RuleCgroupMemoryHighThrottle(e), d.FileLocks, differ)
  BY SMT DEF Rule, RuleCgroupMemoryHighThrottle, CgroupsPoorer, CgroupPoorer, AllOrZero,
     ThrottleCounters, MemoryEvents, Some
<1>17. Keeps(RuleIOSchedulerQueueLatency(d), RuleIOSchedulerQueueLatency(e), d.FileLocks, differ)
  BY SMT DEF Rule, RuleIOSchedulerQueueLatency, DisksPoorer, SameRequests, QueuePoorer, OrEmpty,
     EmptyString, Some, Ms
<1>18. Keeps(RulePageTableLockContention(d), RulePageTableLockContention(e), d.FileLocks, differ)
  BY ManyInKept, SMT DEF Rule, RulePageTableLockContention, EmptyString
<1>19. Keeps(RuleOrphanSocketLeak(d), RuleOrphanSocketLeak(e), d.FileLocks, differ)
  BY SMT DEF Rule, RuleOrphanSocketLeak, Numbers, TablesPoorer
<1>20. Keeps(RuleContextSwitchStorm(d), RuleContextSwitchStorm(e), d.FileLocks, differ)
  BY SMT DEF Rule, RuleContextSwitchStorm, SameTotals, Pct
<1>21. Keeps(RuleCPUGovernorPowersaveLag(d), RuleCPUGovernorPowersaveLag(e), d.FileLocks, differ)
  BY SMT DEF Rule, RuleCPUGovernorPowersaveLag, GaugesOfFilesPoorer, CPUFreqPoorer,
     FrequencyRules, SameTotals, Some, OrZero, OrEmpty, EmptyString, Pct
<1>22. Keeps(RuleKsoftirqdSaturation(d), RuleKsoftirqdSaturation(e), d.FileLocks, differ)
  BY SMT DEF Rule, RuleKsoftirqdSaturation, ProcessesPoorer, SomeProcesses, ProcessPoorer,
     StatPoorer, SameTotals, Some, Pct
<1>23. Keeps(RuleWorkingsetRefaultThrashing(d), RuleWorkingsetRefaultThrashing(e), d.FileLocks, differ)
  BY SMT DEF Rule, RuleWorkingsetRefaultThrashing, VMStatPoorer, PSIPoorer, VMStatInfo,
     Counters, MemoryStall, Pct
<1>24. Keeps(RuleDirtyPageFlushSaturation(d), RuleDirtyPageFlushSaturation(e), d.FileLocks, differ)
  BY SMT DEF Rule, RuleDirtyPageFlushSaturation, SameTotals, ProcessesPoorer, SomeProcesses,
     ProcessPoorer, WchanPoorer, OrEmpty, EmptyString, SomeIn, Ratio, Some
<1>25. Keeps(RuleFsyncJournalStall(d), RuleFsyncJournalStall(e), d.FileLocks, differ)
  BY ManyInKept, SMT DEF Rule, RuleFsyncJournalStall, EmptyString
<1>26. Keeps(RulePageCachePollutionStream(d), RulePageCachePollutionStream(e), d.FileLocks, differ)
  BY SMT DEF Rule, RulePageCachePollutionStream, ProcessesPoorer, SomeProcesses, ProcessPoorer,
     IOPoorer, VMStatPoorer, VMStatInfo, Counters, Some
<1>27. Keeps(RuleSoftnetBacklogDrops(d), RuleSoftnetBacklogDrops(e), d.FileLocks, differ)
  BY SMT DEF Rule, RuleSoftnetBacklogDrops, NetStatPoorer, AllOrZero, NetstatCounters,
     SNMPCounters, SNMPIPCounters, SoftnetCounters, NetStatInfo, Counters
<1>28. Keeps(RuleTCPRetransmitStorm(d), RuleTCPRetransmitStorm(e), d.FileLocks, differ)
  BY SMT DEF Rule, RuleTCPRetransmitStorm, NetStatPoorer, AllOrZero, NetstatCounters,
     SNMPCounters, SNMPIPCounters, SoftnetCounters, NetStatInfo, Counters, Ratio
<1>29. Keeps(RuleTCPZeroWindowStall(d), RuleTCPZeroWindowStall(e), d.FileLocks, differ)
  BY SMT DEF Rule, RuleTCPZeroWindowStall, NetStatPoorer, AllOrZero, NetstatCounters,
     SNMPCounters, SNMPIPCounters, SoftnetCounters, ProcessesPoorer, SomeProcesses,
     ProcessPoorer, WchanPoorer, OrEmpty, EmptyString, NetStatInfo, Counters, SomeIn, Some
<1>30. Keeps(RuleCoredumpBurstStorm(d), RuleCoredumpBurstStorm(e), d.FileLocks, differ)
  BY SMT DEF Rule, RuleCoredumpBurstStorm, ProcessesPoorer, SomeProcesses, ProcessPoorer,
     StatPoorer, SameTotals, Some
<1>31. Keeps(RuleUnixSocketLogBlock(d), RuleUnixSocketLogBlock(e), d.FileLocks, differ)
  BY ManyInKept, SMT DEF Rule, RuleUnixSocketLogBlock, EmptyString
<1>32. Keeps(RuleUDPBufferOverrun(d), RuleUDPBufferOverrun(e), d.FileLocks, differ)
  BY SMT DEF Rule, RuleUDPBufferOverrun, NetStatPoorer, AllOrZero, NetstatCounters,
     SNMPCounters, SNMPIPCounters, SoftnetCounters, NetStatInfo, Counters
<1>33. Keeps(RuleTCPListenOverflowStall(d), RuleTCPListenOverflowStall(e), d.FileLocks, differ)
  BY SMT DEF Rule, RuleTCPListenOverflowStall, NetStatPoorer, AllOrZero, NetstatCounters,
     SNMPCounters, SNMPIPCounters, SoftnetCounters, NetStatInfo, Counters
<1>34. Keeps(RuleHugeTLBPoolExhaustion(d), RuleHugeTLBPoolExhaustion(e), d.FileLocks, differ)
  BY SMT DEF Rule, RuleHugeTLBPoolExhaustion, SameTotals
<1>35. Keeps(RulePtraceTracerAttach(d), RulePtraceTracerAttach(e), d.FileLocks, differ)
  BY SMT DEF Rule, RulePtraceTracerAttach, ProcessesPoorer, SomeProcesses, ProcessPoorer,
     StatPoorer, StatusPoorer, AllOrZero, StatusCounters, Some, Pct
<1>36. Keeps(RuleSysVSemaphoreLimit(d), RuleSysVSemaphoreLimit(e), d.FileLocks, differ)
  <2>1. /\ e.Latest.SysVSem.SemMNS \in Nat /\ e.Latest.SysVSem.SemMNI \in Nat
        /\ e.Latest.SysVSem.AllocatedSemaphores \in Nat
        /\ e.Latest.SysVSem.AllocatedSemSets \in Nat
    BY DEF Numbers
  <2>2. SemaphoresPoorer(d, e)
    BY DEF GaugesOfFilesPoorer
  <2>3. ASSUME NEW n \in Nat, NEW b \in Nat, NEW a, OrZero(a, b), a >= (n * 90) \div 100
        PROVE  b >= (n * 90) \div 100
    BY <2>3, SMT DEF OrZero
  <2> DEFINE Enough(sem) ==
               \/ sem.SemMNS > 0 /\ sem.AllocatedSemaphores >= (sem.SemMNS * 90) \div 100
               \/ sem.SemMNI > 0 /\ sem.AllocatedSemSets >= (sem.SemMNI * 90) \div 100
  <2>4. d.Latest.SysVSem.Available => /\ e.Latest.SysVSem.Available
                                      /\ Enough(d.Latest.SysVSem) => Enough(e.Latest.SysVSem)
    <3> HIDE DEF Poorer
    <3> QED  BY <2>1, <2>2, <2>3 DEF SemaphoresPoorer
  <2> QED
    BY <2>4 DEF Rule, RuleSysVSemaphoreLimit
<1>37. Keeps(RuleTCPTimeWaitBucketOverflow(d), RuleTCPTimeWaitBucketOverflow(e), d.FileLocks, differ)
  BY SMT DEF Rule, RuleTCPTimeWaitBucketOverflow, Numbers, SettingsPoorer, OrZero,
     NetStatPoorer, AllOrZero, NetstatCounters,
     SNMPCounters, SNMPIPCounters, SoftnetCounters, TablesPoorer, NetStatInfo, Counters, Settings
<1>38. Keeps(RuleCgroupIOThrottleStall(d), RuleCgroupIOThrottleStall(e), d.FileLocks, differ)
  BY SubgroupKept, SMT DEF Rule, RuleCgroupIOThrottleStall, PSIPoorer, ProcessesPoorer,
     SomeProcesses, ProcessPoorer, StatPoorer, WchanPoorer, OrEmpty, EmptyString, IOPoorer,
     Some, Pct
<1>39. Keeps(RuleAuditdBacklogWaitStall(d), RuleAuditdBacklogWaitStall(e), d.FileLocks, differ)
  <2> DEFINE channels == {"kauditd_wait", "audit_log_start", "audit_receive"}
  <2>1. ManyIn(2, channels, d) => ManyIn(2, channels, e)
    BY ManyInKept, SMT DEF EmptyString
  <2>2. BlockedIn(channels, d) => BlockedIn(channels, e)
    BY SMT DEF BlockedIn, ProcessesPoorer, SomeProcesses, ProcessPoorer, StatPoorer, WchanPoorer,
       OrEmpty, EmptyString, Some
  <2> QED
    BY <2>1, <2>2, SMT DEF Rule, RuleAuditdBacklogWaitStall, SameTotals
<1>40. Keeps(RuleTCPSndbufExhaustion(d), RuleTCPSndbufExhaustion(e), d.FileLocks, differ)
  BY SMT DEF Rule, RuleTCPSndbufExhaustion, NetStatPoorer, AllOrZero, NetstatCounters,
     SNMPCounters, SNMPIPCounters, SoftnetCounters, ProcessesPoorer, SomeProcesses,
     ProcessPoorer, WchanPoorer, OrEmpty, EmptyString, NetStatInfo, Counters, SomeIn, Some
<1>41. Keeps(RuleXFSAILPushStall(d), RuleXFSAILPushStall(e), d.FileLocks, differ)
  <2> DEFINE channels == {"xfs_log_reserve", "xfs_trans_reserve", "xfs_iomap_write_allocate",
                          "xfsaild", "xfslogd"}
  <2>1. ManyIn(2, channels, d) => ManyIn(2, channels, e)
    BY ManyInKept, SMT DEF EmptyString
  <2>2. ManyInState(2, "D", d) => ManyInState(2, "D", e)
    BY StateKept
  <2> QED
    BY <2>1, <2>2, SMT DEF Rule, RuleXFSAILPushStall, PSIPoorer, SameTotals, Pct
<1>42. Keeps(RuleDMQueueCongestion(d), RuleDMQueueCongestion(e), d.FileLocks, differ)
  BY SMT DEF Rule, RuleDMQueueCongestion, DisksPoorer, SameRequests, ProcessesPoorer,
     SomeProcesses, ProcessPoorer, StatPoorer, WchanPoorer, OrEmpty, EmptyString, Some, Pct, Ms
<1>43. Keeps(RuleTCPSYNCookieFloodStall(d), RuleTCPSYNCookieFloodStall(e), d.FileLocks, differ)
  BY SMT DEF Rule, RuleTCPSYNCookieFloodStall, NetStatPoorer, AllOrZero, NetstatCounters,
     SNMPCounters, SNMPIPCounters, SoftnetCounters, NetStatInfo, Counters
<1>44. Keeps(RuleEpollWakeupContention(d), RuleEpollWakeupContention(e), d.FileLocks, differ)
  BY ManyInKept, SMT DEF Rule, RuleEpollWakeupContention, SameTotals, Pct, EmptyString
<1>45. Keeps(RuleAIOEventLimitSaturation(d), RuleAIOEventLimitSaturation(e), d.FileLocks, differ)
  <2> DEFINE Submits(p) == \/ p.Wchan \in {"io_submit", "io_getevents", "wait_on_page_bit"}
                           \/ p.State = "D"
  <2>1. Ratio(d.Latest.AIO.AIONR, d.Latest.AIO.AIOMaxNR) >= 900
          => Ratio(e.Latest.AIO.AIONR, e.Latest.AIO.AIOMaxNR) >= 900
    BY SMT DEF Numbers, TablesPoorer, OrZero, Ratio
  <2>2. (\E x \in DOMAIN d.Processes : Submits(d.Processes[x]))
          => \E x \in DOMAIN e.Processes : Submits(e.Processes[x])
    BY SMT DEF ProcessesPoorer, SomeProcesses, ProcessPoorer, StatPoorer, WchanPoorer, OrEmpty,
       EmptyString
  <2> QED
    BY <2>1, <2>2, SMT DEF Rule, RuleAIOEventLimitSaturation, SameTotals, Some
<1>46. Keeps(RuleKswapdCPUSpin(d), RuleKswapdCPUSpin(e), d.FileLocks, differ)
  BY SMT DEF Rule, RuleKswapdCPUSpin, ProcessesPoorer, SomeProcesses, ProcessPoorer, StatPoorer,
     VMStatPoorer, PSIPoorer, VMStatInfo, Counters, Some, MemoryStall, Pct
<1>47. Keeps(RuleMDRAIDResyncStall(d), RuleMDRAIDResyncStall(e), d.FileLocks, differ)
  BY SMT DEF Rule, RuleMDRAIDResyncStall, GaugesPoorer, DisksPoorer, SameRequests, PSIPoorer,
     Gauges, Some, IOStall, Pct, Ms
<1>48. Keeps(RuleNetOutOfOrderStall(d), RuleNetOutOfOrderStall(e), d.FileLocks, differ)
  BY SMT DEF Rule, RuleNetOutOfOrderStall, NetStatPoorer, AllOrZero, NetstatCounters,
     SNMPCounters, SNMPIPCounters, SoftnetCounters, NetStatInfo, Counters, Ratio
<1>49. Keeps(RulePOSIXRTSigQueueSaturation(d), RulePOSIXRTSigQueueSaturation(e), d.FileLocks, differ)
  BY SMT DEF Rule, RulePOSIXRTSigQueueSaturation, ProcessesPoorer, SomeProcesses, ProcessPoorer,
     StatPoorer, StatusPoorer, AllOrZero, StatusCounters, Some, Ratio, Pct
<1>50. Keeps(RuleUDPSndbufExhaustion(d), RuleUDPSndbufExhaustion(e), d.FileLocks, differ)
  BY SMT DEF Rule, RuleUDPSndbufExhaustion, NetStatPoorer, AllOrZero, NetstatCounters,
     SNMPCounters, SNMPIPCounters, SoftnetCounters, NetStatInfo, Counters
<1>51. Keeps(RuleCgroupV1CPUSharesStarvation(d), RuleCgroupV1CPUSharesStarvation(e), d.FileLocks, differ)
  BY SMT DEF Rule, RuleCgroupV1CPUSharesStarvation, SameTotals, CgroupDirPoorer, OrZero, Some,
     Pct
<1>52. Keeps(RuleHugepageLeakNoReuse(d), RuleHugepageLeakNoReuse(e), d.FileLocks, differ)
  BY SMT DEF Rule, RuleHugepageLeakNoReuse, SameTotals, Ratio
<1>53. Keeps(RuleNetTCPAbortOnClose(d), RuleNetTCPAbortOnClose(e), d.FileLocks, differ)
  BY SMT DEF Rule, RuleNetTCPAbortOnClose, NetStatPoorer, AllOrZero, NetstatCounters,
     SNMPCounters, SNMPIPCounters, SoftnetCounters, NetStatInfo, Counters
<1>54. Keeps(RuleSchedYieldSpinChurn(d), RuleSchedYieldSpinChurn(e), d.FileLocks, differ)
  BY SMT DEF Rule, RuleSchedYieldSpinChurn, ProcessesPoorer, SomeProcesses, ProcessPoorer,
     StatPoorer, StatusPoorer, AllOrZero, StatusCounters, Some, Pct
<1>55. Keeps(RuleNetTCPCollapsePrune(d), RuleNetTCPCollapsePrune(e), d.FileLocks, differ)
  BY SMT DEF Rule, RuleNetTCPCollapsePrune, NetStatPoorer, AllOrZero, NetstatCounters,
     SNMPCounters, SNMPIPCounters, SoftnetCounters, NetStatInfo, Counters
<1>56. Keeps(RuleNetTCPMemoryAllocFail(d), RuleNetTCPMemoryAllocFail(e), d.FileLocks, differ)
  BY SMT DEF Rule, RuleNetTCPMemoryAllocFail, NetStatPoorer, AllOrZero, NetstatCounters,
     SNMPCounters, SNMPIPCounters, SoftnetCounters, NetStatInfo, Counters
<1>57. Keeps(RuleNetTCPZeroWindowDrop(d), RuleNetTCPZeroWindowDrop(e), d.FileLocks, differ)
  BY SMT DEF Rule, RuleNetTCPZeroWindowDrop, NetStatPoorer, AllOrZero, NetstatCounters,
     SNMPCounters, SNMPIPCounters, SoftnetCounters, NetStatInfo, Counters
<1>58. Keeps(RuleFutexPIDeadlockStall(d), RuleFutexPIDeadlockStall(e), d.FileLocks, differ)
  BY SMT DEF Rule, RuleFutexPIDeadlockStall, ProcessesPoorer, SomeProcesses, ProcessPoorer,
     StatPoorer, WchanPoorer, OrEmpty, EmptyString, Some, Pct
<1>59. Keeps(RuleNetARPTableTrash(d), RuleNetARPTableTrash(e), d.FileLocks, differ)
  BY SMT DEF Rule, RuleNetARPTableTrash, GaugesOfFilesPoorer, NeighborPoorer, NeighborRules,
     Ratio
<1>60. Keeps(RuleDirtyPagesDirectSyncStall(d), RuleDirtyPagesDirectSyncStall(e), d.FileLocks, differ)
  BY SMT DEF Rule, RuleDirtyPagesDirectSyncStall, VMStatPoorer, ProcessesPoorer, SomeProcesses,
     ProcessPoorer, StatPoorer, WchanPoorer, OrEmpty, EmptyString, VMStatInfo, Counters, IdleIn,
     Pct, Some
<1>61. Keeps(RuleNFSRPCClientSaturation(d), RuleNFSRPCClientSaturation(e), d.FileLocks, differ)
  BY SMT DEF Rule, RuleNFSRPCClientSaturation, ProcessesPoorer, SomeProcesses, ProcessPoorer,
     StatPoorer, WchanPoorer, OrEmpty, EmptyString, BlockedIn, Some
<1>62. Keeps(RuleUnixSocketBacklogOverflow(d), RuleUnixSocketBacklogOverflow(e), d.FileLocks, differ)
  BY SMT DEF Rule, RuleUnixSocketBacklogOverflow, ProcessesPoorer, SomeProcesses, ProcessPoorer,
     StatPoorer, WchanPoorer, OrEmpty, EmptyString, IdleIn, Pct, Some
<1>63. Keeps(RuleVFSInodeLockContention(d), RuleVFSInodeLockContention(e), d.FileLocks, differ)
  BY SMT DEF Rule, RuleVFSInodeLockContention, ProcessesPoorer, SomeProcesses, ProcessPoorer,
     StatPoorer, WchanPoorer, OrEmpty, EmptyString, BlockedIn, Some
<1>64. Keeps(RuleKernelLockdBlocked(d), RuleKernelLockdBlocked(e), d.FileLocks, differ)
  BY SMT DEF Rule, RuleKernelLockdBlocked, ProcessesPoorer, SomeProcesses, ProcessPoorer,
     StatPoorer, WchanPoorer, OrEmpty, EmptyString, Some, Pct
<1>65. Keeps(RuleSchedAutogroupStarvation(d), RuleSchedAutogroupStarvation(e), d.FileLocks, differ)
  BY SMT DEF Rule, RuleSchedAutogroupStarvation, SameTotals, ProcessesPoorer, SomeProcesses,
     ProcessPoorer, StatPoorer, Some, Pct
<1>66. Keeps(RuleFtraceRingBufferStall(d), RuleFtraceRingBufferStall(e), d.FileLocks, differ)
  BY SMT DEF Rule, RuleFtraceRingBufferStall, ProcessesPoorer, SomeProcesses, ProcessPoorer,
     StatPoorer, WchanPoorer, OrEmpty, EmptyString, IdleIn, Pct, Some
<1>67. Keeps(RuleNetDevGROCellDrop(d), RuleNetDevGROCellDrop(e), d.FileLocks, differ)
  BY SMT DEF Rule, RuleNetDevGROCellDrop, NetStatPoorer, AllOrZero, NetstatCounters,
     SNMPCounters, SNMPIPCounters, SoftnetCounters, NetStatInfo, Counters
<1>68. Keeps(RuleMemCompactMigrationFailRate(d), RuleMemCompactMigrationFailRate(e), d.FileLocks, differ)
  BY SMT DEF Rule, RuleMemCompactMigrationFailRate, VMStatPoorer, VMStatInfo, Counters
<1>69. Keeps(RuleNetTCPFastOpenFail(d), RuleNetTCPFastOpenFail(e), d.FileLocks, differ)
  BY SMT DEF Rule, RuleNetTCPFastOpenFail, NetStatPoorer, AllOrZero, NetstatCounters,
     SNMPCounters, SNMPIPCounters, SoftnetCounters, NetStatInfo, Counters
<1>70. Keeps(RuleNetTCPSynAckRetransStall(d), RuleNetTCPSynAckRetransStall(e), d.FileLocks, differ)
  BY SMT DEF Rule, RuleNetTCPSynAckRetransStall, NetStatPoorer, AllOrZero, NetstatCounters,
     SNMPCounters, SNMPIPCounters, SoftnetCounters, NetStatInfo, Counters
<1>71. Keeps(RuleNetSocketRecvStall(d), RuleNetSocketRecvStall(e), d.FileLocks, differ)
  BY SMT DEF Rule, RuleNetSocketRecvStall, ProcessesPoorer, SomeProcesses, ProcessPoorer,
     StatPoorer, WchanPoorer, OrEmpty, EmptyString, BlockedIn, Some
<1>72. Keeps(RuleStorageBlkThrottleStall(d), RuleStorageBlkThrottleStall(e), d.FileLocks, differ)
  BY SMT DEF Rule, RuleStorageBlkThrottleStall, ProcessesPoorer, SomeProcesses, ProcessPoorer,
     StatPoorer, WchanPoorer, OrEmpty, EmptyString, BlockedIn, Some
<1>73. Keeps(RuleNetTCPDeferAcceptTimeout(d), RuleNetTCPDeferAcceptTimeout(e), d.FileLocks, differ)
  BY SMT DEF Rule, RuleNetTCPDeferAcceptTimeout, NetStatPoorer, AllOrZero, NetstatCounters,
     SNMPCounters, SNMPIPCounters, SoftnetCounters, NetStatInfo, Counters
<1>74. Keeps(RuleMemcgReclaimDirectStall(d), RuleMemcgReclaimDirectStall(e), d.FileLocks, differ)
  BY SMT DEF Rule, RuleMemcgReclaimDirectStall, ProcessesPoorer, SomeProcesses, ProcessPoorer,
     StatPoorer, WchanPoorer, OrEmpty, EmptyString, BlockedIn, Some
<1>75. Keeps(RuleXFSAllocBtreeContention(d), RuleXFSAllocBtreeContention(e), d.FileLocks, differ)
  BY SMT DEF Rule, RuleXFSAllocBtreeContention, ProcessesPoorer, SomeProcesses, ProcessPoorer,
     StatPoorer, WchanPoorer, OrEmpty, EmptyString, BlockedIn, Some
<1>76. Keeps(RuleSchedMigrationCostOverhead(d), RuleSchedMigrationCostOverhead(e), d.FileLocks, differ)
  BY SMT DEF Rule, RuleSchedMigrationCostOverhead, AssumedPoorer, SameTotals
<1>77. Keeps(RuleNetTCPZeroWindowAdvert(d), RuleNetTCPZeroWindowAdvert(e), d.FileLocks, differ)
  BY SMT DEF Rule, RuleNetTCPZeroWindowAdvert, NetStatPoorer, AllOrZero, NetstatCounters,
     SNMPCounters, SNMPIPCounters, SoftnetCounters, NetStatInfo, Counters
<1>78. Keeps(RulePSISomeIOPressureSpike(d), RulePSISomeIOPressureSpike(e), d.FileLocks, differ)
  BY SMT DEF Rule, RulePSISomeIOPressureSpike, PSIPoorer, IOStall, Pct
<1>79. Keeps(RulePSISomeCPUPressureSpike(d), RulePSISomeCPUPressureSpike(e), d.FileLocks, differ)
  BY SMT DEF Rule, RulePSISomeCPUPressureSpike, PSIPoorer, CPUStall, Pct
<1>80. Keeps(RulePSIFullMemoryPressureSpike(d), RulePSIFullMemoryPressureSpike(e), d.FileLocks, differ)
  BY SMT DEF Rule, RulePSIFullMemoryPressureSpike, PSIPoorer, Pct
<1>81. Keeps(RulePipeReadBurstBlock(d), RulePipeReadBurstBlock(e), d.FileLocks, differ)
  BY SMT DEF Rule, RulePipeReadBurstBlock, ProcessesPoorer, SomeProcesses, ProcessPoorer,
     StatPoorer, WchanPoorer, OrEmpty, EmptyString, BlockedIn, Some
<1>82. Keeps(RuleTCPCloseWaitLeak(d), RuleTCPCloseWaitLeak(e), d.FileLocks, differ)
  BY SMT DEF Rule, RuleTCPCloseWaitLeak, GaugesOfFilesPoorer, SocketsPoorer, Sockets, Ratio
<1>83. Keeps(RuleSustainedLoadSaturation(d), RuleSustainedLoadSaturation(e), d.FileLocks, differ)
  BY SMT DEF Rule, RuleSustainedLoadSaturation, SameTotals, PSIPoorer, GaugesPoorer, Gauges, Pct
<1>84. Keeps(RuleRunawayCPUProcess(d), RuleRunawayCPUProcess(e), d.FileLocks, differ)
  BY SMT DEF Rule, RuleRunawayCPUProcess, ProcessesPoorer, SomeProcesses, ProcessPoorer,
     StatPoorer, StatusPoorer, AllOrZero, StatusCounters, Some, Pct
<1>85. Keeps(RuleProcessSwapPinned(d), RuleProcessSwapPinned(e), d.FileLocks, differ)
  BY SMT DEF Rule, RuleProcessSwapPinned, ProcessesPoorer, SomeProcesses, ProcessPoorer,
     SmapsPoorer, SameTotals, VMStatPoorer, VMStatInfo, Counters, Some, MemoryScarce
<1>86. Keeps(RuleDentryCacheExplosion(d), RuleDentryCacheExplosion(e), d.FileLocks, differ)
  BY SMT DEF Rule, RuleDentryCacheExplosion, GaugesPoorer, SameTotals, Gauges, MemoryScarce
<1>87. Keeps(RuleSecurityFanotifyStall(d), RuleSecurityFanotifyStall(e), d.FileLocks, differ)
  BY SMT DEF Rule, RuleSecurityFanotifyStall, ProcessesPoorer, SomeProcesses, ProcessPoorer,
     StatPoorer, WchanPoorer, OrEmpty, EmptyString, Some, Pct
<1>88. Keeps(RuleFileLockGraphBlocked(d), RuleFileLockGraphBlocked(e), d.FileLocks, differ)
  BY NoLocksRead, SMT DEF Rule, RuleFileLockGraphBlocked, FileLocksPoorer
<1>89. Keeps(RuleIPCUnixPeerCongestion(d), RuleIPCUnixPeerCongestion(e), d.FileLocks, differ)
  BY SMT DEF Rule, RuleIPCUnixPeerCongestion, ProcessesPoorer, SomeProcesses, ProcessPoorer,
     StatPoorer, WchanPoorer, OrEmpty, EmptyString, Some, Pct
<1>90. Keeps(RuleMemDirectReclaimStall(d), RuleMemDirectReclaimStall(e), d.FileLocks, differ)
  BY SMT DEF Rule, RuleMemDirectReclaimStall, SameTotals, VMStatPoorer, PSIPoorer,
     ProcessesPoorer, SomeProcesses, ProcessPoorer, WchanPoorer, OrEmpty, EmptyString,
     VMStatInfo, Counters, SomeIn, MemoryStall, Pct, Some
<1>91. Keeps(RuleRemoteStorageRPCHang(d), RuleRemoteStorageRPCHang(e), d.FileLocks, differ)
  BY SMT DEF Rule, RuleRemoteStorageRPCHang, ProcessesPoorer, SomeProcesses, ProcessPoorer,
     StatPoorer, WchanPoorer, OrEmpty, EmptyString, Some
<1>92. Keeps(RuleCPUKernelSpinlockBurn(d), RuleCPUKernelSpinlockBurn(e), d.FileLocks, differ)
  BY SMT DEF Rule, RuleCPUKernelSpinlockBurn, ProcessesPoorer, SomeProcesses, ProcessPoorer,
     StatPoorer, StatusPoorer, AllOrZero, StatusCounters, SameTotals, Some, Ratio, Pct
<1>93. Keeps(RuleCgroupCFSBurstThrottle(d), RuleCgroupCFSBurstThrottle(e), d.FileLocks, differ)
  BY SMT DEF Rule, RuleCgroupCFSBurstThrottle, CgroupsPoorer, CgroupPoorer, AllOrZero,
     ThrottleCounters, MemoryEvents, PSIPoorer, Some, CPUStall, Ratio, Pct
<1> HIDE DEF Keeps, Poorer, FileLocksRule, Contention
<1> QED
  BY <1>1, <1>2, <1>3, <1>4, <1>5, <1>6, <1>7, <1>8, <1>9, <1>10, <1>11, <1>12, <1>13, <1>14,
     <1>15, <1>16, <1>17, <1>18, <1>19, <1>20, <1>21, <1>22, <1>23, <1>24, <1>25, <1>26, <1>27,
     <1>28, <1>29, <1>30, <1>31, <1>32, <1>33, <1>34, <1>35, <1>36, <1>37, <1>38, <1>39, <1>40,
     <1>41, <1>42, <1>43, <1>44, <1>45, <1>46, <1>47, <1>48, <1>49, <1>50, <1>51, <1>52, <1>53,
     <1>54, <1>55, <1>56, <1>57, <1>58, <1>59, <1>60, <1>61, <1>62, <1>63, <1>64, <1>65, <1>66,
     <1>67, <1>68, <1>69, <1>70, <1>71, <1>72, <1>73, <1>74, <1>75, <1>76, <1>77, <1>78, <1>79,
     <1>80, <1>81, <1>82, <1>83, <1>84, <1>85, <1>86, <1>87, <1>88, <1>89, <1>90, <1>91, <1>92,
     <1>93
  DEF GetTier2Rules

\* The edge cases.
LEMMA Tier3Keeps ==
  ASSUME NEW d, NEW e, NEW differ, Poorer(d, e, differ)
  PROVE  \A j \in 1..66 : Keeps(GetTier3Rules(d)[j], GetTier3Rules(e)[j], d.FileLocks, differ)
<1> USE DEF Keeps, Poorer, FileLocksRule, Edge, SevereEdge
<1>1. Keeps(RuleTHPCompactionStall(d), RuleTHPCompactionStall(e), d.FileLocks, differ)
  BY SMT DEF Rule, RuleTHPCompactionStall, VMStatPoorer, ProcessesPoorer, SomeProcesses,
     ProcessPoorer, WchanPoorer, OrEmpty, EmptyString, VMStatInfo, Counters, SomeIn, Some
<1>2. Keeps(RulePTYStdoutLock(d), RulePTYStdoutLock(e), d.FileLocks, differ)
  BY SMT DEF Rule, RulePTYStdoutLock, ProcessesPoorer, SomeProcesses, ProcessPoorer, StatPoorer,
     WchanPoorer, OrEmpty, EmptyString, Some
<1>3. Keeps(RuleHPETClocksourceDegrade(d), RuleHPETClocksourceDegrade(e), d.FileLocks, differ)
  BY SMT DEF Rule, RuleHPETClocksourceDegrade, ModesPoorer, OrEmpty, EmptyString
<1>4. Keeps(RuleCgroupDirtyThrottle(d), RuleCgroupDirtyThrottle(e), d.FileLocks, differ)
  BY SMT DEF Rule, RuleCgroupDirtyThrottle, ProcessesPoorer, SomeProcesses, ProcessPoorer,
     WchanPoorer, OrEmpty, EmptyString, SomeIn, Some
<1>5. Keeps(RuleFutexContention(d), RuleFutexContention(e), d.FileLocks, differ)
  BY SMT DEF Rule, RuleFutexContention, ProcessesPoorer, SomeProcesses, ProcessPoorer,
     StatPoorer, WchanPoorer, OrEmpty, EmptyString, Some
<1>6. Keeps(RuleNUMARemoteThrashing(d), RuleNUMARemoteThrashing(e), d.FileLocks, differ)
  BY SMT DEF Rule, RuleNUMARemoteThrashing, VMStatPoorer, VMStatInfo, Counters
<1>7. Keeps(RuleCPUAffinityPin(d), RuleCPUAffinityPin(e), d.FileLocks, differ)
  BY SMT DEF Rule, RuleCPUAffinityPin, SameTotals, ProcessesPoorer, SomeProcesses,
     ProcessPoorer, StatPoorer, StatusPoorer, AllOrZero, StatusCounters, Some, Pct
<1>8. Keeps(RuleZombieDefunctLeak(d), RuleZombieDefunctLeak(e), d.FileLocks, differ)
  BY StateKept, SMT DEF Rule, RuleZombieDefunctLeak
<1>9. Keeps(RuleCgroupOOMKillEvent(d), RuleCgroupOOMKillEvent(e), d.FileLocks, differ)
  BY SMT DEF Rule, RuleCgroupOOMKillEvent, CgroupsPoorer, CgroupPoorer, AllOrZero,
     ThrottleCounters, MemoryEvents, Some
<1>10. Keeps(RuleDMA32ZoneExhaustion(d), RuleDMA32ZoneExhaustion(e), d.FileLocks, differ)
  BY SMT DEF Rule, RuleDMA32ZoneExhaustion, GaugesPoorer, Gauges
<1>11. Keeps(RuleKSMScanStall(d), RuleKSMScanStall(e), d.FileLocks, differ)
  BY SMT DEF Rule, RuleKSMScanStall, GaugesOfFilesPoorer, KSMPoorer, OrZero, ProcessesPoorer,
     SomeProcesses, ProcessPoorer, StatPoorer, Some, Pct
<1>12. Keeps(RuleIRQCoreStorm(d), RuleIRQCoreStorm(e), d.FileLocks, differ)
  BY SMT DEF Rule, RuleIRQCoreStorm, SinceBootPoorer
<1>13. Keeps(RuleSlabUnreclaimableLeak(d), RuleSlabUnreclaimableLeak(e), d.FileLocks, differ)
  BY SMT DEF Rule, RuleSlabUnreclaimableLeak, SameTotals, Ratio
<1>14. Keeps(RuleInotifyWatchExhaustion(d), RuleInotifyWatchExhaustion(e), d.FileLocks, differ)
  BY SMT DEF Rule, RuleInotifyWatchExhaustion, GaugesOfFilesPoorer, InotifyPoorer
<1>15. Keeps(RuleRCUSchedulerStall(d), RuleRCUSchedulerStall(e), d.FileLocks, differ)
  BY ManyInKept, SMT DEF Rule, RuleRCUSchedulerStall, EmptyString
<1>16. Keeps(RuleTHPCollapseStall(d), RuleTHPCollapseStall(e), d.FileLocks, differ)
  BY SMT DEF Rule, RuleTHPCollapseStall, VMStatPoorer, VMStatInfo, Counters
<1>17. Keeps(RuleFUSEFilesystemLatency(d), RuleFUSEFilesystemLatency(e), d.FileLocks, differ)
  BY SMT DEF Rule, RuleFUSEFilesystemLatency, ProcessesPoorer, SomeProcesses, ProcessPoorer,
     WchanPoorer, OrEmpty, EmptyString, SomeIn, Some
<1>18. Keeps(RuleCompactionFailureRate(d), RuleCompactionFailureRate(e), d.FileLocks, differ)
  BY SMT DEF Rule, RuleCompactionFailureRate, VMStatPoorer, VMStatInfo, Counters, Ratio
<1>19. Keeps(RuleMajorPageFaultStorm(d), RuleMajorPageFaultStorm(e), d.FileLocks, differ)
  BY SMT DEF Rule, RuleMajorPageFaultStorm, VMStatPoorer, VMStatInfo, Counters
<1>20. Keeps(RuleTHPSplitStorm(d), RuleTHPSplitStorm(e), d.FileLocks, differ)
  BY SMT DEF Rule, RuleTHPSplitStorm, VMStatPoorer, VMStatInfo, Counters
<1>21. Keeps(RuleKHugepagedCPUBurn(d), RuleKHugepagedCPUBurn(e), d.FileLocks, differ)
  BY SMT DEF Rule, RuleKHugepagedCPUBurn, VMStatPoorer, ProcessesPoorer, SomeProcesses,
     ProcessPoorer, StatPoorer, VMStatInfo, Counters, Burns, Some, Pct
<1>22. Keeps(RuleDiskDeviceIOErrHang(d), RuleDiskDeviceIOErrHang(e), d.FileLocks, differ)
  BY SMT DEF Rule, RuleDiskDeviceIOErrHang, DisksPoorer, SameRequests, Some, Pct
<1>23. Keeps(RuleKcompactdCPUSpin(d), RuleKcompactdCPUSpin(e), d.FileLocks, differ)
  BY SMT DEF Rule, RuleKcompactdCPUSpin, VMStatPoorer, ProcessesPoorer, SomeProcesses,
     ProcessPoorer, StatPoorer, VMStatInfo, Counters, Burns, Some, Pct
<1>24. Keeps(RuleMinFreeKbytesStall(d), RuleMinFreeKbytesStall(e), d.FileLocks, differ)
  BY SMT DEF Rule, RuleMinFreeKbytesStall, SameTotals, SettingsPoorer, OrZero, VMStatPoorer,
     VMStatInfo, Counters, Settings
<1>25. Keeps(RuleCorePatternPipeStall(d), RuleCorePatternPipeStall(e), d.FileLocks, differ)
  <2> DEFINE Dumps(p) == p.Wchan \in {"do_coredump", "pipe_wait"} /\ p.State \in {"D", "S"}
             Dumping(f) == {x \in DOMAIN f : Dumps(f[x])}
  <2>1. Dumping(d.Processes) \subseteq Dumping(e.Processes)
    BY SMT DEF ProcessesPoorer, SomeProcesses, ProcessPoorer, WchanPoorer, StatPoorer,
       OrEmpty, EmptyString
  <2>2. Dumping(e.Processes) \in SUBSET DOMAIN e.Processes
    OBVIOUS
  <2>3. d.Processes = e.Processes => Dumping(d.Processes) = Dumping(e.Processes)
    OBVIOUS
  <2>4. Cardinality(Dumping(d.Processes)) >= 2 => Cardinality(Dumping(e.Processes)) >= 2
    <3> HIDE DEF Dumping
    <3> QED  BY <2>1, <2>2, <2>3, FewerCounted
  <2> QED  BY <2>4 DEF Rule, RuleCorePatternPipeStall, AtLeast
<1>26. Keeps(RuleTCPPAWSDrop(d), RuleTCPPAWSDrop(e), d.FileLocks, differ)
  BY SMT DEF Rule, RuleTCPPAWSDrop, NetStatPoorer, AllOrZero, NetstatCounters, SNMPCounters,
     SNMPIPCounters, SoftnetCounters, NetStatInfo, Counters
<1>27. Keeps(RuleCMAZoneExhaustion(d), RuleCMAZoneExhaustion(e), d.FileLocks, differ)
  BY SMT DEF Rule, RuleCMAZoneExhaustion, SameTotals
<1>28. Keeps(RuleLoopDeviceSerialization(d), RuleLoopDeviceSerialization(e), d.FileLocks, differ)
  BY SMT DEF Rule, RuleLoopDeviceSerialization, DisksPoorer, SameRequests, Pct
<1>29. Keeps(RuleRTSchedThrottling(d), RuleRTSchedThrottling(e), d.FileLocks, differ)
  BY SMT DEF Rule, RuleRTSchedThrottling, SettingsPoorer, OrZero, ProcessesPoorer,
     SomeProcesses, ProcessPoorer, StatPoorer, Settings, Some, Pct
<1>30. Keeps(RuleNumaAutoBalancingScanStall(d), RuleNumaAutoBalancingScanStall(e), d.FileLocks, differ)
  BY SMT DEF Rule, RuleNumaAutoBalancingScanStall, SettingsPoorer, OrZero, VMStatPoorer,
     SameTotals, VMStatInfo, Counters, Settings, Pct
<1>31. Keeps(RuleInotifyQueueOverflow(d), RuleInotifyQueueOverflow(e), d.FileLocks, differ)
  BY SMT DEF Rule, RuleInotifyQueueOverflow, GaugesOfFilesPoorer, InotifyPoorer, SameTotals
<1>32. Keeps(RuleCgroupCFSBurstStarvation(d), RuleCgroupCFSBurstStarvation(e), d.FileLocks, differ)
  BY SMT DEF Rule, RuleCgroupCFSBurstStarvation, CgroupsPoorer, CgroupPoorer, AllOrZero,
     ThrottleCounters, MemoryEvents, Some
<1>33. Keeps(RuleZswapCompressorContention(d), RuleZswapCompressorContention(e), d.FileLocks, differ)
  BY SMT DEF Rule, RuleZswapCompressorContention, VMStatPoorer, SameTotals, VMStatInfo,
     Counters, Pct
<1>34. Keeps(RuleNetIfaceCarrierFlap(d), RuleNetIfaceCarrierFlap(e), d.FileLocks, differ)
  BY SMT DEF Rule, RuleNetIfaceCarrierFlap, NetIfacesPoorer, OrZero, EmptyString, IfaceCounters,
     Some
<1>35. Keeps(RuleTHPAllocFallbackStall(d), RuleTHPAllocFallbackStall(e), d.FileLocks, differ)
  BY SMT DEF Rule, RuleTHPAllocFallbackStall, VMStatPoorer, VMStatInfo, Counters
<1>36. Keeps(RuleSchedMigrationBounce(d), RuleSchedMigrationBounce(e), d.FileLocks, differ)
  BY SMT DEF Rule, RuleSchedMigrationBounce, AssumedPoorer, VMStatPoorer, SameTotals,
     VMStatInfo, Counters, Pct
<1>37. Keeps(RuleIPFragReasmDrops(d), RuleIPFragReasmDrops(e), d.FileLocks, differ)
  BY SMT DEF Rule, RuleIPFragReasmDrops, NetStatPoorer, AllOrZero, NetstatCounters,
     SNMPCounters, SNMPIPCounters, SoftnetCounters, NetStatInfo, Counters
<1>38. Keeps(RuleCgroupV2FreezeHang(d), RuleCgroupV2FreezeHang(e), d.FileLocks, differ)
  BY SMT DEF Rule, RuleCgroupV2FreezeHang, CgroupDirPoorer, OrZero, ProcessesPoorer,
     SomeProcesses, ProcessPoorer, StatPoorer, WchanPoorer, OrEmpty, EmptyString, Some
<1>39. Keeps(RuleSysVShmSegmentLimit(d), RuleSysVShmSegmentLimit(e), d.FileLocks, differ)
  BY SMT DEF Rule, RuleSysVShmSegmentLimit, GaugesOfFilesPoorer, SegmentsPoorer, OrZero,
     SameTotals, Ratio
<1>40. Keeps(RuleNetDevRxNoBuffers(d), RuleNetDevRxNoBuffers(e), d.FileLocks, differ)
  BY SMT DEF Rule, RuleNetDevRxNoBuffers, NetIfacesPoorer, OrZero, EmptyString, IfaceCounters,
     Some
<1>41. Keeps(RuleTHPDefragAlways(d), RuleTHPDefragAlways(e), d.FileLocks, differ)
  BY SMT DEF Rule, RuleTHPDefragAlways, ModesPoorer, OrEmpty, EmptyString, VMStatPoorer,
     VMStatInfo, Counters
<1>42. Keeps(RuleCgroupMemoryMaxOOMStall(d), RuleCgroupMemoryMaxOOMStall(e), d.FileLocks, differ)
  BY SMT DEF Rule, RuleCgroupMemoryMaxOOMStall, CgroupsPoorer, CgroupPoorer, AllOrZero,
     ThrottleCounters, MemoryEvents, Some
<1>43. Keeps(RuleTHPScanExhaustionStall(d), RuleTHPScanExhaustionStall(e), d.FileLocks, differ)
  BY SMT DEF Rule, RuleTHPScanExhaustionStall, VMStatPoorer, VMStatInfo, Counters
<1>44. Keeps(RuleNetDevTxQueueTimeout(d), RuleNetDevTxQueueTimeout(e), d.FileLocks, differ)
  BY SMT DEF Rule, RuleNetDevTxQueueTimeout, NetIfacesPoorer, OrZero, EmptyString,
     IfaceCounters, Some
<1>45. Keeps(RuleCgroupCPUCorePinStarvation(d), RuleCgroupCPUCorePinStarvation(e), d.FileLocks, differ)
  BY SubgroupKept, SMT DEF Rule, RuleCgroupCPUCorePinStarvation, SameTotals, ProcessesPoorer,
     SomeProcesses, ProcessPoorer, StatPoorer, StatusPoorer, AllOrZero, StatusCounters, Some,
     Pct
<1>46. Keeps(RuleHugeTLBVMAFaultMisalign(d), RuleHugeTLBVMAFaultMisalign(e), d.FileLocks, differ)
  BY SMT DEF Rule, RuleHugeTLBVMAFaultMisalign, VMStatPoorer, VMStatInfo, Counters
<1>47. Keeps(RuleTCPChronicRTOCollapse(d), RuleTCPChronicRTOCollapse(e), d.FileLocks, differ)
  BY SMT DEF Rule, RuleTCPChronicRTOCollapse, NetStatPoorer, AllOrZero, NetstatCounters,
     SNMPCounters, SNMPIPCounters, SoftnetCounters, NetStatInfo, Counters
<1>48. Keeps(RuleMemcgSockMemoryThrottle(d), RuleMemcgSockMemoryThrottle(e), d.FileLocks, differ)
  <2>1. CASE SameThrottled(d, e)
    BY <2>1, SMT DEF Rule, RuleMemcgSockMemoryThrottle, SameThrottled, ProcessesPoorer,
       SomeProcesses, ProcessPoorer, IOPoorer, FDPoorer, OrZero, Some
  <2>2. CASE \/ \A x : x \notin DOMAIN d.Cgroups
             \/ \A x : x \notin DOMAIN d.Processes
    BY <2>2, SMT DEF Rule, RuleMemcgSockMemoryThrottle, Some
  <2>3. CASE "EDGE_MEMCG_SOCK_MEMORY_THROTTLE" \in differ
    BY <2>3 DEF Rule, RuleMemcgSockMemoryThrottle
  <2> QED  BY <2>1, <2>2, <2>3 DEF CgroupsPoorer
<1>49. Keeps(RuleTHPUseZeroPageSpin(d), RuleTHPUseZeroPageSpin(e), d.FileLocks, differ)
  BY SMT DEF Rule, RuleTHPUseZeroPageSpin, VMStatPoorer, SameTotals, VMStatInfo, Counters, Pct
<1>50. Keeps(RuleSysfsCPUHotplugLockContention(d), RuleSysfsCPUHotplugLockContention(e), d.FileLocks, differ)
  BY SMT DEF Rule, RuleSysfsCPUHotplugLockContention, ProcessesPoorer, SomeProcesses,
     ProcessPoorer, StatPoorer, WchanPoorer, OrEmpty, EmptyString, IdleIn, Pct, Some
<1>51. Keeps(RuleNetIPMulticastIGMPReportStall(d), RuleNetIPMulticastIGMPReportStall(e), d.FileLocks, differ)
  BY SMT DEF Rule, RuleNetIPMulticastIGMPReportStall, NetStatPoorer, AllOrZero, NetstatCounters,
     SNMPCounters, SNMPIPCounters, SoftnetCounters, NetStatInfo, Counters
<1>52. Keeps(RuleProcPIDTaskPthreadLimit(d), RuleProcPIDTaskPthreadLimit(e), d.FileLocks, differ)
  BY SMT DEF Rule, RuleProcPIDTaskPthreadLimit, ProcessesPoorer, SomeProcesses, ProcessPoorer,
     StatPoorer, Some
<1>53. Keeps(RuleZoneNormalFragmentation(d), RuleZoneNormalFragmentation(e), d.FileLocks, differ)
  BY SMT DEF Rule, RuleZoneNormalFragmentation, GaugesPoorer, Gauges
<1>54. Keeps(RuleNetDevCarrierDownDrop(d), RuleNetDevCarrierDownDrop(e), d.FileLocks, differ)
  BY SMT DEF Rule, RuleNetDevCarrierDownDrop, NetIfacesPoorer, OrZero, EmptyString,
     IfaceCounters, Some
<1>55. Keeps(RuleProcPtracedStoppedStall(d), RuleProcPtracedStoppedStall(e), d.FileLocks, differ)
  BY SMT DEF Rule, RuleProcPtracedStoppedStall, ProcessesPoorer, SomeProcesses, ProcessPoorer,
     StatPoorer, StatusPoorer, AllOrZero, StatusCounters, Some
<1>56. Keeps(RuleMemSlabDentryPressure(d), RuleMemSlabDentryPressure(e), d.FileLocks, differ)
  BY SMT DEF Rule, RuleMemSlabDentryPressure, SameTotals, VMStatPoorer, VMStatInfo, Counters,
     Ratio
<1>57. Keeps(RuleNetIPReasmTimeoutStall(d), RuleNetIPReasmTimeoutStall(e), d.FileLocks, differ)
  BY SMT DEF Rule, RuleNetIPReasmTimeoutStall, NetStatPoorer, AllOrZero, NetstatCounters,
     SNMPCounters, SNMPIPCounters, SoftnetCounters, NetStatInfo, Counters
<1>58. Keeps(RuleMemMinWatermarkBounce(d), RuleMemMinWatermarkBounce(e), d.FileLocks, differ)
  BY SMT DEF Rule, RuleMemMinWatermarkBounce, SameTotals, VMStatPoorer, VMStatInfo, Counters
<1>59. Keeps(RuleProcCommSwitchTruncation(d), RuleProcCommSwitchTruncation(e), d.FileLocks, differ)
  BY SMT DEF Rule, RuleProcCommSwitchTruncation, ProcessesPoorer, SomeProcesses, ProcessPoorer,
     StatPoorer, WchanPoorer, OrEmpty, EmptyString, Some
<1>60. Keeps(RuleEpollPollTimeoutBurst(d), RuleEpollPollTimeoutBurst(e), d.FileLocks, differ)
  BY SMT DEF Rule, RuleEpollPollTimeoutBurst, ProcessesPoorer, SomeProcesses, ProcessPoorer,
     StatPoorer, WchanPoorer, OrEmpty, EmptyString, FDPoorer, OrZero, Some
<1>61. Keeps(RuleNetTCPSynFloodDrop(d), RuleNetTCPSynFloodDrop(e), d.FileLocks, differ)
  BY SMT DEF Rule, RuleNetTCPSynFloodDrop, NetStatPoorer, AllOrZero, NetstatCounters,
     SNMPCounters, SNMPIPCounters, SoftnetCounters, NetStatInfo, Counters
<1>62. Keeps(RuleSysfsPowerThrottleEvent(d), RuleSysfsPowerThrottleEvent(e), d.FileLocks, differ)
  BY SMT DEF Rule, RuleSysfsPowerThrottleEvent, GaugesOfFilesPoorer, Heated, Some,
     CPUFreqPoorer, ThermalPoorer, FrequencyRules, OrZero, OrEmpty
<1>63. Keeps(RuleProcZombieParentDeadlock(d), RuleProcZombieParentDeadlock(e), d.FileLocks, differ)
  <2>1. ManyInState(10, "Z", d) => ManyInState(10, "Z", e)
    BY StateKept
  <2> QED
    BY <2>1, SMT DEF Rule, RuleProcZombieParentDeadlock, ProcessesPoorer, SomeProcesses,
       ProcessPoorer, StatPoorer, WchanPoorer, OrEmpty, EmptyString, Some
<1>64. Keeps(RuleIOSchedulerMismatch(d), RuleIOSchedulerMismatch(e), d.FileLocks, differ)
  BY SMT DEF Rule, RuleIOSchedulerMismatch, DisksPoorer, SameRequests, QueuePoorer, OrEmpty,
     EmptyString, Some, Ms
<1>65. Keeps(RuleOOMImmuneMemoryHog(d), RuleOOMImmuneMemoryHog(e), d.FileLocks, differ)
  BY SMT DEF Rule, RuleOOMImmuneMemoryHog, SameTotals, ProcessesPoorer, SomeProcesses,
     ProcessPoorer, StatPoorer, OrZero, Some, Ratio, oomWhitelistedComms
<1>66. Keeps(RuleSharedCacheRSSIllusion(d), RuleSharedCacheRSSIllusion(e), d.FileLocks, differ)
  BY SMT DEF Rule, RuleSharedCacheRSSIllusion, ProcessesPoorer, SomeProcesses, ProcessPoorer,
     StatPoorer, SmapsPoorer, Some
<1> HIDE DEF Keeps, Poorer, FileLocksRule, Edge, SevereEdge
<1> QED
  BY <1>1, <1>2, <1>3, <1>4, <1>5, <1>6, <1>7, <1>8, <1>9, <1>10, <1>11, <1>12, <1>13, <1>14,
     <1>15, <1>16, <1>17, <1>18, <1>19, <1>20, <1>21, <1>22, <1>23, <1>24, <1>25, <1>26, <1>27,
     <1>28, <1>29, <1>30, <1>31, <1>32, <1>33, <1>34, <1>35, <1>36, <1>37, <1>38, <1>39, <1>40,
     <1>41, <1>42, <1>43, <1>44, <1>45, <1>46, <1>47, <1>48, <1>49, <1>50, <1>51, <1>52, <1>53,
     <1>54, <1>55, <1>56, <1>57, <1>58, <1>59, <1>60, <1>61, <1>62, <1>63, <1>64, <1>65, <1>66
  DEF GetTier3Rules

-----------------------------------------------------------------------------
\* What the rules of a tier find, from what each of them does.
LEMMA TierKeeps ==
  ASSUME NEW n, NEW R, NEW S, NEW locks, NEW differ, DOMAIN R = 1..n, DOMAIN S = 1..n,
         \A j \in 1..n : Keeps(R[j], S[j], locks, differ)
  PROVE  /\ FoundBy(R) \subseteq FoundBy(S) \cup differ
         /\ FileLocksRule \in FoundBy(R) => locks # SystemSnapshot.FileLocks
BY DEF Keeps, FoundBy

\* No rule finds more in less, but those in `differ'; and no blocked locks are found
\* where the locks were not read.
LEMMA PoorerFindsLess ==
  ASSUME NEW d, NEW e, NEW differ, Poorer(d, e, differ)
  PROVE  /\ Fired(d) \subseteq Fired(e) \cup differ
         /\ d.FileLocks = SystemSnapshot.FileLocks => FileLocksRule \notin Fired(d)
<1> DEFINE Fine(R, S) ==
             /\ FoundBy(R) \subseteq FoundBy(S) \cup differ
             /\ FileLocksRule \in FoundBy(R) => d.FileLocks # SystemSnapshot.FileLocks
<1>1. ASSUME NEW n, NEW R, NEW S, DOMAIN R = 1..n, DOMAIN S = 1..n,
             \A j \in 1..n : Keeps(R[j], S[j], d.FileLocks, differ)
      PROVE  Fine(R, S)
  BY <1>1, TierKeeps
<1> HIDE DEF Fine
<1>2. Fine(GetTier1Rules(d), GetTier1Rules(e))
  <2>1. DOMAIN GetTier1Rules(d) = 1..13 /\ DOMAIN GetTier1Rules(e) = 1..13
    BY DEF GetTier1Rules
  <2>2. \A j \in 1..13 : Keeps(GetTier1Rules(d)[j], GetTier1Rules(e)[j], d.FileLocks, differ)
    BY Tier1Keeps
  <2> QED  BY <1>1, <2>1, <2>2
<1>3. Fine(GetTier2Rules(d), GetTier2Rules(e))
  <2>1. DOMAIN GetTier2Rules(d) = 1..93 /\ DOMAIN GetTier2Rules(e) = 1..93
    BY DEF GetTier2Rules
  <2>2. \A j \in 1..93 : Keeps(GetTier2Rules(d)[j], GetTier2Rules(e)[j], d.FileLocks, differ)
    BY Tier2Keeps
  <2> QED  BY <1>1, <2>1, <2>2
<1>4. Fine(GetTier3Rules(d), GetTier3Rules(e))
  <2>1. DOMAIN GetTier3Rules(d) = 1..66 /\ DOMAIN GetTier3Rules(e) = 1..66
    BY DEF GetTier3Rules
  <2>2. \A j \in 1..66 : Keeps(GetTier3Rules(d)[j], GetTier3Rules(e)[j], d.FileLocks, differ)
    BY Tier3Keeps
  <2> QED  BY <1>1, <2>1, <2>2
<1> QED  BY <1>2, <1>3, <1>4, Zenon DEF Fired, Fine
=============================================================================
