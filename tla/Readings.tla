------------------------------ MODULE Readings ------------------------------
(***************************************************************************)
(* What one snapshot of the kernel holds, and how DiffSnapshots turns two  *)
(* snapshots into rates and deltas (internal/collector/snapshot.go).       *)
(*                                                                         *)
(* A snapshot is a record with one field per source that is read.  Only    *)
(* what some rule looks at is kept.  Percentages and pressure averages are *)
(* in tenths, ratios in thousandths, memory in kB.                         *)
(***************************************************************************)
EXTENDS Integers, Sequences, FiniteSets, TLC

Counters(names) == [n \in names |-> 0]

\* Record r with more fields.
Extended(r, more) ==
  [f \in DOMAIN r \cup DOMAIN more |-> IF f \in DOMAIN more THEN more[f] ELSE r[f]]

\* Go's empty string: what a text is that was not read.
EmptyString == "empty"

\* The counters of /proc/vmstat and of /proc/net/{netstat,snmp,softnet_stat}
\* that rules look at.
VMStatInfo == Counters({
  "PgScanDirect", "AllocStallDirect", "CompactStall", "CompactFail", "PgMajFault",
  "Pswpin", "Pswpout", "NumaMiss", "NumaForeign", "THPCollapseAlloc",
  "THPCollapseAllocFailed", "WorkingsetRefaultFile", "THPSplit", "NumaPteUpdates",
  "Zswpout", "ZswapRejectReclaimFail", "THPFaultFallback", "THPFaultAlloc",
  "THPScanExceed", "NRDirty", "THPZeroPageAlloc", "OOMKill"})

\* Nothing in the collectors sets TCPOFODrop, so it is zero in every snapshot.
NetStatInfo == Counters({
  "ListenOverflows", "ListenDrops", "TCPMemoryPressures", "TCPRcvCollapsed",
  "TCPAbortOnMemory", "TCPReqQFullDoCookies", "TCPWinProbe", "TCPZeroWindowDrop",
  "RetransSegs", "OutSegs", "SoftnetDropped", "SoftnetTimeSqueeze",
  "UDPRcvbufErrors", "UDPSndbufErrors", "UDPInErrors", "TCPAbortOnData",
  "TCPTimeWaitOverflow", "PAWSEstab", "PAWSPassive", "TCPSlowStartRetrans",
  "SyncookiesSent", "SyncookiesFailed", "TCPOFOQueue", "TCPOFODrop",
  "IPReasmReqds", "IPReasmFails", "IPReasmTimeout", "TCPAbortOnClose",
  "TCPTimeouts", "TCPSpuriousRtxHost", "TCPFastOpenActiveFail",
  "TCPFastOpenPassiveFail", "TCPSynRetrans", "TCPDeferAcceptDrop"})

\* Ticks of one core, or of all.  Nice is counted under User and IRQ under System,
\* as every use of the two does.
CoreCPUStat == Counters({"User", "System", "Idle", "IOWait", "SoftIRQ", "Steal"})

MemInfo == Counters({
  "MemTotal", "MemAvailable", "SwapTotal", "SwapFree", "Dirty", "Writeback",
  "Shmem", "SUnreclaim", "HugePagesTotal", "HugePagesFree", "HugePagesRsvd",
  "CmaTotal", "CmaFree"})

DiskCounters == {"ReadsCompleted", "WritesCompleted", "TimeReadingMS",
                 "TimeWritingMS", "SectorsRead", "SectorsWritten", "IOTicks",
                 "WeightedIOTicks"}
DiskDeviceStat == Extended(Counters(DiskCounters),
  [IOsInProgress |-> 0, Scheduler |-> EmptyString, Rotational |-> FALSE])

IfaceCounters == {"CarrierChanges", "RxCRCErrors", "TxErrors", "TxCarrierErrors",
                  "RxMissedErrors", "RxFIFOErrors"}
NetIfaceStat == Extended(Counters(IfaceCounters), [OperState |-> EmptyString])

CgroupCounters == {"ThrottledUsec", "NrThrottled", "NrPeriods", "OOMKills",
                   "MemoryHighEvents", "NrBursts", "BurstUsec", "MemEventsMax"}
CgroupEntry == Extended(Counters(CgroupCounters),
  [Path |-> EmptyString, Frozen |-> FALSE, CPUShares |-> 0])

\* A wait channel or a command name stands for every string that the rules do not
\* tell apart from it: "fuse_request_wait" for all that contain it.
ProcessCounters == {"UTime", "STime", "ReadBytes", "WriteBytes",
                    "VoluntaryCtxtSwitches", "NonvoluntaryCtxtSwitches"}
ProcessInfo == Extended(Counters(ProcessCounters),
  [Comm |-> EmptyString, State |-> EmptyString, PPID |-> 0, NumThreads |-> 0,
   RSSKB |-> 0, OOMScoreAdj |-> 0, Wchan |-> EmptyString, OpenFDs |-> 0, MaxFDs |-> 0,
   CgroupPath |-> EmptyString, CpusAllowed |-> 0, TracerPID |-> 0, Policy |-> 0,
   SigQQueued |-> 0, SigQMax |-> 0, SmapsAvailable |-> FALSE, Swap |-> 0,
   PSS |-> 0, SharedClean |-> 0, PrivateDirty |-> 0])

CoreFreq == [MaxFreq |-> 0, CurFreq |-> 0, Governor |-> EmptyString]

NoPressure == [Some |-> 0, Full |-> 0]

\* A record that also says whether its source could be read.
Unread(names) ==
  [f \in names \cup {"Available"} |-> IF f = "Available" THEN FALSE ELSE 0]

(***************************************************************************)
(* A snapshot in which no source was read: Go's zero values.  Disks,       *)
(* mounts, interfaces, processes, cores, thermal zones and tables of TCP   *)
(* sockets are functions from their names; the code keeps of the zones the *)
(* highest temperature and adds up the two tables, as the rules do here.   *)
(* Nothing in the collectors sets Virt, so it is zero in every snapshot.   *)
(***************************************************************************)
SystemSnapshot == [
  Timestamp |-> 0,
  PSI |-> [Available |-> FALSE, CPU |-> NoPressure, Memory |-> NoPressure,
           IO |-> NoPressure],
  CPU |-> [TotalCPU |-> CoreCPUStat, PerCore |-> <<>>, ProcsRunning |-> 0,
           ProcsBlocked |-> 0, ContextSwitches |-> 0, ProcessesCreated |-> 0],
  Memory |-> MemInfo, VMStat |-> VMStatInfo, NetStat |-> NetStatInfo,
  DiskStats |-> <<>>, DiskSpace |-> <<>>, NetIfaces |-> <<>>, Processes |-> <<>>,
  Cgroups |-> [Frozen |-> FALSE, Groups |-> <<>>],
  CPUFreq |-> <<>>, Thermal |-> <<>>, TCPSockets |-> <<>>,
  Clocksource |-> EmptyString,
  LoadAvg |-> Unread({"Load1", "Load5"}),
  FileLocks |-> [Available |-> FALSE, BlockedLocks |-> <<>>],
  PIDMax |-> 0, PortRange |-> Counters({"Low", "High"}),
  SockStat |-> Counters({"TCPInUse", "TCPOrphan", "TCPTimeWait"}),
  Conntrack |-> Unread({"Count", "Max"}),
  BuddyInfo |-> Unread({"DMA32FreePages", "NormalFreePages", "NormalOrder0Pages",
                        "NormalHighOrderPages"}),
  KSM |-> [Available |-> FALSE, Running |-> FALSE, PagesToScan |-> 0, PagesSharing |-> 0],
  IRQStat |-> Unread({"MaxCoreIRQs", "OtherCoresAvgIRQs"}),
  Virt |-> [BalloonKB |-> 0],
  Neighbor |-> Unread({"ActiveEntries", "GCThresh3"}),
  Inotify |-> Unread({"MaxUserWatches", "MaxQueuedEvents"}),
  SchedStat |-> Unread({"RunqueueWaitTimeMS", "RunningTimeMS"}),
  MinFreeKbytes |-> 0, TCPMaxTWBuckets |-> 0, NumaBalancing |-> 0,
  SchedRTRuntimeUS |-> 0, SchedMigrationCostNS |-> 0, THPDefragMode |-> EmptyString,
  SysVSem |-> Unread({"SemMNS", "SemMNI", "AllocatedSemaphores", "AllocatedSemSets"}),
  AIO |-> Counters({"AIONR", "AIOMaxNR"}),
  SysVShm |-> Unread({"ShmMNI", "ShmAll", "AllocatedSegments", "AllocatedPages"}),
  MDStat |-> [Available |-> FALSE, ActiveResync |-> FALSE],
  FileNR |-> Unread({"Allocated", "Max"}),
  Slab |-> Unread({"DentryCacheActive"})]

Sources == DOMAIN SystemSnapshot \ {"Timestamp"}

\* What CollectSystemConfig reads, one file after the other.
SystemConfig ==
  {"SockStat", "PortRange", "PIDMax", "Conntrack", "BuddyInfo", "KSM", "IRQStat", "Neighbor",
   "Inotify", "SchedStat", "MinFreeKbytes", "SysVSem", "TCPMaxTWBuckets", "NumaBalancing",
   "SchedRTRuntimeUS", "SchedMigrationCostNS", "AIO", "SysVShm", "MDStat", "THPDefragMode",
   "FileNR", "Slab"}

\* The limits for which the kernel's default is taken when their file cannot be read.
ParsePIDMax == 32768
ParsePortRange == [Low |-> 32768, High |-> 60999]
Defaults == [PIDMax |-> ParsePIDMax, PortRange |-> ParsePortRange]

(***************************************************************************)
(* A reading that fails is one of                                          *)
(*   <<source>>                 all of a source, or the file without which *)
(*                              nothing of it is kept;                     *)
(*   <<source, file>>           one more file of a source;                 *)
(*   <<source, file, name>>     the same of one disk, interface, process,  *)
(*                              cgroup or core;                            *)
(*   <<source, "entry", name>>  all of one of them, or of a mount, a       *)
(*                              thermal zone or a table of sockets;        *)
(*   <<"SystemConfig">>         CollectSystemConfig is late.               *)
(* Files says which fields a file fills.  A file of an interface is named  *)
(* for the one field that it fills.                                        *)
(***************************************************************************)
SNMPCounters ==
  {"RetransSegs", "OutSegs", "UDPRcvbufErrors", "UDPSndbufErrors", "UDPInErrors"}
SNMPIPCounters == {"IPReasmReqds", "IPReasmFails", "IPReasmTimeout"}
SoftnetCounters == {"SoftnetDropped", "SoftnetTimeSqueeze"}

Files == [
  PSI |-> [memory |-> {"Memory"}, io |-> {"IO"}],
  NetStat |-> [
    netstat |-> DOMAIN NetStatInfo \ (SNMPCounters \cup SNMPIPCounters \cup SoftnetCounters),
    snmp |-> SNMPCounters, snmp_ip |-> SNMPIPCounters, softnet_stat |-> SoftnetCounters],
  KSM |-> [pages_sharing |-> {"PagesSharing"}, pages_to_scan |-> {"PagesToScan"}],
  SysVSem |-> [kernel_sem |-> {"Available", "SemMNS", "SemMNI"},
               sysvipc_sem |-> {"AllocatedSemaphores", "AllocatedSemSets"}],
  SysVShm |-> [sysvipc_shm |-> {"Available", "AllocatedSegments", "AllocatedPages"},
               shmmni |-> {"ShmMNI"}, shmall |-> {"ShmAll"}],
  AIO |-> [aio_nr |-> {"AIONR"}, aio_max_nr |-> {"AIOMaxNR"}],
  Neighbor |-> [gc_thresh3 |-> {"GCThresh3"}],
  Inotify |-> [max_user_watches |-> {"Available", "MaxUserWatches"},
               max_queued_events |-> {"MaxQueuedEvents"}],
  DiskStats |-> [scheduler |-> {"Scheduler"}, rotational |-> {"Rotational"}],
  NetIfaces |-> [file \in IfaceCounters \cup {"OperState"} |-> {file}],
  Processes |-> [
    io |-> {"ReadBytes", "WriteBytes"}, wchan |-> {"Wchan"}, limits |-> {"MaxFDs"},
    fd |-> {"OpenFDs"}, cgroup |-> {"CgroupPath"}, oom_score_adj |-> {"OOMScoreAdj"},
    status |-> {"VoluntaryCtxtSwitches", "NonvoluntaryCtxtSwitches", "CpusAllowed",
                "TracerPID", "SigQQueued", "SigQMax"},
    smaps_rollup |-> {"SmapsAvailable", "Swap", "PSS", "SharedClean", "PrivateDirty"}],
  Cgroups |-> [
    cpu_stat |-> {"ThrottledUsec", "NrThrottled", "NrPeriods", "NrBursts", "BurstUsec"},
    memory_events |-> {"OOMKills", "MemoryHighEvents", "MemEventsMax"},
    freeze |-> {"Frozen"}, cpu_shares |-> {"CPUShares"}],
  CPUFreq |-> [scaling_max_freq |-> {"MaxFreq"}, scaling_cur_freq |-> {"CurFreq"},
               scaling_governor |-> {"Governor"}]]

\* The sources that are functions from names in a snapshot.
Listed ==
  {"DiskStats", "DiskSpace", "NetIfaces", "Processes", "CPUFreq", "Thermal", "TCPSockets"}

\* What the fields of a file hold that cannot be read: zero, but ParseNeighborTable
\* begins with the kernel's default.
DefaultGCThresh3 == 1024
Blank == [
  PSI |-> SystemSnapshot.PSI, NetStat |-> NetStatInfo, KSM |-> SystemSnapshot.KSM,
  SysVSem |-> SystemSnapshot.SysVSem, SysVShm |-> SystemSnapshot.SysVShm,
  AIO |-> SystemSnapshot.AIO, Inotify |-> SystemSnapshot.Inotify,
  Neighbor |-> [SystemSnapshot.Neighbor EXCEPT !.GCThresh3 = DefaultGCThresh3],
  DiskStats |-> DiskDeviceStat, NetIfaces |-> NetIfaceStat, Processes |-> ProcessInfo,
  Cgroups |-> CgroupEntry, CPUFreq |-> CoreFreq]

\* The fields that are missing from a source, and from the record of one name.
Missing(source, lost) ==
  UNION {Files[source][file] : file \in {x \in DOMAIN Files[source] : <<source, x>> \in lost}}
MissingOf(source, name, lost) ==
  UNION {Files[source][file] :
           file \in {x \in DOMAIN Files[source] : <<source, x, name>> \in lost}}

ReadFiles(r, missing, blank) ==
  IF missing = {} THEN r ELSE [f \in DOMAIN r |-> IF f \in missing THEN blank[f] ELSE r[f]]

\* A source without names.  When CollectSystemConfig is late, no default is taken either.
Late(source, lost) == source \in SystemConfig /\ <<"SystemConfig">> \in lost
ReadSource(source, r, lost) ==
  IF Late(source, lost) THEN SystemSnapshot[source]
  ELSE IF <<source>> \in lost
       THEN IF source \in DOMAIN Defaults THEN Defaults[source] ELSE SystemSnapshot[source]
  ELSE IF source \in DOMAIN Files
       THEN ReadFiles(r, Missing(source, lost), Blank[source])
  ELSE r

\* One with names: those of which something could be read.
ReadEntry(source, name, r, lost) ==
  IF source \in DOMAIN Files THEN ReadFiles(r, MissingOf(source, name, lost), Blank[source])
  ELSE r
ReadEntries(source, entries, lost) ==
  IF \A reading \in lost : reading[1] # source THEN entries
  ELSE [name \in {x \in DOMAIN entries : /\ <<source>> \notin lost
                                        /\ <<source, "entry", x>> \notin lost}
          |-> ReadEntry(source, name, entries[name], lost)]

\* ParseCgroups: the root and the cgroups of the scanned processes, as far as their
\* files are there; `dir' is the directory.  Go iterates over a map: in any order.  A
\* list of cgroups is a function from their places in `order', with gaps where one
\* is absent.
ParseCgroups(dir, procs, order) ==
  LET paths == ({"/"} \cup {procs[pid].CgroupPath : pid \in DOMAIN procs}) \ {EmptyString}
      found == {i \in DOMAIN order : order[i] \in paths \cap DOMAIN dir}
  IN  [Frozen |-> \E i \in found : dir[order[i]].Frozen,
       Groups |-> [i \in found |-> dir[order[i]]]]

\* CollectSnapshot on a host whose cgroups are a function from their paths, when the
\* readings in `lost' fail.  The cgroups are those of the processes that could be read.
CollectSnapshot(host, lost, order) ==
  LET procs == ReadEntries("Processes", host.Processes, lost)
      dir == ReadEntries("Cgroups", host.Cgroups, lost)
  IN  [source \in DOMAIN host |->
         IF source = "Timestamp" THEN host.Timestamp
         ELSE IF source = "Cgroups" THEN ParseCgroups(dir, procs, order)
         ELSE IF source \in Listed THEN ReadEntries(source, host[source], lost)
         ELSE ReadSource(source, host[source], lost)]

-----------------------------------------------------------------------------
\* Faulty variant: unsigned subtraction; 2^21 stands for the width of the counter.
WrappingDiff(newVal, oldVal) ==
  newVal - oldVal + (IF newVal < oldVal THEN 2^21 ELSE 0)

\* Faulty variant: what was counted before the first snapshot is not taken off.
TotalSinceBoot(newVal, oldVal) == newVal

\* diffUint64: a counter that shrank did not move.
DiffUint64(newVal, oldVal) == IF newVal > oldVal THEN newVal - oldVal ELSE 0

\* The deltas of some counters, under the counters' own names; the other fields
\* are those of the newer reading.
CounterDiff(a, b, counters) ==
  [f \in DOMAIN b |-> IF f \in counters THEN DiffUint64(b[f], a[f]) ELSE b[f]]

CalculateVMStatDiff(a, b) == CounterDiff(a, b, DOMAIN VMStatInfo)
CalculateNetStatDiff(a, b) == CounterDiff(a, b, DOMAIN NetStatInfo)

\* Faulty variant: requests served in parallel may keep a device busy for longer than
\* the window.
ClampNegative(v) == IF v < 0 THEN 0 ELSE v

ClampPercent(v) == IF v < 0 THEN 0 ELSE IF v > 1000 THEN 1000 ELSE v

Busy(c) == c.User + c.System + c.SoftIRQ + c.Steal
Total(c) == Busy(c) + c.Idle + c.IOWait

\* No percentages at all when the total did not grow.
CalculateCoreUtil(a, b) ==
  LET total == Total(b) - Total(a)
      Percent(new, old) == IF total <= 0 THEN 0
                           ELSE ClampPercent((1000 * DiffUint64(new, old)) \div total)
  IN  [SystemPercent |-> Percent(b.System, a.System),
       IdlePercent |-> Percent(b.Idle, a.Idle),
       SoftIRQPercent |-> Percent(b.SoftIRQ, a.SoftIRQ),
       StealPercent |-> Percent(b.Steal, a.Steal),
       BusyPercent |-> Percent(Busy(b), Busy(a))]

CalculatePerCoreUtil(a, b) ==
  [i \in DOMAIN a \cap DOMAIN b |-> CalculateCoreUtil(a[i], b[i])]

\* Milliseconds in tenths; a device without requests has no latency.
Average(time, requests) == IF requests = 0 THEN 0 ELSE (10 * time) \div requests

\* Only devices of both snapshots.  Throughput of disks is read by no rule.
CalculateDiskDiff(a, b, duration) ==
  [name \in DOMAIN a \cap DOMAIN b |->
     LET d == CounterDiff(a[name], b[name], DiskCounters)
     IN  Extended(d, [UtilPercent |-> ClampPercent(d.IOTicks \div duration),
                      AvgReadLatencyMS |-> Average(d.TimeReadingMS, d.ReadsCompleted),
                      AvgWriteLatencyMS |-> Average(d.TimeWritingMS, d.WritesCompleted),
                      AvgQueueLatencyMS |-> Average(d.WeightedIOTicks,
                                              d.ReadsCompleted + d.WritesCompleted)])]

\* Faulty variant: an interface of the second snapshot only counts from zero.
CalculateNetIfacesDiffFromZero(a, b) ==
  [name \in DOMAIN b |->
     CounterDiff(IF name \in DOMAIN a THEN a[name] ELSE NetIfaceStat, b[name],
                 IfaceCounters)]

\* An interface of the second snapshot only has not changed.
CalculateNetIfacesDiff(a, b) ==
  [name \in DOMAIN b |->
     CounterDiff(IF name \in DOMAIN a THEN a[name] ELSE b[name], b[name],
                 IfaceCounters)]

\* Cgroups of both snapshots, in the order of the second.
CalculateCgroupDiff(a, b) ==
  LET Old(path) == CHOOSE g \in {a[i] : i \in DOMAIN a} : g.Path = path
      both == {k \in DOMAIN b : \E i \in DOMAIN a : a[i].Path = b[k].Path}
  IN  [k \in both |-> CounterDiff(Old(b[k].Path), b[k], CgroupCounters)]

\* calculateProcessDiff and buildProcessDiff: joined by PID alone.  A tick of CPU
\* time is 1/100 s.
CalculateProcessDiff(a, b, duration) ==
  [pid \in DOMAIN b |->
     LET old == IF pid \in DOMAIN a THEN a[pid] ELSE b[pid]
         cpu == DiffUint64(b[pid].UTime + b[pid].STime, old.UTime + old.STime)
     IN  Extended(CounterDiff(old, b[pid], ProcessCounters),
                  [CPUTime |-> cpu, CPUPercent |-> (10 * cpu) \div duration])]

DiffSnapshots(a, b) ==
  LET elapsed == b.Timestamp - a.Timestamp
      duration == IF elapsed <= 0 THEN 1 ELSE elapsed
  IN  [Duration |-> duration, ClockJumpDetected |-> elapsed <= 0,
       ProcsRunning |-> b.CPU.ProcsRunning, ProcsBlocked |-> b.CPU.ProcsBlocked,
       ContextSwitches |-> DiffUint64(b.CPU.ContextSwitches, a.CPU.ContextSwitches),
       ProcessesCreated |->
         DiffUint64(b.CPU.ProcessesCreated, a.CPU.ProcessesCreated),
       TotalCPUUtil |-> CalculateCoreUtil(a.CPU.TotalCPU, b.CPU.TotalCPU),
       PerCoreCPUUtil |-> CalculatePerCoreUtil(a.CPU.PerCore, b.CPU.PerCore),
       Disks |-> CalculateDiskDiff(a.DiskStats, b.DiskStats, duration),
       VMStat |-> CalculateVMStatDiff(a.VMStat, b.VMStat),
       NetStat |-> CalculateNetStatDiff(a.NetStat, b.NetStat),
       Cgroups |-> CalculateCgroupDiff(a.Cgroups.Groups, b.Cgroups.Groups),
       NetIfaces |-> CalculateNetIfacesDiff(a.NetIfaces, b.NetIfaces),
       Processes |-> CalculateProcessDiff(a.Processes, b.Processes, duration),
       FileLocks |-> b.FileLocks, Latest |-> b]
=============================================================================
