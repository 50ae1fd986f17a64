------------------------------- MODULE Median -------------------------------
(***************************************************************************)
(* internal/collector/median.go: several diffs become one.  Some of the    *)
(* numbers become medians, the others are those of the latest diff.        *)
(***************************************************************************)
EXTENDS Readings

\* Faulty variant: the largest value.
Largest(vals) ==
  CHOOSE v \in {vals[i] : i \in DOMAIN vals} : \A i \in DOMAIN vals : vals[i] <= v

\* sorted[len/2]: of an even number of values the upper of the two in the middle.
MedianOf(vals) ==
  CHOOSE v \in {vals[i] : i \in DOMAIN vals} :
    /\ Cardinality({i \in DOMAIN vals : vals[i] < v}) <= Len(vals) \div 2
    /\ Cardinality({i \in DOMAIN vals : vals[i] <= v}) > Len(vals) \div 2

\* `latest' with the medians of some fields over the records of all diffs.
MedianFields(records, fields) ==
  LET latest == records[Len(records)]
  IN  [f \in DOMAIN latest |->
         IF f \in fields THEN MedianOf([i \in DOMAIN records |-> records[i][f]])
                         ELSE latest[f]]

MedianCPUUtil(utils) == MedianFields(utils, DOMAIN utils[1])

MedianVMStat(diffs) ==
  MedianFields([i \in DOMAIN diffs |-> diffs[i].VMStat],
               {"PgScanDirect", "AllocStallDirect", "CompactStall", "PgMajFault",
                "Pswpin", "Pswpout", "OOMKill"})

MedianNetStat(diffs) ==
  MedianFields([i \in DOMAIN diffs |-> diffs[i].NetStat],
               {"ListenOverflows", "ListenDrops", "TCPMemoryPressures", "RetransSegs",
                "SoftnetDropped", "SoftnetTimeSqueeze"})

\* The cores that every diff has.
MedianPerCoreCPUUtil(diffs) ==
  LET minCores == CHOOSE n \in {Len(diffs[i].PerCoreCPUUtil) : i \in DOMAIN diffs} :
                    \A i \in DOMAIN diffs : n <= Len(diffs[i].PerCoreCPUUtil)
  IN  [c \in 1..minCores |->
         MedianCPUUtil([i \in DOMAIN diffs |-> diffs[i].PerCoreCPUUtil[c]])]

\* The devices that every diff has.  The requests completed are the latest diff's.
MedianDiskDiffs(diffs) ==
  LET devices == {name \in DOMAIN diffs[Len(diffs)].Disks :
                    \A i \in DOMAIN diffs : name \in DOMAIN diffs[i].Disks}
  IN  [name \in devices |->
         MedianFields([i \in DOMAIN diffs |-> diffs[i].Disks[name]],
                      {"UtilPercent", "AvgReadLatencyMS", "AvgWriteLatencyMS",
                       "AvgQueueLatencyMS"})]

\* The cgroups that every diff has, in the order of the latest.
MedianCgroupDiffs(diffs) ==
  LET Groups(i) == {diffs[i].Cgroups[k] : k \in DOMAIN diffs[i].Cgroups}
      Of(i, path) == CHOOSE g \in Groups(i) : g.Path = path
      latest == diffs[Len(diffs)].Cgroups
      kept == {k \in DOMAIN latest :
                 \A i \in DOMAIN diffs : \E g \in Groups(i) : g.Path = latest[k].Path}
  IN  [k \in kept |->
         MedianFields([i \in DOMAIN diffs |-> Of(i, latest[k].Path)],
                      {"ThrottledUsec", "NrThrottled", "OOMKills", "MemoryHighEvents"})]

MedianCount(diffs, f) == MedianOf([i \in DOMAIN diffs |-> diffs[i][f]])

\* At least one diff; a single one is returned as it is.  FileLocks is not among the
\* fields of the result that are set.
MedianDiff(diffs) ==
  IF Len(diffs) = 1 THEN diffs[1]
  ELSE [diffs[Len(diffs)] EXCEPT
          !.ClockJumpDetected = \E i \in DOMAIN diffs : diffs[i].ClockJumpDetected,
          !.ProcsRunning = MedianCount(diffs, "ProcsRunning"),
          !.ProcsBlocked = MedianCount(diffs, "ProcsBlocked"),
          !.ContextSwitches = MedianCount(diffs, "ContextSwitches"),
          !.ProcessesCreated = MedianCount(diffs, "ProcessesCreated"),
          !.TotalCPUUtil = MedianCPUUtil([i \in DOMAIN diffs |-> diffs[i].TotalCPUUtil]),
          !.PerCoreCPUUtil = MedianPerCoreCPUUtil(diffs),
          !.VMStat = MedianVMStat(diffs), !.NetStat = MedianNetStat(diffs),
          !.Disks = MedianDiskDiffs(diffs), !.Cgroups = MedianCgroupDiffs(diffs),
          !.FileLocks = SystemSnapshot.FileLocks]
=============================================================================
