\* Two snapshots; one collector of the batch and one that answers in time, late or
\* never, under fairness of everything else.
SPECIFICATION FairSpec
CONSTANTS
  vmstat = vmstat
  netstat = netstat
  Sequential = {vmstat}
  Tasks = {netstat}
  MaxSnaps = 2
  MaxCount <- TwoEvents
INVARIANTS
  TypeOK
  ReceivedResultKept
  NoStaleField
PROPERTIES
  NoLateWrite
  SnapshotReturns
  LateTaskEnds
