\* Deltas against a snapshot in which a collector failed.
SPECIFICATION Spec
CONSTANTS
  vmstat = vmstat
  netstat = netstat
  Sequential = {}
  Tasks = {netstat}
  MaxSnaps = 2
  MaxCount <- OneEvent
INVARIANT DeltaWithinWindow
