\* Three PIDs, one of them unreadable, and two workers.
SPECIFICATION FairSpec
CONSTANTS
  p1 = p1
  p2 = p2
  p3 = p3
  w1 = w1
  w2 = w2
  Pids = {p1, p2, p3}
  Workers = {w1, w2}
  Hidden <- MCHidden
  Rss <- MCRss
  SmapsLimit = 1
  MaxIncarnation = 1
INVARIANTS
  TypeOK
  NoSendOnClosed
  SendsNeverBlock
  NoDuplicates
  CompleteUnlessCancelled
PROPERTIES
  ScanReturns
  ImplementsContract
