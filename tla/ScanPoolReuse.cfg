SPECIFICATION Spec
CONSTANTS
  p1 = p1
  p2 = p2
  p3 = p3
  w1 = w1
  w2 = w2
  Pids = {p1, p2}
  Workers = {w1, w2}
  Hidden = {}
  Rss <- MCRss
  SmapsLimit = 1
  MaxIncarnation = 2
INVARIANT OneProcessPerRecord
