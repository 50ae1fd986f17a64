--------------------------- MODULE DiagnosisProofs ---------------------------
(***************************************************************************)
(* Proofs about Diagnosis, for every host, every trouble and every loss of *)
(* sources: the percentages of every diff are percentages, no counter      *)
(* moves by more than what was counted between the two snapshots, and the  *)
(* findings depend neither on what was counted before, nor on the order of *)
(* the cgroups, nor on one sample of three, nor on what could not be read, *)
(* but for the rules that the properties name.                             *)
(***************************************************************************)
EXTENDS Diagnosis, RuleProofs, TLAPS

-----------------------------------------------------------------------------
(***************************************************************************)
(* Counters, one at a time, then those of one record, then those of every  *)
(* device, cgroup or process.                                              *)
(***************************************************************************)

\* diffUint64 never gives a negative delta, and none at all for the same value.
LEMMA DiffUint64Nat ==
  ASSUME NEW x \in Nat, NEW y \in Nat
  PROVE  DiffUint64(x, y) \in Nat /\ DiffUint64(x, x) = 0 /\ DiffUint64(0, x) = 0
BY DEF DiffUint64

\* A counter at x, perhaps set to zero, that goes on by w has moved by at most w; one
\* that began at zero has moved by w.
LEMMA DiffUint64Window ==
  ASSUME NEW x \in Nat, NEW w \in Nat, NEW old \in {0, x}
  PROVE  DiffUint64(old + w, x) \in 0..w /\ DiffUint64(0 + w, 0) = w
BY DEF DiffUint64

\* Percentages are in tenths.
Tenths == 0..1000

\* clampPercent gives a percentage.
LEMMA ClampPercentRange == 0 \in Tenths /\ \A v \in Int : ClampPercent(v) \in Tenths
BY SMT DEF ClampPercent, Tenths

\* Whatever is at zero, or goes on, is a record of counters again.
LEMMA CountersRemain ==
  ASSUME NEW r, NEW w, NEW counters, Counting(r, counters), Counting(w, counters)
  PROVE  Counting(Zeroed(r, counters), counters) /\ Counting(GoOn(r, w, counters), counters)
BY SMT DEF Counting, Zeroed, GoOn

\* A record that goes on, perhaps from zero, moves by at most what its window counts,
\* and by just that if it was at zero.
LEMMA RecordWindow ==
  ASSUME NEW r, NEW w, NEW counters, Counting(r, counters), Counting(w, counters),
         NEW old, old = r \/ old = Zeroed(r, counters), NEW f \in counters
  PROVE  /\ CounterDiff(r, GoOn(old, w, counters), counters)[f] \in 0..w[f]
         /\ LET zero == Zeroed(r, counters)
            IN  CounterDiff(zero, GoOn(zero, w, counters), counters)[f] = w[f]
<1> DEFINE zero == Zeroed(r, counters)
<1>1. r[f] \in Nat /\ w[f] \in Nat /\ f \in DOMAIN w /\ zero[f] = 0 /\ old[f] \in {0, r[f]}
  BY SMT DEF Counting, Zeroed
<1>2. \A s, t : CounterDiff(s, GoOn(t, w, counters), counters)[f] =
                  DiffUint64(t[f] + w[f], s[f])
  BY <1>1, SMT DEF CounterDiff, GoOn
<1>3. DiffUint64(old[f] + w[f], r[f]) \in 0..w[f] /\ DiffUint64(0 + w[f], 0) = w[f]
  BY <1>1, DiffUint64Window
<1> QED  BY <1>1, <1>2, <1>3

\* Nothing has moved between a reading and itself.
LEMMA SameRecord ==
  ASSUME NEW r, NEW counters, Counting(r, counters), NEW f \in counters
  PROVE  CounterDiff(r, r, counters)[f] = 0
<1>1. r[f] \in Nat /\ f \in DOMAIN r  BY DEF Counting
<1>2. DiffUint64(r[f], r[f]) = 0      BY <1>1, DiffUint64Nat
<1> QED  BY <1>1, <1>2, Zenon DEF CounterDiff

\* The functions `r' that differ from `f' in that some records are at zero.
PartlyZeroed(r, f, counters) ==
  /\ DOMAIN r = DOMAIN f
  /\ \A x \in DOMAIN f : r[x] = f[x] \/ r[x] = Zeroed(f[x], counters)

LEMMA ZeroedSome ==
  ASSUME NEW f, NEW names, NEW counters, AllCounting(f, counters)
  PROVE  /\ PartlyZeroed(ZeroSome(f, names, counters), f, counters)
         /\ PartlyZeroed(ZeroAll(f, counters), f, counters)
         /\ \A x \in DOMAIN f : ZeroAll(f, counters)[x] = Zeroed(f[x], counters)
BY DEF PartlyZeroed, ZeroSome, ZeroAll

LEMMA AllCountersRemain ==
  ASSUME NEW f, NEW w, NEW counters, AllCounting(f, counters), AllCounting(w, counters),
         NEW r, PartlyZeroed(r, f, counters)
  PROVE  /\ AllCounting(r, counters) /\ AllCounting(AllGoOn(r, w, counters), counters)
         /\ DOMAIN AllGoOn(r, w, counters) = DOMAIN w
<1>1. AllCounting(r, counters)
  BY CountersRemain DEF AllCounting, PartlyZeroed
<1>2. ASSUME NEW x \in DOMAIN w PROVE Counting(AllGoOn(r, w, counters)[x], counters)
  <2>1. Counting(w[x], counters)  BY DEF AllCounting
  <2>2. CASE x \in DOMAIN r
    <3>1. Counting(GoOn(r[x], w[x], counters), counters)
      BY <1>1, <2>1, <2>2, CountersRemain DEF AllCounting
    <3> QED  BY <2>2, <3>1 DEF AllGoOn
  <2>3. CASE x \notin DOMAIN r  BY <2>1, <2>3 DEF AllGoOn
  <2> QED  BY <2>2, <2>3
<1>3. DOMAIN AllGoOn(r, w, counters) = DOMAIN w  BY DEF AllGoOn
<1> QED  BY <1>1, <1>2, <1>3 DEF AllCounting

\* The same as RecordWindow for one of the devices, cgroups or processes, whether it
\* was there before the window or not.
LEMMA FunctionWindow ==
  ASSUME NEW f, NEW w, NEW counters, AllCounting(f, counters), AllCounting(w, counters),
         NEW r, PartlyZeroed(r, f, counters), NEW x \in DOMAIN w, NEW k \in counters
  PROVE  LET zero == ZeroAll(f, counters)
             now  == AllGoOn(r, w, counters)[x]
             then == AllGoOn(zero, w, counters)[x]
         IN  /\ x \in DOMAIN f =>
                  CounterDiff(f[x], now, counters)[k]
                    \in 0..CounterDiff(zero[x], then, counters)[k]
             /\ x \in DOMAIN f => CounterDiff(zero[x], then, counters)[k] \in Nat
             /\ CounterDiff(now, now, counters)[k] = 0
             /\ CounterDiff(then, then, counters)[k] = 0
<1> DEFINE zero == ZeroAll(f, counters)
           now  == AllGoOn(r, w, counters)[x]
           then == AllGoOn(zero, w, counters)[x]
<1>1. PartlyZeroed(zero, f, counters) /\ \A y \in DOMAIN f : zero[y] = Zeroed(f[y], counters)
  BY ZeroedSome
<1>2. Counting(now, counters) /\ Counting(then, counters)
  BY <1>1, AllCountersRemain DEF AllCounting
<1>3. Counting(w[x], counters) /\ w[x][k] \in Nat  BY DEF AllCounting, Counting
<1>4. ASSUME x \in DOMAIN f
      PROVE  /\ CounterDiff(f[x], now, counters)[k] \in 0..w[x][k]
             /\ CounterDiff(zero[x], then, counters)[k] = w[x][k]
  <2>1. Counting(f[x], counters) /\ (r[x] = f[x] \/ r[x] = Zeroed(f[x], counters))
    BY <1>4 DEF AllCounting, PartlyZeroed
  <2>2. now = GoOn(r[x], w[x], counters) /\ then = GoOn(zero[x], w[x], counters)
    BY <1>1, <1>4 DEF AllGoOn, PartlyZeroed
  <2>3. zero[x] = Zeroed(f[x], counters)  BY <1>1, <1>4
  <2> HIDE DEF now, then, zero
  <2> QED  BY <1>3, <2>1, <2>2, <2>3, RecordWindow
<1>5. CounterDiff(now, now, counters)[k] = 0 /\ CounterDiff(then, then, counters)[k] = 0
  <2> HIDE DEF now, then
  <2> QED  BY <1>2, SameRecord
<1> HIDE DEF now, then, zero
<1>6. QED
  <2>1. x \in DOMAIN f => /\ CounterDiff(f[x], now, counters)[k]
                                \in 0..CounterDiff(zero[x], then, counters)[k]
                          /\ CounterDiff(zero[x], then, counters)[k] \in Nat
    BY <1>3, <1>4
  <2> QED  BY <1>5, <2>1 DEF now, then, zero

\* A list is a function from its places.
LEMMA ListPlaces ==
  ASSUME NEW S, NEW s \in Seq(S)
  PROVE  Len(s) \in Nat /\ DOMAIN s = 1..Len(s)
OBVIOUS

LEMMA Numbered ==
  ASSUME NEW n \in Nat, NEW f, DOMAIN f = 1..n, f = [x \in 1..n |-> f[x]]
  PROVE  f \in Seq({f[x] : x \in DOMAIN f}) /\ Len(f) = n
<1> DEFINE S == {f[x] : x \in DOMAIN f}
<1>1. f \in [1..n -> S]                  OBVIOUS
<1>2. f \in Seq(S) /\ Len(f) = n         BY <1>1
<1> QED  BY <1>2

\* A list of records remains one, of the same length.
LEMMA ListRemains ==
  ASSUME NEW s, IsList(s), NEW counters, NEW old
  PROVE  /\ IsList(ZeroAll(s, counters)) /\ IsList(AllGoOn(old, s, counters))
         /\ Len(ZeroAll(s, counters)) = Len(s) /\ Len(AllGoOn(old, s, counters)) = Len(s)
<1>1. Len(s) \in Nat /\ DOMAIN s = 1..Len(s)  BY ListPlaces DEF IsList
<1> DEFINE zero == ZeroAll(s, counters)
           now  == AllGoOn(old, s, counters)
<1>2. DOMAIN zero = 1..Len(s) /\ zero = [x \in 1..Len(s) |-> zero[x]]
  BY <1>1, SMT DEF ZeroAll, ZeroSome
<1>3. DOMAIN now = 1..Len(s) /\ now = [x \in 1..Len(s) |-> now[x]]
  BY <1>1, SMT DEF AllGoOn
<1> HIDE DEF zero, now
<1>4. IsList(zero) /\ Len(zero) = Len(s)  BY <1>1, <1>2, Numbered DEF IsList
<1>5. IsList(now) /\ Len(now) = Len(s)    BY <1>1, <1>3, Numbered DEF IsList
<1> QED  BY <1>4, <1>5 DEF zero, now

-----------------------------------------------------------------------------
(***************************************************************************)
(* The host: its fields, how an interval leaves them, and that it remains  *)
(* one.                                                                    *)
(***************************************************************************)

\* The fields that count, in a snapshot in which nothing could be read.
LEMMA UnreadFields ==
  /\ {"Timestamp", "CPU", "VMStat", "NetStat", "DiskStats", "NetIfaces", "Processes",
      "Cgroups", "SchedStat", "IRQStat"} \subseteq DOMAIN SystemSnapshot
  /\ {"TotalCPU", "PerCore", "ContextSwitches", "ProcessesCreated"}
       \subseteq DOMAIN SystemSnapshot.CPU
  /\ SystemSnapshot.VMStat = VMStatInfo /\ SystemSnapshot.NetStat = NetStatInfo
  /\ SystemSnapshot.DiskStats = <<>> /\ SystemSnapshot.NetIfaces = <<>>
  /\ SystemSnapshot.Processes = <<>> /\ SystemSnapshot.Cgroups.Groups = <<>>
BY SMT DEF SystemSnapshot

\* The fields of a host whose counters are at zero.
LEMMA FreshFields ==
  ASSUME NEW h, IsHost(h)
  PROVE  /\ DOMAIN Fresh(h) = DOMAIN SystemSnapshot
         /\ DOMAIN Fresh(h).CPU = DOMAIN SystemSnapshot.CPU
         /\ Fresh(h).Timestamp = h.Timestamp
         /\ Fresh(h).CPU.TotalCPU = Zeroed(h.CPU.TotalCPU, DOMAIN CoreCPUStat)
         /\ Fresh(h).CPU.PerCore = ZeroAll(h.CPU.PerCore, DOMAIN CoreCPUStat)
         /\ Fresh(h).CPU.ContextSwitches = 0 /\ Fresh(h).CPU.ProcessesCreated = 0
         /\ Fresh(h).VMStat = Zeroed(h.VMStat, DOMAIN VMStatInfo)
         /\ Fresh(h).NetStat = Zeroed(h.NetStat, DOMAIN NetStatInfo)
         /\ Fresh(h).DiskStats = ZeroAll(h.DiskStats, DiskCounters)
         /\ Fresh(h).NetIfaces = ZeroAll(h.NetIfaces, IfaceCounters)
         /\ Fresh(h).Processes = ZeroAll(h.Processes, ProcessCounters)
         /\ Fresh(h).Cgroups = ZeroAll(h.Cgroups, CgroupCounters)
         /\ Fresh(h).SchedStat = Zeroed(h.SchedStat, SchedCounters)
         /\ Fresh(h).IRQStat = Zeroed(h.IRQStat, IRQCounters)
<1> DEFINE cpu == FreshCPU(h.CPU)
<1>1. /\ DOMAIN cpu = DOMAIN SystemSnapshot.CPU
      /\ cpu.TotalCPU = Zeroed(h.CPU.TotalCPU, DOMAIN CoreCPUStat)
      /\ cpu.PerCore = ZeroAll(h.CPU.PerCore, DOMAIN CoreCPUStat)
      /\ cpu.ContextSwitches = 0 /\ cpu.ProcessesCreated = 0
  BY UnreadFields, SMT DEF FreshCPU, IsHost
<1>2. Fresh(h).CPU = cpu  BY UnreadFields, SMT DEF Fresh, IsHost
<1>3. DOMAIN Fresh(h) = DOMAIN SystemSnapshot
  <2>1. DOMAIN Fresh(h) = DOMAIN h  BY Zenon DEF Fresh
  <2> QED  BY <2>1, Zenon DEF IsHost
<1>4. /\ Fresh(h).Timestamp = h.Timestamp
      /\ Fresh(h).VMStat = Zeroed(h.VMStat, DOMAIN VMStatInfo)
      /\ Fresh(h).NetStat = Zeroed(h.NetStat, DOMAIN NetStatInfo)
      /\ Fresh(h).DiskStats = ZeroAll(h.DiskStats, DiskCounters)
      /\ Fresh(h).NetIfaces = ZeroAll(h.NetIfaces, IfaceCounters)
      /\ Fresh(h).Processes = ZeroAll(h.Processes, ProcessCounters)
      /\ Fresh(h).Cgroups = ZeroAll(h.Cgroups, CgroupCounters)
      /\ Fresh(h).SchedStat = Zeroed(h.SchedStat, SchedCounters)
      /\ Fresh(h).IRQStat = Zeroed(h.IRQStat, IRQCounters)
  BY UnreadFields, SMT DEF Fresh, IsHost
<1> HIDE DEF cpu
<1> QED  BY <1>1, <1>2, <1>3, <1>4

\* The fields of a host after an interval.
LEMMA IntervalFields ==
  ASSUME NEW h, NEW t \in Troubles, IsHost(Window[t])
  PROVE  LET w == Window[t]
             g == Interval(t, h)
         IN  /\ DOMAIN g = DOMAIN SystemSnapshot
             /\ DOMAIN g.CPU = DOMAIN SystemSnapshot.CPU
             /\ g.Timestamp = h.Timestamp + w.Timestamp
             /\ g.CPU.TotalCPU = GoOn(h.CPU.TotalCPU, w.CPU.TotalCPU, DOMAIN CoreCPUStat)
             /\ g.CPU.PerCore = AllGoOn(h.CPU.PerCore, w.CPU.PerCore, DOMAIN CoreCPUStat)
             /\ g.CPU.ContextSwitches = h.CPU.ContextSwitches + w.CPU.ContextSwitches
             /\ g.CPU.ProcessesCreated = h.CPU.ProcessesCreated + w.CPU.ProcessesCreated
             /\ g.VMStat = GoOn(h.VMStat, w.VMStat, DOMAIN VMStatInfo)
             /\ g.NetStat = GoOn(h.NetStat, w.NetStat, DOMAIN NetStatInfo)
             /\ g.DiskStats = AllGoOn(h.DiskStats, w.DiskStats, DiskCounters)
             /\ g.NetIfaces = AllGoOn(h.NetIfaces, w.NetIfaces, IfaceCounters)
             /\ g.Processes = AllGoOn(h.Processes, w.Processes, ProcessCounters)
             /\ g.Cgroups = AllGoOn(h.Cgroups, w.Cgroups, CgroupCounters)
             /\ g.SchedStat = GoOn(h.SchedStat, w.SchedStat, SchedCounters)
             /\ g.IRQStat = GoOn(h.IRQStat, w.IRQStat, IRQCounters)
<1> DEFINE cpu == IntervalCPU(h.CPU, Window[t].CPU)
<1>1. /\ DOMAIN cpu = DOMAIN SystemSnapshot.CPU
      /\ cpu.TotalCPU = GoOn(h.CPU.TotalCPU, Window[t].CPU.TotalCPU, DOMAIN CoreCPUStat)
      /\ cpu.PerCore = AllGoOn(h.CPU.PerCore, Window[t].CPU.PerCore, DOMAIN CoreCPUStat)
      /\ cpu.ContextSwitches = h.CPU.ContextSwitches + Window[t].CPU.ContextSwitches
      /\ cpu.ProcessesCreated = h.CPU.ProcessesCreated + Window[t].CPU.ProcessesCreated
  BY UnreadFields, SMT DEF IntervalCPU, IsHost
<1>2. Interval(t, h).CPU = cpu  BY UnreadFields, SMT DEF Interval, IsHost
<1>3. DOMAIN Interval(t, h) = DOMAIN SystemSnapshot
  <2>1. DOMAIN Interval(t, h) = DOMAIN Window[t]  BY Zenon DEF Interval
  <2> QED  BY <2>1, Zenon DEF IsHost
<1>4. LET w == Window[t]
          g == Interval(t, h)
      IN  /\ g.Timestamp = h.Timestamp + w.Timestamp
          /\ g.VMStat = GoOn(h.VMStat, w.VMStat, DOMAIN VMStatInfo)
          /\ g.NetStat = GoOn(h.NetStat, w.NetStat, DOMAIN NetStatInfo)
          /\ g.DiskStats = AllGoOn(h.DiskStats, w.DiskStats, DiskCounters)
          /\ g.NetIfaces = AllGoOn(h.NetIfaces, w.NetIfaces, IfaceCounters)
          /\ g.Processes = AllGoOn(h.Processes, w.Processes, ProcessCounters)
          /\ g.Cgroups = AllGoOn(h.Cgroups, w.Cgroups, CgroupCounters)
          /\ g.SchedStat = GoOn(h.SchedStat, w.SchedStat, SchedCounters)
          /\ g.IRQStat = GoOn(h.IRQStat, w.IRQStat, IRQCounters)
  BY UnreadFields, SMT DEF Interval, IsHost
<1> HIDE DEF cpu
<1> QED  BY <1>1, <1>2, <1>3, <1>4

\* The fields of a host in which drivers and processes began again.
LEMMA RestartFields ==
  ASSUME NEW h, NEW t, IsHost(h)
  PROVE  LET g == Restart(t, h)
         IN  /\ DOMAIN g = DOMAIN SystemSnapshot
             /\ g.Timestamp = h.Timestamp /\ g.CPU = h.CPU /\ g.VMStat = h.VMStat
             /\ g.NetStat = h.NetStat /\ g.Cgroups = h.Cgroups
             /\ g.SchedStat = h.SchedStat /\ g.IRQStat = h.IRQStat
             /\ g.DiskStats = ZeroSome(h.DiskStats, Restarts[t].DiskStats, DiskCounters)
             /\ g.NetIfaces = ZeroSome(h.NetIfaces, Restarts[t].NetIfaces, IfaceCounters)
             /\ g.Processes = ZeroSome(h.Processes, Restarts[t].Processes, ProcessCounters)
BY UnreadFields, SMT DEF Restart, IsHost

\* The sources without counters.
Uncounted ==
  DOMAIN SystemSnapshot \ {"Timestamp", "CPU", "VMStat", "NetStat", "DiskStats", "NetIfaces",
                           "Processes", "Cgroups", "SchedStat", "IRQStat"}

LEMMA SomeUncounted ==
  {"Memory", "PIDMax", "PortRange", "SockStat", "TCPMaxTWBuckets", "SysVSem", "AIO",
   "FileLocks"} \subseteq Uncounted
<1>1. {"Memory", "PIDMax", "PortRange", "SockStat", "TCPMaxTWBuckets", "SysVSem", "AIO",
       "FileLocks"} \subseteq DOMAIN SystemSnapshot
  BY SMT DEF SystemSnapshot
<1> QED  BY <1>1, SMT DEF Uncounted

\* They are as the host has them, and as an interval leaves them.
LEMMA UncountedFields ==
  ASSUME NEW h, IsHost(h), NEW t, NEW f \in Uncounted
  PROVE  /\ Fresh(h)[f] = h[f] /\ Restart(t, h)[f] = h[f]
         /\ IsHost(Window[t]) => Interval(t, h)[f] = Window[t][f]
<1>1. f \in DOMAIN h  BY DEF IsHost, Uncounted
<1>2. /\ f # "Timestamp" /\ f # "CPU" /\ f # "VMStat" /\ f # "NetStat" /\ f # "DiskStats"
      /\ f # "NetIfaces" /\ f # "Processes" /\ f # "Cgroups" /\ f # "SchedStat"
      /\ f # "IRQStat"
  BY DEF Uncounted
<1>3. Fresh(h)[f] = h[f] /\ Restart(t, h)[f] = h[f]
  BY <1>1, <1>2, Zenon DEF Fresh, Restart
<1>4. IsHost(Window[t]) => Interval(t, h)[f] = Window[t][f]
  <2> SUFFICES ASSUME IsHost(Window[t]) PROVE Interval(t, h)[f] = Window[t][f]  OBVIOUS
  <2>1. f \in DOMAIN Window[t]  BY DEF IsHost, Uncounted
  <2> QED  BY <1>2, <2>1, Zenon DEF Interval
<1> QED  BY <1>3, <1>4

\* The tasks are counted anew at every reading.
LEMMA TaskFields ==
  ASSUME NEW h, IsHost(h), NEW t
  PROVE  /\ Fresh(h).CPU.ProcsRunning = h.CPU.ProcsRunning
         /\ Fresh(h).CPU.ProcsBlocked = h.CPU.ProcsBlocked
         /\ IsHost(Window[t]) =>
              /\ Interval(t, h).CPU.ProcsRunning = Window[t].CPU.ProcsRunning
              /\ Interval(t, h).CPU.ProcsBlocked = Window[t].CPU.ProcsBlocked
<1>1. {"ProcsRunning", "ProcsBlocked"} \subseteq DOMAIN SystemSnapshot.CPU
  BY SMT DEF SystemSnapshot
<1>2. /\ FreshCPU(h.CPU).ProcsRunning = h.CPU.ProcsRunning
      /\ FreshCPU(h.CPU).ProcsBlocked = h.CPU.ProcsBlocked
  BY <1>1, SMT DEF FreshCPU, IsHost
<1>3. Fresh(h).CPU = FreshCPU(h.CPU)  BY UnreadFields, SMT DEF Fresh, IsHost
<1>4. ASSUME IsHost(Window[t])
      PROVE  /\ Interval(t, h).CPU.ProcsRunning = Window[t].CPU.ProcsRunning
             /\ Interval(t, h).CPU.ProcsBlocked = Window[t].CPU.ProcsBlocked
  <2> DEFINE cpu == IntervalCPU(h.CPU, Window[t].CPU)
  <2>1. cpu.ProcsRunning = Window[t].CPU.ProcsRunning
        /\ cpu.ProcsBlocked = Window[t].CPU.ProcsBlocked
    BY <1>1, <1>4, SMT DEF IntervalCPU, IsHost
  <2>2. Interval(t, h).CPU = cpu  BY <1>4, UnreadFields, SMT DEF Interval, IsHost
  <2> HIDE DEF cpu
  <2> QED  BY <2>1, <2>2
<1> QED  BY <1>2, <1>3, <1>4

\* A field that is no counter stays as it was, and is as the window leaves it.
LEMMA OtherFieldsStay ==
  ASSUME NEW f, NEW counters, NEW r, PartlyZeroed(r, f, counters), NEW k, k \notin counters,
         NEW x \in DOMAIN f, k \in DOMAIN f[x]
  PROVE  k \in DOMAIN r[x] /\ r[x][k] = f[x][k]
<1>1. k \in DOMAIN Zeroed(f[x], counters) /\ Zeroed(f[x], counters)[k] = f[x][k]
  BY DEF Zeroed
<1> QED  BY <1>1 DEF PartlyZeroed

LEMMA OtherFieldsOfWindow ==
  ASSUME NEW w, NEW counters, NEW r, NEW k, k \notin counters,
         NEW x \in DOMAIN w, k \in DOMAIN w[x]
  PROVE  LET now == AllGoOn(r, w, counters)[x] IN k \in DOMAIN now /\ now[k] = w[x][k]
<1>1. LET g == GoOn(r[x], w[x], counters) IN k \in DOMAIN g /\ g[k] = w[x][k]
  BY DEF GoOn
<1>2. CASE x \in DOMAIN r
  <2>1. AllGoOn(r, w, counters)[x] = GoOn(r[x], w[x], counters)  BY <1>2 DEF AllGoOn
  <2> QED  BY <1>1, <2>1
<1>3. CASE x \notin DOMAIN r
  <2>1. AllGoOn(r, w, counters)[x] = w[x]  BY <1>3 DEF AllGoOn
  <2> QED  BY <2>1
<1> QED  BY <1>2, <1>3

LEMMA UnsignedRemain ==
  ASSUME NEW h, IsHost(h), NEW t
  PROVE  /\ Unsigned(Fresh(h)) /\ Unsigned(Restart(t, h))
         /\ IsHost(Window[t]) => Unsigned(Interval(t, h))
<1> DEFINE Same(g, u) ==
             /\ g.CPU.ProcsRunning = u.CPU.ProcsRunning /\ g.CPU.ProcsBlocked = u.CPU.ProcsBlocked
             /\ g.Memory = u.Memory /\ g.PIDMax = u.PIDMax /\ g.PortRange = u.PortRange
             /\ g.SockStat = u.SockStat /\ g.TCPMaxTWBuckets = u.TCPMaxTWBuckets
             /\ g.SysVSem = u.SysVSem /\ g.AIO = u.AIO
<1>1. ASSUME NEW g, NEW u, IsHost(u), Same(g, u) PROVE Unsigned(g)
  BY <1>1, SMT DEF IsHost, Unsigned
<1>2. \A f \in {"Memory", "PIDMax", "PortRange", "SockStat", "TCPMaxTWBuckets", "SysVSem",
                 "AIO"} :
        /\ Fresh(h)[f] = h[f] /\ Restart(t, h)[f] = h[f]
        /\ IsHost(Window[t]) => Interval(t, h)[f] = Window[t][f]
  BY SomeUncounted, UncountedFields
<1>3. Same(Fresh(h), h)
  BY <1>2, TaskFields
<1>4. Same(Restart(t, h), h)
  BY <1>2, RestartFields
<1>5. IsHost(Window[t]) => Same(Interval(t, h), Window[t])
  BY <1>2, TaskFields
<1> HIDE DEF Same
<1> QED  BY <1>1, <1>3, <1>4, <1>5

\* Two hosts with the same records of which a file may be missing.
SameShape(g, h) ==
  \A source \in DOMAIN Files :
    IF source \in Listed \cup {"Cgroups"}
    THEN /\ DOMAIN g[source] = DOMAIN h[source]
         /\ \A name \in DOMAIN h[source] : DOMAIN g[source][name] = DOMAIN h[source][name]
    ELSE DOMAIN g[source] = DOMAIN h[source]

LEMMA SourcesOfFiles ==
  /\ \A source \in DOMAIN Files :
       \/ source \in Uncounted
       \/ source \in {"NetStat", "DiskStats", "NetIfaces", "Processes", "Cgroups"}
  /\ "NetStat" \notin Listed \cup {"Cgroups"}
  /\ {"DiskStats", "NetIfaces", "Processes"} \subseteq Listed
<1>1. \A source \in DOMAIN Files : source \in DOMAIN SystemSnapshot
  BY SMT DEF Files, SystemSnapshot
<1>2. \A source \in DOMAIN Files : source \notin {"CPU", "VMStat", "SchedStat", "IRQStat", "Timestamp"}
  BY SMT DEF Files
<1> QED  BY <1>1, <1>2, SMT DEF Uncounted, Listed

LEMMA KeepsShape ==
  ASSUME NEW g, NEW h, \A f \in Uncounted : g[f] = h[f],
         DOMAIN g.NetStat = DOMAIN h.NetStat,
         \A f \in {"DiskStats", "NetIfaces", "Processes", "Cgroups"} :
           /\ DOMAIN g[f] = DOMAIN h[f]
           /\ \A name \in DOMAIN h[f] : DOMAIN g[f][name] = DOMAIN h[f][name]
  PROVE  SameShape(g, h)
<1>1. ASSUME NEW source \in DOMAIN Files, source \in Uncounted
      PROVE  IF source \in Listed \cup {"Cgroups"}
             THEN /\ DOMAIN g[source] = DOMAIN h[source]
                  /\ \A name \in DOMAIN h[source] : DOMAIN g[source][name] = DOMAIN h[source][name]
             ELSE DOMAIN g[source] = DOMAIN h[source]
  <2>1. g[source] = h[source]  BY <1>1
  <2> QED  BY <2>1, Zenon
<1> QED  BY <1>1, SourcesOfFiles DEF SameShape

\* The records have the fields they had.
LEMMA ShapeRemains ==
  ASSUME NEW h, IsHost(h), NEW t
  PROVE  /\ SameShape(Fresh(h), h) /\ SameShape(Restart(t, h), h)
         /\ t \in Troubles /\ IsHost(Window[t]) => SameShape(Interval(t, h), Window[t])
<1>1. \A f, names, counters :
        /\ DOMAIN ZeroSome(f, names, counters) = DOMAIN f
        /\ \A name \in DOMAIN f : DOMAIN ZeroSome(f, names, counters)[name] = DOMAIN f[name]
  BY DEF ZeroSome, Zeroed
<1>2. \A f, counters :
        /\ DOMAIN ZeroAll(f, counters) = DOMAIN f
        /\ \A name \in DOMAIN f : DOMAIN ZeroAll(f, counters)[name] = DOMAIN f[name]
  BY <1>1 DEF ZeroAll
<1>3. \A f, w, counters :
        /\ DOMAIN AllGoOn(f, w, counters) = DOMAIN w
        /\ \A name \in DOMAIN w : DOMAIN AllGoOn(f, w, counters)[name] = DOMAIN w[name]
  BY DEF AllGoOn, GoOn
<1>4. SameShape(Fresh(h), h)
  <2>1. DOMAIN Zeroed(h.NetStat, DOMAIN NetStatInfo) = DOMAIN h.NetStat  BY DEF Zeroed
  <2>2. DOMAIN Fresh(h).NetStat = DOMAIN h.NetStat  BY <2>1, FreshFields
  <2>3. \A f \in {"DiskStats", "NetIfaces", "Processes", "Cgroups"} :
          \E counters : Fresh(h)[f] = ZeroAll(h[f], counters)
    BY FreshFields
  <2>4. \A f \in Uncounted : Fresh(h)[f] = h[f]  BY UncountedFields
  <2> QED  BY <1>2, <2>2, <2>3, <2>4, KeepsShape
<1>5. SameShape(Restart(t, h), h)
  BY <1>1, RestartFields, UncountedFields, KeepsShape
<1>6. ASSUME t \in Troubles, IsHost(Window[t]) PROVE SameShape(Interval(t, h), Window[t])
  <2>1. DOMAIN GoOn(h.NetStat, Window[t].NetStat, DOMAIN NetStatInfo) = DOMAIN Window[t].NetStat
    BY DEF GoOn
  <2>2. DOMAIN Interval(t, h).NetStat = DOMAIN Window[t].NetStat
    BY <1>6, <2>1, IntervalFields
  <2>3. \A f \in {"DiskStats", "NetIfaces", "Processes", "Cgroups"} :
          \E counters : Interval(t, h)[f] = AllGoOn(h[f], Window[t][f], counters)
    BY <1>6, IntervalFields
  <2>4. \A f \in Uncounted : Interval(t, h)[f] = Window[t][f]  BY <1>6, UncountedFields
  <2> QED  BY <1>3, <2>2, <2>3, <2>4, KeepsShape
<1> QED  BY <1>4, <1>5, <1>6

LEMMA FieldsRemain ==
  ASSUME NEW h, IsHost(h), NEW t
  PROVE  /\ HasFields(Fresh(h)) /\ HasFields(Restart(t, h))
         /\ t \in Troubles /\ IsHost(Window[t]) => HasFields(Interval(t, h))
<1>1. ASSUME NEW g, NEW u, SameShape(g, u), IsHost(u) PROVE HasFields(g)
  <2>1. HasFields(u)  BY <1>1 DEF IsHost
  <2> QED  BY <1>1, <2>1 DEF HasFields, SameShape
<1> QED  BY <1>1, ShapeRemains

LEMMA NoCounters ==
  /\ "CgroupPath" \notin ProcessCounters /\ "Path" \notin CgroupCounters
  /\ "Path" \in CgroupSettings /\ \A f \in CgroupSettings : f \notin CgroupCounters
  /\ {"UTime", "STime"} \subseteq ProcessCounters /\ "CPUTime" \notin ProcessCounters
  /\ "IOTicks" \in DiskCounters
BY DEF ProcessCounters, CgroupCounters, DiskCounters, CgroupSettings

\* With every counter at zero, some devices or processes begun again, or an interval
\* gone by, a host is a host.
LEMMA FreshIsHost == ASSUME NEW h, IsHost(h) PROVE IsHost(Fresh(h))
<1>1. /\ Counting(Zeroed(h.CPU.TotalCPU, DOMAIN CoreCPUStat), DOMAIN CoreCPUStat)
      /\ Counting(Zeroed(h.VMStat, DOMAIN VMStatInfo), DOMAIN VMStatInfo)
      /\ Counting(Zeroed(h.NetStat, DOMAIN NetStatInfo), DOMAIN NetStatInfo)
      /\ Counting(Zeroed(h.SchedStat, SchedCounters), SchedCounters)
      /\ Counting(Zeroed(h.IRQStat, IRQCounters), IRQCounters)
  BY CountersRemain DEF IsHost
<1>2. ASSUME NEW f, NEW counters, AllCounting(f, counters)
      PROVE  AllCounting(ZeroAll(f, counters), counters)
  BY <1>2, ZeroedSome, AllCountersRemain
<1>3. /\ AllCounting(ZeroAll(h.CPU.PerCore, DOMAIN CoreCPUStat), DOMAIN CoreCPUStat)
      /\ AllCounting(ZeroAll(h.DiskStats, DiskCounters), DiskCounters)
      /\ AllCounting(ZeroAll(h.NetIfaces, IfaceCounters), IfaceCounters)
      /\ AllCounting(ZeroAll(h.Processes, ProcessCounters), ProcessCounters)
      /\ AllCounting(ZeroAll(h.Cgroups, CgroupCounters), CgroupCounters)
  BY <1>2 DEF IsHost
<1>4. LET procs == ZeroAll(h.Processes, ProcessCounters)
      IN  \A pid \in DOMAIN procs : "CgroupPath" \in DOMAIN procs[pid]
  <2> DEFINE procs == ZeroAll(h.Processes, ProcessCounters)
  <2>1. PartlyZeroed(procs, h.Processes, ProcessCounters)
    BY ZeroedSome DEF IsHost
  <2> HIDE DEF procs
  <2>2. \A pid \in DOMAIN h.Processes : "CgroupPath" \in DOMAIN procs[pid]
    BY <2>1, OtherFieldsStay, NoCounters DEF IsHost
  <2>3. DOMAIN procs = DOMAIN h.Processes  BY <2>1 DEF PartlyZeroed
  <2> QED  BY <2>2, <2>3 DEF procs
<1>5. LET groups == ZeroAll(h.Cgroups, CgroupCounters)
      IN  \A path \in DOMAIN groups :
            CgroupSettings \subseteq DOMAIN groups[path] /\ groups[path].Path = path
  <2> DEFINE groups == ZeroAll(h.Cgroups, CgroupCounters)
  <2>1. PartlyZeroed(groups, h.Cgroups, CgroupCounters)
    BY ZeroedSome DEF IsHost
  <2> HIDE DEF groups
  <2>2. ASSUME NEW path \in DOMAIN h.Cgroups
        PROVE  CgroupSettings \subseteq DOMAIN groups[path] /\ groups[path].Path = path
    <3>1. CgroupSettings \subseteq DOMAIN h.Cgroups[path] /\ h.Cgroups[path].Path = path
      BY DEF IsHost
    <3> QED  BY <2>1, <3>1, OtherFieldsStay, NoCounters
  <2>3. DOMAIN groups = DOMAIN h.Cgroups  BY <2>1 DEF PartlyZeroed
  <2> QED  BY <2>2, <2>3 DEF groups
<1>6. h.Timestamp \in Nat /\ 0 \in Nat  BY DEF IsHost
<1>7. IsList(ZeroAll(h.CPU.PerCore, DOMAIN CoreCPUStat))  BY ListRemains DEF IsHost
<1>8. Unsigned(Fresh(h))  BY UnsignedRemain
<1>9. DOMAIN ZeroAll(h.Processes, ProcessCounters) = DOMAIN h.Processes
  BY DEF ZeroAll, ZeroSome
<1>10. IsFiniteSet(DOMAIN Fresh(h).Processes)  BY <1>9, FreshFields DEF IsHost
<1> QED  BY <1>1, <1>3, <1>4, <1>5, <1>6, <1>7, <1>8, <1>10, FreshFields, FieldsRemain DEF IsHost

LEMMA RestartIsHost == ASSUME NEW h, NEW t, IsHost(h) PROVE IsHost(Restart(t, h))
<1> DEFINE disks == ZeroSome(h.DiskStats, Restarts[t].DiskStats, DiskCounters)
           ifaces == ZeroSome(h.NetIfaces, Restarts[t].NetIfaces, IfaceCounters)
           procs == ZeroSome(h.Processes, Restarts[t].Processes, ProcessCounters)
<1>1. /\ PartlyZeroed(disks, h.DiskStats, DiskCounters)
      /\ PartlyZeroed(ifaces, h.NetIfaces, IfaceCounters)
      /\ PartlyZeroed(procs, h.Processes, ProcessCounters)
  BY ZeroedSome DEF IsHost
<1>2. /\ AllCounting(disks, DiskCounters) /\ AllCounting(ifaces, IfaceCounters)
      /\ AllCounting(procs, ProcessCounters)
  <2> HIDE DEF disks, ifaces, procs
  <2> QED  BY <1>1, AllCountersRemain DEF IsHost
<1>3. \A pid \in DOMAIN procs : "CgroupPath" \in DOMAIN procs[pid]
  <2> HIDE DEF procs
  <2>1. \A pid \in DOMAIN h.Processes : "CgroupPath" \in DOMAIN procs[pid]
    BY <1>1, OtherFieldsStay, NoCounters DEF IsHost
  <2>2. DOMAIN procs = DOMAIN h.Processes  BY <1>1 DEF PartlyZeroed
  <2> QED  BY <2>1, <2>2
<1>4. /\ Restart(t, h).DiskStats = disks /\ Restart(t, h).NetIfaces = ifaces
      /\ Restart(t, h).Processes = procs
  BY RestartFields
<1>5. Unsigned(Restart(t, h))  BY UnsignedRemain
<1>6. DOMAIN procs = DOMAIN h.Processes  BY <1>1 DEF PartlyZeroed
<1> HIDE DEF disks, ifaces, procs
<1>7. IsFiniteSet(DOMAIN procs)  BY <1>6 DEF IsHost
<1> QED  BY <1>2, <1>3, <1>4, <1>5, <1>7, RestartFields, FieldsRemain DEF IsHost

LEMMA IntervalIsHost ==
  ASSUME NEW h, NEW t \in Troubles, IsHost(h), IsHost(Window[t])
  PROVE  IsHost(Interval(t, h))
<1> DEFINE w == Window[t]
<1>1. /\ Counting(GoOn(h.CPU.TotalCPU, w.CPU.TotalCPU, DOMAIN CoreCPUStat),
                  DOMAIN CoreCPUStat)
      /\ Counting(GoOn(h.VMStat, w.VMStat, DOMAIN VMStatInfo), DOMAIN VMStatInfo)
      /\ Counting(GoOn(h.NetStat, w.NetStat, DOMAIN NetStatInfo), DOMAIN NetStatInfo)
      /\ Counting(GoOn(h.SchedStat, w.SchedStat, SchedCounters), SchedCounters)
      /\ Counting(GoOn(h.IRQStat, w.IRQStat, IRQCounters), IRQCounters)
  BY CountersRemain DEF IsHost
<1>2. ASSUME NEW f, NEW g, NEW counters, AllCounting(f, counters), AllCounting(g, counters)
      PROVE  AllCounting(AllGoOn(f, g, counters), counters)
  <2>1. PartlyZeroed(f, f, counters)  BY DEF PartlyZeroed
  <2> QED  BY <1>2, <2>1, AllCountersRemain
<1>3. /\ AllCounting(AllGoOn(h.CPU.PerCore, w.CPU.PerCore, DOMAIN CoreCPUStat),
                     DOMAIN CoreCPUStat)
      /\ AllCounting(AllGoOn(h.DiskStats, w.DiskStats, DiskCounters), DiskCounters)
      /\ AllCounting(AllGoOn(h.NetIfaces, w.NetIfaces, IfaceCounters), IfaceCounters)
      /\ AllCounting(AllGoOn(h.Processes, w.Processes, ProcessCounters), ProcessCounters)
      /\ AllCounting(AllGoOn(h.Cgroups, w.Cgroups, CgroupCounters), CgroupCounters)
  BY <1>2 DEF IsHost
<1>4. LET procs == AllGoOn(h.Processes, w.Processes, ProcessCounters)
      IN  \A pid \in DOMAIN procs : "CgroupPath" \in DOMAIN procs[pid]
  <2>1. DOMAIN AllGoOn(h.Processes, w.Processes, ProcessCounters) = DOMAIN w.Processes
    BY DEF AllGoOn
  <2> QED  BY <2>1, OtherFieldsOfWindow, NoCounters DEF IsHost
<1>5. LET groups == AllGoOn(h.Cgroups, w.Cgroups, CgroupCounters)
      IN  \A path \in DOMAIN groups :
            CgroupSettings \subseteq DOMAIN groups[path] /\ groups[path].Path = path
  <2>1. DOMAIN AllGoOn(h.Cgroups, w.Cgroups, CgroupCounters) = DOMAIN w.Cgroups
    BY DEF AllGoOn
  <2> QED  BY <2>1, OtherFieldsOfWindow, NoCounters DEF IsHost
<1>6. /\ h.Timestamp + w.Timestamp \in Nat
      /\ h.CPU.ContextSwitches + w.CPU.ContextSwitches \in Nat
      /\ h.CPU.ProcessesCreated + w.CPU.ProcessesCreated \in Nat
  BY DEF IsHost
<1>7. IsList(AllGoOn(h.CPU.PerCore, w.CPU.PerCore, DOMAIN CoreCPUStat))
  BY ListRemains DEF IsHost
<1>8. Unsigned(Interval(t, h))  BY UnsignedRemain
<1>9. DOMAIN AllGoOn(h.Processes, w.Processes, ProcessCounters) = DOMAIN w.Processes
  BY DEF AllGoOn
<1>10. IsFiniteSet(DOMAIN Interval(t, h).Processes)  BY <1>9, IntervalFields DEF IsHost
<1>11. HasFields(Interval(t, h))  BY FieldsRemain
<1> DEFINE g == Interval(t, h)
<1>12. /\ DOMAIN g = DOMAIN SystemSnapshot /\ g.Timestamp \in Nat /\ Unsigned(g) /\ HasFields(g)
       /\ DOMAIN g.CPU = DOMAIN SystemSnapshot.CPU
       /\ Counting(g.CPU.TotalCPU, DOMAIN CoreCPUStat) /\ IsList(g.CPU.PerCore)
       /\ AllCounting(g.CPU.PerCore, DOMAIN CoreCPUStat)
       /\ g.CPU.ContextSwitches \in Nat /\ g.CPU.ProcessesCreated \in Nat
  BY <1>1, <1>3, <1>6, <1>7, <1>8, <1>11, IntervalFields
<1>13. /\ Counting(g.VMStat, DOMAIN VMStatInfo) /\ Counting(g.NetStat, DOMAIN NetStatInfo)
       /\ AllCounting(g.DiskStats, DiskCounters) /\ AllCounting(g.NetIfaces, IfaceCounters)
       /\ AllCounting(g.Processes, ProcessCounters) /\ AllCounting(g.Cgroups, CgroupCounters)
       /\ Counting(g.SchedStat, SchedCounters) /\ Counting(g.IRQStat, IRQCounters)
  BY <1>1, <1>3, IntervalFields
<1>14. /\ IsFiniteSet(DOMAIN g.Processes)
       /\ \A pid \in DOMAIN g.Processes : "CgroupPath" \in DOMAIN g.Processes[pid]
       /\ \A path \in DOMAIN g.Cgroups :
            CgroupSettings \subseteq DOMAIN g.Cgroups[path] /\ g.Cgroups[path].Path = path
  BY <1>4, <1>5, <1>10, IntervalFields
<1> HIDE DEF g
<1>15. IsHost(g)  BY <1>12, <1>13, <1>14 DEF IsHost
<1> QED  BY <1>15 DEF g

-----------------------------------------------------------------------------
(***************************************************************************)
(* What is left of a source when some readings fail.                       *)
(***************************************************************************)

\* A field beside those that are computed is as it was.
LEMMA ExtendedKeeps ==
  ASSUME NEW r, NEW more, NEW k \in DOMAIN r, k \notin DOMAIN more
  PROVE  Extended(r, more)[k] = r[k]
BY DEF Extended

\* Counters that were not read are zero.
LEMMA BlankCounters ==
  /\ \A k \in DOMAIN VMStatInfo : VMStatInfo[k] = 0
  /\ \A k \in DOMAIN NetStatInfo : NetStatInfo[k] = 0
  /\ \A k \in DiskCounters : DiskDeviceStat[k] = 0
  /\ \A k \in IfaceCounters : NetIfaceStat[k] = 0
  /\ \A k \in ProcessCounters : ProcessInfo[k] = 0
  /\ \A k \in CgroupCounters : CgroupEntry[k] = 0
<1>1. ASSUME NEW names, NEW k \in names, NEW more, k \notin DOMAIN more
      PROVE  Extended(Counters(names), more)[k] = 0
  <2>1. k \in DOMAIN Counters(names) /\ Counters(names)[k] = 0  BY DEF Counters
  <2> QED  BY <1>1, <2>1, ExtendedKeeps
<1>2. \A k \in DOMAIN VMStatInfo : VMStatInfo[k] = 0  BY Zenon DEF VMStatInfo, Counters
<1>3. \A k \in DOMAIN NetStatInfo : NetStatInfo[k] = 0  BY Zenon DEF NetStatInfo, Counters
<1>4. ASSUME NEW k \in DiskCounters PROVE DiskDeviceStat[k] = 0
  <2> DEFINE more == [IOsInProgress |-> 0, Scheduler |-> EmptyString, Rotational |-> FALSE]
  <2>1. k \notin DOMAIN more  BY SMT DEF DiskCounters
  <2>2. DiskDeviceStat = Extended(Counters(DiskCounters), more)  BY DEF DiskDeviceStat
  <2> HIDE DEF more
  <2> QED  BY <1>1, <2>1, <2>2
<1>5. ASSUME NEW k \in IfaceCounters PROVE NetIfaceStat[k] = 0
  <2> DEFINE more == [OperState |-> EmptyString]
  <2>1. k \notin DOMAIN more  BY SMT DEF IfaceCounters
  <2>2. NetIfaceStat = Extended(Counters(IfaceCounters), more)  BY DEF NetIfaceStat
  <2> HIDE DEF more
  <2> QED  BY <1>1, <2>1, <2>2
<1>6. ASSUME NEW k \in ProcessCounters PROVE ProcessInfo[k] = 0
  <2> DEFINE more ==
    [Comm |-> EmptyString, State |-> EmptyString, PPID |-> 0, NumThreads |-> 0,
     RSSKB |-> 0, OOMScoreAdj |-> 0, Wchan |-> EmptyString, OpenFDs |-> 0, MaxFDs |-> 0,
     CgroupPath |-> EmptyString, CpusAllowed |-> 0, TracerPID |-> 0, Policy |-> 0,
     SigQQueued |-> 0, SigQMax |-> 0, SmapsAvailable |-> FALSE, Swap |-> 0,
     PSS |-> 0, SharedClean |-> 0, PrivateDirty |-> 0]
  <2>1. k \notin DOMAIN more  BY SMT DEF ProcessCounters
  <2>2. ProcessInfo = Extended(Counters(ProcessCounters), more)  BY DEF ProcessInfo
  <2> HIDE DEF more
  <2> QED  BY <1>1, <2>1, <2>2
<1>7. ASSUME NEW k \in CgroupCounters PROVE CgroupEntry[k] = 0
  <2> DEFINE more == [Path |-> EmptyString, Frozen |-> FALSE, CPUShares |-> 0]
  <2>1. k \notin DOMAIN more  BY SMT DEF CgroupCounters
  <2>2. CgroupEntry = Extended(Counters(CgroupCounters), more)  BY DEF CgroupEntry
  <2> HIDE DEF more
  <2> QED  BY <1>1, <2>1, <2>2
<1> QED  BY <1>2, <1>3, <1>4, <1>5, <1>6, <1>7

\* The sources of which each name has files of its own, and the counters in them.
Devices == {"DiskStats", "NetIfaces", "Processes", "Cgroups"}

LEMMA BlankSources ==
  /\ Devices \subseteq DOMAIN Files /\ "NetStat" \in DOMAIN Files
  /\ Blank["NetStat"] = NetStatInfo
  /\ Blank["DiskStats"] = DiskDeviceStat /\ Blank["NetIfaces"] = NetIfaceStat
  /\ Blank["Processes"] = ProcessInfo /\ Blank["Cgroups"] = CgroupEntry
BY SMT DEF Blank, Files, Devices

\* No file of its own holds the CPU time of a process or the path of a cgroup.
LEMMA AlwaysRead ==
  ASSUME NEW lost, NEW name
  PROVE  /\ "UTime" \notin MissingOf("Processes", name, lost)
         /\ "STime" \notin MissingOf("Processes", name, lost)
         /\ "Path" \notin MissingOf("Cgroups", name, lost)
<1>1. \A file \in DOMAIN Files["Processes"] :
        "UTime" \notin Files["Processes"][file] /\ "STime" \notin Files["Processes"][file]
  BY SMT DEF Files
<1>2. \A file \in DOMAIN Files["Cgroups"] : "Path" \notin Files["Cgroups"][file]
  BY SMT DEF Files
<1> QED  BY <1>1, <1>2 DEF MissingOf

\* What only one of two snapshots lacks is missing from what that one lacks.
LEMMA StillMissing ==
  ASSUME NEW source, NEW name, NEW lostA, NEW lostB
  PROVE  /\ MissingOf(source, name, lostA)
              \subseteq MissingOf(source, name, lostB) \cup MissingOf(source, name, lostA \ lostB)
         /\ Missing(source, lostA)
              \subseteq Missing(source, lostB) \cup Missing(source, lostA \ lostB)
BY DEF MissingOf, Missing

\* Record a is record r without the fields `missing'.
RecordInPart(a, r, missing, blank) ==
  /\ DOMAIN a = DOMAIN r
  /\ \A k \in DOMAIN r : a[k] = IF k \in missing THEN blank[k] ELSE r[k]

LEMMA FilesInPart ==
  ASSUME NEW r, NEW missing, NEW blank
  PROVE  RecordInPart(ReadFiles(r, missing, blank), r, missing, blank)
BY DEF RecordInPart, ReadFiles

\* The names of which something could be read, and what.
Seen(a, f, source, lost) ==
  \A x : x \in DOMAIN a
           <=> x \in DOMAIN f /\ <<source>> \notin lost /\ <<source, "entry", x>> \notin lost
ReadInPart(a, f, source, lost) ==
  /\ Seen(a, f, source, lost)
  /\ \A x \in DOMAIN a : RecordInPart(a[x], f[x], MissingOf(source, x, lost), Blank[source])

LEMMA EntriesSeen ==
  ASSUME NEW source, NEW f, NEW lost
  PROVE  /\ Seen(ReadEntries(source, f, lost), f, source, lost)
         /\ \A x \in DOMAIN ReadEntries(source, f, lost) :
              \/ ReadEntries(source, f, lost)[x] = ReadEntry(source, x, f[x], lost)
              \/ /\ \A reading \in lost : reading[1] # source
                 /\ ReadEntries(source, f, lost)[x] = f[x]
<1>1. CASE \A reading \in lost : reading[1] # source
  <2>1. ReadEntries(source, f, lost) = f  BY <1>1, Zenon DEF ReadEntries
  <2>2. <<source>> \notin lost  BY <1>1
  <2>3. \A x : <<source, "entry", x>> \notin lost  BY <1>1
  <2> QED  BY <1>1, <2>1, <2>2, <2>3 DEF Seen
<1>2. CASE ~\A reading \in lost : reading[1] # source
  <2> DEFINE names == {x \in DOMAIN f : <<source>> \notin lost
                                       /\ <<source, "entry", x>> \notin lost}
  <2>1. ReadEntries(source, f, lost) = [x \in names |-> ReadEntry(source, x, f[x], lost)]
    BY <1>2, Zenon DEF ReadEntries
  <2> QED  BY <2>1 DEF Seen
<1> QED  BY <1>1, <1>2

LEMMA EntriesInPart ==
  ASSUME NEW source \in DOMAIN Files, NEW f, NEW lost
  PROVE  ReadInPart(ReadEntries(source, f, lost), f, source, lost)
<1> DEFINE a == ReadEntries(source, f, lost)
<1>1. Seen(a, f, source, lost)  BY EntriesSeen
<1>2. ASSUME NEW x \in DOMAIN a
      PROVE  RecordInPart(a[x], f[x], MissingOf(source, x, lost), Blank[source])
  <2>1. CASE a[x] = ReadEntry(source, x, f[x], lost)
    <3>1. a[x] = ReadFiles(f[x], MissingOf(source, x, lost), Blank[source])
      BY <2>1 DEF ReadEntry
    <3> HIDE DEF a
    <3> QED  BY <3>1, FilesInPart
  <2>2. CASE (\A reading \in lost : reading[1] # source) /\ a[x] = f[x]
    <3>1. ASSUME NEW file PROVE <<source, file, x>> \notin lost
      <4>1. <<source, file, x>>[1] = source  OBVIOUS
      <4> QED  BY <2>2, <4>1
    <3>2. MissingOf(source, x, lost) = {}  BY <3>1 DEF MissingOf
    <3> HIDE DEF a
    <3> QED  BY <2>2, <3>2 DEF RecordInPart
  <2> QED  BY <1>2, <2>1, <2>2, EntriesSeen
<1> QED  BY <1>1, <1>2 DEF ReadInPart

\* When nothing fails, everything is read.
LEMMA AllRead ==
  ASSUME NEW source, NEW r
  PROVE  ReadEntries(source, r, {}) = r /\ ReadSource(source, r, {}) = r
<1>1. ReadEntries(source, r, {}) = r  BY Zenon DEF ReadEntries
<1>2. ReadSource(source, r, {}) = r
  <2>1. Missing(source, {}) = {}  BY DEF Missing
  <2>2. ~Late(source, {}) /\ <<source>> \notin {}  BY DEF Late
  <2>3. ReadFiles(r, Missing(source, {}), Blank[source]) = r  BY <2>1 DEF ReadFiles
  <2> QED  BY <2>2, <2>3, Zenon DEF ReadSource
<1> QED  BY <1>1, <1>2

\* A source of a snapshot, but for the cgroups.
LEMMA SnapshotSources ==
  ASSUME NEW h, NEW lost, NEW paths, IsHost(h), NEW f \in DOMAIN SystemSnapshot, f # "Cgroups",
         f # "Timestamp"
  PROVE  CollectSnapshot(h, lost, paths)[f] =
           IF f \in Listed THEN ReadEntries(f, h[f], lost) ELSE ReadSource(f, h[f], lost)
<1>1. f \in DOMAIN h  BY DEF IsHost
<1> QED  BY <1>1, Zenon DEF CollectSnapshot

\* The fields of a snapshot with `lost' readings that could be collected.
SnapshotOf(s, h, lost, paths) ==
  /\ s.Timestamp = h.Timestamp /\ s.CPU = h.CPU
  /\ s.VMStat = IF <<"VMStat">> \in lost THEN VMStatInfo ELSE h.VMStat
  /\ IF <<"NetStat">> \in lost THEN s.NetStat = NetStatInfo
     ELSE RecordInPart(s.NetStat, h.NetStat, Missing("NetStat", lost), NetStatInfo)
  /\ ReadInPart(s.DiskStats, h.DiskStats, "DiskStats", lost)
  /\ ReadInPart(s.NetIfaces, h.NetIfaces, "NetIfaces", lost)
  /\ ReadInPart(s.Processes, h.Processes, "Processes", lost)
  /\ s.Cgroups = ParseCgroups(ReadEntries("Cgroups", h.Cgroups, lost), s.Processes, paths)

LEMMA SnapshotFields ==
  ASSUME NEW h, NEW lost, ~Fatal(lost), NEW paths, IsHost(h)
  PROVE  SnapshotOf(CollectSnapshot(h, lost, paths), h, lost, paths)
<1> DEFINE s == CollectSnapshot(h, lost, paths)
<1>1. DOMAIN h = DOMAIN SystemSnapshot  BY DEF IsHost
<1>2. /\ s.Timestamp = h.Timestamp
      /\ s.Cgroups = ParseCgroups(ReadEntries("Cgroups", h.Cgroups, lost),
                                  ReadEntries("Processes", h.Processes, lost), paths)
  BY <1>1, UnreadFields, SMT DEF CollectSnapshot
<1>3. /\ {"CPU", "VMStat", "NetStat"} \cap Listed = {}
      /\ {"DiskStats", "NetIfaces", "Processes"} \subseteq Listed
      /\ {"CPU", "VMStat", "NetStat"} \cap SystemConfig = {}
      /\ {"CPU", "VMStat"} \cap DOMAIN Files = {}
      /\ {"CPU", "VMStat", "NetStat"} \cap DOMAIN Defaults = {}
  BY SMT DEF Listed, SystemConfig, Files, Defaults
<1>4. /\ s.CPU = ReadSource("CPU", h.CPU, lost)
      /\ s.VMStat = ReadSource("VMStat", h.VMStat, lost)
      /\ s.NetStat = ReadSource("NetStat", h.NetStat, lost)
      /\ s.DiskStats = ReadEntries("DiskStats", h.DiskStats, lost)
      /\ s.NetIfaces = ReadEntries("NetIfaces", h.NetIfaces, lost)
      /\ s.Processes = ReadEntries("Processes", h.Processes, lost)
  BY <1>3, UnreadFields, SnapshotSources
<1> HIDE DEF s
<1>5. s.CPU = h.CPU  BY <1>3, <1>4 DEF ReadSource, Late, Fatal
<1>6. s.VMStat = IF <<"VMStat">> \in lost THEN VMStatInfo ELSE h.VMStat
  BY <1>3, <1>4, UnreadFields DEF ReadSource, Late
<1>7. IF <<"NetStat">> \in lost THEN s.NetStat = NetStatInfo
      ELSE RecordInPart(s.NetStat, h.NetStat, Missing("NetStat", lost), NetStatInfo)
  BY <1>3, <1>4, UnreadFields, BlankSources, FilesInPart DEF ReadSource, Late
<1>8. /\ ReadInPart(s.DiskStats, h.DiskStats, "DiskStats", lost)
      /\ ReadInPart(s.NetIfaces, h.NetIfaces, "NetIfaces", lost)
      /\ ReadInPart(s.Processes, h.Processes, "Processes", lost)
  BY <1>4, BlankSources, EntriesInPart DEF Devices
<1> QED  BY <1>2, <1>4, <1>5, <1>6, <1>7, <1>8 DEF SnapshotOf, s

\* With nothing lost a snapshot is the host.
LEMMA NothingLost ==
  ASSUME NEW h, IsHost(h), NEW paths, NEW s, s = CollectSnapshot(h, {}, paths)
  PROVE  /\ s.Timestamp = h.Timestamp /\ s.Timestamp \in Nat /\ s.CPU = h.CPU
         /\ s.VMStat = h.VMStat /\ s.NetStat = h.NetStat /\ s.DiskStats = h.DiskStats
         /\ s.NetIfaces = h.NetIfaces /\ s.Processes = h.Processes
         /\ s.FileLocks = h.FileLocks
         /\ s.Cgroups = ParseCgroups(h.Cgroups, h.Processes, paths)
         /\ \A f \in DOMAIN SystemSnapshot \ {"Cgroups", "Timestamp"} : s[f] = h[f]
<1> DEFINE lost == {}
<1>1. ~Fatal(lost)  BY DEF Fatal
<1>2. \A source, r : ReadEntries(source, r, lost) = r /\ ReadSource(source, r, lost) = r
  BY AllRead
<1>3. s = CollectSnapshot(h, lost, paths)  OBVIOUS
<1> HIDE DEF lost
<1>4. SnapshotOf(s, h, lost, paths)  BY <1>1, <1>3, SnapshotFields
<1>5. ASSUME NEW f \in DOMAIN SystemSnapshot, f # "Cgroups", f # "Timestamp" PROVE s[f] = h[f]
  <2>1. s[f] = IF f \in Listed THEN ReadEntries(f, h[f], lost) ELSE ReadSource(f, h[f], lost)
    BY <1>3, <1>5, SnapshotSources
  <2> QED  BY <1>2, <2>1
<1>6. {"CPU", "VMStat", "NetStat", "DiskStats", "NetIfaces", "Processes", "FileLocks"}
        \subseteq DOMAIN SystemSnapshot \ {"Cgroups", "Timestamp"}
  BY UnreadFields, SomeUncounted DEF Uncounted
<1>7. s.Timestamp = h.Timestamp /\ h.Timestamp \in Nat  BY <1>4 DEF IsHost, SnapshotOf
<1>8. s.Processes = h.Processes  BY <1>5, <1>6
<1>9. s.Cgroups = ParseCgroups(h.Cgroups, h.Processes, paths)
  BY <1>2, <1>4, <1>8 DEF SnapshotOf
<1> QED  BY <1>5, <1>6, <1>7, <1>9

-----------------------------------------------------------------------------
(***************************************************************************)
(* Percentages.                                                            *)
(***************************************************************************)

\* The percentages of CalculateCoreUtil, for any two readings of a core.
LEMMA CoreUtilPercents ==
  ASSUME NEW a, NEW b, Counting(a, DOMAIN CoreCPUStat), Counting(b, DOMAIN CoreCPUStat)
  PROVE  LET u == CalculateCoreUtil(a, b) IN \A f \in DOMAIN u : u[f] \in Tenths
<1> DEFINE total == Total(b) - Total(a)
           Percent(new, old) == IF total <= 0 THEN 0
                       ELSE ClampPercent((1000 * DiffUint64(new, old)) \div total)
<1>1. ASSUME NEW r, Counting(r, DOMAIN CoreCPUStat)
      PROVE  /\ r.System \in Nat /\ r.Idle \in Nat /\ r.SoftIRQ \in Nat /\ r.Steal \in Nat
             /\ Busy(r) \in Nat /\ Total(r) \in Nat
  <2>1. {"User", "System", "Idle", "IOWait", "SoftIRQ", "Steal"} \subseteq DOMAIN CoreCPUStat
    BY DEF CoreCPUStat, Counters
  <2>2. /\ r.System \in Nat /\ r.Idle \in Nat /\ r.SoftIRQ \in Nat /\ r.Steal \in Nat
        /\ r.User \in Nat /\ r.IOWait \in Nat
    BY <1>1, <2>1 DEF Counting
  <2> QED  BY <2>2 DEF Busy, Total
<1>2. total \in Int  BY <1>1
<1>3. ASSUME NEW new \in Nat, NEW old \in Nat PROVE Percent(new, old) \in Tenths
  <2> HIDE DEF total
  <2>1. DiffUint64(new, old) \in Nat  BY DiffUint64Nat
  <2> DEFINE n == 1000 * DiffUint64(new, old)
  <2>2. n \in Int  BY <2>1
  <2> HIDE DEF n
  <2>3. CASE total <= 0  BY <2>3, ClampPercentRange
  <2>4. CASE ~(total <= 0)
    <3>1. n \div total \in Int  BY <1>2, <2>2, <2>4
    <3> QED  BY <2>4, <3>1, ClampPercentRange DEF n
  <2> QED  BY <2>3, <2>4
<1>4. LET u == CalculateCoreUtil(a, b)
      IN  /\ DOMAIN u = {"SystemPercent", "IdlePercent", "SoftIRQPercent", "StealPercent",
                         "BusyPercent"}
          /\ u.SystemPercent = Percent(b.System, a.System)
          /\ u.IdlePercent = Percent(b.Idle, a.Idle)
          /\ u.SoftIRQPercent = Percent(b.SoftIRQ, a.SoftIRQ)
          /\ u.StealPercent = Percent(b.Steal, a.Steal)
          /\ u.BusyPercent = Percent(Busy(b), Busy(a))
  <2> HIDE DEF Percent
  <2> QED  BY SMT DEF CalculateCoreUtil, Percent
<1> HIDE DEF Percent
<1>5. /\ Percent(b.System, a.System) \in Tenths /\ Percent(b.Idle, a.Idle) \in Tenths
      /\ Percent(b.SoftIRQ, a.SoftIRQ) \in Tenths
      /\ Percent(b.Steal, a.Steal) \in Tenths /\ Percent(Busy(b), Busy(a)) \in Tenths
  <2>1. /\ a.System \in Nat /\ a.Idle \in Nat /\ a.SoftIRQ \in Nat /\ a.Steal \in Nat
        /\ Busy(a) \in Nat
    BY <1>1
  <2>2. /\ b.System \in Nat /\ b.Idle \in Nat /\ b.SoftIRQ \in Nat /\ b.Steal \in Nat
        /\ Busy(b) \in Nat
    BY <1>1
  <2> QED  BY <1>3, <2>1, <2>2, Zenon
<1> DEFINE u == CalculateCoreUtil(a, b)
<1> HIDE DEF u
<1>6. /\ DOMAIN u = {"SystemPercent", "IdlePercent", "SoftIRQPercent", "StealPercent",
                     "BusyPercent"}
      /\ u.SystemPercent \in Tenths /\ u.IdlePercent \in Tenths
      /\ u.SoftIRQPercent \in Tenths /\ u.StealPercent \in Tenths
      /\ u.BusyPercent \in Tenths
  BY <1>4, <1>5, Zenon DEF u
<1>7. \A f \in DOMAIN u : u[f] \in Tenths  BY <1>6, Zenon
<1> QED  BY <1>7, Zenon DEF u

\* The busy time of a disk, as a share of the time between the snapshots.
LEMMA DiskPercents ==
  ASSUME NEW a, NEW b, AllCounting(a, DiskCounters), AllCounting(b, DiskCounters),
         NEW duration \in Nat \ {0}
  PROVE  LET d == CalculateDiskDiff(a, b, duration)
         IN  \A name \in DOMAIN d : d[name].UtilPercent \in Tenths
<1> SUFFICES ASSUME NEW name \in DOMAIN a \cap DOMAIN b
             PROVE  CalculateDiskDiff(a, b, duration)[name].UtilPercent \in Tenths
  BY DEF CalculateDiskDiff
<1> DEFINE d == CounterDiff(a[name], b[name], DiskCounters)
<1>1. CalculateDiskDiff(a, b, duration)[name].UtilPercent
        = ClampPercent(d.IOTicks \div duration)
  BY SMT DEF CalculateDiskDiff, Extended
<1>2. d.IOTicks \in Nat
  <2>1. /\ a[name].IOTicks \in Nat /\ b[name].IOTicks \in Nat
        /\ "IOTicks" \in DOMAIN b[name]
    BY NoCounters DEF AllCounting, Counting
  <2>2. DiffUint64(b[name].IOTicks, a[name].IOTicks) \in Nat  BY <2>1, DiffUint64Nat
  <2> QED  BY <2>1, <2>2, NoCounters DEF CounterDiff
<1> HIDE DEF d
<1>3. d.IOTicks \div duration \in Int  BY <1>2
<1> QED  BY <1>1, <1>3, ClampPercentRange

-----------------------------------------------------------------------------
(***************************************************************************)
(* The deltas of each source, whatever was lost of either reading, are     *)
(* within those of a host whose counters began at zero.                    *)
(***************************************************************************)

\* The delta of one counter.
LEMMA CounterDelta ==
  ASSUME NEW s, NEW t, NEW counters, NEW k \in counters, k \in DOMAIN t
  PROVE  CounterDiff(s, t, counters)[k] = DiffUint64(t[k], s[k])
BY DEF CounterDiff

\* The counters that were read in part count, too.
LEMMA PartCounting ==
  ASSUME NEW f, NEW counters, AllCounting(f, counters), NEW source,
         \A k \in counters : Blank[source][k] = 0,
         NEW lost, NEW a, ReadInPart(a, f, source, lost)
  PROVE  /\ AllCounting(a, counters) /\ DOMAIN a \subseteq DOMAIN f
         /\ \A x \in DOMAIN a : \A k \in counters :
              a[x][k] = IF k \in MissingOf(source, x, lost) THEN 0 ELSE f[x][k]
<1>1. DOMAIN a \subseteq DOMAIN f  BY DEF ReadInPart, Seen
<1>2. ASSUME NEW x \in DOMAIN a
      PROVE  /\ counters \subseteq DOMAIN a[x]
             /\ \A k \in counters :
                  /\ a[x][k] = IF k \in MissingOf(source, x, lost) THEN 0 ELSE f[x][k]
                  /\ a[x][k] \in Nat
  <2>1. RecordInPart(a[x], f[x], MissingOf(source, x, lost), Blank[source])
    BY DEF ReadInPart
  <2>2. Counting(f[x], counters)  BY <1>1 DEF AllCounting
  <2> QED  BY <2>1, <2>2 DEF RecordInPart, Counting
<1> QED  BY <1>1, <1>2 DEF AllCounting, Counting

\* One counter of one device: it stays within the window, or only the first reading
\* lacks its file.
CounterWithin(f, w, counters, source, gone, a, b, x, k) ==
  LET zero == ZeroAll(f, counters)
      then == AllGoOn(zero, w, counters)
  IN  /\ x \in DOMAIN w /\ Counting(b[x], counters) /\ Counting(then[x], counters)
      /\ x \in DOMAIN f => CounterDiff(zero[x], then[x], counters)[k] \in Nat
      /\ CounterDiff(then[x], then[x], counters)[k] = 0
      /\ CounterDiff(b[x], b[x], counters)[k] = 0
      /\ x \in DOMAIN a =>
           /\ x \in DOMAIN f
           /\ \/ CounterDiff(a[x], b[x], counters)[k]
                   \in 0..CounterDiff(zero[x], then[x], counters)[k]
              \/ k \in MissingOf(source, x, gone)

LEMMA PartWindow ==
  ASSUME NEW f, NEW w, NEW counters, AllCounting(f, counters), AllCounting(w, counters),
         NEW r, PartlyZeroed(r, f, counters),
         NEW source, \A k \in counters : Blank[source][k] = 0, NEW lostA, NEW lostB,
         NEW a, ReadInPart(a, f, source, lostA),
         NEW b, ReadInPart(b, AllGoOn(r, w, counters), source, lostB),
         NEW x \in DOMAIN b, NEW k \in counters
  PROVE  CounterWithin(f, w, counters, source, lostA \ lostB, a, b, x, k)
<1> DEFINE zero == ZeroAll(f, counters)
           then == AllGoOn(zero, w, counters)
           now == AllGoOn(r, w, counters)
<1>1. /\ AllCounting(now, counters) /\ AllCounting(then, counters)
      /\ DOMAIN now = DOMAIN w /\ DOMAIN then = DOMAIN w
  <2>1. PartlyZeroed(zero, f, counters)  BY ZeroedSome
  <2> HIDE DEF zero
  <2> QED  BY <2>1, AllCountersRemain
<1>2. /\ AllCounting(a, counters) /\ AllCounting(b, counters)
      /\ DOMAIN a \subseteq DOMAIN f /\ DOMAIN b \subseteq DOMAIN now
      /\ x \in DOMAIN a => a[x][k] = IF k \in MissingOf(source, x, lostA) THEN 0 ELSE f[x][k]
      /\ b[x][k] = IF k \in MissingOf(source, x, lostB) THEN 0 ELSE now[x][k]
  <2> HIDE DEF now
  <2>1. ReadInPart(b, now, source, lostB)  BY DEF now
  <2> QED  BY <1>1, <2>1, PartCounting
<1>3. x \in DOMAIN w /\ x \in DOMAIN now /\ x \in DOMAIN then  BY <1>1, <1>2
<1>4. /\ x \in DOMAIN f => CounterDiff(f[x], now[x], counters)[k]
                             \in 0..CounterDiff(zero[x], then[x], counters)[k]
      /\ x \in DOMAIN f => CounterDiff(zero[x], then[x], counters)[k] \in Nat
      /\ CounterDiff(then[x], then[x], counters)[k] = 0
  BY <1>3, FunctionWindow
<1> HIDE DEF zero, then, now
<1>5. /\ Counting(b[x], counters) /\ Counting(then[x], counters) /\ Counting(now[x], counters)
      /\ x \in DOMAIN a => Counting(a[x], counters)
  BY <1>1, <1>2, <1>3 DEF AllCounting
<1>6. k \in DOMAIN b[x] /\ b[x][k] \in Nat /\ k \in DOMAIN now[x]  BY <1>5 DEF Counting
<1>7. CounterDiff(b[x], b[x], counters)[k] = 0  BY <1>5, SameRecord
<1>8. ASSUME x \in DOMAIN a
      PROVE  /\ x \in DOMAIN f
             /\ \/ CounterDiff(a[x], b[x], counters)[k]
                     \in 0..CounterDiff(zero[x], then[x], counters)[k]
                \/ k \in MissingOf(source, x, lostA \ lostB)
  <2>1. x \in DOMAIN f  BY <1>2, <1>8
  <2>2. a[x][k] \in Nat  BY <1>5, <1>8 DEF Counting
  <2>3. CounterDiff(a[x], b[x], counters)[k] = DiffUint64(b[x][k], a[x][k])
    BY <1>6, CounterDelta
  <2>4. CASE k \in MissingOf(source, x, lostB)
    <3>1. b[x][k] = 0  BY <1>2, <2>4
    <3>2. CounterDiff(a[x], b[x], counters)[k] = 0  BY <2>2, <2>3, <3>1, DiffUint64Nat
    <3> QED  BY <1>4, <2>1, <3>2
  <2>5. CASE k \notin MissingOf(source, x, lostB) /\ k \in MissingOf(source, x, lostA)
    BY <2>1, <2>5, StillMissing
  <2>6. CASE k \notin MissingOf(source, x, lostB) /\ k \notin MissingOf(source, x, lostA)
    <3>1. a[x][k] = f[x][k] /\ b[x][k] = now[x][k]  BY <1>2, <1>8, <2>6
    <3>2. CounterDiff(f[x], now[x], counters)[k] = DiffUint64(now[x][k], f[x][k])
      BY <1>6, CounterDelta
    <3> QED  BY <1>4, <2>1, <2>3, <3>1, <3>2
  <2> QED  BY <2>4, <2>5, <2>6
<1> QED  BY <1>3, <1>4, <1>5, <1>7, <1>8 DEF zero, then, CounterWithin

\* One counter of a record, which either reading may lack.
LEMMA RecordWithin ==
  ASSUME NEW old, NEW new, NEW names, Counting(old, names), Counting(new, names),
         NEW s, NEW u, NEW k \in names, s[k] \in Nat, k \in DOMAIN u,
         u[k] = 0 \/ (s[k] = old[k] /\ u[k] = GoOn(old, new, names)[k])
  PROVE  LET z == Zeroed(old, names)
         IN  CounterDiff(s, u, names)[k] \in 0..CounterDiff(z, GoOn(z, new, names), names)[k]
<1> DEFINE z == Zeroed(old, names)
           g == GoOn(old, new, names)
<1>1. /\ CounterDiff(old, g, names)[k] \in 0..new[k]
      /\ CounterDiff(z, GoOn(z, new, names), names)[k] = new[k]
  BY RecordWindow
<1>2. new[k] \in Nat /\ k \in DOMAIN g  BY DEF Counting, GoOn
<1> HIDE DEF g, z
<1>3. /\ CounterDiff(s, u, names)[k] = DiffUint64(u[k], s[k])
      /\ CounterDiff(old, g, names)[k] = DiffUint64(g[k], old[k])
  BY <1>2, CounterDelta
<1>4. CASE u[k] = 0
  <2>1. CounterDiff(s, u, names)[k] = 0  BY <1>3, <1>4, DiffUint64Nat
  <2> QED  BY <1>1, <1>2, <2>1 DEF z
<1>5. CASE s[k] = old[k] /\ u[k] = g[k]  BY <1>1, <1>3, <1>5 DEF z
<1> QED  BY <1>4, <1>5 DEF g

\* The delta of a disk's counter, whatever is computed beside it.
LEMMA DiskDelta ==
  ASSUME NEW s1, NEW s2, NEW p, NEW x \in DOMAIN s1 \cap DOMAIN s2, NEW k \in DiskCounters,
         Counting(s2[x], DiskCounters)
  PROVE  CalculateDiskDiff(s1, s2, p)[x][k] = CounterDiff(s1[x], s2[x], DiskCounters)[k]
<1> DEFINE c == CounterDiff(s1[x], s2[x], DiskCounters)
           more == [UtilPercent |-> ClampPercent(c.IOTicks \div p),
                    AvgReadLatencyMS |-> Average(c.TimeReadingMS, c.ReadsCompleted),
                    AvgWriteLatencyMS |-> Average(c.TimeWritingMS, c.WritesCompleted),
                    AvgQueueLatencyMS |-> Average(c.WeightedIOTicks,
                                            c.ReadsCompleted + c.WritesCompleted)]
<1>1. CalculateDiskDiff(s1, s2, p)[x] = Extended(c, more)
  BY Zenon DEF CalculateDiskDiff
<1>2. k \in DOMAIN c  BY Zenon DEF CounterDiff, Counting
<1>3. k \notin DOMAIN more  BY SMT DEF DiskCounters
<1> HIDE DEF c, more
<1>4. Extended(c, more)[k] = c[k]  BY <1>2, <1>3, ExtendedKeeps
<1> QED  BY <1>1, <1>4 DEF c

LEMMA DisksWithin ==
  ASSUME NEW f, NEW w, AllCounting(f, DiskCounters), AllCounting(w, DiskCounters),
         NEW r, PartlyZeroed(r, f, DiskCounters), NEW m, NEW n, NEW lostA, NEW lostB,
         NEW a, ReadInPart(a, f, "DiskStats", lostA),
         NEW b, ReadInPart(b, AllGoOn(r, w, DiskCounters), "DiskStats", lostB)
  PROVE  LET zero == ZeroAll(f, DiskCounters)
         IN  AllWithin(CalculateDiskDiff(a, b, m),
                       CalculateDiskDiff(zero, AllGoOn(zero, w, DiskCounters), n),
                       DiskCounters, "DiskStats", lostA \ lostB)
<1> DEFINE zero == ZeroAll(f, DiskCounters)
           then == AllGoOn(zero, w, DiskCounters)
           d == CalculateDiskDiff(a, b, m)
           e == CalculateDiskDiff(zero, then, n)
<1>1. DOMAIN zero = DOMAIN f /\ DOMAIN then = DOMAIN w
  BY ZeroedSome DEF PartlyZeroed, AllGoOn
<1>2. \A k \in DiskCounters : Blank["DiskStats"][k] = 0  BY BlankSources, BlankCounters
<1>3. SUFFICES ASSUME NEW x \in DOMAIN d, NEW k \in DiskCounters
               PROVE  d[x][k] \in 0..e[x][k] \/ k \in MissingOf("DiskStats", x, lostA \ lostB)
  BY DEF AllWithin, Within
<1>4. x \in DOMAIN a /\ x \in DOMAIN b  BY DEF CalculateDiskDiff
<1>5. /\ x \in DOMAIN f /\ x \in DOMAIN w
      /\ Counting(b[x], DiskCounters) /\ Counting(then[x], DiskCounters)
      /\ \/ CounterDiff(a[x], b[x], DiskCounters)[k]
              \in 0..CounterDiff(zero[x], then[x], DiskCounters)[k]
         \/ k \in MissingOf("DiskStats", x, lostA \ lostB)
  <2>1. CounterWithin(f, w, DiskCounters, "DiskStats", lostA \ lostB, a, b, x, k)
    BY <1>2, <1>4, PartWindow
  <2> QED  BY <1>4, <2>1 DEF CounterWithin
<1>6. d[x][k] = CounterDiff(a[x], b[x], DiskCounters)[k]
  BY <1>4, <1>5, DiskDelta
<1>7. e[x][k] = CounterDiff(zero[x], then[x], DiskCounters)[k]
  <2> HIDE DEF then, zero
  <2> QED  BY <1>1, <1>5, DiskDelta
<1> HIDE DEF d, e, then, zero
<1> QED  BY <1>5, <1>6, <1>7

LEMMA IfacesWithin ==
  ASSUME NEW f, NEW w, AllCounting(f, IfaceCounters), AllCounting(w, IfaceCounters),
         NEW r, PartlyZeroed(r, f, IfaceCounters), NEW lostA, NEW lostB,
         NEW a, ReadInPart(a, f, "NetIfaces", lostA),
         NEW b, ReadInPart(b, AllGoOn(r, w, IfaceCounters), "NetIfaces", lostB)
  PROVE  LET zero == ZeroAll(f, IfaceCounters)
         IN  AllWithin(CalculateNetIfacesDiff(a, b),
                       CalculateNetIfacesDiff(zero, AllGoOn(zero, w, IfaceCounters)),
                       IfaceCounters, "NetIfaces", lostA \ lostB)
<1> DEFINE zero == ZeroAll(f, IfaceCounters)
           then == AllGoOn(zero, w, IfaceCounters)
           d == CalculateNetIfacesDiff(a, b)
           e == CalculateNetIfacesDiff(zero, then)
<1>1. DOMAIN zero = DOMAIN f /\ DOMAIN then = DOMAIN w
  BY ZeroedSome DEF PartlyZeroed, AllGoOn
<1>2. \A k \in IfaceCounters : Blank["NetIfaces"][k] = 0  BY BlankSources, BlankCounters
<1>3. SUFFICES ASSUME NEW x \in DOMAIN d, NEW k \in IfaceCounters
               PROVE  d[x][k] \in 0..e[x][k] \/ k \in MissingOf("NetIfaces", x, lostA \ lostB)
  BY DEF AllWithin, Within
<1>4. x \in DOMAIN b  BY DEF CalculateNetIfacesDiff
<1>5. /\ x \in DOMAIN w
      /\ x \in DOMAIN f => CounterDiff(zero[x], then[x], IfaceCounters)[k] \in Nat
      /\ CounterDiff(then[x], then[x], IfaceCounters)[k] = 0
      /\ CounterDiff(b[x], b[x], IfaceCounters)[k] = 0
      /\ x \in DOMAIN a =>
           /\ x \in DOMAIN f
           /\ \/ CounterDiff(a[x], b[x], IfaceCounters)[k]
                   \in 0..CounterDiff(zero[x], then[x], IfaceCounters)[k]
              \/ k \in MissingOf("NetIfaces", x, lostA \ lostB)
  <2>1. CounterWithin(f, w, IfaceCounters, "NetIfaces", lostA \ lostB, a, b, x, k)
    BY <1>2, <1>4, PartWindow
  <2> QED  BY <1>4, <2>1 DEF CounterWithin
<1>6. d[x] = CounterDiff(IF x \in DOMAIN a THEN a[x] ELSE b[x], b[x], IfaceCounters)
  BY <1>4, Zenon DEF CalculateNetIfacesDiff
<1>7. e[x] = CounterDiff(IF x \in DOMAIN f THEN zero[x] ELSE then[x], then[x],
                         IfaceCounters)
  BY <1>1, <1>5, Zenon DEF CalculateNetIfacesDiff
<1> HIDE DEF d, e, then, zero
<1>8. CASE x \in DOMAIN a
  <2>1. x \in DOMAIN f  BY <1>5, <1>8
  <2>2. d[x] = CounterDiff(a[x], b[x], IfaceCounters)  BY <1>6, <1>8
  <2>3. e[x] = CounterDiff(zero[x], then[x], IfaceCounters)  BY <1>7, <2>1
  <2> QED  BY <1>5, <1>8, <2>2, <2>3
<1>9. CASE x \notin DOMAIN a
  <2>1. d[x][k] = 0  BY <1>5, <1>6, <1>9
  <2>2. e[x][k] \in Nat  BY <1>5, <1>7
  <2> QED  BY <2>1, <2>2
<1> QED  BY <1>8, <1>9

\* The two kinds of CPU time go on together.
LEMMA CPUTimeWithin ==
  ASSUME NEW f, NEW w, AllCounting(f, ProcessCounters), AllCounting(w, ProcessCounters),
         NEW r, PartlyZeroed(r, f, ProcessCounters), NEW pid \in DOMAIN w
  PROVE  LET zero == ZeroAll(f, ProcessCounters)
             now  == AllGoOn(r, w, ProcessCounters)[pid]
             then == AllGoOn(zero, w, ProcessCounters)[pid]
         IN  /\ pid \in DOMAIN f =>
                  /\ DiffUint64(now.UTime + now.STime, f[pid].UTime + f[pid].STime)
                       \in 0..DiffUint64(then.UTime + then.STime,
                                         zero[pid].UTime + zero[pid].STime)
             /\ DiffUint64(now.UTime + now.STime, now.UTime + now.STime) = 0
             /\ DiffUint64(then.UTime + then.STime, then.UTime + then.STime) = 0
             /\ pid \in DOMAIN f => DiffUint64(then.UTime + then.STime,
                                              zero[pid].UTime + zero[pid].STime) \in Nat
<1> DEFINE zero == ZeroAll(f, ProcessCounters)
           now  == AllGoOn(r, w, ProcessCounters)[pid]
           then == AllGoOn(zero, w, ProcessCounters)[pid]
<1>1. /\ PartlyZeroed(zero, f, ProcessCounters)
      /\ \A x \in DOMAIN f : zero[x] = Zeroed(f[x], ProcessCounters)
  BY ZeroedSome
<1>2. AllCounting(zero, ProcessCounters) /\ AllCounting(r, ProcessCounters)
      /\ Counting(now, ProcessCounters) /\ Counting(then, ProcessCounters)
  BY <1>1, AllCountersRemain DEF AllCounting
<1>3. now.UTime \in Nat /\ now.STime \in Nat /\ then.UTime \in Nat /\ then.STime \in Nat
  <2> HIDE DEF now, then
  <2> QED  BY <1>2, NoCounters DEF Counting
<1>4. w[pid].UTime \in Nat /\ w[pid].STime \in Nat
      /\ {"UTime", "STime"} \subseteq DOMAIN w[pid]
  BY NoCounters DEF AllCounting, Counting
<1>5. ASSUME pid \in DOMAIN f
      PROVE  /\ zero[pid].UTime = 0 /\ zero[pid].STime = 0
             /\ f[pid].UTime \in Nat /\ f[pid].STime \in Nat
             /\ then.UTime = w[pid].UTime /\ then.STime = w[pid].STime
             /\ \/ now.UTime = f[pid].UTime + w[pid].UTime
                   /\ now.STime = f[pid].STime + w[pid].STime
                \/ now.UTime = w[pid].UTime /\ now.STime = w[pid].STime
  <2>1. /\ f[pid].UTime \in Nat /\ f[pid].STime \in Nat
        /\ {"UTime", "STime"} \subseteq DOMAIN f[pid]
    BY <1>5, NoCounters DEF AllCounting, Counting
  <2> DEFINE z == Zeroed(f[pid], ProcessCounters)
  <2>2. z.UTime = 0 /\ z.STime = 0  BY <2>1, NoCounters DEF Zeroed
  <2>3. zero[pid] = z /\ (r[pid] = f[pid] \/ r[pid] = z)
    BY <1>1, <1>5 DEF PartlyZeroed
  <2>4. now = GoOn(r[pid], w[pid], ProcessCounters)
        /\ then = GoOn(zero[pid], w[pid], ProcessCounters)
    BY <1>1, <1>5 DEF AllGoOn, PartlyZeroed
  <2>5. ASSUME NEW old
        PROVE  LET g == GoOn(old, w[pid], ProcessCounters)
               IN  g.UTime = old.UTime + w[pid].UTime /\ g.STime = old.STime + w[pid].STime
    BY <1>4, NoCounters DEF GoOn
  <2> HIDE DEF z, now, then, zero
  <2>6. then.UTime = 0 + w[pid].UTime /\ then.STime = 0 + w[pid].STime
    BY <2>2, <2>3, <2>4, <2>5
  <2>7. \/ now.UTime = f[pid].UTime + w[pid].UTime
           /\ now.STime = f[pid].STime + w[pid].STime
        \/ now.UTime = 0 + w[pid].UTime /\ now.STime = 0 + w[pid].STime
    BY <2>2, <2>3, <2>4, <2>5
  <2> QED  BY <1>4, <2>1, <2>2, <2>3, <2>6, <2>7
<1> HIDE DEF now, then, zero
<1>6. /\ DiffUint64(now.UTime + now.STime, now.UTime + now.STime) = 0
      /\ DiffUint64(then.UTime + then.STime, then.UTime + then.STime) = 0
  BY <1>3 DEF DiffUint64
<1>7. ASSUME pid \in DOMAIN f
      PROVE  /\ DiffUint64(now.UTime + now.STime, f[pid].UTime + f[pid].STime)
                  \in 0..DiffUint64(then.UTime + then.STime,
                                    zero[pid].UTime + zero[pid].STime)
             /\ DiffUint64(then.UTime + then.STime, zero[pid].UTime + zero[pid].STime)
                  \in Nat
  BY <1>3, <1>4, <1>5, <1>7, SMT DEF DiffUint64
<1> QED  BY <1>6, <1>7 DEF now, then, zero

\* The deltas of a process.
LEMMA ProcessDelta ==
  ASSUME NEW s1, NEW s2, NEW p, NEW x \in DOMAIN s2, Counting(s2[x], ProcessCounters)
  PROVE  LET old == IF x \in DOMAIN s1 THEN s1[x] ELSE s2[x]
             c == CalculateProcessDiff(s1, s2, p)[x]
         IN  /\ \A k \in ProcessCounters : c[k] = CounterDiff(old, s2[x], ProcessCounters)[k]
             /\ c["CPUTime"] = DiffUint64(s2[x].UTime + s2[x].STime, old.UTime + old.STime)
<1> DEFINE old == IF x \in DOMAIN s1 THEN s1[x] ELSE s2[x]
           c == CounterDiff(old, s2[x], ProcessCounters)
           cpu == DiffUint64(s2[x].UTime + s2[x].STime, old.UTime + old.STime)
           more == [CPUTime |-> cpu, CPUPercent |-> (10 * cpu) \div p]
<1>1. CalculateProcessDiff(s1, s2, p)[x] = Extended(c, more)
  BY SMT DEF CalculateProcessDiff
<1>2. ASSUME NEW k \in ProcessCounters PROVE k \in DOMAIN c /\ k \notin DOMAIN more
  <2>1. k \in DOMAIN c  BY Zenon DEF CounterDiff, Counting
  <2>2. k \notin DOMAIN more  BY SMT DEF ProcessCounters
  <2> QED  BY <2>1, <2>2
<1>3. "CPUTime" \in DOMAIN more /\ more["CPUTime"] = cpu  BY SMT
<1> HIDE DEF c, more, old, cpu
<1>4. \A k \in ProcessCounters : Extended(c, more)[k] = c[k]  BY <1>2, ExtendedKeeps
<1>5. Extended(c, more)["CPUTime"] = cpu  BY <1>3, Zenon DEF Extended
<1>6. /\ \A k \in ProcessCounters : CalculateProcessDiff(s1, s2, p)[x][k] = c[k]
      /\ CalculateProcessDiff(s1, s2, p)[x]["CPUTime"] = cpu
  BY <1>1, <1>4, <1>5
<1> QED  BY <1>6 DEF c, cpu, old

LEMMA ProcessesWithin ==
  ASSUME NEW f, NEW w, AllCounting(f, ProcessCounters), AllCounting(w, ProcessCounters),
         NEW r, PartlyZeroed(r, f, ProcessCounters), NEW m, NEW n, NEW lostA, NEW lostB,
         NEW a, ReadInPart(a, f, "Processes", lostA),
         NEW b, ReadInPart(b, AllGoOn(r, w, ProcessCounters), "Processes", lostB)
  PROVE  LET zero == ZeroAll(f, ProcessCounters)
         IN  AllWithin(CalculateProcessDiff(a, b, m),
                       CalculateProcessDiff(zero, AllGoOn(zero, w, ProcessCounters), n),
                       ProcessCounters \cup {"CPUTime"}, "Processes", lostA \ lostB)
<1> DEFINE zero == ZeroAll(f, ProcessCounters)
           then == AllGoOn(zero, w, ProcessCounters)
           now == AllGoOn(r, w, ProcessCounters)
           d == CalculateProcessDiff(a, b, m)
           e == CalculateProcessDiff(zero, then, n)
           gone(x) == MissingOf("Processes", x, lostA \ lostB)
<1>1. PartlyZeroed(zero, f, ProcessCounters) /\ DOMAIN zero = DOMAIN f
      /\ DOMAIN now = DOMAIN w /\ DOMAIN then = DOMAIN w
  BY ZeroedSome DEF PartlyZeroed, AllGoOn
<1>2. \A k \in ProcessCounters : Blank["Processes"][k] = 0  BY BlankSources, BlankCounters
<1>3. SUFFICES ASSUME NEW x \in DOMAIN d
               PROVE  /\ \A k \in ProcessCounters : d[x][k] \in 0..e[x][k] \/ k \in gone(x)
                      /\ d[x]["CPUTime"] \in 0..e[x]["CPUTime"]
  BY Zenon DEF AllWithin, Within
<1>4. x \in DOMAIN b  BY DEF CalculateProcessDiff
<1>5. \A k \in ProcessCounters :
        CounterWithin(f, w, ProcessCounters, "Processes", lostA \ lostB, a, b, x, k)
  BY <1>2, <1>4, PartWindow
<1>6. /\ x \in DOMAIN w /\ (x \in DOMAIN a => x \in DOMAIN f)
      /\ Counting(b[x], ProcessCounters) /\ Counting(then[x], ProcessCounters)
  <2>1. "UTime" \in ProcessCounters  BY NoCounters
  <2>2. CounterWithin(f, w, ProcessCounters, "Processes", lostA \ lostB, a, b, x, "UTime")
    BY <1>5, <2>1
  <2> QED  BY <2>2 DEF CounterWithin
<1> DEFINE olda == IF x \in DOMAIN a THEN a[x] ELSE b[x]
           oldz == IF x \in DOMAIN zero THEN zero[x] ELSE then[x]
<1>7. /\ \A k \in ProcessCounters : d[x][k] = CounterDiff(olda, b[x], ProcessCounters)[k]
      /\ d[x]["CPUTime"] = DiffUint64(b[x].UTime + b[x].STime, olda.UTime + olda.STime)
  BY <1>4, <1>6, ProcessDelta
<1>8. /\ \A k \in ProcessCounters : e[x][k] = CounterDiff(oldz, then[x], ProcessCounters)[k]
      /\ e[x]["CPUTime"]
           = DiffUint64(then[x].UTime + then[x].STime, oldz.UTime + oldz.STime)
  <2> HIDE DEF then, zero
  <2> QED  BY <1>1, <1>6, ProcessDelta
<1>9. ASSUME NEW k \in ProcessCounters PROVE d[x][k] \in 0..e[x][k] \/ k \in gone(x)
  <2>1. /\ x \in DOMAIN f => CounterDiff(zero[x], then[x], ProcessCounters)[k] \in Nat
        /\ CounterDiff(then[x], then[x], ProcessCounters)[k] = 0
        /\ CounterDiff(b[x], b[x], ProcessCounters)[k] = 0
        /\ x \in DOMAIN a =>
             \/ CounterDiff(a[x], b[x], ProcessCounters)[k]
                     \in 0..CounterDiff(zero[x], then[x], ProcessCounters)[k]
             \/ k \in gone(x)
    BY <1>5 DEF CounterWithin
  <2>2. /\ d[x][k] = CounterDiff(olda, b[x], ProcessCounters)[k]
        /\ e[x][k] = CounterDiff(oldz, then[x], ProcessCounters)[k]
    BY <1>7, <1>8
  <2> HIDE DEF d, e, now, then, zero, gone
  <2>3. CASE x \in DOMAIN a  BY <1>1, <1>6, <2>1, <2>2, <2>3
  <2>4. CASE x \notin DOMAIN a
    <3>1. d[x][k] = 0  BY <2>1, <2>2, <2>4
    <3>2. e[x][k] \in Nat  BY <1>1, <2>1, <2>2
    <3> QED  BY <3>1, <3>2
  <2> QED  BY <2>3, <2>4
<1>10. d[x]["CPUTime"] \in 0..e[x]["CPUTime"]
  <2>1. /\ x \in DOMAIN f =>
             /\ DiffUint64(now[x].UTime + now[x].STime, f[x].UTime + f[x].STime)
                  \in 0..DiffUint64(then[x].UTime + then[x].STime,
                                    zero[x].UTime + zero[x].STime)
             /\ DiffUint64(then[x].UTime + then[x].STime, zero[x].UTime + zero[x].STime)
                  \in Nat
        /\ DiffUint64(now[x].UTime + now[x].STime, now[x].UTime + now[x].STime) = 0
        /\ DiffUint64(then[x].UTime + then[x].STime, then[x].UTime + then[x].STime) = 0
    BY <1>6, CPUTimeWithin
  <2>2. /\ AllCounting(now, ProcessCounters) /\ ReadInPart(b, now, "Processes", lostB)
    BY AllCountersRemain
  <2> HIDE DEF d, e, now, then, zero, gone
  <2>3. /\ b[x].UTime = now[x].UTime /\ b[x].STime = now[x].STime
    BY <1>2, <1>4, <2>2, PartCounting, AlwaysRead, NoCounters
  <2>4. x \in DOMAIN a => a[x].UTime = f[x].UTime /\ a[x].STime = f[x].STime
    BY <1>2, PartCounting, AlwaysRead, NoCounters
  <2>5. CASE x \in DOMAIN a
    <3>1. x \in DOMAIN f  BY <1>6, <2>5
    <3> QED  BY <1>1, <1>7, <1>8, <2>1, <2>3, <2>4, <2>5, <3>1
  <2>6. CASE x \notin DOMAIN a
    <3>1. d[x]["CPUTime"] = 0  BY <1>7, <2>1, <2>3, <2>6
    <3>2. e[x]["CPUTime"] \in Nat  BY <1>1, <1>8, <2>1
    <3> QED  BY <3>1, <3>2
  <2> QED  BY <2>5, <2>6
<1> QED  BY <1>9, <1>10

\* Cgroups are known by their paths, and a list of them is taken from their directory.
Directory(dir) == \A path \in DOMAIN dir : "Path" \in DOMAIN dir[path] /\ dir[path].Path = path
Listing(groups, dir, paths) ==
  \A i \in DOMAIN groups : paths[i] \in DOMAIN dir /\ groups[i] = dir[paths[i]]

LEMMA HostDirectory == ASSUME NEW h, IsHost(h) PROVE Directory(h.Cgroups)
BY NoCounters DEF IsHost, Directory

\* A directory that was read in part is one, too.
LEMMA PartDirectory ==
  ASSUME NEW dir, Directory(dir), NEW lost, NEW a, ReadInPart(a, dir, "Cgroups", lost)
  PROVE  Directory(a)
<1> SUFFICES ASSUME NEW path \in DOMAIN a
             PROVE  "Path" \in DOMAIN a[path] /\ a[path].Path = path
  BY DEF Directory
<1>1. path \in DOMAIN dir
      /\ RecordInPart(a[path], dir[path], MissingOf("Cgroups", path, lost), Blank["Cgroups"])
  BY DEF ReadInPart, Seen
<1>2. "Path" \in DOMAIN dir[path] /\ dir[path].Path = path  BY <1>1 DEF Directory
<1> QED  BY <1>1, <1>2, AlwaysRead DEF RecordInPart

\* The places of the cgroups that ParseCgroups finds.
Wanted(procs) ==
  ({"/"} \cup {procs[pid].CgroupPath : pid \in DOMAIN procs}) \ {EmptyString}
FoundAt(dir, procs, paths) == {i \in DOMAIN paths : paths[i] \in Wanted(procs) \cap DOMAIN dir}

ParsedAt(groups, dir, found, paths) ==
  /\ DOMAIN groups = found /\ groups = [i \in found |-> dir[paths[i]]]
  /\ \A i \in found : groups[i] = dir[paths[i]]

LEMMA ParsedGroups ==
  ASSUME NEW dir, NEW procs, NEW paths
  PROVE  LET c == ParseCgroups(dir, procs, paths)
             found == FoundAt(dir, procs, paths)
         IN  /\ ParsedAt(c.Groups, dir, found, paths) /\ DOMAIN c.Groups = found
             /\ c.Frozen <=> \E i \in found : dir[paths[i]].Frozen
<1>1. /\ ParseCgroups(dir, procs, paths).Groups
            = [i \in FoundAt(dir, procs, paths) |-> dir[paths[i]]]
      /\ ParseCgroups(dir, procs, paths).Frozen
           <=> \E i \in FoundAt(dir, procs, paths) : dir[paths[i]].Frozen
  BY SMT DEF ParseCgroups, FoundAt, Wanted
<1> QED  BY <1>1 DEF ParsedAt

LEMMA ParsedListing ==
  ASSUME NEW dir, NEW procs, NEW paths
  PROVE  Listing(ParseCgroups(dir, procs, paths).Groups, dir, paths)
<1>1. ParsedAt(ParseCgroups(dir, procs, paths).Groups, dir, FoundAt(dir, procs, paths), paths)
  BY ParsedGroups
<1> DEFINE groups == ParseCgroups(dir, procs, paths).Groups
<1> HIDE DEF groups
<1>2. ASSUME NEW i \in DOMAIN groups
      PROVE  paths[i] \in DOMAIN dir /\ groups[i] = dir[paths[i]]
  BY <1>1 DEF ParsedAt, FoundAt, groups
<1> QED  BY <1>2 DEF Listing, groups

\* Tasks in the same cgroups, and those that were read in part.
SameTasks(procs, procs2) ==
  /\ DOMAIN procs = DOMAIN procs2
  /\ \A pid \in DOMAIN procs : procs[pid].CgroupPath = procs2[pid].CgroupPath
HavePaths(procs) == \A pid \in DOMAIN procs : "CgroupPath" \in DOMAIN procs[pid]
PathsFrom(procs, procs2) ==
  \A pid \in DOMAIN procs :
    \/ procs[pid].CgroupPath = EmptyString
    \/ pid \in DOMAIN procs2 /\ procs[pid].CgroupPath = procs2[pid].CgroupPath

LEMMA TasksInPart ==
  ASSUME NEW procs, HavePaths(procs), NEW procs2, SameTasks(procs2, procs),
         NEW lost, NEW a, ReadInPart(a, procs, "Processes", lost)
  PROVE  PathsFrom(a, procs2)
<1>1. Blank["Processes"].CgroupPath = EmptyString  BY BlankSources, SMT DEF ProcessInfo, Extended
<1>2. ASSUME NEW pid \in DOMAIN a
      PROVE  \/ a[pid].CgroupPath = EmptyString
             \/ pid \in DOMAIN procs2 /\ a[pid].CgroupPath = procs2[pid].CgroupPath
  <2>1. /\ pid \in DOMAIN procs
        /\ RecordInPart(a[pid], procs[pid], MissingOf("Processes", pid, lost), Blank["Processes"])
    BY DEF ReadInPart, Seen
  <2>2. /\ "CgroupPath" \in DOMAIN procs[pid] /\ pid \in DOMAIN procs2
        /\ procs2[pid].CgroupPath = procs[pid].CgroupPath
    BY <2>1 DEF HavePaths, SameTasks
  <2> QED  BY <1>1, <2>1, <2>2 DEF RecordInPart
<1> QED  BY <1>2 DEF PathsFrom

\* With less of the directory, or of the processes, no cgroup is found that is not found
\* with them.
LEMMA FewerFound ==
  ASSUME NEW dir, NEW dir2, DOMAIN dir \subseteq DOMAIN dir2, NEW procs, NEW procs2, NEW paths,
         PathsFrom(procs, procs2)
  PROVE  /\ DOMAIN ParseCgroups(dir, procs, paths).Groups
              \subseteq DOMAIN ParseCgroups(dir2, procs2, paths).Groups
         /\ Wanted(procs) \subseteq Wanted(procs2)
<1>1. Wanted(procs) \subseteq Wanted(procs2)
  <2>1. ASSUME NEW pid \in DOMAIN procs, procs[pid].CgroupPath # EmptyString
        PROVE  procs[pid].CgroupPath \in {procs2[p].CgroupPath : p \in DOMAIN procs2}
    BY <2>1 DEF PathsFrom
  <2> QED  BY <2>1, Zenon DEF Wanted
<1>2. FoundAt(dir, procs, paths) \subseteq FoundAt(dir2, procs2, paths)
  BY <1>1 DEF FoundAt
<1>3. /\ DOMAIN ParseCgroups(dir, procs, paths).Groups = FoundAt(dir, procs, paths)
      /\ DOMAIN ParseCgroups(dir2, procs2, paths).Groups = FoundAt(dir2, procs2, paths)
  BY ParsedGroups
<1> QED  BY <1>1, <1>2, <1>3, Zenon

\* The deltas of the cgroups on both lists, in the order of the second.
DeltasInOrder(d, a, b, olds, news, paths) ==
  LET both == {k \in DOMAIN b : \E i \in DOMAIN a : paths[i] = paths[k]}
  IN  /\ d = [k \in both |-> d[k]]
      /\ \A k \in both :
           /\ paths[k] \in DOMAIN olds \cap DOMAIN news
           /\ d[k] = CounterDiff(olds[paths[k]], news[paths[k]], CgroupCounters)
           /\ d[k].Path = paths[k]

LEMMA CgroupDiffListed ==
  ASSUME NEW paths, NEW olds, Directory(olds), NEW news, Directory(news),
         NEW a, Listing(a, olds, paths), NEW b, Listing(b, news, paths)
  PROVE  DeltasInOrder(CalculateCgroupDiff(a, b), a, b, olds, news, paths)
<1> DEFINE both == {k \in DOMAIN b : \E i \in DOMAIN a : paths[i] = paths[k]}
           d == CalculateCgroupDiff(a, b)
           Delta(path) == CounterDiff(olds[path], news[path], CgroupCounters)
<1>1. /\ \A i \in DOMAIN a : paths[i] \in DOMAIN olds /\ a[i] = olds[paths[i]]
                           /\ a[i].Path = paths[i]
      /\ \A i \in DOMAIN b : paths[i] \in DOMAIN news /\ b[i] = news[paths[i]]
                           /\ b[i].Path = paths[i] /\ "Path" \in DOMAIN b[i]
  BY DEF Listing, Directory
<1>2. DOMAIN d = both /\ d = [k \in both |-> d[k]]
  <2>1. {k \in DOMAIN b : \E i \in DOMAIN a : a[i].Path = b[k].Path} = both  BY <1>1
  <2> QED  BY <2>1 DEF CalculateCgroupDiff
<1>3. ASSUME NEW k \in both
      PROVE  /\ paths[k] \in DOMAIN olds \cap DOMAIN news
             /\ d[k] = Delta(paths[k]) /\ d[k].Path = paths[k]
  <2> DEFINE old == CHOOSE g \in {a[i] : i \in DOMAIN a} : g.Path = b[k].Path
  <2>1. old = olds[paths[k]] /\ paths[k] \in DOMAIN olds
    <3>1. PICK i \in DOMAIN a : paths[i] = paths[k]  OBVIOUS
    <3>2. a[i] \in {a[j] : j \in DOMAIN a} /\ a[i].Path = b[k].Path  BY <1>1, <3>1
    <3>3. old \in {a[j] : j \in DOMAIN a} /\ old.Path = b[k].Path  BY <3>2
    <3>4. PICK j \in DOMAIN a : old = a[j]  BY <3>3
    <3>5. paths[j] = paths[k]  BY <1>1, <3>3, <3>4
    <3> HIDE DEF old
    <3> QED  BY <1>1, <3>4, <3>5
  <2>2. d[k] = CounterDiff(old, b[k], CgroupCounters)
    BY <1>2, Zenon DEF CalculateCgroupDiff
  <2>3. b[k] = news[paths[k]] /\ paths[k] \in DOMAIN news  BY <1>1
  <2>4. CounterDiff(old, b[k], CgroupCounters).Path = b[k].Path
    BY <1>1, NoCounters DEF CounterDiff
  <2> HIDE DEF old, d
  <2> QED  BY <1>1, <2>1, <2>2, <2>3, <2>4
<1> HIDE DEF d
<1> QED  BY <1>2, <1>3 DEF d, DeltasInOrder

\* The same, by path.
DeltasByPath(groups, a, b, olds, news, paths) ==
  /\ DOMAIN groups =
       {paths[k] : k \in {k \in DOMAIN b : \E i \in DOMAIN a : paths[i] = paths[k]}}
  /\ \A path \in DOMAIN groups :
       /\ path \in DOMAIN olds \cap DOMAIN news
       /\ groups[path] = CounterDiff(olds[path], news[path], CgroupCounters)

LEMMA CgroupDiffByPath ==
  ASSUME NEW paths, NEW olds, Directory(olds), NEW news, Directory(news),
         NEW a, Listing(a, olds, paths), NEW b, Listing(b, news, paths)
  PROVE  DeltasByPath(ByPath(CalculateCgroupDiff(a, b)), a, b, olds, news, paths)
<1> DEFINE both == {k \in DOMAIN b : \E i \in DOMAIN a : paths[i] = paths[k]}
           d == CalculateCgroupDiff(a, b)
           Delta(path) == CounterDiff(olds[path], news[path], CgroupCounters)
<1>0. DeltasInOrder(d, a, b, olds, news, paths)  BY CgroupDiffListed
<1>1. /\ d = [k \in both |-> d[k]]
      /\ \A k \in both : /\ paths[k] \in DOMAIN olds \cap DOMAIN news
                         /\ d[k] = Delta(paths[k]) /\ d[k].Path = paths[k]
  BY <1>0 DEF DeltasInOrder
<1>2. DOMAIN d = both
  <2> HIDE DEF d, both
  <2> QED  BY <1>1
<1>3. ASSUME NEW k \in both
      PROVE  /\ paths[k] \in DOMAIN olds \cap DOMAIN news
             /\ d[k] = Delta(paths[k]) /\ d[k].Path = paths[k]
  BY <1>1
<1> HIDE DEF d
<1>4. {d[k].Path : k \in DOMAIN d} = {paths[k] : k \in both}
  <2> HIDE DEF both, Delta
  <2> QED  BY <1>2, <1>3
<1>5. DOMAIN ByPath(d) = {paths[k] : k \in both}  BY <1>4 DEF ByPath
<1>6. ASSUME NEW k \in both PROVE ByPath(d)[paths[k]] = Delta(paths[k])
  <2> DEFINE g == CHOOSE g \in {d[j] : j \in DOMAIN d} : g.Path = paths[k]
  <2>1. ByPath(d)[paths[k]] = g  BY <1>4, Zenon DEF ByPath
  <2> HIDE DEF both, Delta
  <2>2. d[k] \in {d[j] : j \in DOMAIN d} /\ d[k].Path = paths[k]  BY <1>2, <1>3
  <2>3. g \in {d[j] : j \in DOMAIN d} /\ g.Path = paths[k]  BY <2>2
  <2>4. PICK j \in DOMAIN d : g = d[j]  BY <2>3
  <2>5. paths[j] = paths[k] /\ g = Delta(paths[j])  BY <1>2, <1>3, <2>3, <2>4
  <2> QED  BY <2>1, <2>5
<1> HIDE DEF both
<1>7. \A path \in DOMAIN ByPath(d) :
        /\ path \in DOMAIN olds \cap DOMAIN news
        /\ ByPath(d)[path] = CounterDiff(olds[path], news[path], CgroupCounters)
  BY <1>3, <1>5, <1>6
<1> QED  BY <1>5, <1>7 DEF both, d, DeltasByPath

LEMMA CgroupsWithin ==
  ASSUME NEW f, NEW w, AllCounting(f, CgroupCounters), AllCounting(w, CgroupCounters),
         NEW paths, Directory(f), Directory(w), NEW lostA, NEW lostB,
         NEW dirA, ReadInPart(dirA, f, "Cgroups", lostA),
         NEW dirB, ReadInPart(dirB, AllGoOn(f, w, CgroupCounters), "Cgroups", lostB),
         NEW a, Listing(a, dirA, paths), NEW b, Listing(b, dirB, paths),
         NEW c, Listing(c, ZeroAll(f, CgroupCounters), paths), DOMAIN a \subseteq DOMAIN c,
         NEW e, Listing(e, AllGoOn(ZeroAll(f, CgroupCounters), w, CgroupCounters), paths),
         DOMAIN b \subseteq DOMAIN e
  PROVE  AllWithin(ByPath(CalculateCgroupDiff(a, b)), ByPath(CalculateCgroupDiff(c, e)),
                   CgroupCounters, "Cgroups", lostA \ lostB)
<1> DEFINE zero == ZeroAll(f, CgroupCounters)
           now == AllGoOn(f, w, CgroupCounters)
           then == AllGoOn(zero, w, CgroupCounters)
           x == ByPath(CalculateCgroupDiff(a, b))
           y == ByPath(CalculateCgroupDiff(c, e))
<1>1. PartlyZeroed(f, f, CgroupCounters) /\ PartlyZeroed(zero, f, CgroupCounters)
  BY ZeroedSome DEF PartlyZeroed
<1>2. DOMAIN now = DOMAIN w /\ DOMAIN then = DOMAIN w /\ DOMAIN zero = DOMAIN f
  BY <1>1 DEF AllGoOn, PartlyZeroed
<1>3. Directory(zero)
  <2> HIDE DEF zero
  <2> QED  BY <1>1, <1>2, OtherFieldsStay, NoCounters DEF Directory
<1>4. ASSUME NEW r PROVE Directory(AllGoOn(r, w, CgroupCounters))
  <2>1. DOMAIN AllGoOn(r, w, CgroupCounters) = DOMAIN w  BY DEF AllGoOn
  <2> QED  BY <2>1, OtherFieldsOfWindow, NoCounters DEF Directory
<1>5. Directory(now) /\ Directory(then)  BY <1>4
<1>6. Directory(dirA) /\ Directory(dirB)  BY <1>5, PartDirectory
<1>7. ASSUME NEW path \in DOMAIN dirB, NEW k \in CgroupCounters
      PROVE  CounterWithin(f, w, CgroupCounters, "Cgroups", lostA \ lostB, dirA, dirB, path, k)
  <2>1. \A i \in CgroupCounters : Blank["Cgroups"][i] = 0  BY BlankSources, BlankCounters
  <2> QED  BY <1>1, <2>1, PartWindow
<1> HIDE DEF now, then, zero
<1>8. DeltasByPath(x, a, b, dirA, dirB, paths)  BY <1>6, CgroupDiffByPath
<1>9. DeltasByPath(y, c, e, zero, then, paths)
  <2>1. Listing(c, zero, paths) /\ Listing(e, then, paths)  BY DEF then, zero
  <2> QED  BY <1>3, <1>5, <2>1, CgroupDiffByPath
<1> HIDE DEF x, y
<1>10. DOMAIN x \subseteq DOMAIN y  BY <1>8, <1>9 DEF DeltasByPath
<1>11. ASSUME NEW path \in DOMAIN x, NEW k \in CgroupCounters
       PROVE  \/ x[path][k] \in 0..y[path][k]
              \/ k \in MissingOf("Cgroups", path, lostA \ lostB)
  <2>1. path \in DOMAIN y  BY <1>10
  <2>2. path \in DOMAIN dirA /\ path \in DOMAIN dirB  BY <1>8 DEF DeltasByPath
  <2>3. \/ CounterDiff(dirA[path], dirB[path], CgroupCounters)[k]
             \in 0..CounterDiff(zero[path], then[path], CgroupCounters)[k]
        \/ k \in MissingOf("Cgroups", path, lostA \ lostB)
    BY <1>7, <2>2 DEF CounterWithin, then, zero
  <2>4. /\ x[path] = CounterDiff(dirA[path], dirB[path], CgroupCounters)
        /\ y[path] = CounterDiff(zero[path], then[path], CgroupCounters)
    BY <1>8, <1>9, <2>1 DEF DeltasByPath
  <2> QED  BY <2>3, <2>4
<1> QED  BY <1>11 DEF x, y, AllWithin, Within

-----------------------------------------------------------------------------
(***************************************************************************)
(* The diff of two snapshots of a host, one interval apart.                *)
(***************************************************************************)

\* What DiffSnapshots takes from which source.
LEMMA DiffFields ==
  ASSUME NEW a, NEW b, a.Timestamp \in Nat, b.Timestamp \in Nat
  PROVE  LET d == DiffSnapshots(a, b)
         IN  /\ d.Duration \in Nat \ {0}
             /\ d.Duration = IF b.Timestamp - a.Timestamp <= 0 THEN 1
                            ELSE b.Timestamp - a.Timestamp
             /\ d.ProcsRunning = b.CPU.ProcsRunning /\ d.ProcsBlocked = b.CPU.ProcsBlocked
             /\ d.FileLocks = b.FileLocks /\ d.Latest = b
             /\ d.ContextSwitches = DiffUint64(b.CPU.ContextSwitches, a.CPU.ContextSwitches)
             /\ d.ProcessesCreated = DiffUint64(b.CPU.ProcessesCreated, a.CPU.ProcessesCreated)
             /\ d.TotalCPUUtil = CalculateCoreUtil(a.CPU.TotalCPU, b.CPU.TotalCPU)
             /\ d.PerCoreCPUUtil = CalculatePerCoreUtil(a.CPU.PerCore, b.CPU.PerCore)
             /\ d.VMStat = CounterDiff(a.VMStat, b.VMStat, DOMAIN VMStatInfo)
             /\ d.NetStat = CounterDiff(a.NetStat, b.NetStat, DOMAIN NetStatInfo)
             /\ d.Disks = CalculateDiskDiff(a.DiskStats, b.DiskStats, d.Duration)
             /\ d.NetIfaces = CalculateNetIfacesDiff(a.NetIfaces, b.NetIfaces)
             /\ d.Processes = CalculateProcessDiff(a.Processes, b.Processes, d.Duration)
             /\ d.Cgroups = CalculateCgroupDiff(a.Cgroups.Groups, b.Cgroups.Groups)
BY SMT DEF DiffSnapshots, CalculateVMStatDiff, CalculateNetStatDiff

\* Every utilization is a percentage, in the diff of any two snapshots of hosts.
LEMMA DiffPercents ==
  ASSUME NEW h, NEW g, IsHost(h), IsHost(g), NEW lostA, NEW lostB,
         ~Fatal(lostA), ~Fatal(lostB), NEW paths
  PROVE  Percents(DiffSnapshots(CollectSnapshot(h, lostA, paths),
                                CollectSnapshot(g, lostB, paths))) \subseteq Tenths
<1> DEFINE a == CollectSnapshot(h, lostA, paths)
           b == CollectSnapshot(g, lostB, paths)
           d == DiffSnapshots(a, b)
<1>1. SnapshotOf(a, h, lostA, paths) /\ SnapshotOf(b, g, lostB, paths)  BY SnapshotFields
<1> HIDE DEF a, b
<1>2. /\ a.Timestamp \in Nat /\ b.Timestamp \in Nat /\ a.CPU = h.CPU /\ b.CPU = g.CPU
      /\ AllCounting(a.DiskStats, DiskCounters) /\ AllCounting(b.DiskStats, DiskCounters)
  <2>1. h.Timestamp \in Nat /\ g.Timestamp \in Nat  BY DEF IsHost
  <2>2. AllCounting(h.DiskStats, DiskCounters) /\ AllCounting(g.DiskStats, DiskCounters)
    BY DEF IsHost
  <2>3. \A k \in DiskCounters : Blank["DiskStats"][k] = 0  BY BlankSources, BlankCounters
  <2>4. /\ ReadInPart(a.DiskStats, h.DiskStats, "DiskStats", lostA)
        /\ ReadInPart(b.DiskStats, g.DiskStats, "DiskStats", lostB)
    BY <1>1 DEF SnapshotOf
  <2>5. AllCounting(a.DiskStats, DiskCounters) /\ AllCounting(b.DiskStats, DiskCounters)
    BY <2>2, <2>3, <2>4, PartCounting
  <2> QED  BY <1>1, <2>1, <2>5 DEF SnapshotOf
<1>3. /\ d.Duration \in Nat \ {0}
      /\ d.TotalCPUUtil = CalculateCoreUtil(h.CPU.TotalCPU, g.CPU.TotalCPU)
      /\ d.PerCoreCPUUtil = CalculatePerCoreUtil(h.CPU.PerCore, g.CPU.PerCore)
      /\ d.Disks = CalculateDiskDiff(a.DiskStats, b.DiskStats, d.Duration)
  BY <1>2, DiffFields
<1> HIDE DEF d
<1>4. \A f \in DOMAIN d.TotalCPUUtil : d.TotalCPUUtil[f] \in Tenths
  BY <1>3, CoreUtilPercents DEF IsHost
<1>5. ASSUME NEW c \in DOMAIN d.PerCoreCPUUtil, NEW f \in DOMAIN d.PerCoreCPUUtil[c]
      PROVE  d.PerCoreCPUUtil[c][f] \in Tenths
  <2>1. c \in DOMAIN h.CPU.PerCore /\ c \in DOMAIN g.CPU.PerCore
    BY <1>3 DEF CalculatePerCoreUtil
  <2>2. d.PerCoreCPUUtil[c] = CalculateCoreUtil(h.CPU.PerCore[c], g.CPU.PerCore[c])
    BY <1>3, <2>1 DEF CalculatePerCoreUtil
  <2>3. /\ Counting(h.CPU.PerCore[c], DOMAIN CoreCPUStat)
        /\ Counting(g.CPU.PerCore[c], DOMAIN CoreCPUStat)
    BY <2>1 DEF IsHost, AllCounting
  <2> QED  BY <2>2, <2>3, CoreUtilPercents
<1>6. \A name \in DOMAIN d.Disks : d.Disks[name].UtilPercent \in Tenths
  BY <1>2, <1>3, DiskPercents, Zenon
<1>7. Percents(d) \subseteq Tenths
  <2> DEFINE utils == {d.TotalCPUUtil} \cup
                        {d.PerCoreCPUUtil[c] : c \in DOMAIN d.PerCoreCPUUtil}
  <2>1. \A u \in utils : \A f \in DOMAIN u : u[f] \in Tenths  BY <1>4, <1>5
  <2> DEFINE cores == UNION {{u[f] : f \in DOMAIN u} : u \in utils}
             disks == {d.Disks[name].UtilPercent : name \in DOMAIN d.Disks}
  <2>2. cores \subseteq Tenths
    <3> HIDE DEF utils
    <3> QED  BY <2>1
  <2>3. disks \subseteq Tenths  BY <1>6
  <2>4. Percents(d) = cores \cup disks  BY Zenon DEF Percents
  <2> HIDE DEF cores, disks
  <2> QED  BY <2>2, <2>3, <2>4
<1> QED  BY <1>7 DEF d, a, b

\* No counter moves by more than the interval counts, whatever was lost.
LEMMA WindowDeltas ==
  ASSUME NEW h, IsHost(h), NEW t \in Troubles, IsHost(Window[t]), NEW lostA, NEW lostB,
         ~Fatal(lostA), ~Fatal(lostB), NEW paths, NEW w,
         w.lostA = lostA, w.lostB = lostB,
         w.diff = DiffSnapshots(CollectSnapshot(h, lostA, paths),
                                CollectSnapshot(Interval(t, Restart(t, h)), lostB, paths)),
         w.fresh = DiffSnapshots(CollectSnapshot(Fresh(h), {}, paths),
                                 CollectSnapshot(Interval(t, Fresh(h)), {}, paths))
  PROVE  DeltasWithin(w)
<1> DEFINE again == Restart(t, h)
           zero  == Fresh(h)
           now   == Interval(t, again)
           then  == Interval(t, zero)
           win   == Window[t]
           a == CollectSnapshot(h, lostA, paths)
           b == CollectSnapshot(now, lostB, paths)
           p == CollectSnapshot(zero, {}, paths)
           q == CollectSnapshot(then, {}, paths)
           d == w.diff
           e == w.fresh
<1>1. IsHost(again) /\ IsHost(zero) /\ IsHost(now) /\ IsHost(then)
  <2>1. IsHost(again) /\ IsHost(zero)  BY RestartIsHost, FreshIsHost
  <2> HIDE DEF again, zero
  <2> QED  BY <2>1, IntervalIsHost
<1>2. /\ SnapshotOf(a, h, lostA, paths) /\ SnapshotOf(b, now, lostB, paths)
      /\ p.Timestamp \in Nat /\ p.CPU = zero.CPU
      /\ p.VMStat = zero.VMStat /\ p.NetStat = zero.NetStat /\ p.DiskStats = zero.DiskStats
      /\ p.NetIfaces = zero.NetIfaces /\ p.Processes = zero.Processes
      /\ p.Cgroups = ParseCgroups(zero.Cgroups, zero.Processes, paths)
      /\ q.Timestamp \in Nat /\ q.CPU = then.CPU
      /\ q.VMStat = then.VMStat /\ q.NetStat = then.NetStat /\ q.DiskStats = then.DiskStats
      /\ q.NetIfaces = then.NetIfaces /\ q.Processes = then.Processes
      /\ q.Cgroups = ParseCgroups(then.Cgroups, then.Processes, paths)
  <2> HIDE DEF again, zero, now, then
  <2>1. SnapshotOf(a, h, lostA, paths) /\ SnapshotOf(b, now, lostB, paths)
    BY <1>1, SnapshotFields
  <2> QED  BY <1>1, <2>1, NothingLost
<1>3. a.Timestamp \in Nat /\ b.Timestamp \in Nat /\ p.Timestamp \in Nat /\ q.Timestamp \in Nat
  <2> HIDE DEF again, zero, now, then, a, b, p, q
  <2> QED  BY <1>1, <1>2 DEF IsHost, SnapshotOf
<1>4. d = DiffSnapshots(a, b) /\ e = DiffSnapshots(p, q)  OBVIOUS
<1>5. /\ d.ContextSwitches = DiffUint64(b.CPU.ContextSwitches, a.CPU.ContextSwitches)
      /\ d.ProcessesCreated = DiffUint64(b.CPU.ProcessesCreated, a.CPU.ProcessesCreated)
      /\ d.VMStat = CounterDiff(a.VMStat, b.VMStat, DOMAIN VMStatInfo)
      /\ d.NetStat = CounterDiff(a.NetStat, b.NetStat, DOMAIN NetStatInfo)
      /\ d.Disks = CalculateDiskDiff(a.DiskStats, b.DiskStats, d.Duration)
      /\ d.NetIfaces = CalculateNetIfacesDiff(a.NetIfaces, b.NetIfaces)
      /\ d.Processes = CalculateProcessDiff(a.Processes, b.Processes, d.Duration)
      /\ d.Cgroups = CalculateCgroupDiff(a.Cgroups.Groups, b.Cgroups.Groups)
  <2> HIDE DEF a, b
  <2> QED  BY <1>3, <1>4, DiffFields
<1>6. /\ e.ContextSwitches = DiffUint64(q.CPU.ContextSwitches, p.CPU.ContextSwitches)
      /\ e.ProcessesCreated = DiffUint64(q.CPU.ProcessesCreated, p.CPU.ProcessesCreated)
      /\ e.VMStat = CounterDiff(p.VMStat, q.VMStat, DOMAIN VMStatInfo)
      /\ e.NetStat = CounterDiff(p.NetStat, q.NetStat, DOMAIN NetStatInfo)
      /\ e.Disks = CalculateDiskDiff(p.DiskStats, q.DiskStats, e.Duration)
      /\ e.NetIfaces = CalculateNetIfacesDiff(p.NetIfaces, q.NetIfaces)
      /\ e.Processes = CalculateProcessDiff(p.Processes, q.Processes, e.Duration)
      /\ e.Cgroups = CalculateCgroupDiff(p.Cgroups.Groups, q.Cgroups.Groups)
  <2> HIDE DEF p, q
  <2> QED  BY <1>3, <1>4, DiffFields
<1> HIDE DEF a, b, p, q, d, e
\* The machine's own counters.
<1>7. Within(d, e, {"ContextSwitches", "ProcessesCreated"}, {})
  <2>1. /\ a.CPU = h.CPU /\ b.CPU = now.CPU /\ p.CPU = zero.CPU /\ q.CPU = then.CPU
    BY <1>2 DEF SnapshotOf
  <2>2. again.CPU = h.CPU  BY RestartFields
  <2>3. zero.CPU.ContextSwitches = 0 /\ zero.CPU.ProcessesCreated = 0  BY FreshFields
  <2>4. /\ now.CPU.ContextSwitches = h.CPU.ContextSwitches + win.CPU.ContextSwitches
        /\ now.CPU.ProcessesCreated = h.CPU.ProcessesCreated + win.CPU.ProcessesCreated
        /\ then.CPU.ContextSwitches = 0 + win.CPU.ContextSwitches
        /\ then.CPU.ProcessesCreated = 0 + win.CPU.ProcessesCreated
    <3> HIDE DEF again, zero
    <3> QED  BY <2>2, <2>3, IntervalFields
  <2>5. /\ h.CPU.ContextSwitches \in Nat /\ h.CPU.ProcessesCreated \in Nat
        /\ win.CPU.ContextSwitches \in Nat /\ win.CPU.ProcessesCreated \in Nat
    BY DEF IsHost
  <2> HIDE DEF again, zero, now, then, win
  <2>6. d.ContextSwitches \in 0..e.ContextSwitches
    <3> DEFINE x == h.CPU.ContextSwitches
               y == win.CPU.ContextSwitches
    <3>1. d.ContextSwitches = DiffUint64(x + y, x) /\ e.ContextSwitches = DiffUint64(0 + y, 0)
      BY <1>5, <1>6, <2>1, <2>3, <2>4
    <3>2. x \in Nat /\ y \in Nat  BY <2>5
    <3> HIDE DEF x, y
    <3>3. DiffUint64(x + y, x) \in 0..y /\ DiffUint64(0 + y, 0) = y
      BY <3>2, DiffUint64Window
    <3> QED  BY <3>1, <3>3
  <2>7. d.ProcessesCreated \in 0..e.ProcessesCreated
    <3> DEFINE x == h.CPU.ProcessesCreated
               y == win.CPU.ProcessesCreated
    <3>1. d.ProcessesCreated = DiffUint64(x + y, x) /\ e.ProcessesCreated = DiffUint64(0 + y, 0)
      BY <1>5, <1>6, <2>1, <2>3, <2>4
    <3>2. x \in Nat /\ y \in Nat  BY <2>5
    <3> HIDE DEF x, y
    <3>3. DiffUint64(x + y, x) \in 0..y /\ DiffUint64(0 + y, 0) = y
      BY <3>2, DiffUint64Window
    <3> QED  BY <3>1, <3>3
  <2> QED  BY <2>6, <2>7 DEF Within
<1> DEFINE gone == lostA \ lostB
<1>8. <<"VMStat">> \in gone \/ Within(d.VMStat, e.VMStat, DOMAIN VMStatInfo, {})
  <2>1. /\ a.VMStat = IF <<"VMStat">> \in lostA THEN VMStatInfo ELSE h.VMStat
        /\ b.VMStat = IF <<"VMStat">> \in lostB THEN VMStatInfo ELSE now.VMStat
    <3> HIDE DEF again, zero, now, then
    <3> QED  BY <1>2 DEF SnapshotOf
  <2>2. /\ again.VMStat = h.VMStat /\ zero.VMStat = Zeroed(h.VMStat, DOMAIN VMStatInfo)
    BY RestartFields, FreshFields
  <2>3. /\ now.VMStat = GoOn(h.VMStat, win.VMStat, DOMAIN VMStatInfo)
        /\ then.VMStat = GoOn(zero.VMStat, win.VMStat, DOMAIN VMStatInfo)
    <3> HIDE DEF again, zero
    <3> QED  BY <2>2, IntervalFields
  <2>4. /\ Counting(h.VMStat, DOMAIN VMStatInfo) /\ Counting(win.VMStat, DOMAIN VMStatInfo)
    BY DEF IsHost
  <2>5. \A k \in DOMAIN VMStatInfo : VMStatInfo[k] = 0  BY Zenon DEF VMStatInfo, Counters
  <2>6. Counting(now.VMStat, DOMAIN VMStatInfo)
    BY <2>3, <2>4, CountersRemain
  <2> HIDE DEF again, zero, now, then, win
  <2>7. ASSUME <<"VMStat">> \notin gone, NEW k \in DOMAIN VMStatInfo
        PROVE  d.VMStat[k] \in 0..e.VMStat[k]
    <3>1. a.VMStat[k] \in Nat /\ k \in DOMAIN b.VMStat
      BY <2>1, <2>4, <2>5, <2>6 DEF Counting
    <3>2. b.VMStat[k] = 0 \/ (a.VMStat[k] = h.VMStat[k] /\ b.VMStat[k] = now.VMStat[k])
      BY <2>1, <2>5, <2>7
    <3>3. CounterDiff(a.VMStat, b.VMStat, DOMAIN VMStatInfo)[k]
            \in 0..CounterDiff(zero.VMStat, then.VMStat, DOMAIN VMStatInfo)[k]
      BY <2>2, <2>3, <2>4, <3>1, <3>2, RecordWithin
    <3> QED  BY <1>2, <1>5, <1>6, <3>3
  <2> HIDE DEF gone
  <2> QED  BY <2>7 DEF Within
<1>9. \/ <<"NetStat">> \in gone
      \/ Within(d.NetStat, e.NetStat, DOMAIN NetStatInfo, Missing("NetStat", gone))
  <2>1. /\ IF <<"NetStat">> \in lostA THEN a.NetStat = NetStatInfo
           ELSE RecordInPart(a.NetStat, h.NetStat, Missing("NetStat", lostA), NetStatInfo)
        /\ IF <<"NetStat">> \in lostB THEN b.NetStat = NetStatInfo
           ELSE RecordInPart(b.NetStat, now.NetStat, Missing("NetStat", lostB), NetStatInfo)
    <3> HIDE DEF again, zero, now, then
    <3> QED  BY <1>2 DEF SnapshotOf
  <2>2. /\ again.NetStat = h.NetStat /\ zero.NetStat = Zeroed(h.NetStat, DOMAIN NetStatInfo)
    BY RestartFields, FreshFields
  <2>3. /\ now.NetStat = GoOn(h.NetStat, win.NetStat, DOMAIN NetStatInfo)
        /\ then.NetStat = GoOn(zero.NetStat, win.NetStat, DOMAIN NetStatInfo)
    <3> HIDE DEF again, zero
    <3> QED  BY <2>2, IntervalFields
  <2>4. /\ Counting(h.NetStat, DOMAIN NetStatInfo) /\ Counting(win.NetStat, DOMAIN NetStatInfo)
    BY DEF IsHost
  <2>5. \A k \in DOMAIN NetStatInfo : NetStatInfo[k] = 0  BY Zenon DEF NetStatInfo, Counters
  <2>6. Counting(now.NetStat, DOMAIN NetStatInfo)
    BY <2>3, <2>4, CountersRemain
  <2> HIDE DEF again, zero, now, then, win
  <2>7. ASSUME <<"NetStat">> \notin gone, NEW k \in DOMAIN NetStatInfo,
               k \notin Missing("NetStat", gone)
        PROVE  d.NetStat[k] \in 0..e.NetStat[k]
    <3>1. /\ a.NetStat[k] = IF <<"NetStat">> \in lostA \/ k \in Missing("NetStat", lostA)
                            THEN 0 ELSE h.NetStat[k]
          /\ b.NetStat[k] = IF <<"NetStat">> \in lostB \/ k \in Missing("NetStat", lostB)
                            THEN 0 ELSE now.NetStat[k]
          /\ k \in DOMAIN b.NetStat
      BY <2>1, <2>4, <2>5, <2>6 DEF Counting, RecordInPart
    <3>2. a.NetStat[k] \in Nat  BY <2>4, <3>1 DEF Counting
    <3>3. k \in Missing("NetStat", lostA) => k \in Missing("NetStat", lostB)
      BY <2>7, StillMissing
    <3>4. b.NetStat[k] = 0 \/ (a.NetStat[k] = h.NetStat[k] /\ b.NetStat[k] = now.NetStat[k])
      BY <2>7, <3>1, <3>3
    <3>5. CounterDiff(a.NetStat, b.NetStat, DOMAIN NetStatInfo)[k]
            \in 0..CounterDiff(zero.NetStat, then.NetStat, DOMAIN NetStatInfo)[k]
      BY <2>2, <2>3, <2>4, <3>1, <3>2, <3>4, RecordWithin
    <3> QED  BY <1>2, <1>5, <1>6, <3>5
  <2> HIDE DEF gone
  <2> QED  BY <2>7 DEF Within
\* Devices and processes, of which some begin again.
<1>10. AllWithin(d.Disks, e.Disks, DiskCounters, "DiskStats", gone)
  <2>1. /\ ReadInPart(a.DiskStats, h.DiskStats, "DiskStats", lostA)
        /\ ReadInPart(b.DiskStats, now.DiskStats, "DiskStats", lostB)
        /\ p.DiskStats = zero.DiskStats /\ q.DiskStats = then.DiskStats
    <3> HIDE DEF again, zero, now, then
    <3> QED  BY <1>2 DEF SnapshotOf
  <2>2. AllCounting(h.DiskStats, DiskCounters) /\ AllCounting(win.DiskStats, DiskCounters)
    BY DEF IsHost
  <2>3. zero.DiskStats = ZeroAll(h.DiskStats, DiskCounters)  BY FreshFields
  <2>4. PartlyZeroed(again.DiskStats, h.DiskStats, DiskCounters)
    <3>1. again.DiskStats = ZeroSome(h.DiskStats, Restarts[t].DiskStats, DiskCounters)
      BY RestartFields
    <3> HIDE DEF again
    <3> QED  BY <2>2, <3>1, ZeroedSome
  <2>5. /\ now.DiskStats = AllGoOn(again.DiskStats, win.DiskStats, DiskCounters)
        /\ then.DiskStats = AllGoOn(zero.DiskStats, win.DiskStats, DiskCounters)
    <3> HIDE DEF again, zero
    <3> QED  BY IntervalFields
  <2> HIDE DEF again, zero, now, then, win
  <2> QED  BY <1>5, <1>6, <2>1, <2>2, <2>3, <2>4, <2>5, DisksWithin
<1>11. AllWithin(d.NetIfaces, e.NetIfaces, IfaceCounters, "NetIfaces", gone)
  <2>1. /\ ReadInPart(a.NetIfaces, h.NetIfaces, "NetIfaces", lostA)
        /\ ReadInPart(b.NetIfaces, now.NetIfaces, "NetIfaces", lostB)
        /\ p.NetIfaces = zero.NetIfaces /\ q.NetIfaces = then.NetIfaces
    <3> HIDE DEF again, zero, now, then
    <3> QED  BY <1>2 DEF SnapshotOf
  <2>2. AllCounting(h.NetIfaces, IfaceCounters) /\ AllCounting(win.NetIfaces, IfaceCounters)
    BY DEF IsHost
  <2>3. zero.NetIfaces = ZeroAll(h.NetIfaces, IfaceCounters)  BY FreshFields
  <2>4. PartlyZeroed(again.NetIfaces, h.NetIfaces, IfaceCounters)
    <3>1. again.NetIfaces = ZeroSome(h.NetIfaces, Restarts[t].NetIfaces, IfaceCounters)
      BY RestartFields
    <3> HIDE DEF again
    <3> QED  BY <2>2, <3>1, ZeroedSome
  <2>5. /\ now.NetIfaces = AllGoOn(again.NetIfaces, win.NetIfaces, IfaceCounters)
        /\ then.NetIfaces = AllGoOn(zero.NetIfaces, win.NetIfaces, IfaceCounters)
    <3> HIDE DEF again, zero
    <3> QED  BY IntervalFields
  <2> HIDE DEF again, zero, now, then, win
  <2> QED  BY <1>5, <1>6, <2>1, <2>2, <2>3, <2>4, <2>5, IfacesWithin
<1>12. /\ AllCounting(h.Processes, ProcessCounters)
       /\ AllCounting(win.Processes, ProcessCounters)
       /\ zero.Processes = ZeroAll(h.Processes, ProcessCounters)
       /\ PartlyZeroed(again.Processes, h.Processes, ProcessCounters)
       /\ now.Processes = AllGoOn(again.Processes, win.Processes, ProcessCounters)
       /\ then.Processes = AllGoOn(zero.Processes, win.Processes, ProcessCounters)
  <2>1. AllCounting(h.Processes, ProcessCounters) /\ AllCounting(win.Processes, ProcessCounters)
    BY DEF IsHost
  <2>2. zero.Processes = ZeroAll(h.Processes, ProcessCounters)  BY FreshFields
  <2>3. PartlyZeroed(again.Processes, h.Processes, ProcessCounters)
    <3>1. again.Processes = ZeroSome(h.Processes, Restarts[t].Processes, ProcessCounters)
      BY RestartFields
    <3> HIDE DEF again
    <3> QED  BY <2>1, <3>1, ZeroedSome
  <2>4. /\ now.Processes = AllGoOn(again.Processes, win.Processes, ProcessCounters)
        /\ then.Processes = AllGoOn(zero.Processes, win.Processes, ProcessCounters)
    <3> HIDE DEF again, zero
    <3> QED  BY IntervalFields
  <2> HIDE DEF again, zero, now, then, win
  <2> QED  BY <2>1, <2>2, <2>3, <2>4
<1>13. AllWithin(d.Processes, e.Processes, ProcessCounters \cup {"CPUTime"}, "Processes", gone)
  <2>1. /\ ReadInPart(a.Processes, h.Processes, "Processes", lostA)
        /\ ReadInPart(b.Processes, now.Processes, "Processes", lostB)
        /\ p.Processes = zero.Processes /\ q.Processes = then.Processes
    <3> HIDE DEF again, zero, now, then
    <3> QED  BY <1>2 DEF SnapshotOf
  <2> HIDE DEF again, zero, now, then, win
  <2> DEFINE old == h.Processes
             new == win.Processes
             mid == again.Processes
  <2>2. /\ AllCounting(old, ProcessCounters) /\ AllCounting(new, ProcessCounters)
        /\ PartlyZeroed(mid, old, ProcessCounters)
        /\ ReadInPart(a.Processes, old, "Processes", lostA)
        /\ ReadInPart(b.Processes, AllGoOn(mid, new, ProcessCounters), "Processes", lostB)
        /\ p.Processes = ZeroAll(old, ProcessCounters)
        /\ q.Processes = AllGoOn(ZeroAll(old, ProcessCounters), new, ProcessCounters)
    BY <1>12, <2>1
  <2>3. /\ d.Processes = CalculateProcessDiff(a.Processes, b.Processes, d.Duration)
        /\ e.Processes = CalculateProcessDiff(p.Processes, q.Processes, e.Duration)
    BY <1>5, <1>6
  <2> HIDE DEF old, new, mid
  <2> QED  BY <2>2, <2>3, ProcessesWithin
\* Cgroups, of which a snapshot holds those of the processes that it holds.
<1>14. AllWithin(ByPath(d.Cgroups), ByPath(e.Cgroups), CgroupCounters, "Cgroups", gone)
  <2>1. /\ zero.Cgroups = ZeroAll(h.Cgroups, CgroupCounters) /\ again.Cgroups = h.Cgroups
    BY FreshFields, RestartFields
  <2>2. /\ now.Cgroups = AllGoOn(again.Cgroups, win.Cgroups, CgroupCounters)
        /\ then.Cgroups = AllGoOn(zero.Cgroups, win.Cgroups, CgroupCounters)
    <3> HIDE DEF again, zero
    <3> QED  BY IntervalFields
  <2>3. /\ AllCounting(h.Cgroups, CgroupCounters) /\ AllCounting(win.Cgroups, CgroupCounters)
        /\ Directory(h.Cgroups) /\ Directory(win.Cgroups)
    BY HostDirectory DEF IsHost
  <2>4. DOMAIN zero.Cgroups = DOMAIN h.Cgroups /\ DOMAIN then.Cgroups = DOMAIN now.Cgroups
    <3>1. DOMAIN ZeroAll(h.Cgroups, CgroupCounters) = DOMAIN h.Cgroups
      BY <2>3, ZeroedSome DEF PartlyZeroed
    <3> HIDE DEF again, zero, now, then
    <3> QED  BY <2>1, <2>2, <3>1 DEF AllGoOn
  <2> DEFINE dirA == ReadEntries("Cgroups", h.Cgroups, lostA)
             dirB == ReadEntries("Cgroups", now.Cgroups, lostB)
  <2>5. /\ ReadInPart(dirA, h.Cgroups, "Cgroups", lostA)
        /\ ReadInPart(dirB, now.Cgroups, "Cgroups", lostB)
    BY BlankSources, EntriesInPart DEF Devices
  <2>6. /\ a.Cgroups = ParseCgroups(dirA, a.Processes, paths)
        /\ b.Cgroups = ParseCgroups(dirB, b.Processes, paths)
        /\ ReadInPart(a.Processes, h.Processes, "Processes", lostA)
        /\ ReadInPart(b.Processes, now.Processes, "Processes", lostB)
    <3> HIDE DEF again, zero, now, then
    <3> QED  BY <1>2 DEF SnapshotOf
  <2>7. /\ SameTasks(zero.Processes, h.Processes) /\ HavePaths(h.Processes)
    <3>1. PartlyZeroed(zero.Processes, h.Processes, ProcessCounters)
      BY <1>12, ZeroedSome
    <3> HIDE DEF again, zero, now, then
    <3>2. \A pid \in DOMAIN h.Processes : "CgroupPath" \in DOMAIN h.Processes[pid]
      BY DEF IsHost
    <3>3. \A pid \in DOMAIN h.Processes :
            zero.Processes[pid].CgroupPath = h.Processes[pid].CgroupPath
      BY <3>1, <3>2, OtherFieldsStay, NoCounters
    <3>4. DOMAIN zero.Processes = DOMAIN h.Processes  BY <3>1 DEF PartlyZeroed
    <3> QED  BY <3>2, <3>3, <3>4 DEF SameTasks, HavePaths
  <2>8. /\ SameTasks(then.Processes, now.Processes) /\ HavePaths(now.Processes)
    <3>1. \A pid \in DOMAIN win.Processes : "CgroupPath" \in DOMAIN win.Processes[pid]
      BY DEF IsHost
    <3>2. HavePaths(now.Processes)  BY <1>1 DEF HavePaths, IsHost
    <3> HIDE DEF again, zero, now, then, win
    <3>3. DOMAIN now.Processes = DOMAIN win.Processes
          /\ DOMAIN then.Processes = DOMAIN win.Processes
      BY <1>12 DEF AllGoOn
    <3>4. \A pid \in DOMAIN win.Processes :
            /\ now.Processes[pid].CgroupPath = win.Processes[pid].CgroupPath
            /\ then.Processes[pid].CgroupPath = win.Processes[pid].CgroupPath
      BY <1>12, <3>1, OtherFieldsOfWindow, NoCounters
    <3> QED  BY <3>2, <3>3, <3>4 DEF SameTasks
  <2> HIDE DEF again, zero, now, then, win, dirA, dirB
  <2>9. /\ DOMAIN dirA \subseteq DOMAIN zero.Cgroups /\ DOMAIN dirB \subseteq DOMAIN then.Cgroups
    BY <2>4, <2>5 DEF ReadInPart, Seen
  <2>10. /\ DOMAIN a.Cgroups.Groups \subseteq DOMAIN p.Cgroups.Groups
         /\ DOMAIN b.Cgroups.Groups \subseteq DOMAIN q.Cgroups.Groups
    <3>1. /\ PathsFrom(a.Processes, zero.Processes) /\ PathsFrom(b.Processes, then.Processes)
      BY <2>6, <2>7, <2>8, TasksInPart
    <3> HIDE DEF gone
    <3>2. /\ DOMAIN ParseCgroups(dirA, a.Processes, paths).Groups
               \subseteq DOMAIN ParseCgroups(zero.Cgroups, zero.Processes, paths).Groups
          /\ DOMAIN ParseCgroups(dirB, b.Processes, paths).Groups
               \subseteq DOMAIN ParseCgroups(then.Cgroups, then.Processes, paths).Groups
      BY <2>9, <3>1, FewerFound
    <3> QED  BY <1>2, <2>6, <3>2
  <2>11. /\ Listing(a.Cgroups.Groups, dirA, paths) /\ Listing(b.Cgroups.Groups, dirB, paths)
         /\ Listing(p.Cgroups.Groups, zero.Cgroups, paths)
         /\ Listing(q.Cgroups.Groups, then.Cgroups, paths)
    BY <1>2, <2>6, ParsedListing
  <2>12. AllWithin(ByPath(CalculateCgroupDiff(a.Cgroups.Groups, b.Cgroups.Groups)),
                   ByPath(CalculateCgroupDiff(p.Cgroups.Groups, q.Cgroups.Groups)),
                   CgroupCounters, "Cgroups", lostA \ lostB)
    BY <2>1, <2>2, <2>3, <2>5, <2>10, <2>11, CgroupsWithin
  <2> QED  BY <1>5, <1>6, <2>12
<1> HIDE DEF again, zero, now, then, win
<1> QED  BY <1>7, <1>8, <1>9, <1>10, <1>11, <1>13, <1>14 DEF DeltasWithin, d, e

-----------------------------------------------------------------------------
(***************************************************************************)
(* The inductive invariant.                                                *)
(***************************************************************************)

\* The first snapshot is one of the host `h', and the host of the history is `h' with
\* every counter at zero.
TakenOf(h) ==
  /\ IsHost(h) /\ ~Fatal(first.lost)
  /\ first.snap = CollectSnapshot(h, first.lost, order)
  /\ first.fresh = CollectSnapshot(Fresh(h), {}, order)

\* Between the snapshots: nothing has happened yet, or one interval has gone by.
SnapshotsMatch ==
  /\ pc = "sleep" => TakenOf(host) /\ fresh = Fresh(host)
  /\ pc = "end" => \E h : \E t \in Troubles :
       /\ TakenOf(h) /\ host = Interval(t, Restart(t, h)) /\ fresh = Interval(t, Fresh(h))
       /\ ~restarted => Restart(t, h) = h

\* A window is the diff of two snapshots of a host, an interval of t apart.
WindowOf(w, h, t, paths) ==
  /\ IsHost(h) /\ t \in Troubles /\ ~Fatal(w.lostA) /\ ~Fatal(w.lostB)
  /\ w.diff = DiffSnapshots(CollectSnapshot(h, w.lostA, paths),
                            CollectSnapshot(Interval(t, Restart(t, h)), w.lostB, paths))
  /\ w.fresh = DiffSnapshots(CollectSnapshot(Fresh(h), {}, paths),
                             CollectSnapshot(Interval(t, Fresh(h)), {}, paths))

\* Each of them is, and of a host in which nothing began again unless something did.
Explained(w, paths, again) ==
  \E h, t : WindowOf(w, h, t, paths) /\ (~again => Restart(t, h) = h)

ReportIsOfMedian == fired = IF windows = <<>> THEN {} ELSE Fired(MedianDiff(Diffs))

IsSequence(s) == \E S : s \in Seq(S)

DiagnosisInv ==
  /\ samples \in SampleCounts /\ order \in CgroupOrders
  /\ taken \in 0..samples /\ pc \in {"begin", "sleep", "end", "analyze", "report"}
  /\ mishaps \in 0..MaxMishaps /\ restarted \in BOOLEAN
  /\ pc \in {"begin", "sleep", "end"} => taken < samples
  /\ IsSequence(windows) /\ Len(windows) <= taken
  /\ \A k \in DOMAIN windows : Explained(windows[k], order, restarted)
  /\ pc = "report" => ReportIsOfMedian
  /\ IsHost(host) /\ SnapshotsMatch

\* Every window is as long as the host says it is, a host.
LEMMA WindowIsHost == \A t \in Troubles : IsHost(Window[t])
BY HostAssumption

\* A window stays what it was, and stays sound.
LEMMA StillExplained ==
  ASSUME NEW w, NEW paths, NEW again, Explained(w, paths, again), NEW now, again => now
  PROVE  Explained(w, paths, now)
BY DEF Explained

LEMMA SoundWindow ==
  ASSUME NEW w, NEW paths, NEW again, Explained(w, paths, again)
  PROVE  /\ ~Fatal(w.lostA) /\ ~Fatal(w.lostB) /\ Percents(w.diff) \subseteq Tenths
         /\ DeltasWithin(w)
<1>1. PICK h, t : WindowOf(w, h, t, paths)  BY DEF Explained
<1>2. IsHost(h) /\ t \in Troubles /\ ~Fatal(w.lostA) /\ ~Fatal(w.lostB)
  BY <1>1 DEF WindowOf
<1>3. IsHost(Window[t]) /\ IsHost(Interval(t, Restart(t, h)))
  BY <1>2, WindowIsHost, RestartIsHost, IntervalIsHost
<1>4. Percents(w.diff) \subseteq Tenths  BY <1>1, <1>2, <1>3, DiffPercents DEF WindowOf
<1>5. DeltasWithin(w)  BY <1>1, <1>2, <1>3, WindowDeltas DEF WindowOf
<1> QED  BY <1>2, <1>4, <1>5

LEMMA DiagnosisInvTypeOK == DiagnosisInv => TypeOK /\ DeltasWithinWindow
<1> SUFFICES ASSUME DiagnosisInv PROVE TypeOK /\ DeltasWithinWindow  OBVIOUS
<1>1. ASSUME NEW k \in DOMAIN windows
      PROVE  /\ ~Fatal(windows[k].lostA) /\ ~Fatal(windows[k].lostB)
             /\ Percents(windows[k].diff) \subseteq Tenths
             /\ DeltasWithin(windows[k])
  BY SoundWindow DEF DiagnosisInv
<1>2. DeltasWithinWindow  BY <1>1, Zenon DEF DeltasWithinWindow
<1>3. TypeOK
  <2>1. \A k \in DOMAIN windows :
          /\ ~Fatal(windows[k].lostA) /\ ~Fatal(windows[k].lostB)
          /\ Percents(windows[k].diff) \subseteq Tenths
    BY <1>1
  <2>2. /\ samples \in SampleCounts /\ order \in CgroupOrders
        /\ taken \in 0..samples /\ pc \in {"begin", "sleep", "end", "analyze", "report"}
        /\ Len(windows) <= taken /\ mishaps \in 0..MaxMishaps /\ restarted \in BOOLEAN
    BY DEF DiagnosisInv
  <2> QED  BY <2>1, <2>2 DEF TypeOK, Tenths
<1> QED  BY <1>2, <1>3

\* One more sample.
LEMMA Appended ==
  ASSUME NEW s, IsSequence(s), NEW x
  PROVE  /\ IsSequence(Append(s, x)) /\ Len(Append(s, x)) = Len(s) + 1 /\ Len(s) \in Nat
         /\ \A k \in DOMAIN Append(s, x) :
              Append(s, x)[k] = x \/ (k \in DOMAIN s /\ Append(s, x)[k] = s[k])
<1> DEFINE u == Append(s, x)
<1>1. PICK S : s \in Seq(S) /\ x \in S
  <2>1. PICK R : s \in Seq(R)  BY DEF IsSequence
  <2>2. s \in Seq(R \cup {x})  BY <2>1
  <2> QED  BY <2>2
<1>2. u \in Seq(S) /\ Len(u) = Len(s) + 1 /\ Len(s) \in Nat
      /\ DOMAIN u = 1..(Len(s) + 1) /\ DOMAIN s = 1..Len(s)
  BY <1>1
<1>3. ASSUME NEW k \in DOMAIN u PROVE u[k] = x \/ (k \in DOMAIN s /\ u[k] = s[k])
  <2>1. CASE k = Len(s) + 1
    <3>1. u[Len(s) + 1] = x  BY <1>1
    <3> HIDE DEF u
    <3> QED  BY <2>1, <3>1
  <2>2. CASE k # Len(s) + 1
    <3>1. k \in 1..Len(s)  BY <1>2, <2>2
    <3> QED  BY <1>1, <1>2, <3>1
  <2> QED  BY <2>1, <2>2
<1>4. IsSequence(u)  BY <1>2 DEF IsSequence
<1> QED  BY <1>2, <1>3, <1>4

LEMMA CostBound == \A t : Cost(t) \in {0, 1}
BY DEF Cost

\* Beyond the bound nothing fails that did not fail before.
LEMMA LossBound ==
  ASSUME DiagnosisInv, NEW before, NEW lost \in Lost(before)
  PROVE  /\ mishaps + Failures(lost \ before) \in 0..MaxMishaps
         /\ Fatal(lost) /\ ~Fatal(before) => mishaps + 1 \in 0..MaxMishaps
<1>1. mishaps \in 0..MaxMishaps /\ MaxMishaps \in Nat
  BY DiagnosisAssumption DEF DiagnosisInv
<1>2. lost = {} \/ lost = before \/ mishaps < MaxMishaps  BY DEF Lost
<1>3. Fatal(lost) /\ ~Fatal(before) => lost # {} /\ lost # before  BY DEF Fatal
<1>4. lost = {} \/ lost = before => lost \ before = {}  OBVIOUS
<1>5. Failures(lost \ before) = IF lost \ before = {} THEN 0 ELSE 1  BY DEF Failures
<1> QED  BY <1>1, <1>2, <1>3, <1>4, <1>5

LEMMA DiagnosisInit == Init => DiagnosisInv
<1> SUFFICES ASSUME Init PROVE DiagnosisInv  OBVIOUS
<1>1. IsHost(host) /\ mishaps \in 0..MaxMishaps
  <2>1. PICK t \in Troubles : host = Interval(t, BootedHost) /\ mishaps = Cost(t)
                              /\ mishaps <= MaxMishaps
    BY DEF Init
  <2>2. IsHost(host)  BY <2>1, WindowIsHost, HostAssumption, IntervalIsHost
  <2>3. mishaps \in 0..MaxMishaps  BY <2>1, CostBound, DiagnosisAssumption
  <2> QED  BY <2>2, <2>3
<1>2. IsSequence(windows) /\ DOMAIN windows = {} /\ Len(windows) = 0
  BY DEF Init, IsSequence
<1>3. samples \in Nat /\ samples > 0 /\ taken = 0
  BY DiagnosisAssumption DEF Init
<1>4. SnapshotsMatch  BY DEF Init, SnapshotsMatch
<1>5. /\ samples \in SampleCounts /\ order \in CgroupOrders /\ pc = "begin"
      /\ restarted = FALSE
  BY DEF Init
<1>6. restarted \in BOOLEAN  BY <1>5, Zenon
<1>7. taken \in 0..samples /\ taken < samples /\ Len(windows) <= taken  BY <1>2, <1>3
<1>8. \A k \in DOMAIN windows : Explained(windows[k], order, restarted)  BY <1>2
<1> QED  BY <1>1, <1>2, <1>4, <1>5, <1>6, <1>7, <1>8 DEF DiagnosisInv

\* The end of a sample.
LEMMA NextSampleStep ==
  ASSUME DiagnosisInv, pc \in {"begin", "end"}, taken' = taken + 1, NextSample,
         UNCHANGED past
  PROVE  /\ samples' \in SampleCounts /\ order' \in CgroupOrders
         /\ taken' \in 0..samples' /\ pc' \in {"begin", "analyze"}
         /\ pc' \in {"begin", "sleep", "end"} => taken' < samples'
<1>1. samples \in Nat /\ taken \in Nat /\ taken < samples
  BY DiagnosisAssumption DEF DiagnosisInv
<1>2. samples' = samples /\ order' = order  BY DEF past
<1>3. pc' = IF taken + 1 < samples THEN "begin" ELSE "analyze"  BY DEF NextSample
<1> QED  BY <1>1, <1>2, <1>3 DEF DiagnosisInv

LEMMA DiagnosisStep == DiagnosisInv /\ [Next]_vars => DiagnosisInv'
<1> SUFFICES ASSUME DiagnosisInv, [Next]_vars PROVE DiagnosisInv'  OBVIOUS
<1>1. CASE SampleFails
  <2> DEFINE before == IF pc = "end" THEN first.lost ELSE {}
  <2>1. PICK lost \in Lost(before) : Fatal(lost) /\ mishaps' = mishaps + 1
    BY <1>1 DEF SampleFails
  <2>2. mishaps' \in 0..MaxMishaps
    <3>1. pc = "end" => ~Fatal(first.lost)  BY DEF DiagnosisInv, SnapshotsMatch, TakenOf
    <3>2. ~Fatal({})  BY DEF Fatal
    <3>3. ~Fatal(before)  BY <3>1, <3>2
    <3> HIDE DEF before
    <3> QED  BY <2>1, <3>3, LossBound
  <2>3. pc \in {"begin", "end"} /\ taken' = taken + 1 /\ NextSample /\ UNCHANGED past
        /\ UNCHANGED <<host, windows, restarted>>
    BY <1>1 DEF SampleFails
  <2>4. /\ samples' \in SampleCounts /\ order' \in CgroupOrders
        /\ taken' \in 0..samples' /\ pc' \in {"begin", "analyze"}
        /\ pc' \in {"begin", "sleep", "end"} => taken' < samples'
    BY <2>3, NextSampleStep
  <2>5. Len(windows') <= taken'
    BY <2>3, Appended DEF DiagnosisInv
  <2>6. SnapshotsMatch'  BY <2>4 DEF SnapshotsMatch
  <2>7. \A k \in DOMAIN windows' : Explained(windows'[k], order', restarted')
    BY <2>3 DEF DiagnosisInv, past
  <2> QED  BY <2>2, <2>3, <2>4, <2>5, <2>6, <2>7 DEF DiagnosisInv
<1>2. CASE SnapshotA
  <2>1. PICK lost \in Lost({}) :
          /\ ~Fatal(lost)
          /\ first' = [snap |-> CollectSnapshot(host, lost, order), lost |-> lost,
                       fresh |-> CollectSnapshot(Fresh(host), {}, order)]
          /\ mishaps' = mishaps + Failures(lost)
    BY <1>2 DEF SnapshotA
  <2>2. mishaps' \in 0..MaxMishaps
    <3>1. mishaps + Failures(lost \ {}) \in 0..MaxMishaps  BY LossBound
    <3>2. lost \ {} = lost  OBVIOUS
    <3> QED  BY <2>1, <3>1, <3>2
  <2>3. /\ pc = "begin" /\ pc' = "sleep" /\ fresh' = Fresh(host)
        /\ UNCHANGED <<host, samples, order, taken, windows, restarted>>
    BY <1>2 DEF SnapshotA, past
  <2>4. TakenOf(host)'
    <3>1. ~Fatal(lost)  BY <2>1
    <3>2. /\ first'.snap = CollectSnapshot(host, lost, order) /\ first'.lost = lost
          /\ first'.fresh = CollectSnapshot(Fresh(host), {}, order)
      BY <2>1
    <3> QED  BY <2>3, <3>1, <3>2 DEF DiagnosisInv, TakenOf
  <2>5. SnapshotsMatch'  BY <2>3, <2>4 DEF SnapshotsMatch
  <2>6. \A k \in DOMAIN windows' : Explained(windows'[k], order', restarted')
    BY <2>3 DEF DiagnosisInv
  <2> QED  BY <2>2, <2>3, <2>5, <2>6 DEF DiagnosisInv
<1>3. CASE Sleep
  <2>1. PICK t \in Troubles :
          /\ mishaps + Cost(t) <= MaxMishaps /\ mishaps' = mishaps + Cost(t)
          /\ host' = Interval(t, Restart(t, host)) /\ fresh' = Interval(t, fresh)
          /\ restarted' = (restarted \/ Restart(t, host) # host)
    BY <1>3 DEF Sleep
  <2>2. mishaps' \in 0..MaxMishaps  BY <2>1, CostBound DEF DiagnosisInv
  <2>3. pc = "sleep" /\ pc' = "end" /\ UNCHANGED <<samples, order, taken, first, windows>>
    BY <1>3 DEF Sleep, past
  <2>4. TakenOf(host) /\ fresh = Fresh(host) /\ IsHost(host)
    BY <2>3 DEF DiagnosisInv, SnapshotsMatch
  <2>5. IsHost(host')
    <3>1. IsHost(Restart(t, host))  BY <2>4, RestartIsHost
    <3> QED  BY <2>1, <3>1, WindowIsHost, IntervalIsHost
  <2>6. SnapshotsMatch'
    <3>1. /\ IsHost(host) /\ ~Fatal(first'.lost)
          /\ first'.snap = CollectSnapshot(host, first'.lost, order')
          /\ first'.fresh = CollectSnapshot(Fresh(host), {}, order')
      BY <2>3, <2>4 DEF TakenOf
    <3>2. \E h : \E u \in Troubles :
            /\ IsHost(h) /\ ~Fatal(first'.lost)
            /\ first'.snap = CollectSnapshot(h, first'.lost, order')
            /\ first'.fresh = CollectSnapshot(Fresh(h), {}, order')
            /\ host' = Interval(u, Restart(u, h)) /\ fresh' = Interval(u, Fresh(h))
            /\ ~restarted' => Restart(u, h) = h
      BY <2>1, <2>4, <3>1
    <3> QED  BY <2>3, <3>2, Zenon DEF SnapshotsMatch, TakenOf
  <2>7. restarted' \in BOOLEAN  BY <2>1, Zenon
  <2>8. \A k \in DOMAIN windows' : Explained(windows'[k], order', restarted')
    <3>1. restarted => restarted'  BY <2>1
    <3> QED  BY <2>3, <3>1, StillExplained DEF DiagnosisInv
  <2> QED  BY <2>2, <2>3, <2>5, <2>6, <2>7, <2>8 DEF DiagnosisInv
<1>4. CASE SnapshotB
  <2>1. PICK lost \in Lost(first.lost) :
          /\ ~Fatal(lost)
          /\ windows' = Append(windows,
               [diff |-> DiffSnapshots(first.snap, CollectSnapshot(host, lost, order)),
                fresh |-> DiffSnapshots(first.fresh, CollectSnapshot(fresh, {}, order)),
                lostA |-> first.lost, lostB |-> lost])
          /\ mishaps' = mishaps + Failures(lost \ first.lost)
    BY <1>4 DEF SnapshotB
  <2> DEFINE w == [diff |-> DiffSnapshots(first.snap, CollectSnapshot(host, lost, order)),
                   fresh |-> DiffSnapshots(first.fresh, CollectSnapshot(fresh, {}, order)),
                   lostA |-> first.lost, lostB |-> lost]
  <2>2. mishaps' \in 0..MaxMishaps  BY <2>1, LossBound
  <2>3. pc = "end" /\ taken' = taken + 1 /\ NextSample /\ UNCHANGED past
        /\ UNCHANGED <<host, restarted>>
    BY <1>4 DEF SnapshotB
  <2>4. /\ samples' \in SampleCounts /\ order' \in CgroupOrders
        /\ taken' \in 0..samples' /\ pc' \in {"begin", "analyze"}
        /\ pc' \in {"begin", "sleep", "end"} => taken' < samples'
    BY <2>3, NextSampleStep
  <2>5. SnapshotsMatch'  BY <2>4 DEF SnapshotsMatch
  <2>6. PICK h : \E t \in Troubles :
          /\ TakenOf(h) /\ host = Interval(t, Restart(t, h)) /\ fresh = Interval(t, Fresh(h))
          /\ ~restarted => Restart(t, h) = h
    BY <2>3 DEF DiagnosisInv, SnapshotsMatch
  <2>7. PICK t \in Troubles :
          /\ TakenOf(h) /\ host = Interval(t, Restart(t, h)) /\ fresh = Interval(t, Fresh(h))
          /\ ~restarted => Restart(t, h) = h
    BY <2>6
  <2>8. ~Fatal(lost) /\ ~Fatal(first.lost) /\ IsHost(h) /\ IsHost(host)
    BY <2>1, <2>7 DEF TakenOf, DiagnosisInv
  <2>9. /\ first.snap = CollectSnapshot(h, first.lost, order)
        /\ first.fresh = CollectSnapshot(Fresh(h), {}, order)
    BY <2>7 DEF TakenOf
  <2>10. /\ w.diff = DiffSnapshots(first.snap, CollectSnapshot(host, lost, order))
         /\ w.fresh = DiffSnapshots(first.fresh, CollectSnapshot(fresh, {}, order))
         /\ w.lostA = first.lost /\ w.lostB = lost
    OBVIOUS
  <2>11. windows' = Append(windows, w)  BY <2>1
  <2> HIDE DEF w
  <2>12. Explained(w, order, restarted)
    <3>1. WindowOf(w, h, t, order)  BY <2>7, <2>8, <2>9, <2>10 DEF WindowOf
    <3> QED  BY <2>7, <3>1 DEF Explained
  <2>13. /\ IsSequence(windows') /\ Len(windows') = Len(windows) + 1 /\ Len(windows) \in Nat
         /\ \A k \in DOMAIN windows' :
              windows'[k] = w \/ (k \in DOMAIN windows /\ windows'[k] = windows[k])
    BY <2>11, Appended DEF DiagnosisInv
  <2>14. \A k \in DOMAIN windows' : Explained(windows'[k], order', restarted')
    BY <2>3, <2>12, <2>13 DEF DiagnosisInv, past
  <2>15. Len(windows') <= taken'  BY <2>3, <2>13 DEF DiagnosisInv
  <2> QED  BY <2>2, <2>3, <2>4, <2>5, <2>13, <2>14, <2>15 DEF DiagnosisInv
<1>5. CASE Analyze
  <2>1. pc' = "report"
        /\ UNCHANGED <<host, fresh, samples, order, taken, first, windows, mishaps, restarted>>
    BY <1>5 DEF Analyze, past
  <2>2. SnapshotsMatch'  BY <2>1 DEF SnapshotsMatch
  <2>3. \A k \in DOMAIN windows' : Explained(windows'[k], order', restarted')
    BY <2>1 DEF DiagnosisInv
  <2>4. ReportIsOfMedian'
    <3>1. Diffs' = Diffs  BY <2>1 DEF Diffs
    <3>2. fired' = IF windows = <<>> THEN {} ELSE Fired(MedianDiff(Diffs))  BY <1>5 DEF Analyze
    <3>3. windows' = windows  BY <2>1
    <3> QED  BY <3>1, <3>2, <3>3, Zenon DEF ReportIsOfMedian
  <2> QED  BY <2>1, <2>2, <2>3, <2>4 DEF DiagnosisInv
<1>6. CASE Reported \/ UNCHANGED vars
  <2>1. UNCHANGED <<host, fresh, samples, order, taken, pc, first, windows, mishaps, restarted,
                    fired>>
    BY <1>6 DEF Reported, vars, past
  <2>2. SnapshotsMatch'  BY <2>1 DEF DiagnosisInv, SnapshotsMatch, TakenOf
  <2>3. \A k \in DOMAIN windows' : Explained(windows'[k], order', restarted')
    BY <2>1 DEF DiagnosisInv
  <2>4. pc' = "report" => ReportIsOfMedian'
    <3>1. Diffs' = Diffs  BY <2>1 DEF Diffs
    <3>2. windows' = windows /\ fired' = fired /\ pc' = pc  BY <2>1
    <3>3. pc = "report" => ReportIsOfMedian  BY DEF DiagnosisInv
    <3> QED  BY <3>1, <3>2, <3>3, Zenon DEF ReportIsOfMedian
  <2> QED  BY <2>1, <2>2, <2>3, <2>4 DEF DiagnosisInv
<1> QED  BY <1>1, <1>2, <1>3, <1>4, <1>5, <1>6 DEF Next

-----------------------------------------------------------------------------
\* The inductive invariant holds in every reachable state: each window is explained by
\* a host that could have been there.
THEOREM DiagnosisInvariant == Spec => []DiagnosisInv
BY DiagnosisInit, DiagnosisStep, PTL DEF Spec

(***************************************************************************)
(* Whatever the host, its troubles and the files that cannot be read:      *)
(* at most one diff per sample comes out of captureSamples, none of a      *)
(* snapshot without /proc/stat or /proc/meminfo, and every utilization in  *)
(* it is between 0 and 100 percent.                                        *)
(***************************************************************************)
THEOREM DiagnosisTypeOK == Spec => []TypeOK
BY DiagnosisInvariant, DiagnosisInvTypeOK, PTL

(***************************************************************************)
(* Whatever was counted since boot, whichever driver or process began      *)
(* again at zero, and whichever file could not be read: DiffSnapshots      *)
(* reports no counter that moved by more than what was counted between the *)
(* two snapshots of its sample, unless only the first lacks its file.      *)
(***************************************************************************)
THEOREM DiagnosisDeltasWithinWindow == Spec => []DeltasWithinWindow
BY DiagnosisInvariant, DiagnosisInvTypeOK, PTL

-----------------------------------------------------------------------------
(***************************************************************************)
(* Diffs and snapshots that agree.                                         *)
(***************************************************************************)

\* The sources that count nothing.
Told == Gauges \cup Settings \cup
  {"PSI", "Memory", "DiskSpace", "Clocksource", "THPDefragMode", "PIDMax", "PortRange", "SockStat",
   "AIO", "Virt", "FileLocks", "SchedMigrationCostNS", "CPUFreq", "Thermal", "TCPSockets", "KSM",
   "Neighbor", "Inotify", "SysVSem", "SysVShm"}

LEMMA AllUncounted == Told \subseteq Uncounted
<1>1. Told \subseteq DOMAIN SystemSnapshot  BY SMT DEF SystemSnapshot, Gauges, Settings, Told
<1> QED  BY <1>1, SMT DEF Uncounted, Gauges, Settings, Told

\* What is kept of a source without names of its own.
WholeOrUnread(s, source, r) ==
  s = r \/ s = SystemSnapshot[source] \/ (source \in DOMAIN Defaults /\ s = Defaults[source])

LEMMA SourceRead ==
  ASSUME NEW source, NEW r, NEW lost
  PROVE  \/ WholeOrUnread(ReadSource(source, r, lost), source, r)
         \/ /\ source \in DOMAIN Files
            /\ RecordInPart(ReadSource(source, r, lost), r, Missing(source, lost), Blank[source])
BY FilesInPart DEF ReadSource, WholeOrUnread

\* The numbers of a source that was not read are numbers.
LEMMA UnreadNumbers ==
  /\ SystemSnapshot.PIDMax = 0 /\ SystemSnapshot.TCPMaxTWBuckets = 0
  /\ SystemSnapshot.PortRange.Low = 0 /\ SystemSnapshot.PortRange.High = 0
  /\ SystemSnapshot.SockStat.TCPTimeWait = 0
  /\ SystemSnapshot.SysVSem.SemMNS = 0 /\ SystemSnapshot.SysVSem.SemMNI = 0
  /\ SystemSnapshot.SysVSem.AllocatedSemaphores = 0
  /\ SystemSnapshot.SysVSem.AllocatedSemSets = 0
  /\ SystemSnapshot.AIO.AIOMaxNR = 0
  /\ DOMAIN Defaults = {"PIDMax", "PortRange"} /\ Defaults.PIDMax \in Nat
  /\ Defaults.PortRange.Low \in Nat /\ Defaults.PortRange.High \in Nat
  /\ Blank["SysVSem"] = SystemSnapshot.SysVSem /\ Blank["AIO"] = SystemSnapshot.AIO
  /\ {"PIDMax", "TCPMaxTWBuckets", "PortRange", "SockStat", "Memory"} \cap DOMAIN Files = {}
<1>1. /\ SystemSnapshot.PIDMax = 0 /\ SystemSnapshot.TCPMaxTWBuckets = 0
      /\ SystemSnapshot.PortRange.Low = 0 /\ SystemSnapshot.PortRange.High = 0
      /\ SystemSnapshot.SockStat.TCPTimeWait = 0
      /\ SystemSnapshot.AIO.AIOMaxNR = 0
  BY SMT DEF SystemSnapshot, Counters
<1>2. /\ SystemSnapshot.SysVSem.SemMNS = 0 /\ SystemSnapshot.SysVSem.SemMNI = 0
      /\ SystemSnapshot.SysVSem.AllocatedSemaphores = 0
      /\ SystemSnapshot.SysVSem.AllocatedSemSets = 0
  BY SMT DEF SystemSnapshot, Unread
<1>3. /\ DOMAIN Defaults = {"PIDMax", "PortRange"} /\ Defaults.PIDMax \in Nat
      /\ Defaults.PortRange.Low \in Nat /\ Defaults.PortRange.High \in Nat
  BY SMT DEF Defaults, ParsePIDMax, ParsePortRange
<1>4. Blank["SysVSem"] = SystemSnapshot.SysVSem /\ Blank["AIO"] = SystemSnapshot.AIO
  BY SMT DEF Blank
<1>5. {"PIDMax", "TCPMaxTWBuckets", "PortRange", "SockStat", "Memory"} \cap DOMAIN Files = {}
  BY SMT DEF Files
<1> QED  BY <1>1, <1>2, <1>3, <1>4, <1>5

\* What rules divide by or compare is a number in every snapshot, read or not.
LEMMA SnapshotNumbers ==
  ASSUME NEW h, NEW lost, ~Fatal(lost), NEW paths, IsHost(h)
  PROVE  Numbers(CollectSnapshot(h, lost, paths))
<1> DEFINE s == CollectSnapshot(h, lost, paths)
           names == {"Memory", "PIDMax", "PortRange", "SockStat", "TCPMaxTWBuckets", "SysVSem",
                     "AIO"}
<1>1. \A f \in names : f \in DOMAIN SystemSnapshot /\ f # "Cgroups" /\ f # "Timestamp"
  BY SomeUncounted DEF Uncounted
<1>2. \A f \in names : f \notin Listed  BY SMT DEF Listed
<1>3. \A f \in names : s[f] = ReadSource(f, h[f], lost)  BY <1>1, <1>2, SnapshotSources
<1> HIDE DEF s
<1>4. s.Memory = h.Memory
  <2>1. "Memory" \notin SystemConfig /\ <<"Memory">> \notin lost
    BY SMT DEF SystemConfig, Fatal
  <2> QED  BY <1>3, <2>1, UnreadNumbers DEF ReadSource, Late
<1>5. \A f \in {"PIDMax", "PortRange", "SockStat", "TCPMaxTWBuckets"} :
        WholeOrUnread(s[f], f, h[f])
  BY <1>3, SourceRead, UnreadNumbers
<1>6. Unsigned(h) /\ HasFields(h)  BY DEF IsHost
<1>7. s.PIDMax \in Nat /\ s.TCPMaxTWBuckets \in Nat
  BY <1>5, <1>6, UnreadNumbers DEF WholeOrUnread, Unsigned
<1>8. s.PortRange.Low \in Nat /\ s.PortRange.High \in Nat /\ s.SockStat.TCPTimeWait \in Nat
  BY <1>5, <1>6, UnreadNumbers DEF WholeOrUnread, Unsigned
<1>9. ASSUME NEW f \in {"SysVSem", "AIO"}
      PROVE  \/ s[f] = h[f] \/ s[f] = SystemSnapshot[f]
             \/ RecordInPart(s[f], h[f], Missing(f, lost), Blank[f])
  BY <1>3, SourceRead, UnreadNumbers DEF WholeOrUnread
<1>10. DOMAIN h.SysVSem = DOMAIN SystemSnapshot.SysVSem /\ DOMAIN h.AIO = DOMAIN SystemSnapshot.AIO
  <2>1. {"SysVSem", "AIO"} \subseteq DOMAIN Files /\ {"SysVSem", "AIO"} \cap Listed = {}
    BY SMT DEF Files, Listed
  <2> QED  BY <1>6, <2>1, UnreadNumbers DEF HasFields
<1>11. /\ {"SemMNS", "SemMNI", "AllocatedSemaphores", "AllocatedSemSets"}
             \subseteq DOMAIN SystemSnapshot.SysVSem
       /\ "AIOMaxNR" \in DOMAIN SystemSnapshot.AIO
  BY SMT DEF SystemSnapshot, Unread, Counters
<1>12. s.AIO.AIOMaxNR \in Nat
  BY <1>6, <1>9, <1>10, <1>11, UnreadNumbers DEF Unsigned, RecordInPart
<1>13. /\ s.SysVSem.SemMNS \in Nat /\ s.SysVSem.SemMNI \in Nat
       /\ s.SysVSem.AllocatedSemaphores \in Nat /\ s.SysVSem.AllocatedSemSets \in Nat
  BY <1>6, <1>9, <1>10, <1>11, UnreadNumbers DEF Unsigned, RecordInPart
<1>14. Numbers(s)  BY <1>4, <1>7, <1>8, <1>12, <1>13, <1>6 DEF Numbers, Unsigned
<1> QED  BY <1>14 DEF s

\* Everything but the cgroups and the locks.
SameNumbers(d, e) ==
  /\ d.Duration = e.Duration
  /\ d.ProcsRunning = e.ProcsRunning /\ d.ProcsBlocked = e.ProcsBlocked
  /\ d.ContextSwitches = e.ContextSwitches /\ d.ProcessesCreated = e.ProcessesCreated
  /\ d.TotalCPUUtil = e.TotalCPUUtil /\ d.PerCoreCPUUtil = e.PerCoreCPUUtil
  /\ d.VMStat = e.VMStat /\ d.NetStat = e.NetStat /\ d.Disks = e.Disks
  /\ d.NetIfaces = e.NetIfaces /\ d.Processes = e.Processes

\* In what counts nothing, in the number of cores and in the cgroups' settings.
SameState(a, b) ==
  /\ \A f \in Uncounted : a[f] = b[f]
  /\ Len(a.CPU.PerCore) = Len(b.CPU.PerCore)
  /\ a.Cgroups.Frozen <=> b.Cgroups.Frozen
  /\ DOMAIN a.Cgroups.Groups = DOMAIN b.Cgroups.Groups
  /\ \A k \in DOMAIN a.Cgroups.Groups :
       /\ a.Cgroups.Groups[k].Path = b.Cgroups.Groups[k].Path
       /\ a.Cgroups.Groups[k].CPUShares = b.Cgroups.Groups[k].CPUShares

\* A diff with the same numbers and the same state holds no more than the other,
\* if its cgroups, its locks and its totals since boot do not.
LEMMA SamePoorer ==
  ASSUME NEW d, NEW e, NEW differ, SameNumbers(d, e), CgroupsPoorer(d, e, differ),
         FileLocksPoorer(d, e, differ), SameState(d.Latest, e.Latest),
         SinceBootPoorer(d, e, differ), Numbers(e.Latest)
  PROVE  Poorer(d, e, differ)
<1>1. \A f \in Told : d.Latest[f] = e.Latest[f]  BY AllUncounted DEF SameState
<1>2. SameTotals(d, e)  BY <1>1 DEF SameTotals, SameNumbers, SameState, Told
<1>3. VMStatPoorer(d, e) /\ NetStatPoorer(d, e)
  BY DEF VMStatPoorer, NetStatPoorer, AllOrZero, SameNumbers
<1>4. DisksPoorer(d, e, differ) /\ NetIfacesPoorer(d, e, differ)
  BY DEF DisksPoorer, SameRequests, QueuePoorer, OrEmpty, NetIfacesPoorer, OrZero, SameNumbers
<1>5. ProcessesPoorer(d, e, differ)
  BY DEF ProcessesPoorer, SomeProcesses, ProcessPoorer, StatPoorer, WchanPoorer, IOPoorer,
         FDPoorer, StatusPoorer, SmapsPoorer, AllOrZero, OrEmpty, OrZero, SameNumbers
<1>6. CgroupDirPoorer(d, e)  BY DEF CgroupDirPoorer, OrZero, SameState
<1>7. PSIPoorer(d, e) /\ DiskSpacePoorer(d, e) /\ ModesPoorer(d, e) /\ TablesPoorer(d, e)
      /\ AssumedPoorer(d, e, differ)
  BY <1>1 DEF PSIPoorer, DiskSpacePoorer, ModesPoorer, TablesPoorer, AssumedPoorer, OrEmpty,
              OrZero, Told
<1>8. GaugesPoorer(d, e) /\ SettingsPoorer(d, e)
  BY <1>1 DEF GaugesPoorer, SettingsPoorer, OrZero, Told
<1>9. GaugesOfFilesPoorer(d, e, differ)
  <2>1. CPUFreqPoorer(d, e, differ) /\ ThermalPoorer(d, e, differ) /\ SocketsPoorer(d, e, differ)
    BY <1>1 DEF CPUFreqPoorer, ThermalPoorer, SocketsPoorer, OrEmpty, OrZero, Told
  <2>2. KSMPoorer(d, e) /\ NeighborPoorer(d, e, differ) /\ InotifyPoorer(d, e, differ)
    BY <1>1 DEF KSMPoorer, NeighborPoorer, InotifyPoorer, OrZero, Told
  <2>3. SemaphoresPoorer(d, e) /\ SegmentsPoorer(d, e)
    BY <1>1 DEF SemaphoresPoorer, SegmentsPoorer, OrZero, Told
  <2> QED  BY <2>1, <2>2, <2>3 DEF GaugesOfFilesPoorer
<1> QED  BY <1>2, <1>3, <1>4, <1>5, <1>6, <1>7, <1>8, <1>9 DEF Poorer

\* The fields of a diff.
IsDiff(d) ==
  {"Duration", "ClockJumpDetected", "ProcsRunning", "ProcsBlocked", "ContextSwitches",
   "ProcessesCreated", "TotalCPUUtil", "PerCoreCPUUtil", "Disks", "VMStat", "NetStat", "Cgroups",
   "NetIfaces", "Processes", "FileLocks", "Latest"} \subseteq DOMAIN d

\* DiffSnapshots fills all of them.
LEMMA DiffIsDiff == \A a, b : IsDiff(DiffSnapshots(a, b))
BY SMT DEF IsDiff, DiffSnapshots

\* What Reordered leaves of a diff, and the cgroups it puts in place of the others.
ReorderingOf(r, d, paths) ==
  /\ IsDiff(r) /\ SameNumbers(r, d) /\ r.FileLocks = d.FileLocks /\ r.Latest = d.Latest
  /\ LET groups == ByPath(d.Cgroups)
         present == {k \in DOMAIN paths : paths[k] \in DOMAIN groups}
     IN  r.Cgroups = [k \in present |-> groups[paths[k]]]

\* It does that.
LEMMA ReorderedFields ==
  ASSUME NEW d, NEW paths, IsDiff(d)
  PROVE  ReorderingOf(Reordered(d, paths), d, paths)
<1> DEFINE groups == ByPath(d.Cgroups)
           list == [k \in {k \in DOMAIN paths : paths[k] \in DOMAIN groups} |-> groups[paths[k]]]
<1>1. Reordered(d, paths) = [d EXCEPT !.Cgroups = list]  BY Zenon DEF Reordered
<1> HIDE DEF groups, list
<1>2. DOMAIN [d EXCEPT !.Cgroups = list] = DOMAIN d  OBVIOUS
<1>3. "Cgroups" \in DOMAIN d  BY DEF IsDiff
<1>4. Reordered(d, paths).Cgroups = list  BY <1>1, <1>3, Zenon
<1>5. SameNumbers(Reordered(d, paths), d)  BY <1>1, SMT DEF SameNumbers
<1>6. Reordered(d, paths).FileLocks = d.FileLocks /\ Reordered(d, paths).Latest = d.Latest
  BY <1>1, SMT
<1> QED  BY <1>1, <1>2, <1>4, <1>5, <1>6, Zenon DEF IsDiff, ReorderingOf, groups, list

\* The fields of the median of several samples.
LEMMA MedianDiffFields ==
  ASSUME NEW D, Len(D) # 1, IsDiff(D[Len(D)])
  PROVE  LET m == MedianDiff(D)
             last == D[Len(D)]
         IN  /\ m.Duration = last.Duration
             /\ m.ProcsRunning = MedianCount(D, "ProcsRunning")
             /\ m.ProcsBlocked = MedianCount(D, "ProcsBlocked")
             /\ m.ContextSwitches = MedianCount(D, "ContextSwitches")
             /\ m.ProcessesCreated = MedianCount(D, "ProcessesCreated")
             /\ m.TotalCPUUtil = MedianCPUUtil([i \in DOMAIN D |-> D[i].TotalCPUUtil])
             /\ m.PerCoreCPUUtil = MedianPerCoreCPUUtil(D)
             /\ m.VMStat = MedianVMStat(D) /\ m.NetStat = MedianNetStat(D)
             /\ m.Disks = MedianDiskDiffs(D) /\ m.Cgroups = MedianCgroupDiffs(D)
             /\ m.NetIfaces = last.NetIfaces /\ m.Processes = last.Processes
             /\ m.Latest = last.Latest /\ m.FileLocks = SystemSnapshot.FileLocks
BY SMT DEF MedianDiff, IsDiff

\* The only sample is the median.
LEMMA MedianOfOne == ASSUME NEW D, Len(D) = 1 PROVE MedianDiff(D) = D[1]
BY DEF MedianDiff

\* The medians are functions of the numbers they are of.
SameAll(D, E) ==
  /\ DOMAIN D = DOMAIN E /\ Len(D) = Len(E) /\ Len(D) \in DOMAIN D
  /\ \A i \in DOMAIN D : SameNumbers(D[i], E[i]) /\ IsDiff(D[i]) /\ IsDiff(E[i])

\* Samples with the same numbers have medians with the same numbers.
LEMMA SameMedians ==
  ASSUME NEW D, NEW E, SameAll(D, E)
  PROVE  SameNumbers(MedianDiff(D), MedianDiff(E))
<1>0. DOMAIN D = DOMAIN E /\ Len(D) = Len(E) /\ Len(E) \in DOMAIN D  BY DEF SameAll
<1>1. CASE Len(D) = 1
  BY <1>0, <1>1, MedianOfOne DEF SameAll
<1>2. CASE Len(D) # 1
  <2>1. ASSUME NEW f, \A i \in DOMAIN D : D[i][f] = E[i][f]
        PROVE  /\ [i \in DOMAIN D |-> D[i][f]] = [i \in DOMAIN E |-> E[i][f]]
               /\ MedianCount(D, f) = MedianCount(E, f)
    <3>1. [i \in DOMAIN D |-> D[i][f]] = [i \in DOMAIN E |-> E[i][f]]  BY <1>0, <2>1
    <3> QED  BY <3>1, Zenon DEF MedianCount
  <2>2. ASSUME NEW i \in DOMAIN D
        PROVE  /\ D[i].ProcsRunning = E[i].ProcsRunning /\ D[i].ProcsBlocked = E[i].ProcsBlocked
               /\ D[i].ContextSwitches = E[i].ContextSwitches
               /\ D[i].ProcessesCreated = E[i].ProcessesCreated
               /\ D[i].TotalCPUUtil = E[i].TotalCPUUtil
               /\ D[i].PerCoreCPUUtil = E[i].PerCoreCPUUtil
               /\ D[i].VMStat = E[i].VMStat /\ D[i].NetStat = E[i].NetStat
               /\ D[i].Disks = E[i].Disks
    BY DEF SameAll, SameNumbers
  <2>3. /\ MedianCount(D, "ProcsRunning") = MedianCount(E, "ProcsRunning")
        /\ MedianCount(D, "ProcsBlocked") = MedianCount(E, "ProcsBlocked")
        /\ MedianCount(D, "ContextSwitches") = MedianCount(E, "ContextSwitches")
        /\ MedianCount(D, "ProcessesCreated") = MedianCount(E, "ProcessesCreated")
    BY <2>1, <2>2
  <2>4. MedianCPUUtil([i \in DOMAIN D |-> D[i].TotalCPUUtil])
          = MedianCPUUtil([i \in DOMAIN E |-> E[i].TotalCPUUtil])
    <3>1. [i \in DOMAIN D |-> D[i].TotalCPUUtil] = [i \in DOMAIN E |-> E[i].TotalCPUUtil]
      BY <2>1, <2>2
    <3> QED  BY <3>1, Zenon
  <2>5. MedianVMStat(D) = MedianVMStat(E) /\ MedianNetStat(D) = MedianNetStat(E)
    <3>1. /\ [i \in DOMAIN D |-> D[i].VMStat] = [i \in DOMAIN E |-> E[i].VMStat]
          /\ [i \in DOMAIN D |-> D[i].NetStat] = [i \in DOMAIN E |-> E[i].NetStat]
      BY <2>1, <2>2
    <3> QED  BY <3>1, Zenon DEF MedianVMStat, MedianNetStat
  <2>6. MedianDiskDiffs(D) = MedianDiskDiffs(E)
    <3> DEFINE devices(X) == {name \in DOMAIN X[Len(X)].Disks :
                                \A i \in DOMAIN X : name \in DOMAIN X[i].Disks}
               rates == {"UtilPercent", "AvgReadLatencyMS", "AvgWriteLatencyMS",
                         "AvgQueueLatencyMS"}
               median(X, name) == MedianFields([i \in DOMAIN X |-> X[i].Disks[name]], rates)
    <3>1. devices(D) = devices(E)  BY <1>0, <2>2
    <3>2. ASSUME NEW name PROVE median(D, name) = median(E, name)
      <4>1. [i \in DOMAIN D |-> D[i].Disks[name]] = [i \in DOMAIN E |-> E[i].Disks[name]]
        BY <1>0, <2>2
      <4> QED  BY <4>1, Zenon
    <3>3. /\ MedianDiskDiffs(D) = [name \in devices(D) |-> median(D, name)]
          /\ MedianDiskDiffs(E) = [name \in devices(E) |-> median(E, name)]
      BY Zenon DEF MedianDiskDiffs
    <3> HIDE DEF devices, median
    <3> QED  BY <3>1, <3>2, <3>3
  <2>7. MedianPerCoreCPUUtil(D) = MedianPerCoreCPUUtil(E)
    <3> DEFINE lengths(X) == {Len(X[i].PerCoreCPUUtil) : i \in DOMAIN X}
               least(X) == CHOOSE n \in lengths(X) :
                             \A i \in DOMAIN X : n <= Len(X[i].PerCoreCPUUtil)
               median(X, c) == MedianCPUUtil([i \in DOMAIN X |-> X[i].PerCoreCPUUtil[c]])
    <3>1. least(D) = least(E)
      <4>1. lengths(D) = lengths(E)  BY <1>0, <2>2
      <4>2. \A n : (\A i \in DOMAIN D : n <= Len(D[i].PerCoreCPUUtil))
                     <=> (\A i \in DOMAIN E : n <= Len(E[i].PerCoreCPUUtil))
        BY <1>0, <2>2
      <4> HIDE DEF lengths
      <4> QED  BY <4>1, <4>2
    <3>2. ASSUME NEW c PROVE median(D, c) = median(E, c)
      <4>1. [i \in DOMAIN D |-> D[i].PerCoreCPUUtil[c]]
              = [i \in DOMAIN E |-> E[i].PerCoreCPUUtil[c]]
        BY <1>0, <2>2
      <4> QED  BY <4>1, Zenon
    <3>3. /\ MedianPerCoreCPUUtil(D) = [c \in 1..least(D) |-> median(D, c)]
          /\ MedianPerCoreCPUUtil(E) = [c \in 1..least(E) |-> median(E, c)]
      BY Zenon DEF MedianPerCoreCPUUtil
    <3> HIDE DEF least, median
    <3> QED  BY <3>1, <3>2, <3>3
  <2>8. IsDiff(D[Len(D)]) /\ IsDiff(E[Len(E)]) /\ SameNumbers(D[Len(D)], E[Len(E)])
    BY <1>0 DEF SameAll
  <2>9. Len(E) # 1  BY <1>0, <1>2
  <2> QED
    BY <1>2, <2>3, <2>4, <2>5, <2>6, <2>7, <2>8, <2>9, MedianDiffFields DEF SameNumbers
<1> QED  BY <1>1, <1>2

-----------------------------------------------------------------------------
(***************************************************************************)
(* The order of the cgroups.                                               *)
(***************************************************************************)

\* The cgroups of a list, and that they stand in the order of the paths.
GroupsOf(list) == {list[k] : k \in DOMAIN list}
InOrder(list, paths) == \A k \in DOMAIN list : k \in DOMAIN paths /\ list[k].Path = paths[k]

\* ByPath knows the paths of the list.
LEMMA PathsOf ==
  ASSUME NEW list, NEW path
  PROVE  path \in DOMAIN ByPath(list) <=> \E k \in DOMAIN list : list[k].Path = path
BY SMT DEF ByPath

\* What it has for a path is a cgroup of the list with that path.
LEMMA ByPathChooses ==
  ASSUME NEW list, NEW path \in DOMAIN ByPath(list)
  PROVE  ByPath(list)[path] \in GroupsOf(list) /\ ByPath(list)[path].Path = path
<1> DEFINE g == CHOOSE g \in {list[k] : k \in DOMAIN list} : g.Path = path
<1>1. ByPath(list)[path] = g  BY Zenon DEF ByPath
<1>2. PICK k \in DOMAIN list : list[k].Path = path  BY PathsOf
<1>3. list[k] \in {list[j] : j \in DOMAIN list} /\ list[k].Path = path  BY <1>2
<1>4. g \in {list[j] : j \in DOMAIN list} /\ g.Path = path  BY <1>3
<1> QED  BY <1>1, <1>4 DEF GroupsOf

\* Another order of the same paths leaves the same cgroups.
LEMMA ReorderedGroups ==
  ASSUME NEW list, NEW paths, NEW other, InOrder(list, paths),
         \A i, j \in DOMAIN paths : paths[i] = paths[j] => i = j,
         \A i \in DOMAIN paths : \E j \in DOMAIN other : paths[i] = other[j]
  PROVE  LET groups == ByPath(list)
             present == {k \in DOMAIN other : other[k] \in DOMAIN groups}
         IN  GroupsOf([k \in present |-> groups[other[k]]]) = GroupsOf(list)
<1> DEFINE groups == ByPath(list)
           present == {k \in DOMAIN other : other[k] \in DOMAIN groups}
<1>1. ASSUME NEW k \in DOMAIN list
      PROVE  paths[k] \in DOMAIN groups /\ groups[paths[k]] = list[k]
  <2>1. list[k].Path = paths[k] /\ k \in DOMAIN paths  BY DEF InOrder
  <2>2. paths[k] \in DOMAIN groups  BY <2>1, PathsOf
  <2>3. PICK j \in DOMAIN list : groups[paths[k]] = list[j] /\ list[j].Path = paths[k]
    BY <2>2, ByPathChooses DEF GroupsOf
  <2>4. j = k  BY <2>1, <2>3 DEF InOrder
  <2> QED  BY <2>2, <2>3, <2>4
<1>2. ASSUME NEW k \in present PROVE groups[other[k]] \in GroupsOf(list)
  BY ByPathChooses
<1>3. ASSUME NEW k \in DOMAIN list PROVE \E j \in present : groups[other[j]] = list[k]
  <2>1. k \in DOMAIN paths  BY DEF InOrder
  <2>2. PICK j \in DOMAIN other : paths[k] = other[j]  BY <2>1
  <2>3. j \in present /\ groups[other[j]] = list[k]  BY <1>1, <2>2
  <2> QED  BY <2>3
<1> HIDE DEF groups, present
<1>4. GroupsOf([k \in present |-> groups[other[k]]]) = GroupsOf(list)
  BY <1>2, <1>3 DEF GroupsOf
<1> QED  BY <1>4 DEF groups, present

\* The medians of the cgroups, in whatever order they are.
SameGroups(D, E) ==
  /\ DOMAIN D = DOMAIN E /\ Len(D) = Len(E) /\ Len(D) \in DOMAIN D
  /\ \A i \in DOMAIN D : GroupsOf(D[i].Cgroups) = GroupsOf(E[i].Cgroups)

\* Samples with the same cgroups have medians with the same cgroups, whatever the order.
LEMMA MedianGroups ==
  ASSUME NEW D, NEW E, SameGroups(D, E)
  PROVE  GroupsOf(MedianCgroupDiffs(D)) \subseteq GroupsOf(MedianCgroupDiffs(E))
<1> DEFINE Groups(X, i) == {X[i].Cgroups[k] : k \in DOMAIN X[i].Cgroups}
           Of(X, i, path) == CHOOSE g \in Groups(X, i) : g.Path = path
           latest(X) == X[Len(X)].Cgroups
           kept(X) == {k \in DOMAIN latest(X) :
                 \A i \in DOMAIN X : \E g \in Groups(X, i) : g.Path = latest(X)[k].Path}
           counted == {"ThrottledUsec", "NrThrottled", "OOMKills", "MemoryHighEvents"}
           median(X, path) == MedianFields([i \in DOMAIN X |-> Of(X, i, path)], counted)
<1>1. ASSUME NEW X
      PROVE  MedianCgroupDiffs(X) = [k \in kept(X) |-> median(X, latest(X)[k].Path)]
  BY Zenon DEF MedianCgroupDiffs
<1>2. \A i \in DOMAIN D : Groups(D, i) = Groups(E, i)  BY DEF SameGroups, GroupsOf
<1>3. DOMAIN D = DOMAIN E /\ Len(D) = Len(E) /\ Len(D) \in DOMAIN D  BY DEF SameGroups
<1>4. ASSUME NEW path PROVE median(D, path) = median(E, path)
  <2> HIDE DEF Groups
  <2>1. \A i \in DOMAIN D : Of(D, i, path) = Of(E, i, path)  BY <1>2
  <2> HIDE DEF Of
  <2>2. [i \in DOMAIN D |-> Of(D, i, path)] = [i \in DOMAIN E |-> Of(E, i, path)]
    BY <1>3, <2>1
  <2> QED  BY <2>2, Zenon
<1>5. ASSUME NEW k \in kept(D)
      PROVE  \E j \in kept(E) : latest(E)[j].Path = latest(D)[k].Path
  <2>1. latest(D)[k] \in Groups(D, Len(D))  OBVIOUS
  <2>2. latest(D)[k] \in Groups(E, Len(E))  BY <1>2, <1>3, <2>1
  <2>3. PICK j \in DOMAIN latest(E) : latest(E)[j] = latest(D)[k]  BY <2>2
  <2>4. \A i \in DOMAIN D : \E g \in Groups(D, i) : g.Path = latest(D)[k].Path  OBVIOUS
  <2> HIDE DEF Groups
  <2>5. \A i \in DOMAIN E : \E g \in Groups(E, i) : g.Path = latest(E)[j].Path
    BY <1>2, <1>3, <2>3, <2>4
  <2> QED  BY <2>3, <2>5
<1>6. ASSUME NEW k \in kept(D)
      PROVE  \E j \in kept(E) :
               median(E, latest(E)[j].Path) = median(D, latest(D)[k].Path)
  <2>1. PICK j \in kept(E) : latest(E)[j].Path = latest(D)[k].Path  BY <1>5
  <2> HIDE DEF median, kept, latest
  <2> QED  BY <1>4, <2>1
<1> HIDE DEF median, kept, latest
<1> QED  BY <1>1, <1>6 DEF GroupsOf

\* The cgroups of a snapshot.
LEMMA SnapshotListing ==
  ASSUME NEW h, IsHost(h), NEW lost, ~Fatal(lost), NEW paths
  PROVE  LET groups == CollectSnapshot(h, lost, paths).Cgroups.Groups
             dir == ReadEntries("Cgroups", h.Cgroups, lost)
         IN  /\ Directory(dir) /\ Listing(groups, dir, paths)
             /\ DOMAIN groups \subseteq DOMAIN paths
<1> DEFINE s == CollectSnapshot(h, lost, paths)
           dir == ReadEntries("Cgroups", h.Cgroups, lost)
<1>1. Directory(dir)
  <2>1. ReadInPart(dir, h.Cgroups, "Cgroups", lost)
    BY BlankSources, EntriesInPart DEF Devices
  <2> HIDE DEF dir
  <2> QED  BY <2>1, HostDirectory, PartDirectory
<1>2. s.Cgroups = ParseCgroups(dir, s.Processes, paths)  BY SnapshotFields DEF SnapshotOf
<1> HIDE DEF s, dir
<1>3. Listing(s.Cgroups.Groups, dir, paths)  BY <1>2, ParsedListing
<1>4. DOMAIN s.Cgroups.Groups \subseteq DOMAIN paths
  <2>1. DOMAIN s.Cgroups.Groups = FoundAt(dir, s.Processes, paths)  BY <1>2, ParsedGroups
  <2> QED  BY <2>1 DEF FoundAt
<1> QED  BY <1>1, <1>3, <1>4 DEF s, dir

\* Both hosts of a window are hosts.
LEMMA WindowHosts ==
  ASSUME NEW w, NEW h, NEW t, NEW paths, WindowOf(w, h, t, paths)
  PROVE  /\ IsHost(h) /\ IsHost(Window[t]) /\ IsHost(Interval(t, Restart(t, h)))
         /\ IsHost(Fresh(h)) /\ IsHost(Interval(t, Fresh(h)))
         /\ t \in Troubles /\ ~Fatal(w.lostA) /\ ~Fatal(w.lostB)
BY WindowIsHost, RestartIsHost, IntervalIsHost, FreshIsHost DEF WindowOf

\* The cgroups of a diff stand in the order in which the last snapshot found them.
LEMMA WindowInOrder ==
  ASSUME NEW w, NEW h, NEW t, NEW paths, WindowOf(w, h, t, paths)
  PROVE  InOrder(w.diff.Cgroups, paths) /\ Numbers(w.diff.Latest) /\ IsDiff(w.diff)
<1> DEFINE now == Interval(t, Restart(t, h))
           a == CollectSnapshot(h, w.lostA, paths)
           b == CollectSnapshot(now, w.lostB, paths)
           dirA == ReadEntries("Cgroups", h.Cgroups, w.lostA)
           dirB == ReadEntries("Cgroups", now.Cgroups, w.lostB)
<1>1. IsHost(h) /\ IsHost(now) /\ ~Fatal(w.lostA) /\ ~Fatal(w.lostB)  BY WindowHosts
<1>2. w.diff = DiffSnapshots(a, b)  BY DEF WindowOf
<1> HIDE DEF now
<1>3. /\ Directory(dirA) /\ Listing(a.Cgroups.Groups, dirA, paths)
      /\ Directory(dirB) /\ Listing(b.Cgroups.Groups, dirB, paths)
      /\ DOMAIN b.Cgroups.Groups \subseteq DOMAIN paths
  BY <1>1, SnapshotListing
<1>4. a.Timestamp \in Nat /\ b.Timestamp \in Nat /\ Numbers(b)
  <2>1. SnapshotOf(a, h, w.lostA, paths) /\ SnapshotOf(b, now, w.lostB, paths) /\ Numbers(b)
    BY <1>1, SnapshotFields, SnapshotNumbers
  <2>2. h.Timestamp \in Nat /\ now.Timestamp \in Nat  BY <1>1 DEF IsHost
  <2> HIDE DEF a, b
  <2> QED  BY <2>1, <2>2 DEF SnapshotOf
<1> HIDE DEF a, b, dirA, dirB
<1>5. w.diff.Cgroups = CalculateCgroupDiff(a.Cgroups.Groups, b.Cgroups.Groups)
      /\ w.diff.Latest = b
  BY <1>2, <1>4, DiffFields
<1>6. InOrder(w.diff.Cgroups, paths)
  <2> DEFINE d == w.diff.Cgroups
             old == a.Cgroups.Groups
             new == b.Cgroups.Groups
  <2>1. DeltasInOrder(d, old, new, dirA, dirB, paths)
    BY <1>3, <1>5, CgroupDiffListed
  <2>2. DOMAIN new \subseteq DOMAIN paths  BY <1>3
  <2> HIDE DEF d, old, new
  <2> QED  BY <2>1, <2>2 DEF InOrder, DeltasInOrder, d
<1> QED  BY <1>2, <1>4, <1>5, <1>6, DiffIsDiff

\* The samples that gave a diff, numbered.
LEMMA DiffsAreListed ==
  ASSUME DiagnosisInv
  PROVE  /\ DOMAIN Diffs = DOMAIN windows /\ Len(Diffs) = Len(windows)
         /\ DOMAIN FreshDiffs = DOMAIN windows /\ Len(FreshDiffs) = Len(windows)
         /\ DOMAIN windows = 1..Len(windows) /\ Len(windows) \in Nat
         /\ \A X : LET D == [k \in DOMAIN windows |-> X[k]]
                  IN  DOMAIN D = DOMAIN windows /\ Len(D) = Len(windows)
         /\ windows # <<>> => Len(windows) \in DOMAIN windows
<1>1. PICK S : windows \in Seq(S)  BY DEF DiagnosisInv, IsSequence
<1>2. DOMAIN windows = 1..Len(windows) /\ Len(windows) \in Nat  BY <1>1
<1>3. windows # <<>> => Len(windows) > 0  BY <1>1
<1>4. ASSUME NEW X
      PROVE LET D == [k \in DOMAIN windows |-> X[k]]
            IN  DOMAIN D = DOMAIN windows /\ Len(D) = Len(windows)
  <2> DEFINE D == [k \in DOMAIN windows |-> X[k]]
  <2>1. DOMAIN D = 1..Len(windows) /\ D = [x \in 1..Len(windows) |-> D[x]]  BY <1>2
  <2> HIDE DEF D
  <2>2. DOMAIN D = DOMAIN windows /\ Len(D) = Len(windows)  BY <1>2, <2>1, Numbered
  <2> QED  BY <2>2 DEF D
<1>5. /\ DOMAIN Diffs = DOMAIN windows /\ Len(Diffs) = Len(windows)
  <2> DEFINE X == Diffs
  <2>1. Diffs = [k \in DOMAIN windows |-> X[k]]  BY DEF Diffs
  <2> HIDE DEF X
  <2> QED  BY <1>4, <2>1
<1>6. /\ DOMAIN FreshDiffs = DOMAIN windows /\ Len(FreshDiffs) = Len(windows)
  <2> DEFINE X == FreshDiffs
  <2>1. FreshDiffs = [k \in DOMAIN windows |-> X[k]]  BY DEF FreshDiffs
  <2> HIDE DEF X
  <2> QED  BY <1>4, <2>1
<1> QED  BY <1>2, <1>3, <1>4, <1>5, <1>6

\* With the same cgroups, none has counted more.
LEMMA SameGroupsPoorer ==
  ASSUME NEW d, NEW e, NEW differ, GroupsOf(d.Cgroups) = GroupsOf(e.Cgroups),
         \/ "EDGE_MEMCG_SOCK_MEMORY_THROTTLE" \in differ
         \/ d.Cgroups = e.Cgroups /\ d.Processes = e.Processes
  PROVE  CgroupsPoorer(d, e, differ)
<1>1. ASSUME NEW k \in DOMAIN d.Cgroups
      PROVE  \E j \in DOMAIN e.Cgroups : CgroupPoorer(d.Cgroups[k], e.Cgroups[j])
  <2>1. \A g : CgroupPoorer(g, g)  BY DEF CgroupPoorer, AllOrZero
  <2>2. d.Cgroups[k] \in GroupsOf(e.Cgroups)  BY DEF GroupsOf
  <2> QED  BY <2>1, <2>2 DEF GroupsOf
<1>2. SameThrottled(d, e) \/ "EDGE_MEMCG_SOCK_MEMORY_THROTTLE" \in differ
  BY DEF SameThrottled
<1> QED  BY <1>1, <1>2 DEF CgroupsPoorer

\* Two orders give medians with the same numbers, state and cgroups, so each holds
\* no more than the other but for the rule that looks at the first throttled cgroup.
LEMMA OrderDecidesOneRule == DiagnosisInv => CgroupOrderDecidesOneRule
<1> SUFFICES ASSUME DiagnosisInv, pc = "report", windows # <<>>, NEW other \in CgroupOrders
             PROVE  LET found == Fired(MedianDiff([k \in DOMAIN windows |->
                                                    Reordered(Diffs[k], other)]))
                    IN  (found \ fired) \cup (fired \ found)
                          \subseteq {"EDGE_MEMCG_SOCK_MEMORY_THROTTLE"}
  BY Zenon DEF CgroupOrderDecidesOneRule
<1> DEFINE D == Diffs
           R == [k \in DOMAIN windows |-> Reordered(D[k], other)]
           differ == {"EDGE_MEMCG_SOCK_MEMORY_THROTTLE"}
<1>1. /\ DOMAIN D = DOMAIN windows /\ Len(D) = Len(windows)
      /\ DOMAIN R = DOMAIN windows /\ Len(R) = Len(windows)
      /\ Len(windows) \in DOMAIN windows
  <2> DEFINE X == R
  <2>1. R = [k \in DOMAIN windows |-> X[k]]  OBVIOUS
  <2> HIDE DEF R
  <2>2. DOMAIN R = DOMAIN windows /\ Len(R) = Len(windows)
    BY <2>1, DiffsAreListed
  <2> QED  BY <2>2, DiffsAreListed
<1>2. ASSUME NEW k \in DOMAIN windows
      PROVE  /\ IsDiff(D[k]) /\ Numbers(D[k].Latest)
             /\ IsDiff(R[k]) /\ SameNumbers(R[k], D[k]) /\ R[k].FileLocks = D[k].FileLocks
             /\ R[k].Latest = D[k].Latest /\ GroupsOf(R[k].Cgroups) = GroupsOf(D[k].Cgroups)
  <2>1. Explained(windows[k], order, restarted) /\ order \in CgroupOrders
    BY DEF DiagnosisInv
  <2>2. InOrder(D[k].Cgroups, order) /\ Numbers(D[k].Latest) /\ IsDiff(D[k])
    BY <2>1, WindowInOrder DEF Explained, Diffs
  <2>3. /\ \A i, j \in DOMAIN order : order[i] = order[j] => i = j
        /\ \A i \in DOMAIN order : \E j \in DOMAIN other : order[i] = other[j]
    BY <2>1, DiagnosisAssumption
  <2>4. R[k] = Reordered(D[k], other)  OBVIOUS
  <2> HIDE DEF R, D
  <2>5. GroupsOf(R[k].Cgroups) = GroupsOf(D[k].Cgroups)
    <3> DEFINE groups == ByPath(D[k].Cgroups)
               present == {j \in DOMAIN other : other[j] \in DOMAIN groups}
    <3>1. R[k].Cgroups = [j \in present |-> groups[other[j]]]
      BY <2>2, <2>4, ReorderedFields DEF ReorderingOf
    <3>2. GroupsOf([j \in present |-> groups[other[j]]]) = GroupsOf(D[k].Cgroups)
      BY <2>2, <2>3, ReorderedGroups
    <3> QED  BY <3>1, <3>2, Zenon
  <2>6. /\ IsDiff(R[k]) /\ SameNumbers(R[k], D[k]) /\ R[k].FileLocks = D[k].FileLocks
        /\ R[k].Latest = D[k].Latest
    <3>1. ReorderingOf(R[k], D[k], other)  BY <2>2, <2>4, ReorderedFields
    <3> QED  BY <3>1, Zenon DEF ReorderingOf
  <2> QED  BY <2>2, <2>5, <2>6
<1> HIDE DEF D, R
<1>3. SameAll(D, R) /\ SameAll(R, D) /\ SameGroups(D, R) /\ SameGroups(R, D)
  BY <1>1, <1>2 DEF SameAll, SameGroups, SameNumbers
<1>4. /\ SameNumbers(MedianDiff(D), MedianDiff(R)) /\ SameNumbers(MedianDiff(R), MedianDiff(D))
  BY <1>3, SameMedians
<1>5. /\ MedianDiff(D).Latest = MedianDiff(R).Latest /\ Numbers(MedianDiff(D).Latest)
      /\ MedianDiff(D).FileLocks = MedianDiff(R).FileLocks
      /\ GroupsOf(MedianDiff(D).Cgroups) = GroupsOf(MedianDiff(R).Cgroups)
  <2>1. CASE Len(windows) = 1
    <3>1. MedianDiff(D) = D[1] /\ MedianDiff(R) = R[1]  BY <1>1, <2>1, MedianOfOne
    <3> QED  BY <1>1, <1>2, <2>1, <3>1
  <2>2. CASE Len(windows) # 1
    <3>1. IsDiff(D[Len(D)]) /\ IsDiff(R[Len(R)]) /\ Len(D) # 1 /\ Len(R) # 1
      BY <1>1, <1>2, <2>2
    <3>2. /\ MedianDiff(D).Latest = D[Len(D)].Latest /\ MedianDiff(R).Latest = R[Len(R)].Latest
          /\ MedianDiff(D).FileLocks = SystemSnapshot.FileLocks
          /\ MedianDiff(R).FileLocks = SystemSnapshot.FileLocks
          /\ MedianDiff(D).Cgroups = MedianCgroupDiffs(D)
          /\ MedianDiff(R).Cgroups = MedianCgroupDiffs(R)
      BY <3>1, MedianDiffFields
    <3>3. GroupsOf(MedianCgroupDiffs(D)) = GroupsOf(MedianCgroupDiffs(R))
      <4>1. /\ GroupsOf(MedianCgroupDiffs(D)) \subseteq GroupsOf(MedianCgroupDiffs(R))
            /\ GroupsOf(MedianCgroupDiffs(R)) \subseteq GroupsOf(MedianCgroupDiffs(D))
        BY <1>3, MedianGroups
      <4> QED  BY <4>1, Zenon
    <3> QED  BY <1>1, <1>2, <3>2, <3>3
  <2> QED  BY <2>1, <2>2
<1>6. ASSUME NEW d, NEW e, SameNumbers(d, e), d.Latest = e.Latest, Numbers(d.Latest),
             d.FileLocks = e.FileLocks, GroupsOf(d.Cgroups) = GroupsOf(e.Cgroups)
      PROVE  Fired(d) \subseteq Fired(e) \cup differ
  <2>1. CgroupsPoorer(d, e, differ)  BY <1>6, SameGroupsPoorer
  <2>2. FileLocksPoorer(d, e, differ)  BY <1>6 DEF FileLocksPoorer
  <2>3. SameState(d.Latest, e.Latest)  BY <1>6 DEF SameState
  <2>4. SinceBootPoorer(d, e, differ)  BY <1>6 DEF SinceBootPoorer
  <2> HIDE DEF differ
  <2>5. Poorer(d, e, differ)  BY <1>6, <2>1, <2>2, <2>3, <2>4, SamePoorer
  <2> QED  BY <2>5, PoorerFindsLess
<1>7. /\ Fired(MedianDiff(D)) \subseteq Fired(MedianDiff(R)) \cup differ
      /\ Fired(MedianDiff(R)) \subseteq Fired(MedianDiff(D)) \cup differ
  <2> HIDE DEF differ
  <2> QED  BY <1>4, <1>5, <1>6
<1>8. fired = Fired(MedianDiff(D))
  BY Zenon DEF DiagnosisInv, ReportIsOfMedian, D
<1> QED  BY <1>7, <1>8 DEF D, R

\* In every reachable report, the order in which Go iterates over the map of
\* cgroups decides no finding but EDGE_MEMCG_SOCK_MEMORY_THROTTLE, for every
\* host, every set of orders and every number of samples.
THEOREM DiagnosisCgroupOrder == Spec => []CgroupOrderDecidesOneRule
BY DiagnosisInvariant, OrderDecidesOneRule, PTL

-----------------------------------------------------------------------------
(***************************************************************************)
(* Three samples of which two agree.                                       *)
(***************************************************************************)

\* Two things make a set of two.
LEMMA Pair ==
  ASSUME NEW a, NEW b, a # b PROVE IsFiniteSet({a, b}) /\ Cardinality({a, b}) = 2
<1>1. IsFiniteSet({a}) /\ Cardinality({a}) = 1  BY FS_Singleton
<1>2. {a} \cup {b} = {a, b} /\ b \notin {a}  OBVIOUS
<1>3. IsFiniteSet({a} \cup {b}) /\ Cardinality({a} \cup {b}) = 2  BY <1>1, <1>2, FS_AddElement
<1> QED  BY <1>2, <1>3

\* Three values of which two are v: v is the median.
LEMMA MedianOfThree ==
  ASSUME NEW s, s = [i \in 1..3 |-> s[i]], \A i \in 1..3 : s[i] \in Int,
         NEW j \in 1..2, s[j] = s[3]
  PROVE  MedianOf(s) = s[3]
<1> DEFINE below(v) == {i \in DOMAIN s : s[i] < v}
           upTo(v) == {i \in DOMAIN s : s[i] <= v}
           other == 3 - j
           Middle(v) == Cardinality(below(v)) <= Len(s) \div 2
                        /\ Cardinality(upTo(v)) > Len(s) \div 2
<1>1. DOMAIN s = 1..3 /\ Len(s) = 3  BY Numbered
<1>2. Len(s) \div 2 = 1 /\ 1..3 = {j, other, 3} /\ other \in 1..2 /\ j # 3 /\ other # j
  BY <1>1
<1>0. IsFiniteSet(1..3)
  <2>1. IsFiniteSet({j, other} \cup {3})  BY <1>2, Pair, FS_AddElement
  <2>2. {j, other} \cup {3} = 1..3  BY <1>2
  <2> QED  BY <2>1, <2>2
<1>3. ASSUME NEW S, S \subseteq {other} PROVE Cardinality(S) <= 1
  <2>1. IsFiniteSet({other}) /\ Cardinality({other}) = 1  BY FS_Singleton
  <2> HIDE DEF other
  <2> QED  BY <1>3, <2>1, FS_Subset
<1>4. ASSUME NEW S, S \subseteq 1..3, j \in S, 3 \in S PROVE Cardinality(S) > 1
  <2>2. IsFiniteSet(S)  BY <1>0, <1>4, FS_Subset
  <2>3. Cardinality({j, 3}) = 2 /\ {j, 3} \subseteq S  BY <1>2, <1>4, Pair
  <2>4. Cardinality({j, 3}) <= Cardinality(S)  BY <2>2, <2>3, FS_Subset
  <2>5. Cardinality(S) \in Nat  BY <2>2, FS_CardinalityType
  <2> QED  BY <2>3, <2>4, <2>5
<1>5. Middle(s[3])
  <2>1. below(s[3]) \subseteq {other}  BY <1>1, <1>2
  <2>2. upTo(s[3]) \subseteq 1..3 /\ j \in upTo(s[3]) /\ 3 \in upTo(s[3])  BY <1>1, <1>2
  <2> HIDE DEF below, upTo
  <2> QED  BY <1>2, <1>3, <1>4, <2>1, <2>2
<1>6. ASSUME NEW v \in Int, Middle(v) PROVE v = s[3]
  <2>1. CASE s[3] < v
    <3>1. below(v) \subseteq 1..3 /\ j \in below(v) /\ 3 \in below(v)  BY <1>1, <1>2, <2>1
    <3>2. Cardinality(below(v)) \in Nat
      <4> HIDE DEF below
      <4> QED  BY <1>0, <3>1, FS_Subset, FS_CardinalityType
    <3> HIDE DEF below, upTo
    <3>3. Cardinality(below(v)) > 1  BY <1>4, <3>1
    <3> QED  BY <1>2, <1>6, <3>2, <3>3
  <2>2. CASE v < s[3]
    <3>1. upTo(v) \subseteq {other}  BY <1>1, <1>2, <2>2
    <3>2. Cardinality(upTo(v)) \in Nat
      <4>1. IsFiniteSet({other})  BY FS_Singleton
      <4> HIDE DEF upTo, other
      <4> QED  BY <3>1, <4>1, FS_Subset, FS_CardinalityType
    <3> HIDE DEF below, upTo, other
    <3>3. Cardinality(upTo(v)) <= 1  BY <1>3, <3>1
    <3> QED  BY <1>2, <1>6, <3>2, <3>3
  <2> QED  BY <2>1, <2>2
<1>7. s[3] \in {s[i] : i \in DOMAIN s} /\ \A v \in {s[i] : i \in DOMAIN s} : v \in Int
  BY <1>1
<1>8. MedianOf(s) = CHOOSE v \in {s[i] : i \in DOMAIN s} : Middle(v)
  BY Zenon DEF MedianOf
<1> HIDE DEF Middle
<1> QED  BY <1>5, <1>6, <1>7, <1>8

\* A function that is all there is to it.
IsRecord(r) == r = [f \in DOMAIN r |-> r[f]]

\* The same of three records, in the fields of which medians are taken.
LEMMA MedianOfRecords ==
  ASSUME NEW R, R = [i \in 1..3 |-> R[i]], NEW j \in 1..2, R[j] = R[3], NEW fields,
         IsRecord(R[3]), \A f \in fields : \A i \in 1..3 : R[i][f] \in Int
  PROVE  MedianFields(R, fields) = R[3]
<1>1. DOMAIN R = 1..3 /\ Len(R) = 3  BY Numbered
<1>2. ASSUME NEW f \in fields PROVE MedianOf([i \in DOMAIN R |-> R[i][f]]) = R[3][f]
  <2> DEFINE s == [i \in DOMAIN R |-> R[i][f]]
  <2>1. s = [i \in 1..3 |-> s[i]] /\ (\A i \in 1..3 : s[i] = R[i][f])  BY <1>1
  <2> HIDE DEF s
  <2>2. \A i \in 1..3 : s[i] \in Int  BY <2>1
  <2>3. s[j] = s[3] /\ s[3] = R[3][f]  BY <2>1
  <2>4. MedianOf(s) = R[3][f]  BY <2>1, <2>2, <2>3, MedianOfThree
  <2> QED  BY <2>4 DEF s
<1>3. MedianFields(R, fields) = [f \in DOMAIN R[3] |-> R[3][f]]
  <2>1. MedianFields(R, fields) =
          [f \in DOMAIN R[3] |-> IF f \in fields THEN MedianOf([i \in DOMAIN R |-> R[i][f]])
                                 ELSE R[3][f]]
    BY <1>1, Zenon DEF MedianFields
  <2>2. ASSUME NEW f \in DOMAIN R[3]
        PROVE (IF f \in fields THEN MedianOf([i \in DOMAIN R |-> R[i][f]]) ELSE R[3][f]) = R[3][f]
    BY <1>2, Zenon
  <2> QED  BY <2>1, <2>2, Zenon
<1> QED  BY <1>3 DEF IsRecord

\* The numbers of which medians are taken are numbers.
CoreFields == {"SystemPercent", "IdlePercent", "SoftIRQPercent", "StealPercent", "BusyPercent"}
\* What is computed from the deltas of a disk.
DiskRates == {"UtilPercent", "AvgReadLatencyMS", "AvgWriteLatencyMS", "AvgQueueLatencyMS"}
\* A record with numbers in these fields, and a diff with numbers wherever medians are
\* taken.
Measured(r, fields) == IsRecord(r) /\ \A f \in fields : r[f] \in Int
MeasuredDiff(d) ==
  /\ d.ProcsRunning \in Int /\ d.ProcsBlocked \in Int
  /\ d.ContextSwitches \in Int /\ d.ProcessesCreated \in Int
  /\ DOMAIN d.TotalCPUUtil = CoreFields /\ Measured(d.TotalCPUUtil, CoreFields)
  /\ IsList(d.PerCoreCPUUtil)
  /\ \A c \in DOMAIN d.PerCoreCPUUtil :
       /\ DOMAIN d.PerCoreCPUUtil[c] = CoreFields
       /\ Measured(d.PerCoreCPUUtil[c], CoreFields)
  /\ Measured(d.VMStat, DOMAIN VMStatInfo) /\ Measured(d.NetStat, DOMAIN NetStatInfo)
  /\ IsRecord(d.Disks) /\ \A name \in DOMAIN d.Disks : Measured(d.Disks[name], DiskRates)
  /\ IsRecord(d.Cgroups) /\ \A k \in DOMAIN d.Cgroups : Measured(d.Cgroups[k], CgroupCounters)

\* Three samples; the last and sample j agree, and have seen nothing that another has not.
TwoAgree(D, j) ==
  /\ D = [i \in 1..3 |-> D[i]] /\ j \in 1..2
  /\ \A i \in 1..3 : MeasuredDiff(D[i]) /\ IsDiff(D[i])
  /\ SameNumbers(D[j], D[3]) /\ D[j].Cgroups = D[3].Cgroups
  /\ \A i \in 1..3 : SeenAlso(D[3], D[i])

\* There are three of them.
LEMMA ThreeSamples ==
  ASSUME NEW D, NEW j, TwoAgree(D, j)
  PROVE  DOMAIN D = 1..3 /\ Len(D) = 3 /\ 3 \in 1..3 /\ j \in 1..2 /\ j \in 1..3
BY Numbered DEF TwoAgree

\* The third sample does not move the number of tasks, of switches or of forks.
LEMMA OutlierCount ==
  ASSUME NEW D, NEW j, TwoAgree(D, j),
         NEW f \in {"ProcsRunning", "ProcsBlocked", "ContextSwitches", "ProcessesCreated"}
  PROVE  MedianCount(D, f) = D[3][f]
<1> DEFINE s == [i \in DOMAIN D |-> D[i][f]]
<1>1. DOMAIN D = 1..3 /\ j \in 1..2  BY ThreeSamples
<1>2. \A i \in 1..3 : D[i][f] \in Int  BY DEF TwoAgree, MeasuredDiff
<1>3. D[j][f] = D[3][f]  BY DEF TwoAgree, SameNumbers
<1>4. s = [i \in 1..3 |-> s[i]] /\ s[j] = s[3] /\ s[3] = D[3][f] /\ \A i \in 1..3 : s[i] \in Int
  BY <1>1, <1>2, <1>3
<1> HIDE DEF s
<1>5. MedianOf(s) = D[3][f]  BY <1>1, <1>4, MedianOfThree
<1> QED  BY <1>5 DEF MedianCount, s

\* Nor a record of which some fields are medians.
LEMMA OutlierRecord ==
  ASSUME NEW R, R = [i \in 1..3 |-> R[i]], NEW j \in 1..2, R[j] = R[3],
         NEW fields, NEW some, some \subseteq fields, \A i \in 1..3 : Measured(R[i], fields)
  PROVE  MedianFields(R, some) = R[3]
<1>1. IsRecord(R[3]) /\ \A f \in some : \A i \in 1..3 : R[i][f] \in Int  BY DEF Measured
<1> QED  BY <1>1, MedianOfRecords

\* Nor the utilization of a core.
LEMMA OutlierCore ==
  ASSUME NEW R, R = [i \in 1..3 |-> R[i]], NEW j \in 1..2, R[j] = R[3],
         \A i \in 1..3 : DOMAIN R[i] = CoreFields /\ Measured(R[i], CoreFields)
  PROVE  MedianCPUUtil(R) = R[3]
<1>1. DOMAIN R[1] = CoreFields  OBVIOUS
<1>2. MedianFields(R, CoreFields) = R[3]  BY OutlierRecord
<1> QED  BY <1>1, <1>2, Zenon DEF MedianCPUUtil

\* The counters of which medians are taken are counters.
LEMMA MedianCounters ==
  /\ {"PgScanDirect", "AllocStallDirect", "CompactStall", "PgMajFault",
      "Pswpin", "Pswpout", "OOMKill"} \subseteq DOMAIN VMStatInfo
  /\ {"ListenOverflows", "ListenDrops", "TCPMemoryPressures", "RetransSegs",
      "SoftnetDropped", "SoftnetTimeSqueeze"} \subseteq DOMAIN NetStatInfo
  /\ {"ThrottledUsec", "NrThrottled", "OOMKills", "MemoryHighEvents"} \subseteq CgroupCounters
BY SMT DEF VMStatInfo, NetStatInfo, Counters, CgroupCounters

\* Nor the utilization of all cores, nor the counters of VMStat and NetStat.
LEMMA OutlierTotals ==
  ASSUME NEW D, NEW j, TwoAgree(D, j)
  PROVE  /\ MedianCPUUtil([i \in DOMAIN D |-> D[i].TotalCPUUtil]) = D[3].TotalCPUUtil
         /\ MedianVMStat(D) = D[3].VMStat /\ MedianNetStat(D) = D[3].NetStat
<1> DEFINE utils == [i \in DOMAIN D |-> D[i].TotalCPUUtil]
           vm == [i \in DOMAIN D |-> D[i].VMStat]
           net == [i \in DOMAIN D |-> D[i].NetStat]
<1>1. DOMAIN D = 1..3 /\ Len(D) = 3 /\ 3 \in 1..3 /\ j \in 1..2 /\ j \in 1..3  BY ThreeSamples
<1>2. /\ D[j].TotalCPUUtil = D[3].TotalCPUUtil /\ D[j].VMStat = D[3].VMStat
      /\ D[j].NetStat = D[3].NetStat
  BY DEF TwoAgree, SameNumbers
<1>3. \A i \in 1..3 :
        /\ DOMAIN D[i].TotalCPUUtil = CoreFields /\ Measured(D[i].TotalCPUUtil, CoreFields)
        /\ Measured(D[i].VMStat, DOMAIN VMStatInfo) /\ Measured(D[i].NetStat, DOMAIN NetStatInfo)
  BY DEF TwoAgree, MeasuredDiff
<1>4. /\ utils = [i \in 1..3 |-> utils[i]] /\ utils[j] = utils[3] /\ utils[3] = D[3].TotalCPUUtil
      /\ \A i \in 1..3 : DOMAIN utils[i] = CoreFields /\ Measured(utils[i], CoreFields)
  BY <1>1, <1>2, <1>3
<1>5. /\ vm = [i \in 1..3 |-> vm[i]] /\ vm[j] = vm[3] /\ vm[3] = D[3].VMStat
      /\ \A i \in 1..3 : Measured(vm[i], DOMAIN VMStatInfo)
  BY <1>1, <1>2, <1>3
<1>6. /\ net = [i \in 1..3 |-> net[i]] /\ net[j] = net[3] /\ net[3] = D[3].NetStat
      /\ \A i \in 1..3 : Measured(net[i], DOMAIN NetStatInfo)
  BY <1>1, <1>2, <1>3
<1>7. MedianVMStat(D) = MedianFields(vm, {"PgScanDirect", "AllocStallDirect", "CompactStall",
                                          "PgMajFault", "Pswpin", "Pswpout", "OOMKill"})
  BY Zenon DEF MedianVMStat
<1>8. MedianNetStat(D) = MedianFields(net, {"ListenOverflows", "ListenDrops",
                            "TCPMemoryPressures", "RetransSegs", "SoftnetDropped",
                            "SoftnetTimeSqueeze"})
  BY Zenon DEF MedianNetStat
<1> HIDE DEF utils, vm, net
<1>9. MedianCPUUtil(utils) = D[3].TotalCPUUtil  BY <1>1, <1>4, OutlierCore
<1>10. MedianVMStat(D) = D[3].VMStat
  BY <1>1, <1>5, <1>7, OutlierRecord, MedianCounters
<1>11. MedianNetStat(D) = D[3].NetStat
  BY <1>1, <1>6, <1>8, OutlierRecord, MedianCounters
<1> QED  BY <1>9, <1>10, <1>11 DEF utils

\* Nor the disks, none of which another sample lacks.
LEMMA OutlierDisks ==
  ASSUME NEW D, NEW j, TwoAgree(D, j)
  PROVE  MedianDiskDiffs(D) = D[3].Disks
<1> DEFINE devices == {name \in DOMAIN D[Len(D)].Disks :
                         \A i \in DOMAIN D : name \in DOMAIN D[i].Disks}
           disk(name) == [i \in DOMAIN D |-> D[i].Disks[name]]
<1>1. DOMAIN D = 1..3 /\ Len(D) = 3 /\ 3 \in 1..3 /\ j \in 1..2 /\ j \in 1..3  BY ThreeSamples
<1>2. \A i \in 1..3 : DOMAIN D[3].Disks \subseteq DOMAIN D[i].Disks
  BY DEF TwoAgree, SeenAlso
<1>3. devices = DOMAIN D[3].Disks  BY <1>1, <1>2
<1>4. \A i \in 1..3 : \A name \in DOMAIN D[i].Disks : Measured(D[i].Disks[name], DiskRates)
  BY DEF TwoAgree, MeasuredDiff
<1>5. D[j].Disks = D[3].Disks  BY DEF TwoAgree, SameNumbers
<1>6. ASSUME NEW name \in DOMAIN D[3].Disks
      PROVE  MedianFields(disk(name), DiskRates) = D[3].Disks[name]
  <2> DEFINE R == disk(name)
  <2>1. /\ R = [i \in 1..3 |-> R[i]] /\ R[j] = R[3] /\ R[3] = D[3].Disks[name]
        /\ \A i \in 1..3 : Measured(R[i], DiskRates)
    BY <1>1, <1>2, <1>4, <1>5
  <2> HIDE DEF R
  <2>2. MedianFields(R, DiskRates) = D[3].Disks[name]  BY <1>1, <2>1, OutlierRecord
  <2> QED  BY <2>2 DEF R
<1>7. MedianDiskDiffs(D) = [name \in devices |-> MedianFields(disk(name), DiskRates)]
  BY Zenon DEF MedianDiskDiffs, DiskRates
<1>8. IsRecord(D[3].Disks)  BY <1>1 DEF TwoAgree, MeasuredDiff
<1> HIDE DEF devices, disk
<1> QED  BY <1>3, <1>6, <1>7, <1>8 DEF IsRecord

\* Nor the cores, of which no sample has fewer.
LEMMA OutlierCores ==
  ASSUME NEW D, NEW j, TwoAgree(D, j)
  PROVE  MedianPerCoreCPUUtil(D) = D[3].PerCoreCPUUtil
<1> DEFINE cores(i) == D[i].PerCoreCPUUtil
           lengths == {Len(cores(i)) : i \in DOMAIN D}
           least == CHOOSE n \in lengths : \A i \in DOMAIN D : n <= Len(cores(i))
           core(c) == [i \in DOMAIN D |-> cores(i)[c]]
<1>1. DOMAIN D = 1..3 /\ Len(D) = 3 /\ 3 \in 1..3 /\ j \in 1..2 /\ j \in 1..3  BY ThreeSamples
<1>2. ASSUME NEW i \in 1..3
      PROVE  /\ IsList(cores(i)) /\ Len(cores(3)) <= Len(cores(i))
             /\ \A c \in DOMAIN cores(i) : /\ DOMAIN cores(i)[c] = CoreFields
                                           /\ Measured(cores(i)[c], CoreFields)
  BY DEF TwoAgree, MeasuredDiff, SeenAlso
<1>3. \A i \in 1..3 : Len(cores(i)) \in Nat /\ DOMAIN cores(i) = 1..Len(cores(i))
  BY <1>2, ListPlaces DEF IsList
<1>4. cores(j) = cores(3)  BY DEF TwoAgree, SameNumbers
<1>5. cores(3) = [c \in 1..Len(cores(3)) |-> cores(3)[c]]
  <2> DEFINE s == cores(3)
  <2>1. IsList(s)  BY <1>1, <1>2
  <2> HIDE DEF s
  <2>2. s = [c \in 1..Len(s) |-> s[c]]  BY <2>1 DEF IsList
  <2> QED  BY <2>2 DEF s
<1>6. MedianPerCoreCPUUtil(D) = [c \in 1..least |-> MedianCPUUtil(core(c))]
  BY Zenon DEF MedianPerCoreCPUUtil
<1> HIDE DEF cores
<1>7. least = Len(cores(3))
  <2>1. Len(cores(3)) \in lengths /\ \A i \in DOMAIN D : Len(cores(3)) <= Len(cores(i))
    BY <1>1, <1>2
  <2>2. \A n \in lengths : (\A i \in DOMAIN D : n <= Len(cores(i))) => n = Len(cores(3))
    BY <1>1, <1>2, <1>3
  <2> QED  BY <2>1, <2>2
<1>8. ASSUME NEW c \in 1..Len(cores(3)) PROVE MedianCPUUtil(core(c)) = cores(3)[c]
  <2> DEFINE R == core(c)
  <2>1. \A i \in 1..3 : c \in DOMAIN cores(i)  BY <1>1, <1>2, <1>3
  <2>2. /\ R = [i \in 1..3 |-> R[i]] /\ R[j] = R[3] /\ R[3] = cores(3)[c]
        /\ \A i \in 1..3 : DOMAIN R[i] = CoreFields /\ Measured(R[i], CoreFields)
    BY <1>1, <1>2, <1>4, <2>1
  <2> HIDE DEF R
  <2>3. MedianCPUUtil(R) = cores(3)[c]  BY <1>1, <2>2, OutlierCore
  <2> QED  BY <2>3 DEF R
<1> HIDE DEF least, core
<1>9. MedianPerCoreCPUUtil(D) = cores(3)  BY <1>5, <1>6, <1>7, <1>8
<1> QED  BY <1>9 DEF cores

\* Nor the cgroups, of which each sample has at most one with a path.
LEMMA OutlierCgroups ==
  ASSUME NEW D, NEW j, TwoAgree(D, j), NEW paths, InOrder(D[3].Cgroups, paths),
         \A i, k \in DOMAIN paths : paths[i] = paths[k] => i = k
  PROVE  MedianCgroupDiffs(D) = D[3].Cgroups
<1> DEFINE Groups(i) == {D[i].Cgroups[k] : k \in DOMAIN D[i].Cgroups}
           Of(i, path) == CHOOSE g \in Groups(i) : g.Path = path
           latest == D[Len(D)].Cgroups
           kept == {k \in DOMAIN latest :
                      \A i \in DOMAIN D : \E g \in Groups(i) : g.Path = latest[k].Path}
           some == {"ThrottledUsec", "NrThrottled", "OOMKills", "MemoryHighEvents"}
           group(path) == [i \in DOMAIN D |-> Of(i, path)]
<1>1. DOMAIN D = 1..3 /\ Len(D) = 3 /\ 3 \in 1..3 /\ j \in 1..2 /\ j \in 1..3  BY ThreeSamples
<1>2. MedianCgroupDiffs(D) = [k \in kept |-> MedianFields(group(latest[k].Path), some)]
  BY Zenon DEF MedianCgroupDiffs
<1>3. latest = D[3].Cgroups  BY <1>1
<1>4. ASSUME NEW i \in 1..3, NEW g \in Groups(i) PROVE Measured(g, CgroupCounters)
  BY DEF TwoAgree, MeasuredDiff
<1>5. ASSUME NEW i \in 1..3, NEW k \in DOMAIN latest
      PROVE  \E g \in Groups(i) : g.Path = latest[k].Path
  <2>1. SeenAlso(D[3], D[i])  BY DEF TwoAgree
  <2>2. PICK n \in DOMAIN D[i].Cgroups : D[3].Cgroups[k].Path = D[i].Cgroups[n].Path
    BY <1>3, <2>1 DEF SeenAlso
  <2>3. D[i].Cgroups[n] \in Groups(i)  OBVIOUS
  <2> HIDE DEF Groups
  <2> QED  BY <1>3, <2>2, <2>3
<1>6. Groups(j) = Groups(3)  BY DEF TwoAgree
<1>7. \A g \in Groups(3) : \A k \in DOMAIN latest : g.Path = latest[k].Path => g = latest[k]
  BY <1>3 DEF InOrder
<1> HIDE DEF Groups, latest
<1>8. kept = DOMAIN latest  BY <1>1, <1>5
<1>9. ASSUME NEW k \in DOMAIN latest
      PROVE  MedianFields(group(latest[k].Path), some) = latest[k]
  <2> DEFINE path == latest[k].Path
             R == group(path)
  <2>1. ASSUME NEW i \in 1..3 PROVE Of(i, path) \in Groups(i) /\ Of(i, path).Path = path
    BY <1>5
  <2>2. Of(j, path) = Of(3, path)  BY <1>6
  <2> HIDE DEF Of
  <2>3. Of(3, path) = latest[k]  BY <1>1, <1>7, <2>1
  <2>4. \A i \in 1..3 : Measured(Of(i, path), CgroupCounters)  BY <1>4, <2>1
  <2>5. /\ R = [i \in 1..3 |-> R[i]] /\ R[j] = R[3] /\ R[3] = latest[k]
        /\ \A i \in 1..3 : Measured(R[i], CgroupCounters)
    BY <1>1, <2>2, <2>3, <2>4
  <2> HIDE DEF R
  <2>6. MedianFields(R, some) = latest[k]
    BY <1>1, <2>5, OutlierRecord, MedianCounters
  <2> QED  BY <2>6 DEF R
<1>10. IsRecord(D[3].Cgroups)  BY <1>1 DEF TwoAgree, MeasuredDiff
<1> HIDE DEF kept, group, some
<1> QED  BY <1>2, <1>3, <1>8, <1>9, <1>10 DEF IsRecord

\* So the median is the last sample, without its locks.
LEMMA OutlierMedian ==
  ASSUME NEW D, NEW j, TwoAgree(D, j), NEW paths, InOrder(D[3].Cgroups, paths),
         \A i, k \in DOMAIN paths : paths[i] = paths[k] => i = k,
         NEW m, m = MedianDiff(D)
  PROVE  /\ SameNumbers(m, D[3]) /\ m.Cgroups = D[3].Cgroups /\ m.Latest = D[3].Latest
         /\ m.FileLocks = SystemSnapshot.FileLocks
<1>1. DOMAIN D = 1..3 /\ Len(D) = 3 /\ Len(D) # 1 /\ IsDiff(D[Len(D)])
  BY ThreeSamples DEF TwoAgree
<1>2. /\ MedianCount(D, "ProcsRunning") = D[3]["ProcsRunning"]
      /\ MedianCount(D, "ProcsBlocked") = D[3]["ProcsBlocked"]
      /\ MedianCount(D, "ContextSwitches") = D[3]["ContextSwitches"]
      /\ MedianCount(D, "ProcessesCreated") = D[3]["ProcessesCreated"]
  BY OutlierCount
<1>3. /\ MedianDiskDiffs(D) = D[3].Disks /\ MedianPerCoreCPUUtil(D) = D[3].PerCoreCPUUtil
      /\ MedianCgroupDiffs(D) = D[3].Cgroups
  BY OutlierDisks, OutlierCores, OutlierCgroups
<1>4. /\ m.Duration = D[3].Duration
      /\ m.ProcsRunning = MedianCount(D, "ProcsRunning")
      /\ m.ProcsBlocked = MedianCount(D, "ProcsBlocked")
      /\ m.ContextSwitches = MedianCount(D, "ContextSwitches")
      /\ m.ProcessesCreated = MedianCount(D, "ProcessesCreated")
  <2>1. /\ m.Duration = D[Len(D)].Duration
        /\ m.ProcsRunning = MedianCount(D, "ProcsRunning")
        /\ m.ProcsBlocked = MedianCount(D, "ProcsBlocked")
    BY <1>1, MedianDiffFields
  <2>2. /\ m.ContextSwitches = MedianCount(D, "ContextSwitches")
        /\ m.ProcessesCreated = MedianCount(D, "ProcessesCreated")
    BY <1>1, MedianDiffFields
  <2> QED  BY <1>1, <2>1, <2>2
<1>5. /\ m.TotalCPUUtil = MedianCPUUtil([i \in DOMAIN D |-> D[i].TotalCPUUtil])
      /\ m.PerCoreCPUUtil = MedianPerCoreCPUUtil(D)
      /\ m.VMStat = MedianVMStat(D) /\ m.NetStat = MedianNetStat(D)
  BY <1>1, MedianDiffFields
<1>6. /\ m.Disks = MedianDiskDiffs(D) /\ m.Cgroups = MedianCgroupDiffs(D)
      /\ m.NetIfaces = D[3].NetIfaces /\ m.Processes = D[3].Processes
      /\ m.Latest = D[3].Latest /\ m.FileLocks = SystemSnapshot.FileLocks
  BY <1>1, MedianDiffFields
<1>7. /\ MedianCPUUtil([i \in DOMAIN D |-> D[i].TotalCPUUtil]) = D[3].TotalCPUUtil
      /\ MedianVMStat(D) = D[3].VMStat /\ MedianNetStat(D) = D[3].NetStat
  BY OutlierTotals
<1>8. SameNumbers(m, D[3])
  BY <1>2, <1>3, <1>4, <1>5, <1>6, <1>7, Zenon DEF SameNumbers
<1> QED  BY <1>3, <1>6, <1>8, Zenon

-----------------------------------------------------------------------------
(***************************************************************************)
(* Every diff without losses has numbers where medians are taken.          *)
(***************************************************************************)

\* Deltas of numbers are numbers.
LEMMA DeltasMeasured ==
  ASSUME NEW a, NEW b, NEW counters, Counting(a, counters), Counting(b, counters)
  PROVE  /\ Measured(CounterDiff(a, b, counters), counters)
         /\ Counting(CounterDiff(a, b, counters), counters)
<1> DEFINE d == CounterDiff(a, b, counters)
<1>1. ASSUME NEW f \in counters PROVE f \in DOMAIN d /\ d[f] \in Nat
  <2>1. f \in DOMAIN b /\ b[f] \in Nat /\ a[f] \in Nat  BY DEF Counting
  <2>2. DiffUint64(b[f], a[f]) \in Nat  BY <2>1, DiffUint64Nat
  <2> QED  BY <2>1, <2>2 DEF CounterDiff
<1>2. IsRecord(d)  BY DEF CounterDiff, IsRecord
<1> HIDE DEF d
<1>3. Measured(d, counters) /\ Counting(d, counters)
  BY <1>1, <1>2 DEF Measured, Counting
<1> QED  BY <1>3 DEF d

\* So are the percentages of a core.
LEMMA CoreMeasured ==
  ASSUME NEW a, NEW b, Counting(a, DOMAIN CoreCPUStat), Counting(b, DOMAIN CoreCPUStat)
  PROVE  /\ DOMAIN CalculateCoreUtil(a, b) = CoreFields
         /\ Measured(CalculateCoreUtil(a, b), CoreFields)
<1> DEFINE u == CalculateCoreUtil(a, b)
<1>1. DOMAIN u = CoreFields /\ IsRecord(u)
  BY SMT DEF CalculateCoreUtil, CoreFields, IsRecord
<1>2. \A f \in DOMAIN u : u[f] \in Tenths  BY CoreUtilPercents
<1>3. \A n \in Tenths : n \in Int  BY DEF Tenths
<1> HIDE DEF u
<1>4. Measured(u, CoreFields)  BY <1>1, <1>2, <1>3 DEF Measured
<1> QED  BY <1>1, <1>4 DEF u

\* And of every core.
LEMMA CoresMeasured ==
  ASSUME NEW a, NEW b, IsList(a), IsList(b),
         AllCounting(a, DOMAIN CoreCPUStat), AllCounting(b, DOMAIN CoreCPUStat)
  PROVE  LET d == CalculatePerCoreUtil(a, b)
         IN  IsList(d) /\ \A c \in DOMAIN d : DOMAIN d[c] = CoreFields /\ Measured(d[c], CoreFields)
<1> DEFINE d == CalculatePerCoreUtil(a, b)
           n == IF Len(a) <= Len(b) THEN Len(a) ELSE Len(b)
<1>1. /\ DOMAIN a = 1..Len(a) /\ DOMAIN b = 1..Len(b) /\ Len(a) \in Nat /\ Len(b) \in Nat
  BY ListPlaces DEF IsList
<1>2. n \in Nat /\ DOMAIN d = 1..n /\ d = [x \in 1..n |-> d[x]]
  <2>1. DOMAIN a \cap DOMAIN b = 1..n /\ n \in Nat  BY <1>1
  <2> HIDE DEF n
  <2> QED  BY <2>1 DEF CalculatePerCoreUtil
<1>3. ASSUME NEW c \in DOMAIN d PROVE DOMAIN d[c] = CoreFields /\ Measured(d[c], CoreFields)
  <2>1. c \in DOMAIN a /\ c \in DOMAIN b  BY DEF CalculatePerCoreUtil
  <2>2. d[c] = CalculateCoreUtil(a[c], b[c])  BY <2>1, Zenon DEF CalculatePerCoreUtil
  <2> HIDE DEF d
  <2> QED  BY <2>1, <2>2, CoreMeasured DEF AllCounting
<1> HIDE DEF d, n
<1>4. IsList(d)  BY <1>2, Numbered DEF IsList
<1> QED  BY <1>3, <1>4 DEF d

\* A latency is a number, whatever the requests.
LEMMA AverageMeasured == \A time, requests \in Nat : Average(time, requests) \in Int
<1> SUFFICES ASSUME NEW time \in Nat, NEW requests \in Nat PROVE Average(time, requests) \in Int
  OBVIOUS
<1>1. CASE requests = 0  BY <1>1 DEF Average
<1>2. CASE requests # 0
  <2> DEFINE n == 10 * time
  <2>1. n \in Int  OBVIOUS
  <2> HIDE DEF n
  <2>2. n \div requests \in Int  BY <1>2, <2>1
  <2> QED  BY <1>2, <2>2 DEF Average, n
<1> QED  BY <1>1, <1>2

\* So are the rates of every disk.
LEMMA DisksMeasured ==
  ASSUME NEW a, NEW b, AllCounting(a, DiskCounters), AllCounting(b, DiskCounters),
         NEW duration \in Nat \ {0}
  PROVE  LET d == CalculateDiskDiff(a, b, duration)
         IN  IsRecord(d) /\ \A name \in DOMAIN d : Measured(d[name], DiskRates)
<1> DEFINE d == CalculateDiskDiff(a, b, duration)
<1>1. IsRecord(d)  BY DEF CalculateDiskDiff, IsRecord
<1>2. ASSUME NEW name \in DOMAIN d PROVE Measured(d[name], DiskRates)
  <2> DEFINE c == CounterDiff(a[name], b[name], DiskCounters)
             more == [UtilPercent |-> ClampPercent(c.IOTicks \div duration),
                      AvgReadLatencyMS |-> Average(c.TimeReadingMS, c.ReadsCompleted),
                      AvgWriteLatencyMS |-> Average(c.TimeWritingMS, c.WritesCompleted),
                      AvgQueueLatencyMS |-> Average(c.WeightedIOTicks,
                                              c.ReadsCompleted + c.WritesCompleted)]
  <2>1. name \in DOMAIN a /\ name \in DOMAIN b  BY DEF CalculateDiskDiff
  <2>2. d[name] = Extended(c, more)  BY <2>1, Zenon DEF CalculateDiskDiff
  <2>3. Counting(c, DiskCounters)  BY <2>1, DeltasMeasured DEF AllCounting
  <2>4. d[name].UtilPercent \in Tenths  BY DiskPercents
  <2> HIDE DEF c, d
  <2>5. /\ c.TimeReadingMS \in Nat /\ c.ReadsCompleted \in Nat /\ c.TimeWritingMS \in Nat
        /\ c.WritesCompleted \in Nat /\ c.WeightedIOTicks \in Nat
    <3>1. {"TimeReadingMS", "ReadsCompleted", "TimeWritingMS", "WritesCompleted",
           "WeightedIOTicks"} \subseteq DiskCounters
      BY DEF DiskCounters
    <3> QED  BY <2>3, <3>1 DEF Counting
  <2>6. /\ Average(c.TimeReadingMS, c.ReadsCompleted) \in Int
        /\ Average(c.TimeWritingMS, c.WritesCompleted) \in Int
        /\ Average(c.WeightedIOTicks, c.ReadsCompleted + c.WritesCompleted) \in Int
    <3>1. c.ReadsCompleted + c.WritesCompleted \in Nat  BY <2>5
    <3> QED  BY <2>5, <3>1, AverageMeasured
  <2>7. \A f \in DiskRates : f \in DOMAIN more /\ Extended(c, more)[f] = more[f]
    BY SMT DEF Extended, DiskRates
  <2>8. /\ more.AvgReadLatencyMS \in Int /\ more.AvgWriteLatencyMS \in Int
        /\ more.AvgQueueLatencyMS \in Int
    BY <2>6
  <2>9. IsRecord(Extended(c, more))
    <3> HIDE DEF more
    <3> QED  BY DEF Extended, IsRecord
  <2>10. "UtilPercent" \in DiskRates /\ DiskRates =
           {"UtilPercent", "AvgReadLatencyMS", "AvgWriteLatencyMS", "AvgQueueLatencyMS"}
    BY DEF DiskRates
  <2> HIDE DEF more
  <2>11. more.UtilPercent \in Int  BY <2>2, <2>4, <2>7, <2>10 DEF Tenths
  <2>12. \A f \in DiskRates : Extended(c, more)[f] \in Int  BY <2>7, <2>8, <2>10, <2>11
  <2> QED  BY <2>2, <2>9, <2>12 DEF Measured
<1> QED  BY <1>1, <1>2

\* And the deltas of every cgroup.
LEMMA GroupsMeasured ==
  ASSUME NEW d, NEW a, NEW b, NEW olds, NEW news, NEW paths,
         DeltasInOrder(d, a, b, olds, news, paths),
         AllCounting(olds, CgroupCounters), AllCounting(news, CgroupCounters)
  PROVE  IsRecord(d) /\ \A k \in DOMAIN d : Measured(d[k], CgroupCounters)
<1> DEFINE both == {k \in DOMAIN b : \E i \in DOMAIN a : paths[i] = paths[k]}
<1>1. /\ d = [k \in both |-> d[k]]
      /\ \A k \in both : /\ paths[k] \in DOMAIN olds \cap DOMAIN news
                         /\ d[k] = CounterDiff(olds[paths[k]], news[paths[k]], CgroupCounters)
  BY DEF DeltasInOrder
<1> HIDE DEF both
<1>2. DOMAIN d = both  BY <1>1
<1> QED  BY <1>1, <1>2, DeltasMeasured DEF AllCounting, IsRecord

\* The diff of two snapshots in which every source could be read.
WholeDiff(d, h, g, paths) ==
  /\ IsHost(h) /\ IsHost(g)
  /\ d = DiffSnapshots(CollectSnapshot(h, {}, paths), CollectSnapshot(g, {}, paths))

\* Its fields, from those of the two hosts.
WholeFields(d, h, g, paths) ==
  /\ d.Duration \in Nat \ {0}
  /\ d.Duration = IF g.Timestamp - h.Timestamp <= 0 THEN 1 ELSE g.Timestamp - h.Timestamp
  /\ d.ProcsRunning = g.CPU.ProcsRunning /\ d.ProcsBlocked = g.CPU.ProcsBlocked
  /\ d.FileLocks = g.FileLocks /\ d.Latest = CollectSnapshot(g, {}, paths)
  /\ d.ContextSwitches = DiffUint64(g.CPU.ContextSwitches, h.CPU.ContextSwitches)
  /\ d.ProcessesCreated = DiffUint64(g.CPU.ProcessesCreated, h.CPU.ProcessesCreated)
  /\ d.TotalCPUUtil = CalculateCoreUtil(h.CPU.TotalCPU, g.CPU.TotalCPU)
  /\ d.PerCoreCPUUtil = CalculatePerCoreUtil(h.CPU.PerCore, g.CPU.PerCore)
  /\ d.VMStat = CounterDiff(h.VMStat, g.VMStat, DOMAIN VMStatInfo)
  /\ d.NetStat = CounterDiff(h.NetStat, g.NetStat, DOMAIN NetStatInfo)
  /\ d.Disks = CalculateDiskDiff(h.DiskStats, g.DiskStats, d.Duration)
  /\ d.NetIfaces = CalculateNetIfacesDiff(h.NetIfaces, g.NetIfaces)
  /\ d.Processes = CalculateProcessDiff(h.Processes, g.Processes, d.Duration)
  /\ DeltasInOrder(d.Cgroups, ParseCgroups(h.Cgroups, h.Processes, paths).Groups,
                   ParseCgroups(g.Cgroups, g.Processes, paths).Groups,
                   h.Cgroups, g.Cgroups, paths)

\* A diff of two of them has these fields.
LEMMA WholeDiffFields ==
  ASSUME NEW d, NEW h, NEW g, NEW paths, WholeDiff(d, h, g, paths)
  PROVE  WholeFields(d, h, g, paths)
<1> DEFINE a == CollectSnapshot(h, {}, paths)
           b == CollectSnapshot(g, {}, paths)
<1>1. /\ a.Timestamp = h.Timestamp /\ a.Timestamp \in Nat /\ a.CPU = h.CPU
      /\ a.VMStat = h.VMStat /\ a.NetStat = h.NetStat /\ a.DiskStats = h.DiskStats
      /\ a.NetIfaces = h.NetIfaces /\ a.Processes = h.Processes
      /\ a.Cgroups.Groups = ParseCgroups(h.Cgroups, h.Processes, paths).Groups
  BY NothingLost DEF WholeDiff
<1>2. /\ b.Timestamp = g.Timestamp /\ b.Timestamp \in Nat /\ b.CPU = g.CPU
      /\ b.VMStat = g.VMStat /\ b.NetStat = g.NetStat /\ b.DiskStats = g.DiskStats
      /\ b.NetIfaces = g.NetIfaces /\ b.Processes = g.Processes /\ b.FileLocks = g.FileLocks
      /\ b.Cgroups.Groups = ParseCgroups(g.Cgroups, g.Processes, paths).Groups
  BY NothingLost DEF WholeDiff
<1>3. d = DiffSnapshots(a, b)  BY DEF WholeDiff
<1>4. /\ Directory(h.Cgroups) /\ Listing(a.Cgroups.Groups, h.Cgroups, paths)
      /\ Directory(g.Cgroups) /\ Listing(b.Cgroups.Groups, g.Cgroups, paths)
  <2>1. Directory(h.Cgroups) /\ Directory(g.Cgroups)  BY HostDirectory DEF WholeDiff
  <2> HIDE DEF a, b
  <2> QED  BY <1>1, <1>2, <2>1, ParsedListing
<1> HIDE DEF a, b
<1>5. /\ d.Duration \in Nat \ {0}
      /\ d.Duration = IF b.Timestamp - a.Timestamp <= 0 THEN 1 ELSE b.Timestamp - a.Timestamp
      /\ d.ProcsRunning = b.CPU.ProcsRunning /\ d.ProcsBlocked = b.CPU.ProcsBlocked
      /\ d.FileLocks = b.FileLocks /\ d.Latest = b
      /\ d.ContextSwitches = DiffUint64(b.CPU.ContextSwitches, a.CPU.ContextSwitches)
      /\ d.ProcessesCreated = DiffUint64(b.CPU.ProcessesCreated, a.CPU.ProcessesCreated)
      /\ d.TotalCPUUtil = CalculateCoreUtil(a.CPU.TotalCPU, b.CPU.TotalCPU)
      /\ d.PerCoreCPUUtil = CalculatePerCoreUtil(a.CPU.PerCore, b.CPU.PerCore)
  BY <1>1, <1>2, <1>3, DiffFields
<1>6. /\ d.VMStat = CounterDiff(a.VMStat, b.VMStat, DOMAIN VMStatInfo)
      /\ d.NetStat = CounterDiff(a.NetStat, b.NetStat, DOMAIN NetStatInfo)
      /\ d.Disks = CalculateDiskDiff(a.DiskStats, b.DiskStats, d.Duration)
      /\ d.NetIfaces = CalculateNetIfacesDiff(a.NetIfaces, b.NetIfaces)
      /\ d.Processes = CalculateProcessDiff(a.Processes, b.Processes, d.Duration)
      /\ d.Cgroups = CalculateCgroupDiff(a.Cgroups.Groups, b.Cgroups.Groups)
  BY <1>1, <1>2, <1>3, DiffFields
<1>7. DeltasInOrder(d.Cgroups, a.Cgroups.Groups, b.Cgroups.Groups, h.Cgroups, g.Cgroups, paths)
  BY <1>4, <1>6, CgroupDiffListed
<1>8. d.Latest = CollectSnapshot(g, {}, paths)  BY <1>5 DEF b
<1> QED  BY <1>1, <1>2, <1>5, <1>6, <1>7, <1>8 DEF WholeFields

\* And numbers wherever medians are taken.
LEMMA WholeMeasured ==
  ASSUME NEW d, NEW h, NEW g, NEW paths, WholeDiff(d, h, g, paths)
  PROVE  MeasuredDiff(d)
<1>1. WholeFields(d, h, g, paths) /\ IsHost(h) /\ IsHost(g)
  BY WholeDiffFields DEF WholeDiff
<1>2. d.ProcsRunning \in Int /\ d.ProcsBlocked \in Int
  BY <1>1 DEF WholeFields, IsHost, Unsigned
<1>3. d.ContextSwitches \in Int /\ d.ProcessesCreated \in Int
  <2>1. /\ h.CPU.ContextSwitches \in Nat /\ h.CPU.ProcessesCreated \in Nat
        /\ g.CPU.ContextSwitches \in Nat /\ g.CPU.ProcessesCreated \in Nat
    BY <1>1 DEF IsHost
  <2>2. /\ d.ContextSwitches = DiffUint64(g.CPU.ContextSwitches, h.CPU.ContextSwitches)
        /\ d.ProcessesCreated = DiffUint64(g.CPU.ProcessesCreated, h.CPU.ProcessesCreated)
    BY <1>1 DEF WholeFields
  <2>3. d.ContextSwitches \in Nat /\ d.ProcessesCreated \in Nat
    BY <2>1, <2>2, DiffUint64Nat
  <2> QED  BY <2>3
<1>4. DOMAIN d.TotalCPUUtil = CoreFields /\ Measured(d.TotalCPUUtil, CoreFields)
  BY <1>1, CoreMeasured DEF WholeFields, IsHost
<1>5. /\ IsList(d.PerCoreCPUUtil)
      /\ \A c \in DOMAIN d.PerCoreCPUUtil :
           /\ DOMAIN d.PerCoreCPUUtil[c] = CoreFields
           /\ Measured(d.PerCoreCPUUtil[c], CoreFields)
  <2>1. /\ IsList(h.CPU.PerCore) /\ IsList(g.CPU.PerCore)
        /\ AllCounting(h.CPU.PerCore, DOMAIN CoreCPUStat)
        /\ AllCounting(g.CPU.PerCore, DOMAIN CoreCPUStat)
    BY <1>1, Zenon DEF IsHost
  <2>2. d.PerCoreCPUUtil = CalculatePerCoreUtil(h.CPU.PerCore, g.CPU.PerCore)
    BY <1>1, Zenon DEF WholeFields
  <2> QED  BY <2>1, <2>2, CoresMeasured
<1>6. Measured(d.VMStat, DOMAIN VMStatInfo) /\ Measured(d.NetStat, DOMAIN NetStatInfo)
  <2>1. /\ Counting(h.VMStat, DOMAIN VMStatInfo) /\ Counting(g.VMStat, DOMAIN VMStatInfo)
        /\ Counting(h.NetStat, DOMAIN NetStatInfo) /\ Counting(g.NetStat, DOMAIN NetStatInfo)
    BY <1>1, Zenon DEF IsHost
  <2>2. /\ d.VMStat = CounterDiff(h.VMStat, g.VMStat, DOMAIN VMStatInfo)
        /\ d.NetStat = CounterDiff(h.NetStat, g.NetStat, DOMAIN NetStatInfo)
    BY <1>1, Zenon DEF WholeFields
  <2> QED  BY <2>1, <2>2, DeltasMeasured
<1>7. IsRecord(d.Disks) /\ \A name \in DOMAIN d.Disks : Measured(d.Disks[name], DiskRates)
  <2>1. AllCounting(h.DiskStats, DiskCounters) /\ AllCounting(g.DiskStats, DiskCounters)
    BY <1>1, Zenon DEF IsHost
  <2>2. /\ d.Disks = CalculateDiskDiff(h.DiskStats, g.DiskStats, d.Duration)
        /\ d.Duration \in Nat \ {0}
    BY <1>1, Zenon DEF WholeFields
  <2> QED  BY <2>1, <2>2, DisksMeasured
<1>8. IsRecord(d.Cgroups) /\ \A k \in DOMAIN d.Cgroups : Measured(d.Cgroups[k], CgroupCounters)
  BY <1>1, GroupsMeasured, Zenon DEF WholeFields, IsHost
<1> QED  BY <1>2, <1>3, <1>4, <1>5, <1>6, <1>7, <1>8 DEF MeasuredDiff

\* A window of an undisturbed run is the diff of two whole snapshots of one host.
LEMMA UndisturbedWindow ==
  ASSUME DiagnosisInv, Undisturbed, NEW k \in DOMAIN windows
  PROVE  \E h, t : /\ WindowOf(windows[k], h, t, order) /\ Restart(t, h) = h
                   /\ IsHost(h) /\ t \in Troubles /\ IsHost(Window[t]) /\ IsHost(Interval(t, h))
                   /\ WholeDiff(windows[k].diff, h, Interval(t, h), order)
                   /\ WholeDiff(windows[k].fresh, Fresh(h), Interval(t, Fresh(h)), order)
<1> DEFINE w == windows[k]
<1>1. ~restarted /\ w.lostA \cup w.lostB = {}  BY DEF Undisturbed
<1>2. PICK h, t : WindowOf(w, h, t, order) /\ Restart(t, h) = h
  BY <1>1 DEF DiagnosisInv, Explained
<1>3. w.lostA = {} /\ w.lostB = {}  BY <1>1
<1> HIDE DEF w
<1>4. /\ IsHost(h) /\ t \in Troubles /\ IsHost(Window[t]) /\ IsHost(Interval(t, h))
      /\ IsHost(Fresh(h)) /\ IsHost(Interval(t, Fresh(h)))
  <2>1. IsHost(Interval(t, Restart(t, h)))  BY <1>2, WindowHosts
  <2> QED  BY <1>2, <2>1, WindowHosts
<1>5. /\ WholeDiff(w.diff, h, Interval(t, h), order)
      /\ WholeDiff(w.fresh, Fresh(h), Interval(t, Fresh(h)), order)
  BY <1>2, <1>3, <1>4, Zenon DEF WindowOf, WholeDiff
<1> QED  BY <1>2, <1>4, <1>5 DEF w

\* SameDeltas compares everything but the newer snapshot.
LEMMA SameDeltasFields ==
  ASSUME NEW d, NEW e, SameDeltas(d, e), IsDiff(d)
  PROVE  SameNumbers(d, e) /\ d.Cgroups = e.Cgroups
<1>1. [d EXCEPT !.Latest = e.Latest] = e  BY DEF SameDeltas
<1> DEFINE r == [d EXCEPT !.Latest = e.Latest]
<1>2. SameNumbers(d, r) /\ d.Cgroups = r.Cgroups  BY SMT DEF SameNumbers, IsDiff
<1> HIDE DEF r
<1> QED  BY <1>1, <1>2 DEF r

\* The median has the last sample's numbers and state, so each finds what the other
\* does, but for the locks.
LEMMA OutlierIgnored == DiagnosisInv => OutlierSampleIsIgnored
<1> SUFFICES ASSUME DiagnosisInv, Undisturbed, Len(windows) = 3, NEW j \in 1..2,
                    SameDeltas(Diffs[j], Diffs[3]),
                    \A k \in 1..2 : SeenAlso(Diffs[3], Diffs[k])
             PROVE  fired = Fired(Diffs[3]) \ {"CONT_FILE_LOCK_GRAPH_BLOCKED"}
  BY Zenon DEF OutlierSampleIsIgnored
<1> DEFINE D == Diffs
           m == MedianDiff(D)
<1>1. DOMAIN D = 1..3 /\ DOMAIN windows = 1..3 /\ Len(D) = 3  BY DiffsAreListed
<1>2. D = [i \in 1..3 |-> D[i]]
  <2>1. Diffs = [k \in DOMAIN windows |-> windows[k].diff]  BY DEF Diffs
  <2>2. \A k \in DOMAIN windows : D[k] = windows[k].diff  BY <2>1
  <2> QED  BY <1>1, <2>1, <2>2
<1>3. ASSUME NEW i \in 1..3
      PROVE  /\ IsDiff(D[i]) /\ MeasuredDiff(D[i]) /\ Numbers(D[i].Latest)
             /\ InOrder(D[i].Cgroups, order)
  <2>1. D[i] = windows[i].diff  BY <1>1 DEF Diffs
  <2>2. PICK h, t : /\ WindowOf(windows[i], h, t, order)
                    /\ WholeDiff(windows[i].diff, h, Interval(t, h), order)
    BY <1>1, UndisturbedWindow
  <2>3. MeasuredDiff(windows[i].diff)  BY <2>2, WholeMeasured
  <2> QED  BY <2>1, <2>2, <2>3, WindowInOrder
<1>4. SeenAlso(D[3], D[3])
  <2>1. IsList(D[3].PerCoreCPUUtil)  BY <1>3 DEF MeasuredDiff
  <2>2. Len(D[3].PerCoreCPUUtil) \in Nat  BY <2>1, ListPlaces DEF IsList
  <2> HIDE DEF D
  <2> QED  BY <2>2 DEF SeenAlso
<1>5. \A i \in 1..3 : SeenAlso(D[3], D[i])
  <2>1. \A i \in 1..3 : i = 3 \/ i \in 1..2  OBVIOUS
  <2> QED  BY <1>4, <2>1
<1>6. SameNumbers(D[j], D[3]) /\ D[j].Cgroups = D[3].Cgroups
  <2>1. j \in 1..3  OBVIOUS
  <2> QED  BY <1>3, <2>1, SameDeltasFields
<1> HIDE DEF D
<1>7. TwoAgree(D, j)  BY <1>2, <1>3, <1>5, <1>6 DEF TwoAgree
<1>8. \A i, k \in DOMAIN order : order[i] = order[k] => i = k
  BY DiagnosisAssumption DEF DiagnosisInv
<1>9. /\ SameNumbers(m, D[3]) /\ m.Cgroups = D[3].Cgroups /\ m.Latest = D[3].Latest
      /\ m.FileLocks = SystemSnapshot.FileLocks
  <2>1. InOrder(D[3].Cgroups, order)  BY <1>3
  <2> QED  BY <1>7, <1>8, <2>1, OutlierMedian
<1> DEFINE d == D[3]
           lock == {"CONT_FILE_LOCK_GRAPH_BLOCKED"}
<1>10. Numbers(d.Latest) /\ Numbers(m.Latest)  BY <1>3, <1>9
<1> HIDE DEF m, d, lock
<1>11. SameNumbers(m, d) /\ SameNumbers(d, m) /\ SameState(m.Latest, d.Latest)
       /\ SameState(d.Latest, m.Latest)
  BY <1>9 DEF SameNumbers, SameState, d
<1>12. Poorer(m, d, {})
  <2> DEFINE none == {}
  <2> HIDE DEF none
  <2>1. CgroupsPoorer(m, d, none)  BY <1>9, SameGroupsPoorer DEF SameNumbers, d
  <2>2. FileLocksPoorer(m, d, none)  BY <1>9 DEF FileLocksPoorer
  <2>3. SinceBootPoorer(m, d, none)  BY <1>9 DEF SinceBootPoorer, d
  <2>4. Poorer(m, d, none)  BY <1>10, <1>11, <2>1, <2>2, <2>3, SamePoorer
  <2> QED  BY <2>4 DEF none
<1>13. Poorer(d, m, lock)
  <2>1. CgroupsPoorer(d, m, lock)  BY <1>9, SameGroupsPoorer DEF SameNumbers, d
  <2>2. FileLocksPoorer(d, m, lock)  BY DEF FileLocksPoorer, lock, FileLocksRule
  <2>3. SinceBootPoorer(d, m, lock)  BY <1>9 DEF SinceBootPoorer, d
  <2> QED  BY <1>10, <1>11, <2>1, <2>2, <2>3, SamePoorer
<1>14. Fired(m) \subseteq Fired(d) /\ FileLocksRule \notin Fired(m)
  BY <1>9, <1>12, PoorerFindsLess
<1>15. Fired(d) \subseteq Fired(m) \cup lock  BY <1>13, PoorerFindsLess
<1>16. fired = Fired(m)
  <2>1. windows # <<>> /\ pc = "report"  BY DEF Undisturbed
  <2> QED  BY <2>1, Zenon DEF DiagnosisInv, ReportIsOfMedian, D, m
<1> QED  BY <1>14, <1>15, <1>16 DEF D, d, lock, FileLocksRule

\* In every reachable report of three samples of which the last and an earlier
\* one agree, the findings are the last sample's, for every host: MedianDiff and
\* its helpers are not moved by the third.
THEOREM DiagnosisOutlierIgnored == Spec => []OutlierSampleIsIgnored
BY DiagnosisInvariant, OutlierIgnored, PTL

-----------------------------------------------------------------------------
(***************************************************************************)
(* What was counted before the window is forgotten.                        *)
(***************************************************************************)

\* The ticks of a core are counted in these.
LEMMA CoreTicks ==
  /\ {"User", "System", "Idle", "IOWait", "SoftIRQ", "Steal"} = DOMAIN CoreCPUStat
BY DEF CoreCPUStat, Counters

\* A utilization after an interval is the same from any ticks before it.
LEMMA CoreForgets ==
  ASSUME NEW r, NEW w, Counting(r, DOMAIN CoreCPUStat), Counting(w, DOMAIN CoreCPUStat)
  PROVE  LET zero == Zeroed(r, DOMAIN CoreCPUStat)
         IN  CalculateCoreUtil(r, GoOn(r, w, DOMAIN CoreCPUStat))
               = CalculateCoreUtil(zero, GoOn(zero, w, DOMAIN CoreCPUStat))
<1> DEFINE ticks == DOMAIN CoreCPUStat
           zero == Zeroed(r, ticks)
           now == GoOn(r, w, ticks)
           then == GoOn(zero, w, ticks)
           Reading(c) == /\ c.User \in Nat /\ c.System \in Nat /\ c.Idle \in Nat
                         /\ c.IOWait \in Nat /\ c.SoftIRQ \in Nat /\ c.Steal \in Nat
           Moved(a, b) == /\ Reading(a) /\ Reading(b)
                          /\ b.User = a.User + w.User /\ b.System = a.System + w.System
                          /\ b.Idle = a.Idle + w.Idle /\ b.IOWait = a.IOWait + w.IOWait
                          /\ b.SoftIRQ = a.SoftIRQ + w.SoftIRQ /\ b.Steal = a.Steal + w.Steal
<1>1. Reading(r) /\ Reading(w) /\ Reading(zero)
  <2>1. \A f \in ticks : f \in DOMAIN r /\ r[f] \in Nat /\ w[f] \in Nat /\ zero[f] = 0
    BY DEF Counting, Zeroed
  <2> HIDE DEF zero
  <2> QED  BY <2>1, CoreTicks
<1>2. ASSUME NEW a, Reading(a) PROVE Moved(a, GoOn(a, w, ticks))
  <2>1. \A f \in ticks : GoOn(a, w, ticks)[f] = a[f] + w[f]  BY DEF GoOn, Counting
  <2> DEFINE b == GoOn(a, w, ticks)
  <2> HIDE DEF b
  <2>2. /\ b.User = a.User + w.User /\ b.System = a.System + w.System
        /\ b.Idle = a.Idle + w.Idle /\ b.IOWait = a.IOWait + w.IOWait
        /\ b.SoftIRQ = a.SoftIRQ + w.SoftIRQ /\ b.Steal = a.Steal + w.Steal
    BY <2>1, CoreTicks DEF b
  <2>3. Reading(b)  BY <1>1, <1>2, <2>2
  <2> QED  BY <1>2, <2>2, <2>3 DEF b
<1>3. ASSUME NEW a, NEW b, Moved(a, b)
      PROVE  /\ Total(b) - Total(a) = Total(w)
             /\ DiffUint64(b.System, a.System) = w.System
             /\ DiffUint64(b.Idle, a.Idle) = w.Idle
             /\ DiffUint64(b.SoftIRQ, a.SoftIRQ) = w.SoftIRQ
             /\ DiffUint64(b.Steal, a.Steal) = w.Steal
             /\ DiffUint64(Busy(b), Busy(a)) = Busy(w)
  <2>1. \A x, y \in Nat : \A z : z = x + y => DiffUint64(z, x) = y  BY DEF DiffUint64
  <2>2. Reading(a) /\ Reading(w)  BY <1>1, <1>3
  <2>3. /\ b.User = a.User + w.User /\ b.System = a.System + w.System
        /\ b.Idle = a.Idle + w.Idle /\ b.IOWait = a.IOWait + w.IOWait
        /\ b.SoftIRQ = a.SoftIRQ + w.SoftIRQ /\ b.Steal = a.Steal + w.Steal
    BY <1>3
  <2> HIDE DEF Moved
  <2>4. Busy(a) \in Nat /\ Busy(w) \in Nat /\ Busy(b) = Busy(a) + Busy(w)
    BY <2>2, <2>3 DEF Busy
  <2>5. Total(a) \in Nat /\ Total(w) \in Nat /\ Total(b) = Total(a) + Total(w)
    BY <2>2, <2>3, <2>4 DEF Total
  <2>6. DiffUint64(Busy(b), Busy(a)) = Busy(w) /\ Total(b) - Total(a) = Total(w)
    BY <2>1, <2>4, <2>5
  <2>7. /\ DiffUint64(b.System, a.System) = w.System
        /\ DiffUint64(b.Idle, a.Idle) = w.Idle
        /\ DiffUint64(b.SoftIRQ, a.SoftIRQ) = w.SoftIRQ
        /\ DiffUint64(b.Steal, a.Steal) = w.Steal
    <3> HIDE DEF Reading
    <3>1. ASSUME NEW x \in Nat, NEW y \in Nat, NEW z, z = x + y PROVE DiffUint64(z, x) = y
      BY <2>1, <3>1
    <3>2. /\ a.System \in Nat /\ a.Idle \in Nat /\ a.SoftIRQ \in Nat /\ a.Steal \in Nat
          /\ w.System \in Nat /\ w.Idle \in Nat /\ w.SoftIRQ \in Nat /\ w.Steal \in Nat
      BY <2>2, Zenon DEF Reading
    <3>3. DiffUint64(b.System, a.System) = w.System  BY <2>3, <3>1, <3>2
    <3>4. DiffUint64(b.Idle, a.Idle) = w.Idle        BY <2>3, <3>1, <3>2
    <3>5. DiffUint64(b.SoftIRQ, a.SoftIRQ) = w.SoftIRQ  BY <2>3, <3>1, <3>2
    <3>6. DiffUint64(b.Steal, a.Steal) = w.Steal     BY <2>3, <3>1, <3>2
    <3> QED  BY <3>3, <3>4, <3>5, <3>6
  <2> QED  BY <2>6, <2>7
<1>4. Moved(r, now) /\ Moved(zero, then)
  <2> HIDE DEF zero
  <2> QED  BY <1>1, <1>2
<1> HIDE DEF Moved, now, then, zero
<1>5. CalculateCoreUtil(r, now) = CalculateCoreUtil(zero, then)
  <2>1. /\ Total(now) - Total(r) = Total(then) - Total(zero)
        /\ DiffUint64(now.System, r.System) = DiffUint64(then.System, zero.System)
        /\ DiffUint64(now.Idle, r.Idle) = DiffUint64(then.Idle, zero.Idle)
        /\ DiffUint64(now.SoftIRQ, r.SoftIRQ) = DiffUint64(then.SoftIRQ, zero.SoftIRQ)
        /\ DiffUint64(now.Steal, r.Steal) = DiffUint64(then.Steal, zero.Steal)
        /\ DiffUint64(Busy(now), Busy(r)) = DiffUint64(Busy(then), Busy(zero))
    BY <1>3, <1>4
  <2> QED  BY <2>1, SMT DEF CalculateCoreUtil
<1> QED  BY <1>5 DEF now, then, zero

\* So are the deltas of a record.
LEMMA RecordForgets ==
  ASSUME NEW r, NEW w, NEW counters, Counting(r, counters), Counting(w, counters)
  PROVE  LET zero == Zeroed(r, counters)
         IN  CounterDiff(r, GoOn(r, w, counters), counters)
               = CounterDiff(zero, GoOn(zero, w, counters), counters)
<1> DEFINE zero == Zeroed(r, counters)
           d == CounterDiff(r, GoOn(r, w, counters), counters)
           e == CounterDiff(zero, GoOn(zero, w, counters), counters)
<1>1. /\ d = [f \in DOMAIN w |-> IF f \in counters THEN DiffUint64(r[f] + w[f], r[f]) ELSE w[f]]
      /\ e = [f \in DOMAIN w |-> IF f \in counters THEN DiffUint64(zero[f] + w[f], zero[f])
                                                   ELSE w[f]]
  <2> HIDE DEF zero
  <2> QED  BY DEF CounterDiff, GoOn
<1>2. ASSUME NEW f \in counters
      PROVE  DiffUint64(r[f] + w[f], r[f]) = DiffUint64(zero[f] + w[f], zero[f])
  <2>1. r[f] \in Nat /\ w[f] \in Nat /\ zero[f] = 0  BY DEF Counting, Zeroed
  <2> HIDE DEF zero
  <2> QED  BY <2>1 DEF DiffUint64
<1> HIDE DEF d, e, zero
<1>3. d = e  BY <1>1, <1>2
<1> QED  BY <1>3 DEF d, e, zero

\* One device, cgroup or process, whether it was there before the window or not.
LEMMA FunctionForgets ==
  ASSUME NEW f, NEW w, NEW counters, AllCounting(f, counters), AllCounting(w, counters),
         NEW zero, zero = ZeroAll(f, counters), NEW now, now = AllGoOn(f, w, counters),
         NEW then, then = AllGoOn(zero, w, counters)
  PROVE  /\ DOMAIN zero = DOMAIN f /\ DOMAIN now = DOMAIN w /\ DOMAIN then = DOMAIN w
         /\ \A x \in DOMAIN w :
              /\ x \in DOMAIN f => /\ zero[x] = Zeroed(f[x], counters)
                                   /\ now[x] = GoOn(f[x], w[x], counters)
                                   /\ then[x] = GoOn(zero[x], w[x], counters)
                                   /\ CounterDiff(f[x], now[x], counters)
                                        = CounterDiff(zero[x], then[x], counters)
              /\ x \notin DOMAIN f => now[x] = then[x]
<1>1. DOMAIN zero = DOMAIN f /\ DOMAIN now = DOMAIN w /\ DOMAIN then = DOMAIN w
  BY DEF ZeroAll, ZeroSome, AllGoOn
<1>2. ASSUME NEW x \in DOMAIN w, x \in DOMAIN f
      PROVE  /\ zero[x] = Zeroed(f[x], counters)
             /\ now[x] = GoOn(f[x], w[x], counters) /\ then[x] = GoOn(zero[x], w[x], counters)
  <2>1. zero[x] = Zeroed(f[x], counters)  BY <1>2, ZeroedSome
  <2>2. now[x] = GoOn(f[x], w[x], counters)  BY <1>2 DEF AllGoOn
  <2>3. then[x] = GoOn(zero[x], w[x], counters)  BY <1>1, <1>2 DEF AllGoOn
  <2> QED  BY <2>1, <2>2, <2>3
<1>3. ASSUME NEW x \in DOMAIN w, x \in DOMAIN f
      PROVE  CounterDiff(f[x], now[x], counters) = CounterDiff(zero[x], then[x], counters)
  <2>1. Counting(f[x], counters) /\ Counting(w[x], counters)  BY <1>3 DEF AllCounting
  <2> QED  BY <1>2, <1>3, <2>1, RecordForgets
<1>4. ASSUME NEW x \in DOMAIN w, x \notin DOMAIN f PROVE now[x] = then[x]
  <2>1. now[x] = w[x]  BY <1>4 DEF AllGoOn
  <2>2. then[x] = w[x]  BY <1>1, <1>4 DEF AllGoOn
  <2> QED  BY <2>1, <2>2
<1> QED  BY <1>1, <1>2, <1>3, <1>4

\* And the utilizations of all cores.
LEMMA CoresForget ==
  ASSUME NEW f, NEW w, AllCounting(f, DOMAIN CoreCPUStat), AllCounting(w, DOMAIN CoreCPUStat)
  PROVE  LET zero == ZeroAll(f, DOMAIN CoreCPUStat)
         IN  CalculatePerCoreUtil(f, AllGoOn(f, w, DOMAIN CoreCPUStat))
               = CalculatePerCoreUtil(zero, AllGoOn(zero, w, DOMAIN CoreCPUStat))
<1> DEFINE zero == ZeroAll(f, DOMAIN CoreCPUStat)
           now == AllGoOn(f, w, DOMAIN CoreCPUStat)
           then == AllGoOn(zero, w, DOMAIN CoreCPUStat)
<1>1. /\ DOMAIN zero = DOMAIN f /\ DOMAIN now = DOMAIN w /\ DOMAIN then = DOMAIN w
      /\ \A x \in DOMAIN w : x \in DOMAIN f =>
           /\ zero[x] = Zeroed(f[x], DOMAIN CoreCPUStat)
           /\ now[x] = GoOn(f[x], w[x], DOMAIN CoreCPUStat)
           /\ then[x] = GoOn(zero[x], w[x], DOMAIN CoreCPUStat)
  BY FunctionForgets
<1> HIDE DEF zero, now, then
<1>2. ASSUME NEW x \in DOMAIN w, x \in DOMAIN f
      PROVE  CalculateCoreUtil(f[x], now[x]) = CalculateCoreUtil(zero[x], then[x])
  <2>1. Counting(f[x], DOMAIN CoreCPUStat) /\ Counting(w[x], DOMAIN CoreCPUStat)
    BY <1>2 DEF AllCounting
  <2> QED  BY <1>1, <1>2, <2>1, CoreForgets
<1>3. CalculatePerCoreUtil(f, now) = CalculatePerCoreUtil(zero, then)
  BY <1>1, <1>2 DEF CalculatePerCoreUtil
<1> QED  BY <1>3 DEF zero, now, then

\* And the diffs of the disks, with what is computed from the deltas.
LEMMA DisksForget ==
  ASSUME NEW f, NEW w, AllCounting(f, DiskCounters), AllCounting(w, DiskCounters), NEW n
  PROVE  LET zero == ZeroAll(f, DiskCounters)
         IN  CalculateDiskDiff(f, AllGoOn(f, w, DiskCounters), n)
               = CalculateDiskDiff(zero, AllGoOn(zero, w, DiskCounters), n)
<1> DEFINE zero == ZeroAll(f, DiskCounters)
           now == AllGoOn(f, w, DiskCounters)
           then == AllGoOn(zero, w, DiskCounters)
           Disk(c) ==
             Extended(c, [UtilPercent |-> ClampPercent(c.IOTicks \div n),
                          AvgReadLatencyMS |-> Average(c.TimeReadingMS, c.ReadsCompleted),
                          AvgWriteLatencyMS |-> Average(c.TimeWritingMS, c.WritesCompleted),
                          AvgQueueLatencyMS |-> Average(c.WeightedIOTicks,
                                                  c.ReadsCompleted + c.WritesCompleted)])
<1>1. /\ DOMAIN zero = DOMAIN f /\ DOMAIN now = DOMAIN w /\ DOMAIN then = DOMAIN w
      /\ \A x \in DOMAIN w : x \in DOMAIN f =>
           CounterDiff(f[x], now[x], DiskCounters) = CounterDiff(zero[x], then[x], DiskCounters)
  BY FunctionForgets
<1>2. ASSUME NEW a, NEW b
      PROVE  CalculateDiskDiff(a, b, n) =
               [x \in DOMAIN a \cap DOMAIN b |-> Disk(CounterDiff(a[x], b[x], DiskCounters))]
  BY Zenon DEF CalculateDiskDiff
<1> HIDE DEF zero, now, then, Disk
<1>3. CalculateDiskDiff(f, now, n) = CalculateDiskDiff(zero, then, n)
  <2>1. \A x \in DOMAIN f \cap DOMAIN now :
          Disk(CounterDiff(f[x], now[x], DiskCounters))
            = Disk(CounterDiff(zero[x], then[x], DiskCounters))
    BY <1>1
  <2>2. DOMAIN f \cap DOMAIN now = DOMAIN zero \cap DOMAIN then  BY <1>1
  <2> DEFINE both == DOMAIN f \cap DOMAIN now
             D(x) == Disk(CounterDiff(f[x], now[x], DiskCounters))
             E(x) == Disk(CounterDiff(zero[x], then[x], DiskCounters))
  <2>3. CalculateDiskDiff(f, now, n) = [x \in both |-> D(x)]  BY <1>2, Zenon
  <2>4. CalculateDiskDiff(zero, then, n) = [x \in both |-> E(x)]
    <3>1. CalculateDiskDiff(zero, then, n) = [x \in DOMAIN zero \cap DOMAIN then |-> E(x)]
      BY <1>2, Zenon
    <3> QED  BY <2>2, <3>1, Zenon
  <2>5. \A x \in both : D(x) = E(x)  BY <2>1
  <2> HIDE DEF both, D, E
  <2> QED  BY <2>3, <2>4, <2>5
<1> QED  BY <1>3 DEF zero, now, then

\* And those of the interfaces.
LEMMA IfacesForget ==
  ASSUME NEW f, NEW w, AllCounting(f, IfaceCounters), AllCounting(w, IfaceCounters)
  PROVE  LET zero == ZeroAll(f, IfaceCounters)
         IN  CalculateNetIfacesDiff(f, AllGoOn(f, w, IfaceCounters))
               = CalculateNetIfacesDiff(zero, AllGoOn(zero, w, IfaceCounters))
<1> DEFINE zero == ZeroAll(f, IfaceCounters)
           now == AllGoOn(f, w, IfaceCounters)
           then == AllGoOn(zero, w, IfaceCounters)
<1>1. /\ DOMAIN zero = DOMAIN f /\ DOMAIN now = DOMAIN w /\ DOMAIN then = DOMAIN w
      /\ \A x \in DOMAIN w :
           /\ x \in DOMAIN f => CounterDiff(f[x], now[x], IfaceCounters)
                                  = CounterDiff(zero[x], then[x], IfaceCounters)
           /\ x \notin DOMAIN f => now[x] = then[x]
  BY FunctionForgets
<1> HIDE DEF zero, now, then
<1>2. \A x \in DOMAIN w :
        CounterDiff(IF x \in DOMAIN f THEN f[x] ELSE now[x], now[x], IfaceCounters)
          = CounterDiff(IF x \in DOMAIN zero THEN zero[x] ELSE then[x], then[x], IfaceCounters)
  BY <1>1
<1>3. CalculateNetIfacesDiff(f, now) = CalculateNetIfacesDiff(zero, then)
  BY <1>1, <1>2 DEF CalculateNetIfacesDiff
<1> QED  BY <1>3 DEF zero, now, then

\* And those of the processes, with their CPU time.
LEMMA ProcessesForget ==
  ASSUME NEW f, NEW w, AllCounting(f, ProcessCounters), AllCounting(w, ProcessCounters), NEW n
  PROVE  LET zero == ZeroAll(f, ProcessCounters)
         IN  CalculateProcessDiff(f, AllGoOn(f, w, ProcessCounters), n)
               = CalculateProcessDiff(zero, AllGoOn(zero, w, ProcessCounters), n)
<1> DEFINE zero == ZeroAll(f, ProcessCounters)
           now == AllGoOn(f, w, ProcessCounters)
           then == AllGoOn(zero, w, ProcessCounters)
           Cpu(a, b) == DiffUint64(b.UTime + b.STime, a.UTime + a.STime)
           Task(c, cpu) == Extended(c, [CPUTime |-> cpu, CPUPercent |-> (10 * cpu) \div n])
           Old(a, b, x) == IF x \in DOMAIN a THEN a[x] ELSE b[x]
<1>1. /\ DOMAIN zero = DOMAIN f /\ DOMAIN now = DOMAIN w /\ DOMAIN then = DOMAIN w
      /\ \A x \in DOMAIN w :
           /\ x \in DOMAIN f => /\ zero[x] = Zeroed(f[x], ProcessCounters)
                                /\ now[x] = GoOn(f[x], w[x], ProcessCounters)
                                /\ then[x] = GoOn(zero[x], w[x], ProcessCounters)
                                /\ CounterDiff(f[x], now[x], ProcessCounters)
                                     = CounterDiff(zero[x], then[x], ProcessCounters)
           /\ x \notin DOMAIN f => now[x] = then[x]
  BY FunctionForgets
<1> HIDE DEF zero, now, then
<1>2. ASSUME NEW x \in DOMAIN w, x \in DOMAIN f PROVE Cpu(f[x], now[x]) = Cpu(zero[x], then[x])
  <2> DEFINE r == f[x]
             z == zero[x]
             u == w[x]
  <2>1. /\ r.UTime \in Nat /\ r.STime \in Nat /\ u.UTime \in Nat /\ u.STime \in Nat
        /\ {"UTime", "STime"} \subseteq DOMAIN r /\ {"UTime", "STime"} \subseteq DOMAIN u
    BY <1>2, NoCounters DEF AllCounting, Counting
  <2>2. ASSUME NEW old
        PROVE  LET g == GoOn(old, u, ProcessCounters)
               IN  g.UTime = old.UTime + u.UTime /\ g.STime = old.STime + u.STime
    BY <2>1, NoCounters DEF GoOn
  <2>3. z.UTime = 0 /\ z.STime = 0
    <3>1. z = Zeroed(r, ProcessCounters)  BY <1>1, <1>2
    <3> HIDE DEF z, r
    <3> QED  BY <2>1, <3>1, NoCounters DEF Zeroed
  <2>4. now[x] = GoOn(r, u, ProcessCounters) /\ then[x] = GoOn(z, u, ProcessCounters)
    BY <1>1, <1>2
  <2> HIDE DEF r, z, u
  <2>5. /\ now[x].UTime = r.UTime + u.UTime /\ now[x].STime = r.STime + u.STime
        /\ then[x].UTime = 0 + u.UTime /\ then[x].STime = 0 + u.STime
    BY <2>2, <2>3, <2>4
  <2>6. DiffUint64(now[x].UTime + now[x].STime, r.UTime + r.STime)
          = DiffUint64(then[x].UTime + then[x].STime, z.UTime + z.STime)
    BY <2>1, <2>3, <2>5 DEF DiffUint64
  <2> QED  BY <2>6 DEF r, z
<1>3. ASSUME NEW a, NEW b
      PROVE  CalculateProcessDiff(a, b, n) =
               [x \in DOMAIN b |-> Task(CounterDiff(Old(a, b, x), b[x], ProcessCounters),
                                        Cpu(Old(a, b, x), b[x]))]
  BY Zenon DEF CalculateProcessDiff
<1>4. ASSUME NEW x \in DOMAIN w
      PROVE  /\ Cpu(Old(f, now, x), now[x]) = Cpu(Old(zero, then, x), then[x])
             /\ CounterDiff(Old(f, now, x), now[x], ProcessCounters)
                  = CounterDiff(Old(zero, then, x), then[x], ProcessCounters)
  <2> HIDE DEF Cpu
  <2>1. CASE x \in DOMAIN f  BY <1>1, <1>2, <2>1
  <2>2. CASE x \notin DOMAIN f  BY <1>1, <2>2
  <2> QED  BY <2>1, <2>2
<1> HIDE DEF Cpu, Task, Old
<1>5. CalculateProcessDiff(f, now, n) = CalculateProcessDiff(zero, then, n)
  BY <1>1, <1>3, <1>4
<1> QED  BY <1>5 DEF zero, now, then

\* The hosts h and g are the same but for what their counters have counted.
SameDirectory(dir, dir2) ==
  /\ DOMAIN dir = DOMAIN dir2
  /\ \A path \in DOMAIN dir : \A f \in CgroupSettings : dir[path][f] = dir2[path][f]
Alike(h, g) ==
  /\ h.Timestamp = g.Timestamp /\ \A f \in Uncounted : h[f] = g[f]
  /\ h.CPU.ProcsRunning = g.CPU.ProcsRunning /\ h.CPU.ProcsBlocked = g.CPU.ProcsBlocked
  /\ Len(h.CPU.PerCore) = Len(g.CPU.PerCore)
  /\ SameDirectory(h.Cgroups, g.Cgroups) /\ SameTasks(h.Processes, g.Processes)

\* A host is like itself with every counter at zero.
LEMMA FreshAlike ==
  ASSUME NEW h, IsHost(h) PROVE Alike(h, Fresh(h))
<1> DEFINE z == Fresh(h)
<1>1. \A f \in Uncounted : h[f] = z[f]  BY UncountedFields
<1>2. /\ h.Timestamp = z.Timestamp /\ h.CPU.ProcsRunning = z.CPU.ProcsRunning
      /\ h.CPU.ProcsBlocked = z.CPU.ProcsBlocked
  BY FreshFields, TaskFields
<1>3. Len(h.CPU.PerCore) = Len(z.CPU.PerCore)
  <2>1. IsList(h.CPU.PerCore)  BY DEF IsHost
  <2>2. z.CPU.PerCore = ZeroAll(h.CPU.PerCore, DOMAIN CoreCPUStat)  BY FreshFields
  <2> HIDE DEF z
  <2> QED  BY <2>1, <2>2, ListRemains
<1>4. /\ PartlyZeroed(z.Cgroups, h.Cgroups, CgroupCounters)
      /\ PartlyZeroed(z.Processes, h.Processes, ProcessCounters)
  <2>1. /\ PartlyZeroed(ZeroAll(h.Cgroups, CgroupCounters), h.Cgroups, CgroupCounters)
        /\ PartlyZeroed(ZeroAll(h.Processes, ProcessCounters), h.Processes, ProcessCounters)
    BY ZeroedSome DEF IsHost
  <2> QED  BY <2>1, FreshFields
<1> HIDE DEF z
<1>5. SameDirectory(h.Cgroups, z.Cgroups)
  <2>1. DOMAIN z.Cgroups = DOMAIN h.Cgroups  BY <1>4 DEF PartlyZeroed
  <2>2. ASSUME NEW path \in DOMAIN h.Cgroups, NEW f \in CgroupSettings
        PROVE  h.Cgroups[path][f] = z.Cgroups[path][f]
    <3>1. f \in DOMAIN h.Cgroups[path]  BY DEF IsHost
    <3> QED  BY <1>4, <3>1, OtherFieldsStay, NoCounters
  <2> QED  BY <2>1, <2>2 DEF SameDirectory
<1>6. SameTasks(h.Processes, z.Processes)
  <2>1. DOMAIN z.Processes = DOMAIN h.Processes  BY <1>4 DEF PartlyZeroed
  <2>2. ASSUME NEW pid \in DOMAIN h.Processes
        PROVE  h.Processes[pid].CgroupPath = z.Processes[pid].CgroupPath
    <3>1. "CgroupPath" \in DOMAIN h.Processes[pid]  BY DEF IsHost
    <3> QED  BY <1>4, <3>1, OtherFieldsStay, NoCounters
  <2> QED  BY <2>1, <2>2 DEF SameTasks
<1> QED  BY <1>1, <1>2, <1>3, <1>5, <1>6 DEF Alike, z

\* And so it is an interval later.
LEMMA IntervalAlike ==
  ASSUME NEW h, NEW g, IsHost(h), IsHost(g), h.Timestamp = g.Timestamp,
         NEW t \in Troubles, IsHost(Window[t])
  PROVE  Alike(Interval(t, h), Interval(t, g))
<1> DEFINE w == Window[t]
           a == Interval(t, h)
           b == Interval(t, g)
<1>1. \A f \in Uncounted : a[f] = b[f]  BY UncountedFields
<1>2. /\ a.CPU.ProcsRunning = b.CPU.ProcsRunning /\ a.CPU.ProcsBlocked = b.CPU.ProcsBlocked
  BY TaskFields
<1>3. /\ a.Timestamp = h.Timestamp + w.Timestamp /\ b.Timestamp = g.Timestamp + w.Timestamp
      /\ a.CPU.PerCore = AllGoOn(h.CPU.PerCore, w.CPU.PerCore, DOMAIN CoreCPUStat)
      /\ b.CPU.PerCore = AllGoOn(g.CPU.PerCore, w.CPU.PerCore, DOMAIN CoreCPUStat)
      /\ a.Processes = AllGoOn(h.Processes, w.Processes, ProcessCounters)
      /\ b.Processes = AllGoOn(g.Processes, w.Processes, ProcessCounters)
      /\ a.Cgroups = AllGoOn(h.Cgroups, w.Cgroups, CgroupCounters)
      /\ b.Cgroups = AllGoOn(g.Cgroups, w.Cgroups, CgroupCounters)
  BY IntervalFields
<1> HIDE DEF a, b
<1>4. Len(a.CPU.PerCore) = Len(b.CPU.PerCore)
  <2>1. IsList(w.CPU.PerCore)  BY DEF IsHost
  <2> HIDE DEF w
  <2> QED  BY <1>3, <2>1, ListRemains
<1>5. SameDirectory(a.Cgroups, b.Cgroups)
  <2>1. DOMAIN a.Cgroups = DOMAIN w.Cgroups /\ DOMAIN b.Cgroups = DOMAIN w.Cgroups
    BY <1>3 DEF AllGoOn
  <2>2. ASSUME NEW path \in DOMAIN w.Cgroups, NEW f \in CgroupSettings
        PROVE  a.Cgroups[path][f] = b.Cgroups[path][f]
    <3>1. f \in DOMAIN w.Cgroups[path]  BY DEF IsHost
    <3> QED  BY <1>3, <3>1, OtherFieldsOfWindow, NoCounters
  <2> QED  BY <2>1, <2>2 DEF SameDirectory
<1>6. SameTasks(a.Processes, b.Processes)
  <2>1. DOMAIN a.Processes = DOMAIN w.Processes /\ DOMAIN b.Processes = DOMAIN w.Processes
    BY <1>3 DEF AllGoOn
  <2>2. ASSUME NEW pid \in DOMAIN w.Processes
        PROVE  a.Processes[pid].CgroupPath = b.Processes[pid].CgroupPath
    <3>1. "CgroupPath" \in DOMAIN w.Processes[pid]  BY DEF IsHost
    <3> QED  BY <1>3, <3>1, OtherFieldsOfWindow, NoCounters
  <2> QED  BY <2>1, <2>2 DEF SameTasks
<1> QED  BY <1>1, <1>2, <1>3, <1>4, <1>5, <1>6 DEF Alike, a, b

\* The cgroups that are found, and their settings, are then the same.
LEMMA ParsedAlike ==
  ASSUME NEW dir, NEW dir2, SameDirectory(dir, dir2),
         NEW procs, NEW procs2, SameTasks(procs, procs2), NEW paths,
         NEW a, a = ParseCgroups(dir, procs, paths), NEW b, b = ParseCgroups(dir2, procs2, paths)
  PROVE  /\ a.Frozen <=> b.Frozen
         /\ DOMAIN a.Groups = DOMAIN b.Groups
         /\ \A k \in DOMAIN a.Groups : /\ a.Groups[k].Path = b.Groups[k].Path
                                       /\ a.Groups[k].CPUShares = b.Groups[k].CPUShares
<1> DEFINE foundA == FoundAt(dir, procs, paths)
           foundB == FoundAt(dir2, procs2, paths)
<1>1. /\ ParsedAt(a.Groups, dir, foundA, paths) /\ ParsedAt(b.Groups, dir2, foundB, paths)
      /\ a.Frozen <=> \E i \in foundA : dir[paths[i]].Frozen
      /\ b.Frozen <=> \E i \in foundB : dir2[paths[i]].Frozen
  BY ParsedGroups
<1>2. Wanted(procs) = Wanted(procs2)
  <2>1. {procs[pid].CgroupPath : pid \in DOMAIN procs}
          = {procs2[pid].CgroupPath : pid \in DOMAIN procs2}
    BY DEF SameTasks
  <2> QED  BY <2>1, Zenon DEF Wanted
<1>3. foundA = foundB  BY <1>2 DEF SameDirectory, FoundAt
<1>4. ASSUME NEW i \in foundA
      PROVE  \A f \in CgroupSettings : dir[paths[i]][f] = dir2[paths[i]][f]
  <2>1. paths[i] \in DOMAIN dir  BY DEF FoundAt
  <2> QED  BY <2>1 DEF SameDirectory
<1>5. {"Path", "Frozen", "CPUShares"} \subseteq CgroupSettings  BY DEF CgroupSettings
<1> HIDE DEF foundA, foundB
<1> QED  BY <1>1, <1>3, <1>4, <1>5 DEF ParsedAt

\* Hosts that are alike have snapshots in the same state.
LEMMA SnapshotsAlike ==
  ASSUME NEW h, NEW g, IsHost(h), IsHost(g), Alike(h, g), NEW paths
  PROVE  SameState(CollectSnapshot(h, {}, paths), CollectSnapshot(g, {}, paths))
<1> DEFINE a == CollectSnapshot(h, {}, paths)
           b == CollectSnapshot(g, {}, paths)
<1>1. /\ a.CPU = h.CPU /\ b.CPU = g.CPU
      /\ a.Cgroups = ParseCgroups(h.Cgroups, h.Processes, paths)
      /\ b.Cgroups = ParseCgroups(g.Cgroups, g.Processes, paths)
      /\ \A f \in DOMAIN SystemSnapshot \ {"Cgroups", "Timestamp"} : a[f] = h[f] /\ b[f] = g[f]
  BY NothingLost
<1> HIDE DEF a, b
<1>2. ASSUME NEW f \in Uncounted PROVE a[f] = b[f]
  <2>1. f \in DOMAIN SystemSnapshot \ {"Cgroups", "Timestamp"}  BY DEF Uncounted
  <2> QED  BY <1>1, <2>1 DEF Alike
<1>3. /\ a.Cgroups.Frozen <=> b.Cgroups.Frozen
      /\ DOMAIN a.Cgroups.Groups = DOMAIN b.Cgroups.Groups
      /\ \A k \in DOMAIN a.Cgroups.Groups :
           /\ a.Cgroups.Groups[k].Path = b.Cgroups.Groups[k].Path
           /\ a.Cgroups.Groups[k].CPUShares = b.Cgroups.Groups[k].CPUShares
  BY <1>1, ParsedAlike DEF Alike
<1> QED  BY <1>1, <1>2, <1>3 DEF SameState, Alike, a, b

\* The window forgets: its diff is the one of a host without a past.
SameWindow(d, e) ==
  /\ SameNumbers(d, e) /\ d.Cgroups = e.Cgroups /\ d.FileLocks = e.FileLocks
  /\ SameState(d.Latest, e.Latest) /\ Numbers(d.Latest) /\ Numbers(e.Latest)
  /\ IsDiff(d) /\ IsDiff(e)

\* The deltas of the cgroups are decided by the deltas of each path.
LEMMA DeltasInOrderAgree ==
  ASSUME NEW d, NEW a, NEW b, NEW olds, NEW news, NEW paths,
         DeltasInOrder(d, a, b, olds, news, paths),
         NEW d2, NEW a2, NEW b2, NEW olds2, NEW news2,
         DeltasInOrder(d2, a2, b2, olds2, news2, paths),
         DOMAIN a = DOMAIN a2, DOMAIN b = DOMAIN b2,
         \A path \in DOMAIN olds \cap DOMAIN news :
           CounterDiff(olds[path], news[path], CgroupCounters)
             = CounterDiff(olds2[path], news2[path], CgroupCounters)
  PROVE  d = d2
<1> DEFINE both == {k \in DOMAIN b : \E i \in DOMAIN a : paths[i] = paths[k]}
<1>1. /\ d = [k \in both |-> d[k]]
      /\ \A k \in both : /\ paths[k] \in DOMAIN olds \cap DOMAIN news
                         /\ d[k] = CounterDiff(olds[paths[k]], news[paths[k]], CgroupCounters)
  BY DEF DeltasInOrder
<1>2. /\ d2 = [k \in both |-> d2[k]]
      /\ \A k \in both :
           d2[k] = CounterDiff(olds2[paths[k]], news2[paths[k]], CgroupCounters)
  BY DEF DeltasInOrder
<1> HIDE DEF both
<1>3. \A k \in both : d[k] = d2[k]  BY <1>1, <1>2
<1> QED  BY <1>1, <1>2, <1>3

\* Source by source: neither the deltas nor the state depend on what was counted before.
LEMMA WindowForgets ==
  ASSUME NEW h, IsHost(h), NEW t \in Troubles, IsHost(Window[t]), NEW paths,
         NEW d, WholeDiff(d, h, Interval(t, h), paths),
         NEW e, WholeDiff(e, Fresh(h), Interval(t, Fresh(h)), paths)
  PROVE  SameWindow(d, e)
<1> DEFINE z == Fresh(h)
           g == Interval(t, h)
           y == Interval(t, z)
           w == Window[t]
<1>1. IsHost(g) /\ IsHost(z) /\ IsHost(y)  BY DEF WholeDiff
<1>2. WholeFields(d, h, g, paths) /\ WholeFields(e, z, y, paths)  BY WholeDiffFields
<1>3. Alike(h, z) /\ Alike(g, y)
  <2>1. Alike(h, z)  BY FreshAlike
  <2>2. h.Timestamp = z.Timestamp  BY <2>1 DEF Alike
  <2> QED  BY <1>1, <2>1, <2>2, IntervalAlike
<1>4. /\ z.CPU.TotalCPU = Zeroed(h.CPU.TotalCPU, DOMAIN CoreCPUStat)
      /\ z.CPU.PerCore = ZeroAll(h.CPU.PerCore, DOMAIN CoreCPUStat)
      /\ z.CPU.ContextSwitches = 0 /\ z.CPU.ProcessesCreated = 0
      /\ z.VMStat = Zeroed(h.VMStat, DOMAIN VMStatInfo)
      /\ z.NetStat = Zeroed(h.NetStat, DOMAIN NetStatInfo)
      /\ z.DiskStats = ZeroAll(h.DiskStats, DiskCounters)
      /\ z.NetIfaces = ZeroAll(h.NetIfaces, IfaceCounters)
      /\ z.Processes = ZeroAll(h.Processes, ProcessCounters)
      /\ z.Cgroups = ZeroAll(h.Cgroups, CgroupCounters)
  BY FreshFields
<1> DEFINE Goes(a, b) ==
      /\ b.CPU.TotalCPU = GoOn(a.CPU.TotalCPU, w.CPU.TotalCPU, DOMAIN CoreCPUStat)
      /\ b.CPU.PerCore = AllGoOn(a.CPU.PerCore, w.CPU.PerCore, DOMAIN CoreCPUStat)
      /\ b.CPU.ContextSwitches = a.CPU.ContextSwitches + w.CPU.ContextSwitches
      /\ b.CPU.ProcessesCreated = a.CPU.ProcessesCreated + w.CPU.ProcessesCreated
      /\ b.VMStat = GoOn(a.VMStat, w.VMStat, DOMAIN VMStatInfo)
      /\ b.NetStat = GoOn(a.NetStat, w.NetStat, DOMAIN NetStatInfo)
      /\ b.DiskStats = AllGoOn(a.DiskStats, w.DiskStats, DiskCounters)
      /\ b.NetIfaces = AllGoOn(a.NetIfaces, w.NetIfaces, IfaceCounters)
      /\ b.Processes = AllGoOn(a.Processes, w.Processes, ProcessCounters)
      /\ b.Cgroups = AllGoOn(a.Cgroups, w.Cgroups, CgroupCounters)
<1>5. Goes(h, g) /\ Goes(z, y)
  <2> HIDE DEF z
  <2> QED  BY IntervalFields
<1>6. /\ d.Latest = CollectSnapshot(g, {}, paths) /\ e.Latest = CollectSnapshot(y, {}, paths)
      /\ IsDiff(d) /\ IsDiff(e)
  BY <1>2, DiffIsDiff DEF WholeFields, WholeDiff
<1> HIDE DEF z, g, y
<1>7. SameState(d.Latest, e.Latest) /\ Numbers(d.Latest) /\ Numbers(e.Latest)
  <2>1. SameState(CollectSnapshot(g, {}, paths), CollectSnapshot(y, {}, paths))
    BY <1>1, <1>3, SnapshotsAlike
  <2>2. Numbers(CollectSnapshot(g, {}, paths)) /\ Numbers(CollectSnapshot(y, {}, paths))
    <3> DEFINE lost == {}
    <3>1. ~Fatal(lost)  BY DEF Fatal
    <3> HIDE DEF lost
    <3>2. Numbers(CollectSnapshot(g, lost, paths)) /\ Numbers(CollectSnapshot(y, lost, paths))
      BY <1>1, <3>1, SnapshotNumbers
    <3> QED  BY <3>2 DEF lost
  <2> QED  BY <1>6, <2>1, <2>2
<1>8. d.FileLocks = e.FileLocks /\ d.ProcsRunning = e.ProcsRunning
      /\ d.ProcsBlocked = e.ProcsBlocked /\ d.Duration = e.Duration
  <2>1. g.FileLocks = y.FileLocks  BY <1>3, SomeUncounted DEF Alike
  <2>2. g.Timestamp = y.Timestamp /\ h.Timestamp = z.Timestamp  BY <1>3 DEF Alike
  <2> QED  BY <1>2, <1>3, <2>1, <2>2 DEF WholeFields, Alike
<1>9. d.ContextSwitches = e.ContextSwitches /\ d.ProcessesCreated = e.ProcessesCreated
  <2>1. /\ h.CPU.ContextSwitches \in Nat /\ w.CPU.ContextSwitches \in Nat
        /\ h.CPU.ProcessesCreated \in Nat /\ w.CPU.ProcessesCreated \in Nat
    BY DEF IsHost
  <2>2. \A x, n \in Nat : DiffUint64(x + n, x) = DiffUint64(0 + n, 0)  BY DEF DiffUint64
  <2>3. /\ d.ContextSwitches = DiffUint64(h.CPU.ContextSwitches + w.CPU.ContextSwitches,
                                          h.CPU.ContextSwitches)
        /\ e.ContextSwitches = DiffUint64(0 + w.CPU.ContextSwitches, 0)
        /\ d.ProcessesCreated = DiffUint64(h.CPU.ProcessesCreated + w.CPU.ProcessesCreated,
                                           h.CPU.ProcessesCreated)
        /\ e.ProcessesCreated = DiffUint64(0 + w.CPU.ProcessesCreated, 0)
    BY <1>2, <1>4, <1>5 DEF WholeFields
  <2> HIDE DEF w
  <2> QED  BY <2>1, <2>2, <2>3, Zenon
<1>10. d.TotalCPUUtil = e.TotalCPUUtil /\ d.PerCoreCPUUtil = e.PerCoreCPUUtil
  <2>1. /\ Counting(h.CPU.TotalCPU, DOMAIN CoreCPUStat)
        /\ Counting(w.CPU.TotalCPU, DOMAIN CoreCPUStat)
        /\ AllCounting(h.CPU.PerCore, DOMAIN CoreCPUStat)
        /\ AllCounting(w.CPU.PerCore, DOMAIN CoreCPUStat)
    BY DEF IsHost
  <2>2. /\ d.TotalCPUUtil = CalculateCoreUtil(h.CPU.TotalCPU, g.CPU.TotalCPU)
        /\ e.TotalCPUUtil = CalculateCoreUtil(z.CPU.TotalCPU, y.CPU.TotalCPU)
        /\ d.PerCoreCPUUtil = CalculatePerCoreUtil(h.CPU.PerCore, g.CPU.PerCore)
        /\ e.PerCoreCPUUtil = CalculatePerCoreUtil(z.CPU.PerCore, y.CPU.PerCore)
    BY <1>2 DEF WholeFields
  <2> HIDE DEF w
  <2>3. d.TotalCPUUtil = e.TotalCPUUtil  BY <1>4, <1>5, <2>1, <2>2, CoreForgets
  <2>4. d.PerCoreCPUUtil = e.PerCoreCPUUtil  BY <1>4, <1>5, <2>1, <2>2, CoresForget
  <2> QED  BY <2>3, <2>4
<1>11. d.VMStat = e.VMStat /\ d.NetStat = e.NetStat
  <2>1. /\ Counting(h.VMStat, DOMAIN VMStatInfo) /\ Counting(w.VMStat, DOMAIN VMStatInfo)
        /\ Counting(h.NetStat, DOMAIN NetStatInfo) /\ Counting(w.NetStat, DOMAIN NetStatInfo)
    BY DEF IsHost
  <2>2. /\ d.VMStat = CounterDiff(h.VMStat, g.VMStat, DOMAIN VMStatInfo)
        /\ e.VMStat = CounterDiff(z.VMStat, y.VMStat, DOMAIN VMStatInfo)
        /\ d.NetStat = CounterDiff(h.NetStat, g.NetStat, DOMAIN NetStatInfo)
        /\ e.NetStat = CounterDiff(z.NetStat, y.NetStat, DOMAIN NetStatInfo)
    BY <1>2 DEF WholeFields
  <2> HIDE DEF w
  <2> QED  BY <1>4, <1>5, <2>1, <2>2, RecordForgets
<1>12. d.Disks = e.Disks
  <2>1. AllCounting(h.DiskStats, DiskCounters) /\ AllCounting(w.DiskStats, DiskCounters)
    BY DEF IsHost
  <2>2. /\ d.Disks = CalculateDiskDiff(h.DiskStats, g.DiskStats, d.Duration)
        /\ e.Disks = CalculateDiskDiff(z.DiskStats, y.DiskStats, d.Duration)
    BY <1>2, <1>8 DEF WholeFields
  <2> HIDE DEF w
  <2> QED  BY <1>4, <1>5, <2>1, <2>2, DisksForget
<1>13. d.NetIfaces = e.NetIfaces
  <2>1. AllCounting(h.NetIfaces, IfaceCounters) /\ AllCounting(w.NetIfaces, IfaceCounters)
    BY DEF IsHost
  <2>2. /\ d.NetIfaces = CalculateNetIfacesDiff(h.NetIfaces, g.NetIfaces)
        /\ e.NetIfaces = CalculateNetIfacesDiff(z.NetIfaces, y.NetIfaces)
    BY <1>2 DEF WholeFields
  <2> HIDE DEF w
  <2> QED  BY <1>4, <1>5, <2>1, <2>2, IfacesForget
<1>14. d.Processes = e.Processes
  <2>1. AllCounting(h.Processes, ProcessCounters) /\ AllCounting(w.Processes, ProcessCounters)
    BY DEF IsHost
  <2>2. /\ d.Processes = CalculateProcessDiff(h.Processes, g.Processes, d.Duration)
        /\ e.Processes = CalculateProcessDiff(z.Processes, y.Processes, d.Duration)
    BY <1>2, <1>8 DEF WholeFields
  <2> HIDE DEF w
  <2> QED  BY <1>4, <1>5, <2>1, <2>2, ProcessesForget
<1>15. d.Cgroups = e.Cgroups
  <2> DEFINE a == ParseCgroups(h.Cgroups, h.Processes, paths)
             b == ParseCgroups(g.Cgroups, g.Processes, paths)
             c == ParseCgroups(z.Cgroups, z.Processes, paths)
             f == ParseCgroups(y.Cgroups, y.Processes, paths)
  <2>1. /\ DeltasInOrder(d.Cgroups, a.Groups, b.Groups, h.Cgroups, g.Cgroups, paths)
        /\ DeltasInOrder(e.Cgroups, c.Groups, f.Groups, z.Cgroups, y.Cgroups, paths)
    BY <1>2 DEF WholeFields
  <2>2. DOMAIN a.Groups = DOMAIN c.Groups /\ DOMAIN b.Groups = DOMAIN f.Groups
    BY <1>3, ParsedAlike DEF Alike
  <2>3. AllCounting(h.Cgroups, CgroupCounters) /\ AllCounting(w.Cgroups, CgroupCounters)
    BY DEF IsHost
  <2> HIDE DEF a, b, c, f, w
  <2>4. \A path \in DOMAIN h.Cgroups \cap DOMAIN g.Cgroups :
          CounterDiff(h.Cgroups[path], g.Cgroups[path], CgroupCounters)
            = CounterDiff(z.Cgroups[path], y.Cgroups[path], CgroupCounters)
    BY <1>4, <1>5, <2>3, FunctionForgets
  <2> QED  BY <2>1, <2>2, <2>4, DeltasInOrderAgree
<1>16. SameNumbers(d, e)
  BY <1>8, <1>9, <1>10, <1>11, <1>12, <1>13, <1>14 DEF SameNumbers
<1> QED  BY <1>6, <1>7, <1>8, <1>15, <1>16 DEF SameWindow

\* Samples with the same cgroups have the same medians of cgroups.
LEMMA SameCgroupMedians ==
  ASSUME NEW D, NEW E, DOMAIN D = DOMAIN E, Len(D) = Len(E), Len(D) \in DOMAIN D,
         \A i \in DOMAIN D : D[i].Cgroups = E[i].Cgroups
  PROVE  MedianCgroupDiffs(D) = MedianCgroupDiffs(E)
<1> DEFINE Groups(X, i) == {X[i].Cgroups[k] : k \in DOMAIN X[i].Cgroups}
           Of(X, i, path) == CHOOSE g \in Groups(X, i) : g.Path = path
           latest(X) == X[Len(X)].Cgroups
           kept(X) == {k \in DOMAIN latest(X) :
                 \A i \in DOMAIN X : \E g \in Groups(X, i) : g.Path = latest(X)[k].Path}
           counted == {"ThrottledUsec", "NrThrottled", "OOMKills", "MemoryHighEvents"}
           median(X, path) == MedianFields([i \in DOMAIN X |-> Of(X, i, path)], counted)
<1>1. ASSUME NEW X
      PROVE  MedianCgroupDiffs(X) = [k \in kept(X) |-> median(X, latest(X)[k].Path)]
  BY Zenon DEF MedianCgroupDiffs
<1>2. \A i \in DOMAIN D : Groups(D, i) = Groups(E, i)  OBVIOUS
<1>3. latest(D) = latest(E)  OBVIOUS
<1>4. ASSUME NEW path PROVE median(D, path) = median(E, path)
  <2> HIDE DEF Groups
  <2>1. \A i \in DOMAIN D : Of(D, i, path) = Of(E, i, path)  BY <1>2
  <2> HIDE DEF Of
  <2>2. [i \in DOMAIN D |-> Of(D, i, path)] = [i \in DOMAIN E |-> Of(E, i, path)]
    BY <2>1
  <2> QED  BY <2>2, Zenon
<1>5. kept(D) = kept(E)
  <2> HIDE DEF Groups, latest
  <2> QED  BY <1>2, <1>3
<1> HIDE DEF median, kept, latest
<1> QED  BY <1>1, <1>3, <1>4, <1>5

\* The totals since boot may be anything for these two rules.
LEMMA SinceBootRulesDiffer ==
  \A d, e : SinceBootPoorer(d, e, SinceBootRules)
BY DEF SinceBootPoorer, SinceBootRules

\* The same window finds the same, but for them.
LEMMA SameWindowFindsTheSame ==
  ASSUME NEW d, NEW e, SameNumbers(d, e), d.Cgroups = e.Cgroups, d.FileLocks = e.FileLocks,
         SameState(d.Latest, e.Latest), Numbers(e.Latest)
  PROVE  Fired(d) \subseteq Fired(e) \cup SinceBootRules
<1>1. CgroupsPoorer(d, e, SinceBootRules)  BY SameGroupsPoorer DEF SameNumbers
<1>2. FileLocksPoorer(d, e, SinceBootRules)  BY DEF FileLocksPoorer
<1>3. Poorer(d, e, SinceBootRules)
  BY <1>1, <1>2, SinceBootRulesDiffer, SamePoorer
<1> QED  BY <1>3, PoorerFindsLess

\* Sample by sample the window forgets, so the medians are of the same numbers.
LEMMA HistoryForgotten == DiagnosisInv => HistoryIsForgotten
<1> SUFFICES ASSUME DiagnosisInv, Undisturbed
             PROVE  fired \ SinceBootRules = Fired(MedianDiff(FreshDiffs)) \ SinceBootRules
  BY Zenon DEF HistoryIsForgotten
<1> DEFINE D == Diffs
           E == FreshDiffs
           m == MedianDiff(D)
           n == MedianDiff(E)
<1>0. windows # <<>> /\ pc = "report"  BY DEF Undisturbed
<1>1. /\ DOMAIN D = DOMAIN windows /\ Len(D) = Len(windows)
      /\ DOMAIN E = DOMAIN windows /\ Len(E) = Len(windows)
      /\ Len(windows) \in DOMAIN windows
  BY <1>0, DiffsAreListed
<1>2. ASSUME NEW k \in DOMAIN windows PROVE SameWindow(D[k], E[k])
  <2>1. D[k] = windows[k].diff /\ E[k] = windows[k].fresh  BY DEF Diffs, FreshDiffs
  <2>2. PICK h, t : /\ IsHost(h) /\ t \in Troubles /\ IsHost(Window[t])
                    /\ WholeDiff(windows[k].diff, h, Interval(t, h), order)
                    /\ WholeDiff(windows[k].fresh, Fresh(h), Interval(t, Fresh(h)), order)
    BY UndisturbedWindow
  <2> QED  BY <2>1, <2>2, WindowForgets
<1> HIDE DEF D, E
<1>3. SameAll(D, E)  BY <1>1, <1>2 DEF SameAll, SameWindow
<1>4. SameNumbers(m, n)  BY <1>3, SameMedians
<1>5. /\ m.Cgroups = n.Cgroups /\ m.FileLocks = n.FileLocks
      /\ SameState(m.Latest, n.Latest) /\ Numbers(m.Latest) /\ Numbers(n.Latest)
  <2> DEFINE last == Len(windows)
  <2>1. SameWindow(D[last], E[last]) /\ IsDiff(D[last]) /\ IsDiff(E[last])
    BY <1>1, <1>2 DEF SameWindow
  <2>2. CASE last = 1
    <3>1. m = D[1] /\ n = E[1]  BY <1>1, <2>2, MedianOfOne
    <3> HIDE DEF m, n
    <3> QED  BY <2>1, <2>2, <3>1 DEF SameWindow
  <2>3. CASE last # 1
    <3>1. /\ m.Cgroups = MedianCgroupDiffs(D) /\ n.Cgroups = MedianCgroupDiffs(E)
          /\ m.FileLocks = SystemSnapshot.FileLocks /\ n.FileLocks = SystemSnapshot.FileLocks
          /\ m.Latest = D[last].Latest /\ n.Latest = E[last].Latest
      BY <1>1, <2>1, <2>3, MedianDiffFields
    <3>2. MedianCgroupDiffs(D) = MedianCgroupDiffs(E)
      <4>1. \A i \in DOMAIN D : D[i].Cgroups = E[i].Cgroups  BY <1>1, <1>2 DEF SameWindow
      <4> QED  BY <1>1, <4>1, SameCgroupMedians
    <3> HIDE DEF m, n
    <3> QED  BY <2>1, <3>1, <3>2 DEF SameWindow
  <2> QED  BY <2>2, <2>3
<1> HIDE DEF m, n
<1>6. SameNumbers(n, m) /\ SameState(n.Latest, m.Latest)
  BY <1>4, <1>5 DEF SameNumbers, SameState
<1>7. Fired(m) \subseteq Fired(n) \cup SinceBootRules
  BY <1>4, <1>5, SameWindowFindsTheSame
<1>8. Fired(n) \subseteq Fired(m) \cup SinceBootRules
  BY <1>5, <1>6, SameWindowFindsTheSame
<1>9. fired = Fired(m)
  BY <1>0, Zenon DEF DiagnosisInv, ReportIsOfMedian, D, m
<1> QED  BY <1>7, <1>8, <1>9 DEF E, n

\* In every reachable report of an undisturbed run, what the host counted before
\* the first snapshot decides no finding but those of the two rules on totals since
\* boot: DiffSnapshots, MedianDiff and 170 of the 172 rules forget it.
THEOREM DiagnosisHistoryForgotten == Spec => []HistoryIsForgotten
BY DiagnosisInvariant, HistoryForgotten, PTL

-----------------------------------------------------------------------------
(***************************************************************************)
(* Readings that failed.                                                   *)
(***************************************************************************)

\* The kinds of readings, with and without a name.
LEMMA Kinds ==
  /\ \A s : Kind(<<s>>) = <<s>>
  /\ \A s, f : Kind(<<s, f>>) = <<s, f>>
  /\ \A s, f, x : Kind(<<s, f, x>>) = <<s, f>>
BY SMT DEF Kind

\* The rules that may find something in what `lost' leaves, by the reading that failed.
MisledRules(lost) ==
  /\ <<"PIDMax">> \in lost => "CONT_PID_EXHAUSTION" \in Misled(lost)
  /\ <<"PortRange">> \in lost => "CONT_TIMEWAIT_PORT_EXHAUSTION" \in Misled(lost)
  /\ <<"SchedMigrationCostNS">> \in lost \/ <<"SystemConfig">> \in lost =>
       "CONT_SCHED_MIGRATION_COST_OVERHEAD" \in Misled(lost)
  /\ <<"Inotify", "max_queued_events">> \in lost => "EDGE_INOTIFY_QUEUE_OVERFLOW" \in Misled(lost)
  /\ <<"Neighbor", "gc_thresh3">> \in lost => NeighborRules \subseteq Misled(lost)
MisledByNamed(lost, x) ==
  /\ <<"CPUFreq", "scaling_cur_freq", x>> \in lost => FrequencyRules \subseteq Misled(lost)
  /\ <<"Thermal", "entry", x>> \in lost => "EDGE_SYSFS_POWER_THROTTLE_EVENT" \in Misled(lost)
  /\ <<"TCPSockets", "entry", x>> \in lost => "CONT_TCP_CLOSE_WAIT_LEAK" \in Misled(lost)
  /\ <<"NetIfaces", "OperState", x>> \in lost => "EDGE_NET_IFACE_CARRIER_FLAP" \in Misled(lost)
  /\ <<"DiskStats", "rotational", x>> \in lost => "EDGE_IO_SCHEDULER_MISMATCH" \in Misled(lost)
  /\ <<"Processes", "status", x>> \in lost => "CONT_RUNAWAY_CPU_PROCESS" \in Misled(lost)
  /\ \/ <<"Cgroups", "memory_events", x>> \in lost \/ <<"Cgroups", "entry", x>> \in lost
     \/ <<"Processes", "cgroup", x>> \in lost \/ <<"Processes", "entry", x>> \in lost
     => "EDGE_MEMCG_SOCK_MEMORY_THROTTLE" \in Misled(lost)

LEMMA ReadingsMislead ==
  ASSUME NEW lost
  PROVE  MisledRules(lost) /\ \A x : MisledByNamed(lost, x)
<1>1. ASSUME NEW id \in DOMAIN MisledBy, NEW reading \in lost, Kind(reading) \in MisledBy[id]
      PROVE  id \in Misled(lost)
  BY <1>1 DEF Misled
<1>2. /\ {"CONT_PID_EXHAUSTION", "CONT_TIMEWAIT_PORT_EXHAUSTION",
          "CONT_SCHED_MIGRATION_COST_OVERHEAD", "EDGE_INOTIFY_QUEUE_OVERFLOW",
          "EDGE_NET_IFACE_CARRIER_FLAP", "EDGE_IO_SCHEDULER_MISMATCH", "CONT_RUNAWAY_CPU_PROCESS",
          "EDGE_MEMCG_SOCK_MEMORY_THROTTLE", "EDGE_SYSFS_POWER_THROTTLE_EVENT",
          "CONT_TCP_CLOSE_WAIT_LEAK"} \subseteq DOMAIN MisledBy
      /\ NeighborRules \subseteq DOMAIN MisledBy /\ FrequencyRules \subseteq DOMAIN MisledBy
  BY SMT DEF MisledBy, NeighborRules, FrequencyRules
<1>3. /\ <<"PIDMax">> \in MisledBy["CONT_PID_EXHAUSTION"]
      /\ <<"PortRange">> \in MisledBy["CONT_TIMEWAIT_PORT_EXHAUSTION"]
      /\ <<"SchedMigrationCostNS">> \in MisledBy["CONT_SCHED_MIGRATION_COST_OVERHEAD"]
      /\ <<"SystemConfig">> \in MisledBy["CONT_SCHED_MIGRATION_COST_OVERHEAD"]
      /\ <<"Inotify", "max_queued_events">> \in MisledBy["EDGE_INOTIFY_QUEUE_OVERFLOW"]
      /\ \A id \in NeighborRules : <<"Neighbor", "gc_thresh3">> \in MisledBy[id]
      /\ \A id \in FrequencyRules : <<"CPUFreq", "scaling_cur_freq">> \in MisledBy[id]
  BY SMT DEF MisledBy, NeighborRules, FrequencyRules
<1>4. /\ <<"Thermal", "entry">> \in MisledBy["EDGE_SYSFS_POWER_THROTTLE_EVENT"]
      /\ <<"TCPSockets", "entry">> \in MisledBy["CONT_TCP_CLOSE_WAIT_LEAK"]
      /\ <<"NetIfaces", "OperState">> \in MisledBy["EDGE_NET_IFACE_CARRIER_FLAP"]
      /\ <<"DiskStats", "rotational">> \in MisledBy["EDGE_IO_SCHEDULER_MISMATCH"]
      /\ <<"Processes", "status">> \in MisledBy["CONT_RUNAWAY_CPU_PROCESS"]
  BY SMT DEF MisledBy
<1>5. {<<"Cgroups", "memory_events">>, <<"Cgroups", "entry">>, <<"Processes", "cgroup">>,
       <<"Processes", "entry">>} \subseteq MisledBy["EDGE_MEMCG_SOCK_MEMORY_THROTTLE"]
  BY SMT DEF MisledBy
<1> HIDE DEF MisledBy
<1>6. MisledRules(lost)
  <2>1. /\ <<"PIDMax">> \in lost => "CONT_PID_EXHAUSTION" \in Misled(lost)
        /\ <<"PortRange">> \in lost => "CONT_TIMEWAIT_PORT_EXHAUSTION" \in Misled(lost)
    BY <1>1, <1>2, <1>3, Kinds
  <2>2. /\ <<"SchedMigrationCostNS">> \in lost
             => "CONT_SCHED_MIGRATION_COST_OVERHEAD" \in Misled(lost)
        /\ <<"SystemConfig">> \in lost
             => "CONT_SCHED_MIGRATION_COST_OVERHEAD" \in Misled(lost)
    BY <1>1, <1>2, <1>3, Kinds
  <2>3. /\ <<"Inotify", "max_queued_events">> \in lost
             => "EDGE_INOTIFY_QUEUE_OVERFLOW" \in Misled(lost)
        /\ <<"Neighbor", "gc_thresh3">> \in lost => NeighborRules \subseteq Misled(lost)
    BY <1>1, <1>2, <1>3, Kinds
  <2> QED  BY <2>1, <2>2, <2>3 DEF MisledRules
<1>7. ASSUME NEW x PROVE MisledByNamed(lost, x)
  <2>1. /\ <<"CPUFreq", "scaling_cur_freq", x>> \in lost => FrequencyRules \subseteq Misled(lost)
        /\ <<"Thermal", "entry", x>> \in lost
             => "EDGE_SYSFS_POWER_THROTTLE_EVENT" \in Misled(lost)
        /\ <<"TCPSockets", "entry", x>> \in lost => "CONT_TCP_CLOSE_WAIT_LEAK" \in Misled(lost)
    BY <1>1, <1>2, <1>3, <1>4, Kinds
  <2>2. /\ <<"NetIfaces", "OperState", x>> \in lost
             => "EDGE_NET_IFACE_CARRIER_FLAP" \in Misled(lost)
        /\ <<"DiskStats", "rotational", x>> \in lost
             => "EDGE_IO_SCHEDULER_MISMATCH" \in Misled(lost)
        /\ <<"Processes", "status", x>> \in lost => "CONT_RUNAWAY_CPU_PROCESS" \in Misled(lost)
    BY <1>1, <1>2, <1>4, Kinds
  <2>3. \/ <<"Cgroups", "memory_events", x>> \in lost \/ <<"Cgroups", "entry", x>> \in lost
        \/ <<"Processes", "cgroup", x>> \in lost \/ <<"Processes", "entry", x>> \in lost
        => "EDGE_MEMCG_SOCK_MEMORY_THROTTLE" \in Misled(lost)
    BY <1>1, <1>2, <1>5, Kinds
  <2> QED  BY <2>1, <2>2, <2>3 DEF MisledByNamed
<1> QED  BY <1>6, <1>7

\* Two snapshots that may lack readings; no baseline is missing from the first alone.
Partial(h, g, A, B) ==
  /\ IsHost(h) /\ IsHost(g) /\ ~Fatal(A) /\ ~Fatal(B)
  /\ \A reading \in A \ B : Kind(reading) \notin Baselines
PartialDiff(d, h, g, A, B, paths) ==
  /\ Partial(h, g, A, B)
  /\ d = DiffSnapshots(CollectSnapshot(h, A, paths), CollectSnapshot(g, B, paths))

\* The baselines that only the first snapshot lacks, by name.
LEMMA BaselinesRead ==
  ASSUME NEW h, NEW g, NEW A, NEW B, Partial(h, g, A, B)
  PROVE  /\ <<"VMStat">> \notin A \ B /\ <<"NetStat">> \notin A \ B
         /\ <<"Processes">> \notin A \ B
         /\ \A file \in DOMAIN Files.NetStat : <<"NetStat", file>> \notin A \ B
         /\ \A x : /\ <<"Processes", "entry", x>> \notin A \ B
                   /\ <<"Processes", "io", x>> \notin A \ B
                   /\ <<"Processes", "status", x>> \notin A \ B
                   /\ <<"Cgroups", "cpu_stat", x>> \notin A \ B
                   /\ <<"Cgroups", "memory_events", x>> \notin A \ B
                   /\ \A file \in IfaceCounters : <<"NetIfaces", file, x>> \notin A \ B
<1>1. \A reading \in A \ B : Kind(reading) \notin Baselines  BY DEF Partial
<1>2. /\ {<<"VMStat">>, <<"NetStat">>, <<"Processes">>, <<"Processes", "entry">>,
          <<"Processes", "io">>, <<"Processes", "status">>,
          <<"Cgroups", "cpu_stat">>, <<"Cgroups", "memory_events">>} \subseteq Baselines
      /\ \A file \in DOMAIN Files.NetStat : <<"NetStat", file>> \in Baselines
      /\ \A file \in IfaceCounters : <<"NetIfaces", file>> \in Baselines
  BY DEF Baselines
<1> HIDE DEF Baselines
<1>3. <<"VMStat">> \notin A \ B /\ <<"NetStat">> \notin A \ B /\ <<"Processes">> \notin A \ B
  BY <1>1, <1>2, Kinds
<1>4. \A file \in DOMAIN Files.NetStat : <<"NetStat", file>> \notin A \ B
  BY <1>1, <1>2, Kinds
<1>5. ASSUME NEW x
      PROVE  /\ <<"Processes", "entry", x>> \notin A \ B /\ <<"Processes", "io", x>> \notin A \ B
             /\ <<"Processes", "status", x>> \notin A \ B
             /\ <<"Cgroups", "cpu_stat", x>> \notin A \ B
             /\ <<"Cgroups", "memory_events", x>> \notin A \ B
             /\ \A file \in IfaceCounters : <<"NetIfaces", file, x>> \notin A \ B
  BY <1>1, <1>2, Kinds
<1> QED  BY <1>3, <1>4, <1>5

\* The fields of such a diff.
PartialFieldsOf(d, a, b, h, g, A, B, paths) ==
  /\ d.Latest = b /\ d.FileLocks = b.FileLocks
  /\ d.Duration = IF g.Timestamp - h.Timestamp <= 0 THEN 1 ELSE g.Timestamp - h.Timestamp
  /\ d.ProcsRunning = g.CPU.ProcsRunning /\ d.ProcsBlocked = g.CPU.ProcsBlocked
  /\ d.ContextSwitches = DiffUint64(g.CPU.ContextSwitches, h.CPU.ContextSwitches)
  /\ d.ProcessesCreated = DiffUint64(g.CPU.ProcessesCreated, h.CPU.ProcessesCreated)
  /\ d.TotalCPUUtil = CalculateCoreUtil(h.CPU.TotalCPU, g.CPU.TotalCPU)
  /\ d.PerCoreCPUUtil = CalculatePerCoreUtil(h.CPU.PerCore, g.CPU.PerCore)
  /\ d.VMStat = CounterDiff(a.VMStat, b.VMStat, DOMAIN VMStatInfo)
  /\ d.NetStat = CounterDiff(a.NetStat, b.NetStat, DOMAIN NetStatInfo)
  /\ d.Disks = CalculateDiskDiff(a.DiskStats, b.DiskStats, d.Duration)
  /\ d.NetIfaces = CalculateNetIfacesDiff(a.NetIfaces, b.NetIfaces)
  /\ d.Processes = CalculateProcessDiff(a.Processes, b.Processes, d.Duration)
  /\ DeltasInOrder(d.Cgroups, a.Cgroups.Groups, b.Cgroups.Groups,
                   ReadEntries("Cgroups", h.Cgroups, A), ReadEntries("Cgroups", g.Cgroups, B), paths)

LEMMA PartialFields ==
  ASSUME NEW d, NEW h, NEW g, NEW A, NEW B, NEW paths, PartialDiff(d, h, g, A, B, paths),
         NEW a, a = CollectSnapshot(h, A, paths), NEW b, b = CollectSnapshot(g, B, paths)
  PROVE  /\ SnapshotOf(a, h, A, paths) /\ SnapshotOf(b, g, B, paths)
         /\ PartialFieldsOf(d, a, b, h, g, A, B, paths)
<1> DEFINE dirA == ReadEntries("Cgroups", h.Cgroups, A)
           dirB == ReadEntries("Cgroups", g.Cgroups, B)
<1>1. IsHost(h) /\ IsHost(g) /\ ~Fatal(A) /\ ~Fatal(B)  BY DEF PartialDiff, Partial
<1>2. SnapshotOf(a, h, A, paths) /\ SnapshotOf(b, g, B, paths)  BY <1>1, SnapshotFields
<1>3. d = DiffSnapshots(a, b)  BY DEF PartialDiff
<1>4. /\ Directory(dirA) /\ Listing(a.Cgroups.Groups, dirA, paths)
      /\ Directory(dirB) /\ Listing(b.Cgroups.Groups, dirB, paths)
  BY <1>1, SnapshotListing
<1>5. h.Timestamp \in Nat /\ g.Timestamp \in Nat  BY <1>1 DEF IsHost
<1>6. /\ a.Timestamp = h.Timestamp /\ b.Timestamp = g.Timestamp
      /\ a.Timestamp \in Nat /\ b.Timestamp \in Nat /\ a.CPU = h.CPU /\ b.CPU = g.CPU
  BY <1>2, <1>5 DEF SnapshotOf
<1> HIDE DEF dirA, dirB
<1>7. /\ d.Duration = IF g.Timestamp - h.Timestamp <= 0 THEN 1
                      ELSE g.Timestamp - h.Timestamp
      /\ d.ProcsRunning = g.CPU.ProcsRunning /\ d.ProcsBlocked = g.CPU.ProcsBlocked
      /\ d.FileLocks = b.FileLocks /\ d.Latest = b
      /\ d.ContextSwitches = DiffUint64(g.CPU.ContextSwitches, h.CPU.ContextSwitches)
      /\ d.ProcessesCreated = DiffUint64(g.CPU.ProcessesCreated, h.CPU.ProcessesCreated)
      /\ d.TotalCPUUtil = CalculateCoreUtil(h.CPU.TotalCPU, g.CPU.TotalCPU)
      /\ d.PerCoreCPUUtil = CalculatePerCoreUtil(h.CPU.PerCore, g.CPU.PerCore)
  BY <1>3, <1>6, DiffFields
<1>8. /\ d.VMStat = CounterDiff(a.VMStat, b.VMStat, DOMAIN VMStatInfo)
      /\ d.NetStat = CounterDiff(a.NetStat, b.NetStat, DOMAIN NetStatInfo)
      /\ d.Disks = CalculateDiskDiff(a.DiskStats, b.DiskStats, d.Duration)
      /\ d.NetIfaces = CalculateNetIfacesDiff(a.NetIfaces, b.NetIfaces)
      /\ d.Processes = CalculateProcessDiff(a.Processes, b.Processes, d.Duration)
      /\ d.Cgroups = CalculateCgroupDiff(a.Cgroups.Groups, b.Cgroups.Groups)
  BY <1>3, <1>6, DiffFields
<1>9. DeltasInOrder(d.Cgroups, a.Cgroups.Groups, b.Cgroups.Groups, dirA, dirB, paths)
  BY <1>4, <1>8, CgroupDiffListed
<1> QED  BY <1>2, <1>7, <1>8, <1>9 DEF PartialFieldsOf, dirA, dirB

-----------------------------------------------------------------------------
(***************************************************************************)
(* Records of which a file may be missing.                                 *)
(***************************************************************************)

\* No field is in two files of a source.
Disjoint(files) ==
  \A file, other \in DOMAIN files : \A k \in files[file] : k \in files[other] => file = other

LEMMA FilesDisjoint == \A source \in DOMAIN Files : Disjoint(Files[source])
<1>1. DOMAIN Files =
        {"PSI", "NetStat", "KSM", "SysVSem", "SysVShm", "AIO", "Neighbor", "Inotify",
         "DiskStats", "NetIfaces", "Processes", "Cgroups", "CPUFreq"}
  BY SMT DEF Files
<1>2. Disjoint(Files.PSI) /\ Disjoint(Files.KSM) /\ Disjoint(Files.SysVSem)
  BY SMT DEF Files, Disjoint
<1>3. Disjoint(Files.SysVShm) /\ Disjoint(Files.AIO) /\ Disjoint(Files.Neighbor)
  BY SMT DEF Files, Disjoint
<1>4. Disjoint(Files.Inotify) /\ Disjoint(Files.DiskStats)
  BY SMT DEF Files, Disjoint
<1>5. Disjoint(Files.NetIfaces)  BY SMT DEF Files, Disjoint
<1>6. Disjoint(Files.Processes)  BY SMT DEF Files, Disjoint
<1>7. Disjoint(Files.Cgroups) /\ Disjoint(Files.CPUFreq)  BY SMT DEF Files, Disjoint
<1>8. Disjoint(Files.NetStat)
  BY SMT DEF Files, Disjoint, SNMPCounters, SNMPIPCounters, SoftnetCounters
<1> HIDE DEF Files, Disjoint
<1> QED  BY <1>1, <1>2, <1>3, <1>4, <1>5, <1>6, <1>7, <1>8

\* So a field is missing when its file is, and never when it is in none of them.
LEMMA FieldMissing ==
  ASSUME NEW source \in DOMAIN Files, NEW file \in DOMAIN Files[source],
         NEW k \in Files[source][file], NEW lost, NEW x
  PROVE  /\ k \in MissingOf(source, x, lost) <=> <<source, file, x>> \in lost
         /\ k \in Missing(source, lost) <=> <<source, file>> \in lost
<1>1. \A other \in DOMAIN Files[source] : k \in Files[source][other] => file = other
  BY FilesDisjoint DEF Disjoint
<1> QED  BY <1>1 DEF MissingOf, Missing

LEMMA FieldOfNoFile ==
  ASSUME NEW source, NEW k, \A file \in DOMAIN Files[source] : k \notin Files[source][file],
         NEW lost, NEW x
  PROVE  k \notin MissingOf(source, x, lost) /\ k \notin Missing(source, lost)
BY DEF MissingOf, Missing

\* What a failed file leaves of the field k of one record p, where q has everything.
FieldInPart(p, q, k, missing, blank) == p[k] = IF k \in missing THEN blank[k] ELSE q[k]

\* The delta of one device: of what the newer snapshot lacks, nothing; of what only the
\* older one lacks, anything; otherwise it is the whole delta, or there is none because
\* the older one lacks the device.
DeltaInPart(p, q, k, source, x, A, B, counters) ==
  \/ k \in MissingOf(source, x, B) /\ p[k] = Blank[source][k]
  \/ k \notin MissingOf(source, x, B) /\ p[k] = q[k]
  \/ k \in counters /\ k \in MissingOf(source, x, A \ B)
  \/ /\ k \in counters /\ p[k] = 0
     /\ <<source>> \in A \ B \/ <<source, "entry", x>> \in A \ B

LEMMA PartDelta ==
  ASSUME NEW f, NEW g, NEW counters, AllCounting(f, counters), AllCounting(g, counters),
         NEW source, \A k \in counters : Blank[source][k] = 0, NEW A, NEW B,
         NEW a, ReadInPart(a, f, source, A), NEW b, ReadInPart(b, g, source, B),
         NEW x \in DOMAIN b,
         NEW p, p = CounterDiff(IF x \in DOMAIN a THEN a[x] ELSE b[x], b[x], counters),
         NEW q, q = CounterDiff(IF x \in DOMAIN f THEN f[x] ELSE g[x], g[x], counters)
  PROVE  /\ x \in DOMAIN g
         /\ \A k \in DOMAIN g[x] : DeltaInPart(p, q, k, source, x, A, B, counters)
<1>1. /\ AllCounting(a, counters) /\ AllCounting(b, counters)
      /\ DOMAIN a \subseteq DOMAIN f /\ DOMAIN b \subseteq DOMAIN g
      /\ x \in DOMAIN a => \A k \in counters :
                             a[x][k] = IF k \in MissingOf(source, x, A) THEN 0 ELSE f[x][k]
      /\ \A k \in counters : b[x][k] = IF k \in MissingOf(source, x, B) THEN 0 ELSE g[x][k]
  BY PartCounting
<1>2. x \in DOMAIN g  BY <1>1
<1>3. RecordInPart(b[x], g[x], MissingOf(source, x, B), Blank[source])  BY DEF ReadInPart
<1>4. x \in DOMAIN f /\ x \notin DOMAIN a => <<source>> \in A \/ <<source, "entry", x>> \in A
  BY DEF ReadInPart, Seen
<1>5. <<source>> \notin B /\ <<source, "entry", x>> \notin B  BY DEF ReadInPart, Seen
<1>6. Counting(b[x], counters) /\ Counting(g[x], counters)
  BY <1>1, <1>2 DEF AllCounting
<1> SUFFICES ASSUME NEW k \in DOMAIN g[x]
             PROVE  DeltaInPart(p, q, k, source, x, A, B, counters)
  BY <1>2
<1>7. k \in DOMAIN b[x]  BY <1>3 DEF RecordInPart
<1>8. CASE k \notin counters
  <2>1. p[k] = b[x][k] /\ q[k] = g[x][k]  BY <1>7, <1>8 DEF CounterDiff
  <2>2. b[x][k] = IF k \in MissingOf(source, x, B) THEN Blank[source][k] ELSE g[x][k]
    BY <1>3 DEF RecordInPart
  <2> QED  BY <2>1, <2>2 DEF DeltaInPart
<1>9. CASE k \in counters /\ x \in DOMAIN a
  <2>1. x \in DOMAIN f  BY <1>1, <1>9
  <2>2. p[k] = DiffUint64(b[x][k], a[x][k]) /\ q[k] = DiffUint64(g[x][k], f[x][k])
    BY <1>7, <1>9, <2>1 DEF CounterDiff
  <2>3. a[x][k] \in Nat  BY <1>1, <1>9 DEF AllCounting, Counting
  <2>4. CASE k \in MissingOf(source, x, B)
    <3>1. b[x][k] = 0 /\ Blank[source][k] = 0  BY <1>1, <1>9, <2>4
    <3>2. p[k] = 0  BY <2>2, <2>3, <3>1, DiffUint64Nat
    <3> QED  BY <2>4, <3>1, <3>2 DEF DeltaInPart
  <2>5. CASE k \notin MissingOf(source, x, B) /\ k \in MissingOf(source, x, A)
    <3>1. k \in MissingOf(source, x, A \ B)  BY <2>5, StillMissing
    <3> QED  BY <1>9, <3>1 DEF DeltaInPart
  <2>6. CASE k \notin MissingOf(source, x, B) /\ k \notin MissingOf(source, x, A)
    <3>1. b[x][k] = g[x][k] /\ a[x][k] = f[x][k]  BY <1>1, <1>9, <2>6
    <3> QED  BY <2>2, <2>6, <3>1 DEF DeltaInPart
  <2> QED  BY <2>4, <2>5, <2>6
<1>10. CASE k \in counters /\ x \notin DOMAIN a
  <2>1. p[k] = 0
    <3>1. p = CounterDiff(b[x], b[x], counters)  BY <1>10
    <3> QED  BY <1>6, <1>10, <3>1, SameRecord
  <2>2. CASE x \in DOMAIN f  BY <1>4, <1>5, <1>10, <2>1, <2>2 DEF DeltaInPart
  <2>3. CASE x \notin DOMAIN f
    <3>1. q = CounterDiff(g[x], g[x], counters)  BY <2>3
    <3>2. q[k] = 0  BY <1>6, <1>10, <3>1, SameRecord
    <3>3. Blank[source][k] = 0  BY <1>10
    <3> QED  BY <2>1, <3>2, <3>3 DEF DeltaInPart
  <2> QED  BY <2>2, <2>3
<1> QED  BY <1>8, <1>9, <1>10

\* The deltas of all devices.
DeltasInPart(f, g, a, b, counters, source, A, B) ==
  \A x \in DOMAIN b :
    /\ x \in DOMAIN g
    /\ \A k \in DOMAIN g[x] :
         DeltaInPart(CounterDiff(IF x \in DOMAIN a THEN a[x] ELSE b[x], b[x], counters),
                     CounterDiff(IF x \in DOMAIN f THEN f[x] ELSE g[x], g[x], counters),
                     k, source, x, A, B, counters)

LEMMA PartDeltas ==
  ASSUME NEW f, NEW g, NEW counters, AllCounting(f, counters), AllCounting(g, counters),
         NEW source, \A k \in counters : Blank[source][k] = 0, NEW A, NEW B,
         NEW a, ReadInPart(a, f, source, A), NEW b, ReadInPart(b, g, source, B)
  PROVE  DeltasInPart(f, g, a, b, counters, source, A, B)
<1> SUFFICES ASSUME NEW x \in DOMAIN b
             PROVE  /\ x \in DOMAIN g
                    /\ \A k \in DOMAIN g[x] :
                         DeltaInPart(CounterDiff(IF x \in DOMAIN a THEN a[x] ELSE b[x], b[x], counters),
                                     CounterDiff(IF x \in DOMAIN f THEN f[x] ELSE g[x], g[x], counters),
                                     k, source, x, A, B, counters)
  BY DEF DeltasInPart
<1> QED  BY PartDelta

-----------------------------------------------------------------------------
(***************************************************************************)
(* The deltas of a partial diff, source by source.                         *)
(***************************************************************************)

\* The counters without names.
LEMMA PartialVMStat ==
  ASSUME NEW d, NEW h, NEW g, NEW A, NEW B, NEW paths, PartialDiff(d, h, g, A, B, paths),
         NEW e, WholeFields(e, h, g, paths)
  PROVE  VMStatPoorer(d, e)
<1> DEFINE a == CollectSnapshot(h, A, paths)
           b == CollectSnapshot(g, B, paths)
<1>1. /\ IsHost(h) /\ <<"VMStat">> \notin A \ B
      /\ SnapshotOf(a, h, A, paths) /\ SnapshotOf(b, g, B, paths)
      /\ PartialFieldsOf(d, a, b, h, g, A, B, paths)
  BY PartialFields, BaselinesRead DEF PartialDiff, Partial
<1> HIDE DEF a, b
<1>2. d.VMStat = CounterDiff(a.VMStat, b.VMStat, DOMAIN VMStatInfo)
  BY <1>1 DEF PartialFieldsOf
<1>3. /\ a.VMStat = IF <<"VMStat">> \in A THEN VMStatInfo ELSE h.VMStat
      /\ b.VMStat = IF <<"VMStat">> \in B THEN VMStatInfo ELSE g.VMStat
  BY <1>1 DEF SnapshotOf
<1>4. Counting(h.VMStat, DOMAIN VMStatInfo)  BY <1>1 DEF IsHost
<1>5. CASE <<"VMStat">> \in B
  <2>1. ASSUME NEW k \in DOMAIN VMStatInfo PROVE d.VMStat[k] = 0
    <3>1. a.VMStat[k] \in Nat  BY <1>3, <1>4, BlankCounters DEF Counting
    <3>2. b.VMStat[k] = 0 /\ k \in DOMAIN b.VMStat  BY <1>3, <1>5, BlankCounters
    <3> QED  BY <1>2, <3>1, <3>2, CounterDelta, DiffUint64Nat
  <2> QED  BY <2>1 DEF VMStatPoorer
<1>6. CASE <<"VMStat">> \notin B
  <2>1. a.VMStat = h.VMStat /\ b.VMStat = g.VMStat  BY <1>1, <1>3, <1>6
  <2> QED  BY <1>2, <2>1 DEF WholeFields, VMStatPoorer
<1> QED  BY <1>5, <1>6

LEMMA PartialNetStat ==
  ASSUME NEW d, NEW h, NEW g, NEW A, NEW B, NEW paths, PartialDiff(d, h, g, A, B, paths),
         NEW e, WholeFields(e, h, g, paths)
  PROVE  NetStatPoorer(d, e)
<1> DEFINE a == CollectSnapshot(h, A, paths)
           b == CollectSnapshot(g, B, paths)
           m(lost) == Missing("NetStat", lost)
<1>1. /\ IsHost(h) /\ IsHost(g) /\ <<"NetStat">> \notin A \ B
      /\ \A file \in DOMAIN Files.NetStat : <<"NetStat", file>> \notin A \ B
      /\ SnapshotOf(a, h, A, paths) /\ SnapshotOf(b, g, B, paths)
      /\ PartialFieldsOf(d, a, b, h, g, A, B, paths)
  BY PartialFields, BaselinesRead DEF PartialDiff, Partial
<1> HIDE DEF a, b
<1>2. /\ d.NetStat = CounterDiff(a.NetStat, b.NetStat, DOMAIN NetStatInfo)
      /\ e.NetStat = CounterDiff(h.NetStat, g.NetStat, DOMAIN NetStatInfo)
  BY <1>1 DEF PartialFieldsOf, WholeFields
<1>3. Counting(h.NetStat, DOMAIN NetStatInfo) /\ Counting(g.NetStat, DOMAIN NetStatInfo)
  BY <1>1 DEF IsHost
<1>4. ASSUME NEW k \in DOMAIN NetStatInfo
      PROVE  /\ a.NetStat[k] = IF <<"NetStat">> \in A \/ k \in m(A) THEN 0 ELSE h.NetStat[k]
             /\ b.NetStat[k] = IF <<"NetStat">> \in B \/ k \in m(B) THEN 0 ELSE g.NetStat[k]
             /\ k \in DOMAIN b.NetStat
  <2>1. k \in DOMAIN h.NetStat /\ k \in DOMAIN g.NetStat /\ NetStatInfo[k] = 0
    BY <1>3, BlankCounters DEF Counting
  <2>2. a.NetStat[k] = IF <<"NetStat">> \in A \/ k \in m(A) THEN 0 ELSE h.NetStat[k]
    BY <1>1, <2>1 DEF SnapshotOf, RecordInPart
  <2>3. /\ b.NetStat[k] = IF <<"NetStat">> \in B \/ k \in m(B) THEN 0 ELSE g.NetStat[k]
        /\ k \in DOMAIN b.NetStat
    BY <1>1, <2>1 DEF SnapshotOf, RecordInPart
  <2> QED  BY <2>2, <2>3
<1>5. ASSUME NEW file \in DOMAIN Files.NetStat, Files.NetStat[file] \subseteq DOMAIN NetStatInfo
      PROVE  AllOrZero(d.NetStat, e.NetStat, Files.NetStat[file])
  <2>1. "NetStat" \in DOMAIN Files  BY BlankSources
  <2>2. ASSUME NEW k \in Files.NetStat[file]
        PROVE  /\ k \in m(A) <=> <<"NetStat", file>> \in A
               /\ k \in m(B) <=> <<"NetStat", file>> \in B
    BY <2>1, FieldMissing
  <2> HIDE DEF m
  <2>3. CASE <<"NetStat">> \in B \/ <<"NetStat", file>> \in B
    <3>1. ASSUME NEW k \in Files.NetStat[file] PROVE d.NetStat[k] = 0
      <4>1. k \in DOMAIN NetStatInfo  BY <1>5
      <4>2. a.NetStat[k] \in Nat  BY <1>3, <1>4, <4>1 DEF Counting
      <4>3. b.NetStat[k] = 0 /\ k \in DOMAIN b.NetStat  BY <1>4, <2>2, <2>3, <4>1
      <4> QED  BY <1>2, <4>1, <4>2, <4>3, CounterDelta, DiffUint64Nat
    <3> QED  BY <3>1 DEF AllOrZero
  <2>4. CASE <<"NetStat">> \notin B /\ <<"NetStat", file>> \notin B
    <3>1. <<"NetStat">> \notin A /\ <<"NetStat", file>> \notin A  BY <1>1, <2>4
    <3>2. ASSUME NEW k \in Files.NetStat[file] PROVE d.NetStat[k] = e.NetStat[k]
      <4>1. k \in DOMAIN NetStatInfo  BY <1>5
      <4>2. a.NetStat[k] = h.NetStat[k] /\ b.NetStat[k] = g.NetStat[k]
        BY <1>4, <2>2, <2>4, <3>1, <4>1
      <4>3. k \in DOMAIN b.NetStat /\ k \in DOMAIN g.NetStat  BY <1>3, <1>4, <4>1 DEF Counting
      <4> QED  BY <1>2, <4>1, <4>2, <4>3, CounterDelta
    <3> QED  BY <3>2 DEF AllOrZero
  <2> QED  BY <2>3, <2>4
<1>6. /\ {"netstat", "snmp", "snmp_ip", "softnet_stat"} \subseteq DOMAIN Files.NetStat
      /\ Files.NetStat["netstat"] = NetstatCounters /\ Files.NetStat["snmp"] = SNMPCounters
      /\ Files.NetStat["snmp_ip"] = SNMPIPCounters
      /\ Files.NetStat["softnet_stat"] = SoftnetCounters
  BY SMT DEF Files, NetstatCounters
<1>7. /\ NetstatCounters \subseteq DOMAIN NetStatInfo /\ SNMPCounters \subseteq DOMAIN NetStatInfo
      /\ SNMPIPCounters \subseteq DOMAIN NetStatInfo
      /\ SoftnetCounters \subseteq DOMAIN NetStatInfo
  BY SMT DEF NetStatInfo, Counters, NetstatCounters, SNMPCounters, SNMPIPCounters, SoftnetCounters
<1> QED  BY <1>5, <1>6, <1>7 DEF NetStatPoorer

\* Disks: only the file of the scheduler and that of the rotation are read apart.
DiskFields == {"IOsInProgress", "Scheduler", "Rotational"}

LEMMA DiskRecord ==
  ASSUME NEW s, NEW t, NEW m, NEW x \in DOMAIN s \cap DOMAIN t,
         DiskCounters \cup DiskFields \subseteq DOMAIN t[x]
  PROVE  LET r == CalculateDiskDiff(s, t, m)[x]
             c == CounterDiff(s[x], t[x], DiskCounters)
         IN  /\ \A k \in DiskCounters \cup DiskFields : r[k] = c[k]
             /\ r.UtilPercent = ClampPercent(c.IOTicks \div m)
             /\ r.AvgReadLatencyMS = Average(c.TimeReadingMS, c.ReadsCompleted)
             /\ r.AvgWriteLatencyMS = Average(c.TimeWritingMS, c.WritesCompleted)
             /\ r.AvgQueueLatencyMS = Average(c.WeightedIOTicks,
                                              c.ReadsCompleted + c.WritesCompleted)
<1> DEFINE c == CounterDiff(s[x], t[x], DiskCounters)
           more == [UtilPercent |-> ClampPercent(c.IOTicks \div m),
                    AvgReadLatencyMS |-> Average(c.TimeReadingMS, c.ReadsCompleted),
                    AvgWriteLatencyMS |-> Average(c.TimeWritingMS, c.WritesCompleted),
                    AvgQueueLatencyMS |-> Average(c.WeightedIOTicks,
                                            c.ReadsCompleted + c.WritesCompleted)]
           r == CalculateDiskDiff(s, t, m)[x]
<1>1. r = Extended(c, more)  BY Zenon DEF CalculateDiskDiff
<1>2. DOMAIN c = DOMAIN t[x]  BY DEF CounterDiff
<1>3. /\ DOMAIN more = DiskRates
      /\ more.UtilPercent = ClampPercent(c.IOTicks \div m)
      /\ more.AvgReadLatencyMS = Average(c.TimeReadingMS, c.ReadsCompleted)
      /\ more.AvgWriteLatencyMS = Average(c.TimeWritingMS, c.WritesCompleted)
      /\ more.AvgQueueLatencyMS = Average(c.WeightedIOTicks,
                                          c.ReadsCompleted + c.WritesCompleted)
  BY DEF DiskRates
<1> HIDE DEF c, more, r
<1>4. \A k \in DiskCounters \cup DiskFields : k \notin DiskRates
  BY SMT DEF DiskCounters, DiskFields, DiskRates
<1>5. \A k \in DiskCounters \cup DiskFields : r[k] = c[k]
  BY <1>1, <1>2, <1>3, <1>4, ExtendedKeeps
<1>6. \A k \in DiskRates : r[k] = more[k]  BY <1>1, <1>3 DEF Extended
<1>7. /\ r.UtilPercent = more.UtilPercent /\ r.AvgReadLatencyMS = more.AvgReadLatencyMS
      /\ r.AvgWriteLatencyMS = more.AvgWriteLatencyMS
      /\ r.AvgQueueLatencyMS = more.AvgQueueLatencyMS
  BY <1>6 DEF DiskRates
<1> QED  BY <1>3, <1>5, <1>7 DEF c, r

LEMMA PartialDisks ==
  ASSUME NEW d, NEW h, NEW g, NEW A, NEW B, NEW paths, PartialDiff(d, h, g, A, B, paths),
         NEW e, WholeFields(e, h, g, paths)
  PROVE  DisksPoorer(d, e, Misled(B))
<1> DEFINE a == CollectSnapshot(h, A, paths).DiskStats
           b == CollectSnapshot(g, B, paths).DiskStats
           u == h.DiskStats
           v == g.DiskStats
<1>1. /\ IsHost(h) /\ IsHost(g)
      /\ ReadInPart(a, u, "DiskStats", A) /\ ReadInPart(b, v, "DiskStats", B)
      /\ d.Duration = e.Duration
      /\ d.Disks = CalculateDiskDiff(a, b, d.Duration)
      /\ e.Disks = CalculateDiskDiff(u, v, d.Duration)
  BY PartialFields DEF PartialDiff, Partial, SnapshotOf, PartialFieldsOf, WholeFields
<1>2. AllCounting(u, DiskCounters) /\ AllCounting(v, DiskCounters)  BY <1>1 DEF IsHost
<1>3. \A x \in DOMAIN v : DOMAIN v[x] = DOMAIN DiskDeviceStat
  <2>1. HasFields(g)  BY <1>1 DEF IsHost
  <2> QED  BY <2>1, BlankSources, SourcesOfFiles DEF HasFields, Devices
<1>4. DiskCounters \cup DiskFields \subseteq DOMAIN DiskDeviceStat
  BY SMT DEF DiskDeviceStat, Extended, Counters, DiskCounters, DiskFields
<1> HIDE DEF a, b, u, v
<1> SUFFICES ASSUME NEW x \in DOMAIN d.Disks
             PROVE  /\ x \in DOMAIN e.Disks /\ SameRequests(d.Disks[x], e.Disks[x])
                    /\ QueuePoorer(d.Disks[x], e.Disks[x], Misled(B))
  BY DEF DisksPoorer
<1>5. x \in DOMAIN a /\ x \in DOMAIN b  BY <1>1 DEF CalculateDiskDiff
<1>6. x \in DOMAIN u /\ x \in DOMAIN v  BY <1>1, <1>5 DEF ReadInPart, Seen
<1>7. x \in DOMAIN e.Disks  BY <1>1, <1>6 DEF CalculateDiskDiff
<1> DEFINE p == CounterDiff(a[x], b[x], DiskCounters)
           q == CounterDiff(u[x], v[x], DiskCounters)
<1>8. \A k \in DOMAIN v[x] : DeltaInPart(p, q, k, "DiskStats", x, A, B, DiskCounters)
  <2>1. \A k \in DiskCounters : Blank["DiskStats"][k] = 0  BY BlankSources, BlankCounters
  <2>2. DeltasInPart(u, v, a, b, DiskCounters, "DiskStats", A, B)
    BY <1>1, <1>2, <2>1, PartDeltas
  <2> QED  BY <1>5, <1>6, <2>2 DEF DeltasInPart
<1>9. DiskCounters \cup DiskFields \subseteq DOMAIN v[x]  BY <1>3, <1>4, <1>6
<1>10. DOMAIN b[x] = DOMAIN v[x]  BY <1>1, <1>5 DEF ReadInPart, RecordInPart
<1> HIDE DEF p, q
<1>11. \A k \in DiskCounters \cup {"IOsInProgress"} : p[k] = q[k]
  <2>1. \A k \in DiskCounters \cup {"IOsInProgress"} : \A file \in DOMAIN Files["DiskStats"] :
          k \notin Files["DiskStats"][file]
    BY SMT DEF Files, DiskCounters
  <2>2. \A k \in DiskCounters \cup {"IOsInProgress"} : \A lost :
          k \notin MissingOf("DiskStats", x, lost)
    BY <2>1, FieldOfNoFile
  <2>3. <<"DiskStats">> \notin A /\ <<"DiskStats", "entry", x>> \notin A
    BY <1>1, <1>5 DEF ReadInPart, Seen
  <2>4. "IOsInProgress" \in DiskFields  BY DEF DiskFields
  <2> QED  BY <1>8, <1>9, <2>2, <2>3, <2>4 DEF DeltaInPart
<1>12. /\ p.Scheduler = q.Scheduler \/ p.Scheduler = EmptyString
       /\ p.Rotational = q.Rotational \/ <<"DiskStats", "rotational", x>> \in B
  <2>1. /\ {"Scheduler", "Rotational"} \cap DiskCounters = {}
        /\ {"Scheduler", "Rotational"} \subseteq DiskFields
    BY SMT DEF DiskCounters, DiskFields
  <2>2. Blank["DiskStats"]["Scheduler"] = EmptyString
    BY BlankSources, SMT DEF DiskDeviceStat, Extended
  <2>3. "rotational" \in DOMAIN Files["DiskStats"] /\ "Rotational" \in Files["DiskStats"]["rotational"]
    BY SMT DEF Files
  <2>4. "Rotational" \in MissingOf("DiskStats", x, B) <=> <<"DiskStats", "rotational", x>> \in B
    BY <2>3, BlankSources, FieldMissing DEF Devices
  <2> QED  BY <1>8, <1>9, <2>1, <2>2, <2>4 DEF DeltaInPart
<1>13. LET r == d.Disks[x]
       IN  /\ \A k \in DiskCounters \cup DiskFields : r[k] = p[k]
           /\ r.UtilPercent = ClampPercent(p.IOTicks \div d.Duration)
           /\ r.AvgReadLatencyMS = Average(p.TimeReadingMS, p.ReadsCompleted)
           /\ r.AvgWriteLatencyMS = Average(p.TimeWritingMS, p.WritesCompleted)
           /\ r.AvgQueueLatencyMS = Average(p.WeightedIOTicks,
                                            p.ReadsCompleted + p.WritesCompleted)
  BY <1>1, <1>5, <1>9, <1>10, DiskRecord DEF p
<1>14. LET r == e.Disks[x]
       IN  /\ \A k \in DiskCounters \cup DiskFields : r[k] = q[k]
           /\ r.UtilPercent = ClampPercent(q.IOTicks \div d.Duration)
           /\ r.AvgReadLatencyMS = Average(q.TimeReadingMS, q.ReadsCompleted)
           /\ r.AvgWriteLatencyMS = Average(q.TimeWritingMS, q.WritesCompleted)
           /\ r.AvgQueueLatencyMS = Average(q.WeightedIOTicks,
                                            q.ReadsCompleted + q.WritesCompleted)
  BY <1>1, <1>6, <1>9, DiskRecord DEF q
<1>15. {"IOTicks", "TimeReadingMS", "ReadsCompleted", "TimeWritingMS", "WritesCompleted",
        "WeightedIOTicks"} \subseteq DiskCounters
  BY DEF DiskCounters
<1>16. SameRequests(d.Disks[x], e.Disks[x])
  <2>1. "IOsInProgress" \in DiskFields  BY DEF DiskFields
  <2> HIDE DEF DiskCounters
  <2> QED  BY <1>11, <1>13, <1>14, <1>15, <2>1 DEF SameRequests
<1>17. QueuePoorer(d.Disks[x], e.Disks[x], Misled(B))
  <2>1. "Scheduler" \in DiskFields /\ "Rotational" \in DiskFields  BY DEF DiskFields
  <2>2. MisledByNamed(B, x)  BY ReadingsMislead
  <2> QED  BY <1>12, <1>13, <1>14, <2>1, <2>2 DEF QueuePoorer, OrEmpty, MisledByNamed
<1> QED  BY <1>7, <1>16, <1>17

\* Interfaces: each counter has a file.
LEMMA PartialIfaces ==
  ASSUME NEW d, NEW h, NEW g, NEW A, NEW B, NEW paths, PartialDiff(d, h, g, A, B, paths),
         NEW e, WholeFields(e, h, g, paths)
  PROVE  NetIfacesPoorer(d, e, Misled(B))
<1> DEFINE a == CollectSnapshot(h, A, paths).NetIfaces
           b == CollectSnapshot(g, B, paths).NetIfaces
           u == h.NetIfaces
           v == g.NetIfaces
<1>1. /\ IsHost(h) /\ IsHost(g) /\ Partial(h, g, A, B)
      /\ ReadInPart(a, u, "NetIfaces", A) /\ ReadInPart(b, v, "NetIfaces", B)
      /\ d.NetIfaces = CalculateNetIfacesDiff(a, b)
      /\ e.NetIfaces = CalculateNetIfacesDiff(u, v)
  BY PartialFields DEF PartialDiff, Partial, SnapshotOf, PartialFieldsOf, WholeFields
<1>2. AllCounting(u, IfaceCounters) /\ AllCounting(v, IfaceCounters)  BY <1>1 DEF IsHost
<1>3. \A x \in DOMAIN v : DOMAIN v[x] = DOMAIN NetIfaceStat
  <2>1. HasFields(g)  BY <1>1 DEF IsHost
  <2> QED  BY <2>1, BlankSources, SourcesOfFiles DEF HasFields, Devices
<1>4. /\ IfaceCounters \cup {"OperState"} \subseteq DOMAIN NetIfaceStat
      /\ "OperState" \notin IfaceCounters /\ NetIfaceStat["OperState"] = EmptyString
  BY SMT DEF NetIfaceStat, Extended, Counters, IfaceCounters
<1> HIDE DEF a, b, u, v
<1> SUFFICES ASSUME NEW x \in DOMAIN d.NetIfaces
             PROVE  /\ x \in DOMAIN e.NetIfaces
                    /\ \A c \in IfaceCounters : OrZero(d.NetIfaces[x][c], e.NetIfaces[x][c])
                    /\ \/ d.NetIfaces[x].OperState = e.NetIfaces[x].OperState
                       \/ /\ d.NetIfaces[x].OperState = EmptyString
                          /\ "EDGE_NET_IFACE_CARRIER_FLAP" \in Misled(B)
  BY Zenon DEF NetIfacesPoorer
<1>5. x \in DOMAIN b  BY <1>1 DEF CalculateNetIfacesDiff
<1>6. x \in DOMAIN v  BY <1>1, <1>5 DEF ReadInPart, Seen
<1>7. x \in DOMAIN e.NetIfaces  BY <1>1, <1>6 DEF CalculateNetIfacesDiff
<1> DEFINE p == CounterDiff(IF x \in DOMAIN a THEN a[x] ELSE b[x], b[x], IfaceCounters)
           q == CounterDiff(IF x \in DOMAIN u THEN u[x] ELSE v[x], v[x], IfaceCounters)
<1>8. \A k \in DOMAIN v[x] : DeltaInPart(p, q, k, "NetIfaces", x, A, B, IfaceCounters)
  <2>1. \A k \in IfaceCounters : Blank["NetIfaces"][k] = 0  BY BlankSources, BlankCounters
  <2>2. DeltasInPart(u, v, a, b, IfaceCounters, "NetIfaces", A, B)
    BY <1>1, <1>2, <2>1, PartDeltas
  <2> QED  BY <1>5, <1>6, <2>2 DEF DeltasInPart
<1>9. d.NetIfaces[x] = p /\ e.NetIfaces[x] = q
  BY <1>1, <1>5, <1>6, Zenon DEF CalculateNetIfacesDiff
<1> HIDE DEF p, q
<1>10. IfaceCounters \cup {"OperState"} \subseteq DOMAIN v[x]  BY <1>3, <1>4, <1>6
<1>11. /\ DOMAIN Files["NetIfaces"] = IfaceCounters \cup {"OperState"}
       /\ \A k \in IfaceCounters \cup {"OperState"} : k \in Files["NetIfaces"][k]
  BY SMT DEF Files
<1>12. "NetIfaces" \in DOMAIN Files  BY BlankSources DEF Devices
<1>13. ASSUME NEW c \in IfaceCounters PROVE OrZero(p[c], q[c])
  <2>1. c \notin MissingOf("NetIfaces", x, A \ B)
    <3>1. <<"NetIfaces", c, x>> \notin A \ B  BY <1>1, BaselinesRead
    <3> QED  BY <1>11, <1>12, <3>1, FieldMissing
  <2>2. Blank["NetIfaces"][c] = 0  BY BlankSources, BlankCounters
  <2> QED  BY <1>8, <1>10, <2>1, <2>2 DEF DeltaInPart, OrZero
<1>14. \/ p.OperState = q.OperState
       \/ p.OperState = EmptyString /\ "EDGE_NET_IFACE_CARRIER_FLAP" \in Misled(B)
  <2>1. "OperState" \in MissingOf("NetIfaces", x, B) <=> <<"NetIfaces", "OperState", x>> \in B
    BY <1>11, <1>12, FieldMissing
  <2>2. Blank["NetIfaces"]["OperState"] = EmptyString  BY <1>4, BlankSources
  <2>3. MisledByNamed(B, x)  BY ReadingsMislead
  <2>4. DeltaInPart(p, q, "OperState", "NetIfaces", x, A, B, IfaceCounters)  BY <1>8, <1>10
  <2> QED  BY <1>4, <2>1, <2>2, <2>3, <2>4 DEF DeltaInPart, MisledByNamed
<1> QED  BY <1>7, <1>9, <1>13, <1>14

\* Processes: which fields are in which file.
ProcessFile(fields, file) ==
  file \in DOMAIN Files.Processes /\ fields \subseteq Files.Processes[file]
StatFields ==
  {"Comm", "State", "NumThreads", "RSSKB", "Policy", "UTime", "STime"}
SmapsFields == {"SmapsAvailable", "Swap", "PSS", "SharedClean"}
OtherFields == {"ReadBytes", "WriteBytes", "Wchan", "MaxFDs", "OpenFDs", "CgroupPath",
                "OOMScoreAdj", "CpusAllowed"}

LEMMA ProcessFiles ==
  /\ ProcessFile({"ReadBytes", "WriteBytes"}, "io") /\ ProcessFile({"Wchan"}, "wchan")
  /\ ProcessFile({"MaxFDs"}, "limits") /\ ProcessFile({"OpenFDs"}, "fd")
  /\ ProcessFile({"CgroupPath"}, "cgroup") /\ ProcessFile({"OOMScoreAdj"}, "oom_score_adj")
  /\ ProcessFile(StatusCounters \cup {"CpusAllowed"}, "status")
  /\ ProcessFile(SmapsFields, "smaps_rollup")
  /\ \A k \in StatFields : \A file \in DOMAIN Files.Processes : k \notin Files.Processes[file]
<1>1. /\ ProcessFile({"ReadBytes", "WriteBytes"}, "io") /\ ProcessFile({"Wchan"}, "wchan")
      /\ ProcessFile({"MaxFDs"}, "limits") /\ ProcessFile({"OpenFDs"}, "fd")
      /\ ProcessFile({"CgroupPath"}, "cgroup") /\ ProcessFile({"OOMScoreAdj"}, "oom_score_adj")
  BY SMT DEF ProcessFile, Files
<1>2. /\ ProcessFile(StatusCounters \cup {"CpusAllowed"}, "status")
      /\ ProcessFile(SmapsFields, "smaps_rollup")
  BY SMT DEF ProcessFile, Files, StatusCounters, SmapsFields
<1>3. \A k \in StatFields : \A file \in DOMAIN Files.Processes : k \notin Files.Processes[file]
  BY SMT DEF Files, StatFields
<1> QED  BY <1>1, <1>2, <1>3

\* What they hold when they could not be read.
LEMMA BlankProcess ==
  /\ StatFields \cup StatusCounters \cup SmapsFields \cup OtherFields \subseteq DOMAIN ProcessInfo
  /\ ProcessInfo["ReadBytes"] = 0 /\ ProcessInfo["WriteBytes"] = 0
  /\ ProcessInfo["Wchan"] = EmptyString /\ ProcessInfo["MaxFDs"] = 0
  /\ ProcessInfo["OpenFDs"] = 0 /\ ProcessInfo["CgroupPath"] = EmptyString
  /\ ProcessInfo["OOMScoreAdj"] = 0 /\ ProcessInfo["CpusAllowed"] = 0
  /\ ProcessInfo["SmapsAvailable"] = FALSE
  /\ \A k \in StatusCounters : ProcessInfo[k] = 0
<1>1. StatFields \cup StatusCounters \cup SmapsFields \cup OtherFields \subseteq DOMAIN ProcessInfo
  BY SMT DEF ProcessInfo, Extended, Counters, ProcessCounters, StatFields, StatusCounters,
             SmapsFields, OtherFields
<1>2. /\ ProcessInfo["Wchan"] = EmptyString /\ ProcessInfo["MaxFDs"] = 0
      /\ ProcessInfo["OpenFDs"] = 0 /\ ProcessInfo["CgroupPath"] = EmptyString
      /\ ProcessInfo["OOMScoreAdj"] = 0 /\ ProcessInfo["CpusAllowed"] = 0
      /\ ProcessInfo["SmapsAvailable"] = FALSE
  BY SMT DEF ProcessInfo, Extended
<1>3. /\ ProcessInfo["TracerPID"] = 0 /\ ProcessInfo["SigQQueued"] = 0
      /\ ProcessInfo["SigQMax"] = 0
  BY SMT DEF ProcessInfo, Extended
<1>4. /\ ProcessInfo["ReadBytes"] = 0 /\ ProcessInfo["WriteBytes"] = 0
      /\ ProcessInfo["VoluntaryCtxtSwitches"] = 0 /\ ProcessInfo["NonvoluntaryCtxtSwitches"] = 0
  BY BlankCounters DEF ProcessCounters
<1> HIDE DEF ProcessInfo
<1> QED  BY <1>1, <1>2, <1>3, <1>4 DEF StatusCounters

\* Record r is record s without the files of process x that failed.
LeftOf(r, s, x, lost) ==
  \A k \in DOMAIN ProcessInfo :
    FieldInPart(r, s, k, MissingOf("Processes", x, lost), ProcessInfo)

LEMMA ProcessLeft ==
  ASSUME NEW r, NEW s, NEW x, NEW lost, LeftOf(r, s, x, lost),
         r.CPUTime = s.CPUTime, r.CPUPercent = s.CPUPercent
  PROVE  ProcessPoorer(r, s, Misled(lost))
<1> DEFINE Gone(file) == <<"Processes", file, x>> \in lost
<1>1. ASSUME NEW fields, NEW file, ProcessFile(fields, file), fields \subseteq DOMAIN ProcessInfo
      PROVE  /\ Gone(file) => \A k \in fields : r[k] = ProcessInfo[k]
             /\ ~Gone(file) => \A k \in fields : r[k] = s[k]
  <2>1. "Processes" \in DOMAIN Files  BY BlankSources DEF Devices
  <2>2. ASSUME NEW k \in fields PROVE k \in MissingOf("Processes", x, lost) <=> Gone(file)
    BY <1>1, <2>1, FieldMissing DEF ProcessFile
  <2> HIDE DEF Gone
  <2> QED  BY <1>1, <2>2 DEF LeftOf, FieldInPart
<1> HIDE DEF Gone
<1>2. StatPoorer(r, s)
  <2>1. \A k \in StatFields : r[k] = s[k]
    <3>1. \A k \in StatFields : k \notin MissingOf("Processes", x, lost)
      BY ProcessFiles, FieldOfNoFile
    <3>2. StatFields \subseteq DOMAIN ProcessInfo  BY BlankProcess
    <3> QED  BY <3>1, <3>2 DEF LeftOf, FieldInPart
  <2> QED  BY <2>1 DEF StatPoorer, StatFields
<1>3. OtherFields \subseteq DOMAIN ProcessInfo  BY BlankProcess
<1>4. IOPoorer(r, s)
  <2>1. {"ReadBytes", "WriteBytes"} \subseteq DOMAIN ProcessInfo  BY <1>3 DEF OtherFields
  <2>2. ProcessFile({"ReadBytes", "WriteBytes"}, "io")  BY ProcessFiles
  <2>3. \/ \A k \in {"ReadBytes", "WriteBytes"} : r[k] = ProcessInfo[k]
        \/ \A k \in {"ReadBytes", "WriteBytes"} : r[k] = s[k]
    BY <1>1, <2>1, <2>2
  <2> QED  BY <2>3, BlankProcess DEF IOPoorer
<1>5. /\ WchanPoorer(r, s) /\ OrEmpty(r.CgroupPath, s.CgroupPath)
      /\ FDPoorer(r, s) /\ OrZero(r.OOMScoreAdj, s.OOMScoreAdj)
  <2>1. ASSUME NEW k \in OtherFields, NEW file, ProcessFile({k}, file)
        PROVE  r[k] = s[k] \/ r[k] = ProcessInfo[k]
    <3>1. {k} \subseteq DOMAIN ProcessInfo  BY <1>3
    <3>2. \/ \A j \in {k} : r[j] = ProcessInfo[j]
          \/ \A j \in {k} : r[j] = s[j]
      BY <1>1, <2>1, <3>1
    <3> QED  BY <3>2
  <2>2. {"Wchan", "CgroupPath", "MaxFDs", "OpenFDs", "OOMScoreAdj"} \subseteq OtherFields
    BY DEF OtherFields
  <2>3. /\ r.Wchan = s.Wchan \/ r.Wchan = ProcessInfo["Wchan"]
        /\ r.CgroupPath = s.CgroupPath \/ r.CgroupPath = ProcessInfo["CgroupPath"]
        /\ r.MaxFDs = s.MaxFDs \/ r.MaxFDs = ProcessInfo["MaxFDs"]
        /\ r.OpenFDs = s.OpenFDs \/ r.OpenFDs = ProcessInfo["OpenFDs"]
        /\ r.OOMScoreAdj = s.OOMScoreAdj \/ r.OOMScoreAdj = ProcessInfo["OOMScoreAdj"]
    BY <2>1, <2>2, ProcessFiles
  <2> QED  BY <2>3, BlankProcess DEF WchanPoorer, FDPoorer, OrEmpty, OrZero
<1>6. StatusPoorer(r, s, Misled(lost))
  <2>1. StatusCounters \cup {"CpusAllowed"} \subseteq DOMAIN ProcessInfo
    BY <1>3, BlankProcess DEF OtherFields
  <2>2. ProcessFile(StatusCounters \cup {"CpusAllowed"}, "status")  BY ProcessFiles
  <2>3. /\ Gone("status") => \A k \in StatusCounters \cup {"CpusAllowed"} : r[k] = ProcessInfo[k]
        /\ ~Gone("status") => \A k \in StatusCounters \cup {"CpusAllowed"} : r[k] = s[k]
    BY <1>1, <2>1, <2>2
  <2>4. Gone("status") => "CONT_RUNAWAY_CPU_PROCESS" \in Misled(lost)
    BY ReadingsMislead DEF MisledByNamed, Gone
  <2> QED  BY <2>3, <2>4, BlankProcess DEF StatusPoorer, AllOrZero
<1>7. SmapsPoorer(r, s)
  <2>1. SmapsFields \subseteq DOMAIN ProcessInfo /\ ProcessFile(SmapsFields, "smaps_rollup")
    BY BlankProcess, ProcessFiles
  <2>2. \/ \A k \in SmapsFields : r[k] = ProcessInfo[k]
        \/ \A k \in SmapsFields : r[k] = s[k]
    BY <1>1, <2>1
  <2> QED  BY <2>2, BlankProcess DEF SmapsPoorer, SmapsFields
<1> QED  BY <1>2, <1>4, <1>5, <1>6, <1>7 DEF ProcessPoorer

\* The record of a process in a diff.
LEMMA ProcessRecord ==
  ASSUME NEW s, NEW t, NEW m, NEW x \in DOMAIN t, DOMAIN ProcessInfo \subseteq DOMAIN t[x]
  PROVE  LET old == IF x \in DOMAIN s THEN s[x] ELSE t[x]
             r == CalculateProcessDiff(s, t, m)[x]
             cpu == DiffUint64(t[x].UTime + t[x].STime, old.UTime + old.STime)
         IN  /\ \A k \in DOMAIN ProcessInfo : r[k] = CounterDiff(old, t[x], ProcessCounters)[k]
             /\ r.CPUTime = cpu /\ r.CPUPercent = (10 * cpu) \div m
<1> DEFINE old == IF x \in DOMAIN s THEN s[x] ELSE t[x]
           c == CounterDiff(old, t[x], ProcessCounters)
           cpu == DiffUint64(t[x].UTime + t[x].STime, old.UTime + old.STime)
           more == [CPUTime |-> cpu, CPUPercent |-> (10 * cpu) \div m]
           r == CalculateProcessDiff(s, t, m)[x]
<1>1. r = Extended(c, more)  BY SMT DEF CalculateProcessDiff
<1>2. DOMAIN c = DOMAIN t[x]  BY DEF CounterDiff
<1>3. /\ DOMAIN more = {"CPUTime", "CPUPercent"}
      /\ more.CPUTime = cpu /\ more.CPUPercent = (10 * cpu) \div m
  OBVIOUS
<1>4. "CPUTime" \notin DOMAIN ProcessInfo /\ "CPUPercent" \notin DOMAIN ProcessInfo
  BY SMT DEF ProcessInfo, Extended, Counters, ProcessCounters
<1> HIDE DEF old, c, cpu, more, r
<1>5. \A k \in DOMAIN ProcessInfo : r[k] = c[k]  BY <1>1, <1>2, <1>3, <1>4, ExtendedKeeps
<1>6. \A k \in DOMAIN more : r[k] = more[k]  BY <1>1 DEF Extended
<1>7. r.CPUTime = cpu /\ r.CPUPercent = (10 * cpu) \div m  BY <1>3, <1>6
<1> QED  BY <1>5, <1>7 DEF old, c, cpu, r

\* The processes that could be read, and their cgroups.
ReadTasks(d, e, lost) ==
  \A pid \in DOMAIN d.Processes :
    /\ <<"Processes">> \notin lost
    /\ \/ d.Processes[pid].CgroupPath = e.Processes[pid].CgroupPath
       \/ <<"Processes", "cgroup", pid>> \in lost

LEMMA PartialProcesses ==
  ASSUME NEW d, NEW h, NEW g, NEW A, NEW B, NEW paths, PartialDiff(d, h, g, A, B, paths),
         NEW e, WholeFields(e, h, g, paths)
  PROVE  ProcessesPoorer(d, e, Misled(B)) /\ ReadTasks(d, e, B)
<1> DEFINE a == CollectSnapshot(h, A, paths).Processes
           b == CollectSnapshot(g, B, paths).Processes
           u == h.Processes
           v == g.Processes
<1>1. /\ IsHost(h) /\ IsHost(g) /\ Partial(h, g, A, B)
      /\ ReadInPart(a, u, "Processes", A) /\ ReadInPart(b, v, "Processes", B)
      /\ d.Duration = e.Duration
      /\ d.Processes = CalculateProcessDiff(a, b, d.Duration)
      /\ e.Processes = CalculateProcessDiff(u, v, d.Duration)
  BY PartialFields DEF PartialDiff, Partial, SnapshotOf, PartialFieldsOf, WholeFields
<1>2. /\ AllCounting(u, ProcessCounters) /\ AllCounting(v, ProcessCounters)
      /\ IsFiniteSet(DOMAIN v)
  BY <1>1 DEF IsHost
<1>3. /\ \A x \in DOMAIN u : DOMAIN u[x] = DOMAIN ProcessInfo
      /\ \A x \in DOMAIN v : DOMAIN v[x] = DOMAIN ProcessInfo
  <2>1. HasFields(h) /\ HasFields(g)  BY <1>1 DEF IsHost
  <2> QED  BY <2>1, BlankSources, SourcesOfFiles DEF HasFields, Devices
<1>4. /\ <<"Processes">> \notin A \ B
      /\ \A x : /\ <<"Processes", "entry", x>> \notin A \ B /\ <<"Processes", "io", x>> \notin A \ B
                /\ <<"Processes", "status", x>> \notin A \ B
  BY <1>1, BaselinesRead
<1> HIDE DEF a, b, u, v
<1>5. DOMAIN d.Processes = DOMAIN b /\ DOMAIN e.Processes = DOMAIN v
  BY <1>1 DEF CalculateProcessDiff
<1>6. ASSUME NEW x \in DOMAIN b
      PROVE  /\ x \in DOMAIN v /\ <<"Processes">> \notin B /\ (x \in DOMAIN a <=> x \in DOMAIN u)
             /\ DOMAIN b[x] = DOMAIN ProcessInfo
             /\ LeftOf(d.Processes[x], e.Processes[x], x, B)
             /\ d.Processes[x].CPUTime = e.Processes[x].CPUTime
             /\ d.Processes[x].CPUPercent = e.Processes[x].CPUPercent
  <2>1. x \in DOMAIN v /\ <<"Processes">> \notin B /\ <<"Processes", "entry", x>> \notin B
    BY <1>1 DEF ReadInPart, Seen
  <2>2. x \in DOMAIN a <=> x \in DOMAIN u  BY <1>1, <1>4, <2>1 DEF ReadInPart, Seen
  <2>3. RecordInPart(b[x], v[x], MissingOf("Processes", x, B), Blank["Processes"])
    BY <1>1 DEF ReadInPart
  <2>4. DOMAIN b[x] = DOMAIN ProcessInfo /\ DOMAIN v[x] = DOMAIN ProcessInfo
    BY <1>3, <2>1, <2>3 DEF RecordInPart
  <2> DEFINE oldA == IF x \in DOMAIN a THEN a[x] ELSE b[x]
             oldU == IF x \in DOMAIN u THEN u[x] ELSE v[x]
             p == CounterDiff(oldA, b[x], ProcessCounters)
             q == CounterDiff(oldU, v[x], ProcessCounters)
             cpuB == DiffUint64(b[x].UTime + b[x].STime, oldA.UTime + oldA.STime)
             cpuV == DiffUint64(v[x].UTime + v[x].STime, oldU.UTime + oldU.STime)
  <2>5. /\ \A k \in DOMAIN ProcessInfo : d.Processes[x][k] = p[k]
        /\ d.Processes[x].CPUTime = cpuB /\ d.Processes[x].CPUPercent = (10 * cpuB) \div d.Duration
    BY <1>1, <2>4, ProcessRecord
  <2>6. /\ \A k \in DOMAIN ProcessInfo : e.Processes[x][k] = q[k]
        /\ e.Processes[x].CPUTime = cpuV /\ e.Processes[x].CPUPercent = (10 * cpuV) \div d.Duration
    BY <1>1, <2>1, <2>4, ProcessRecord
  <2>7. \A k \in DOMAIN v[x] : DeltaInPart(p, q, k, "Processes", x, A, B, ProcessCounters)
    <3>1. \A k \in ProcessCounters : Blank["Processes"][k] = 0  BY BlankSources, BlankCounters
    <3>2. DeltasInPart(u, v, a, b, ProcessCounters, "Processes", A, B)
      BY <1>1, <1>2, <3>1, PartDeltas
    <3> QED  BY <3>2 DEF DeltasInPart
  <2>8. cpuB = cpuV
    <3>1. {"UTime", "STime"} \subseteq DOMAIN ProcessInfo  BY BlankProcess DEF StatFields
    <3>2. b[x].UTime = v[x].UTime /\ b[x].STime = v[x].STime
      BY <2>3, <2>4, <3>1, AlwaysRead DEF RecordInPart
    <3>3. ASSUME x \in DOMAIN a PROVE a[x].UTime = u[x].UTime /\ a[x].STime = u[x].STime
      <4>1. RecordInPart(a[x], u[x], MissingOf("Processes", x, A), Blank["Processes"])
        BY <1>1, <3>3 DEF ReadInPart
      <4>2. DOMAIN u[x] = DOMAIN ProcessInfo  BY <1>3, <2>2, <3>3
      <4> QED  BY <3>1, <4>1, <4>2, AlwaysRead DEF RecordInPart
    <3>4. oldA.UTime = oldU.UTime /\ oldA.STime = oldU.STime  BY <2>2, <3>2, <3>3
    <3> HIDE DEF oldA, oldU
    <3> QED  BY <3>2, <3>4
  <2> HIDE DEF p, q, cpuB, cpuV
  <2>9. ASSUME NEW k \in ProcessCounters PROVE k \notin MissingOf("Processes", x, A \ B)
    <3>1. "Processes" \in DOMAIN Files  BY BlankSources DEF Devices
    <3>2. ASSUME NEW fields, NEW file, ProcessFile(fields, file), k \in fields,
                 <<"Processes", file, x>> \notin A \ B
          PROVE  k \notin MissingOf("Processes", x, A \ B)
      BY <3>1, <3>2, FieldMissing DEF ProcessFile
    <3>3. CASE k \in {"ReadBytes", "WriteBytes"}  BY <1>4, <3>2, <3>3, ProcessFiles
    <3>4. CASE k \in StatusCounters \cup {"CpusAllowed"}  BY <1>4, <3>2, <3>4, ProcessFiles
    <3>5. CASE k \in StatFields  BY <3>5, ProcessFiles, FieldOfNoFile
    <3>6. \/ k \in {"ReadBytes", "WriteBytes"} \/ k \in StatusCounters \cup {"CpusAllowed"}
          \/ k \in StatFields
      BY SMT DEF ProcessCounters, StatusCounters, StatFields
    <3> QED  BY <3>3, <3>4, <3>5, <3>6
  <2>10. <<"Processes">> \notin A \ B /\ <<"Processes", "entry", x>> \notin A \ B  BY <1>4
  <2>11. LeftOf(d.Processes[x], e.Processes[x], x, B)
    <3>1. Blank["Processes"] = ProcessInfo  BY BlankSources
    <3> SUFFICES ASSUME NEW k \in DOMAIN ProcessInfo
                 PROVE  FieldInPart(d.Processes[x], e.Processes[x], k,
                                    MissingOf("Processes", x, B), ProcessInfo)
      BY DEF LeftOf
    <3>2. DeltaInPart(p, q, k, "Processes", x, A, B, ProcessCounters)  BY <2>4, <2>7
    <3>3. d.Processes[x][k] = p[k] /\ e.Processes[x][k] = q[k]  BY <2>5, <2>6
    <3> QED  BY <2>9, <2>10, <3>1, <3>2, <3>3 DEF DeltaInPart, FieldInPart
  <2> QED  BY <2>1, <2>2, <2>4, <2>5, <2>6, <2>8, <2>11
<1>7. ASSUME NEW pid \in DOMAIN d.Processes
      PROVE  /\ pid \in DOMAIN e.Processes /\ <<"Processes">> \notin B
             /\ ProcessPoorer(d.Processes[pid], e.Processes[pid], Misled(B))
             /\ \/ d.Processes[pid].CgroupPath = e.Processes[pid].CgroupPath
                \/ <<"Processes", "cgroup", pid>> \in B
  <2>1. /\ pid \in DOMAIN v /\ <<"Processes">> \notin B
        /\ LeftOf(d.Processes[pid], e.Processes[pid], pid, B)
        /\ d.Processes[pid].CPUTime = e.Processes[pid].CPUTime
        /\ d.Processes[pid].CPUPercent = e.Processes[pid].CPUPercent
    BY <1>5, <1>6
  <2>2. ProcessPoorer(d.Processes[pid], e.Processes[pid], Misled(B))  BY <2>1, ProcessLeft
  <2>3. \/ d.Processes[pid].CgroupPath = e.Processes[pid].CgroupPath
        \/ <<"Processes", "cgroup", pid>> \in B
    <3>1. "CgroupPath" \in DOMAIN ProcessInfo  BY BlankProcess DEF OtherFields
    <3>2. "CgroupPath" \in MissingOf("Processes", pid, B)
            <=> <<"Processes", "cgroup", pid>> \in B
      BY ProcessFiles, BlankSources, FieldMissing DEF ProcessFile, Devices
    <3> QED  BY <2>1, <3>1, <3>2 DEF LeftOf, FieldInPart
  <2> QED  BY <1>5, <2>1, <2>2, <2>3
<1>8. ProcessesPoorer(d, e, Misled(B))
  <2>1. SomeProcesses(d, e, Misled(B))  BY <1>7, Zenon DEF SomeProcesses
  <2> QED  BY <1>2, <1>5, <2>1 DEF ProcessesPoorer
<1>9. ReadTasks(d, e, B)  BY <1>7 DEF ReadTasks
<1> QED  BY <1>8, <1>9

\* Cgroups: which fields are in which file, and what they hold without it.
LEMMA CgroupFiles ==
  /\ "cpu_stat" \in DOMAIN Files["Cgroups"] /\ "memory_events" \in DOMAIN Files["Cgroups"]
  /\ ThrottleCounters \subseteq Files["Cgroups"]["cpu_stat"]
  /\ MemoryEvents \subseteq Files["Cgroups"]["memory_events"]
  /\ CgroupCounters = ThrottleCounters \cup MemoryEvents
  /\ CgroupCounters \cup CgroupSettings = DOMAIN CgroupEntry
  /\ CgroupCounters \cap CgroupSettings = {}
  /\ CgroupEntry["Frozen"] = FALSE /\ CgroupEntry["CPUShares"] = 0
<1>1. /\ "cpu_stat" \in DOMAIN Files["Cgroups"] /\ "memory_events" \in DOMAIN Files["Cgroups"]
      /\ ThrottleCounters \subseteq Files["Cgroups"]["cpu_stat"]
      /\ MemoryEvents \subseteq Files["Cgroups"]["memory_events"]
  BY SMT DEF Files, ThrottleCounters, MemoryEvents
<1>2. CgroupCounters = ThrottleCounters \cup MemoryEvents
  BY SMT DEF CgroupCounters, ThrottleCounters, MemoryEvents
<1>3. CgroupCounters \cup CgroupSettings = DOMAIN CgroupEntry
  BY SMT DEF CgroupEntry, Extended, Counters, CgroupCounters, CgroupSettings
<1>4. /\ CgroupCounters \cap CgroupSettings = {}
      /\ CgroupEntry["Frozen"] = FALSE /\ CgroupEntry["CPUShares"] = 0
  BY SMT DEF CgroupEntry, Extended, CgroupCounters, CgroupSettings
<1> QED  BY <1>1, <1>2, <1>3, <1>4

\* What is needed of the two readings of a directory, in part and whole.
CgroupsInPart(h, lost, paths, a, dir) ==
  /\ ReadInPart(dir, h.Cgroups, "Cgroups", lost)
  /\ DOMAIN dir \subseteq DOMAIN h.Cgroups
  /\ DOMAIN a \subseteq DOMAIN ParseCgroups(h.Cgroups, h.Processes, paths).Groups
  /\ \/ DOMAIN a = DOMAIN ParseCgroups(h.Cgroups, h.Processes, paths).Groups
     \/ <<"Cgroups">> \in lost \/ <<"Processes">> \in lost
     \/ "EDGE_MEMCG_SOCK_MEMORY_THROTTLE" \in Misled(lost)

LEMMA PartialDirectory ==
  ASSUME NEW h, IsHost(h), NEW lost, ~Fatal(lost), NEW paths, NEW s, SnapshotOf(s, h, lost, paths),
         NEW dir, dir = ReadEntries("Cgroups", h.Cgroups, lost)
  PROVE  CgroupsInPart(h, lost, paths, s.Cgroups.Groups, dir)
<1> DEFINE u == h.Processes
           new == s.Processes
<1>1. ReadInPart(dir, h.Cgroups, "Cgroups", lost)  BY BlankSources, EntriesInPart DEF Devices
<1>2. /\ ReadInPart(new, u, "Processes", lost) /\ HavePaths(u) /\ SameTasks(u, u)
      /\ s.Cgroups = ParseCgroups(dir, new, paths)
  BY DEF SnapshotOf, IsHost, HavePaths, SameTasks
<1>3. DOMAIN dir \subseteq DOMAIN h.Cgroups  BY <1>1 DEF ReadInPart, Seen
<1>4. DOMAIN s.Cgroups.Groups \subseteq DOMAIN ParseCgroups(h.Cgroups, u, paths).Groups
  <2>1. PathsFrom(new, u)  BY <1>2, TasksInPart
  <2> QED  BY <1>2, <1>3, <2>1, FewerFound
<1>5. ASSUME <<"Cgroups">> \notin lost, <<"Processes">> \notin lost,
             "EDGE_MEMCG_SOCK_MEMORY_THROTTLE" \notin Misled(lost)
      PROVE  DOMAIN ParseCgroups(h.Cgroups, u, paths).Groups \subseteq DOMAIN s.Cgroups.Groups
  <2>1. \A x : /\ <<"Cgroups", "entry", x>> \notin lost /\ <<"Processes", "entry", x>> \notin lost
               /\ <<"Processes", "cgroup", x>> \notin lost
    BY <1>5, ReadingsMislead DEF MisledByNamed
  <2>2. DOMAIN h.Cgroups \subseteq DOMAIN dir  BY <1>1, <1>5, <2>1 DEF ReadInPart, Seen
  <2>3. PathsFrom(u, new)
    <3> SUFFICES ASSUME NEW pid \in DOMAIN u
                 PROVE  pid \in DOMAIN new /\ u[pid].CgroupPath = new[pid].CgroupPath
      BY DEF PathsFrom
    <3>1. pid \in DOMAIN new  BY <1>2, <1>5, <2>1 DEF ReadInPart, Seen
    <3>2. RecordInPart(new[pid], u[pid], MissingOf("Processes", pid, lost), Blank["Processes"])
      BY <1>2, <3>1 DEF ReadInPart
    <3>3. "CgroupPath" \notin MissingOf("Processes", pid, lost)
      <4>1. "CgroupPath" \in MissingOf("Processes", pid, lost)
              <=> <<"Processes", "cgroup", pid>> \in lost
        BY ProcessFiles, BlankSources, FieldMissing DEF ProcessFile, Devices
      <4> QED  BY <2>1, <4>1
    <3> QED  BY <1>2, <3>1, <3>2, <3>3 DEF RecordInPart, HavePaths
  <2> HIDE DEF u, new
  <2> QED  BY <1>2, <2>2, <2>3, FewerFound
<1> QED  BY <1>1, <1>3, <1>4, <1>5 DEF CgroupsInPart

\* One of them, in both snapshots.
LEMMA PartialCgroup ==
  ASSUME NEW h, NEW g, NEW A, NEW B, Partial(h, g, A, B),
         NEW dirA, ReadInPart(dirA, h.Cgroups, "Cgroups", A),
         NEW dirB, ReadInPart(dirB, g.Cgroups, "Cgroups", B),
         NEW x \in DOMAIN dirA \cap DOMAIN dirB,
         NEW p, p = CounterDiff(dirA[x], dirB[x], CgroupCounters),
         NEW q, q = CounterDiff(h.Cgroups[x], g.Cgroups[x], CgroupCounters)
  PROVE  /\ AllOrZero(p, q, ThrottleCounters) /\ AllOrZero(p, q, MemoryEvents)
         /\ p.MemoryHighEvents = q.MemoryHighEvents \/ <<"Cgroups", "memory_events", x>> \in B
<1> DEFINE u == h.Cgroups
           v == g.Cgroups
<1>1. /\ AllCounting(u, CgroupCounters) /\ AllCounting(v, CgroupCounters)
  BY DEF Partial, IsHost
<1>2. x \in DOMAIN u /\ x \in DOMAIN v  BY DEF ReadInPart, Seen
<1>3. CgroupCounters \subseteq DOMAIN v[x]  BY <1>1, <1>2 DEF AllCounting, Counting
<1>4. \A k \in DOMAIN v[x] : DeltaInPart(p, q, k, "Cgroups", x, A, B, CgroupCounters)
  <2>1. \A k \in CgroupCounters : Blank["Cgroups"][k] = 0  BY BlankSources, BlankCounters
  <2>2. DeltasInPart(u, v, dirA, dirB, CgroupCounters, "Cgroups", A, B)
    <3> HIDE DEF u, v
    <3>1. ReadInPart(dirA, u, "Cgroups", A) /\ ReadInPart(dirB, v, "Cgroups", B)  BY DEF u, v
    <3> QED  BY <1>1, <2>1, <3>1, PartDeltas
  <2>3. /\ p = CounterDiff(IF x \in DOMAIN dirA THEN dirA[x] ELSE dirB[x], dirB[x], CgroupCounters)
        /\ q = CounterDiff(IF x \in DOMAIN u THEN u[x] ELSE v[x], v[x], CgroupCounters)
    BY <1>2
  <2> HIDE DEF u, v
  <2> QED  BY <2>2, <2>3 DEF DeltasInPart
<1>5. /\ <<"Cgroups", "cpu_stat", x>> \notin A \ B
      /\ <<"Cgroups", "memory_events", x>> \notin A \ B
  BY BaselinesRead
<1>6. /\ <<"Cgroups">> \notin A /\ <<"Cgroups", "entry", x>> \notin A  BY DEF ReadInPart, Seen
<1> HIDE DEF u, v
<1>7. ASSUME NEW file \in DOMAIN Files["Cgroups"], NEW counters \in SUBSET Files["Cgroups"][file],
             counters \subseteq CgroupCounters, <<"Cgroups", file, x>> \notin A \ B
      PROVE  /\ <<"Cgroups", file, x>> \in B => \A k \in counters : p[k] = 0
             /\ <<"Cgroups", file, x>> \notin B => \A k \in counters : p[k] = q[k]
  <2>1. \A k \in counters :
          /\ k \in MissingOf("Cgroups", x, B) <=> <<"Cgroups", file, x>> \in B
          /\ k \notin MissingOf("Cgroups", x, A \ B)
    BY <1>7, BlankSources, FieldMissing DEF Devices
  <2>2. \A k \in counters : Blank["Cgroups"][k] = 0  BY <1>7, BlankSources, BlankCounters
  <2>3. \A k \in counters : DeltaInPart(p, q, k, "Cgroups", x, A, B, CgroupCounters)
    BY <1>3, <1>4, <1>7
  <2> QED  BY <1>6, <2>1, <2>2, <2>3 DEF DeltaInPart
<1>8. ThrottleCounters \subseteq CgroupCounters /\ MemoryEvents \subseteq CgroupCounters
  BY CgroupFiles
<1>9. AllOrZero(p, q, ThrottleCounters)
  <2>1. (\A k \in ThrottleCounters : p[k] = 0) \/ (\A k \in ThrottleCounters : p[k] = q[k])
    BY <1>5, <1>7, <1>8, CgroupFiles
  <2> QED  BY <2>1 DEF AllOrZero
<1>10. /\ AllOrZero(p, q, MemoryEvents)
       /\ p.MemoryHighEvents = q.MemoryHighEvents \/ <<"Cgroups", "memory_events", x>> \in B
  <2>1. /\ (\A k \in MemoryEvents : p[k] = 0) \/ (\A k \in MemoryEvents : p[k] = q[k])
        /\ (\A k \in MemoryEvents : p[k] = q[k]) \/ <<"Cgroups", "memory_events", x>> \in B
    BY <1>5, <1>7, <1>8, CgroupFiles
  <2>2. "MemoryHighEvents" \in MemoryEvents  BY DEF MemoryEvents
  <2> QED  BY <2>1, <2>2 DEF AllOrZero
<1> QED  BY <1>9, <1>10

\* The rules that look at the difference between what was read and what there was.
Misleading(A, B) == Misled(B) \cup (Misled(A) \cap {"EDGE_MEMCG_SOCK_MEMORY_THROTTLE"})

LEMMA PartialCgroups ==
  ASSUME NEW d, NEW h, NEW g, NEW A, NEW B, NEW paths, PartialDiff(d, h, g, A, B, paths),
         NEW e, WholeFields(e, h, g, paths)
  PROVE  CgroupsPoorer(d, e, Misleading(A, B))
<1> DEFINE a == CollectSnapshot(h, A, paths)
           b == CollectSnapshot(g, B, paths)
           x == a.Cgroups.Groups
           y == b.Cgroups.Groups
           dirA == ReadEntries("Cgroups", h.Cgroups, A)
           dirB == ReadEntries("Cgroups", g.Cgroups, B)
           old == ParseCgroups(h.Cgroups, h.Processes, paths).Groups
           new == ParseCgroups(g.Cgroups, g.Processes, paths).Groups
<1>1. /\ IsHost(h) /\ IsHost(g) /\ Partial(h, g, A, B) /\ ~Fatal(A) /\ ~Fatal(B)
      /\ SnapshotOf(a, h, A, paths) /\ SnapshotOf(b, g, B, paths)
      /\ PartialFieldsOf(d, a, b, h, g, A, B, paths)
  BY PartialFields DEF PartialDiff, Partial
<1> HIDE DEF a, b
<1>2. CgroupsInPart(h, A, paths, x, dirA) /\ CgroupsInPart(g, B, paths, y, dirB)
  BY <1>1, PartialDirectory
<1>3. /\ DeltasInOrder(d.Cgroups, x, y, dirA, dirB, paths)
      /\ DeltasInOrder(e.Cgroups, old, new, h.Cgroups, g.Cgroups, paths)
  BY <1>1 DEF PartialFieldsOf, WholeFields
<1>4. ReadInPart(dirA, h.Cgroups, "Cgroups", A) /\ ReadInPart(dirB, g.Cgroups, "Cgroups", B)
  BY <1>2 DEF CgroupsInPart
<1>5. /\ DOMAIN x \subseteq DOMAIN old /\ DOMAIN y \subseteq DOMAIN new
      /\ \/ DOMAIN x = DOMAIN old \/ <<"Cgroups">> \in A \/ <<"Processes">> \in A
         \/ "EDGE_MEMCG_SOCK_MEMORY_THROTTLE" \in Misled(A)
      /\ \/ DOMAIN y = DOMAIN new \/ <<"Cgroups">> \in B \/ <<"Processes">> \in B
         \/ "EDGE_MEMCG_SOCK_MEMORY_THROTTLE" \in Misled(B)
  BY <1>2 DEF CgroupsInPart
<1> HIDE DEF x, y, dirA, dirB, old, new
<1> DEFINE some == {k \in DOMAIN y : \E i \in DOMAIN x : paths[i] = paths[k]}
           all == {k \in DOMAIN new : \E i \in DOMAIN old : paths[i] = paths[k]}
<1>6. /\ d.Cgroups = [k \in some |-> d.Cgroups[k]]
      /\ \A k \in some :
           /\ paths[k] \in DOMAIN dirA \cap DOMAIN dirB
           /\ d.Cgroups[k] = CounterDiff(dirA[paths[k]], dirB[paths[k]], CgroupCounters)
           /\ d.Cgroups[k].Path = paths[k]
  BY <1>3 DEF DeltasInOrder
<1>7. /\ e.Cgroups = [k \in all |-> e.Cgroups[k]]
      /\ \A k \in all :
           /\ e.Cgroups[k] = CounterDiff(h.Cgroups[paths[k]], g.Cgroups[paths[k]], CgroupCounters)
           /\ e.Cgroups[k].Path = paths[k]
  BY <1>3 DEF DeltasInOrder
<1>8. some \subseteq all  BY <1>5
<1>9. DOMAIN x = DOMAIN old /\ DOMAIN y = DOMAIN new => some = all  OBVIOUS
<1> HIDE DEF some, all
<1>10. DOMAIN d.Cgroups = some /\ DOMAIN e.Cgroups = all  BY <1>6, <1>7
<1>11. ASSUME NEW k \in some
       PROVE  /\ k \in all /\ d.Cgroups[k].Path = e.Cgroups[k].Path
              /\ AllOrZero(d.Cgroups[k], e.Cgroups[k], ThrottleCounters)
              /\ AllOrZero(d.Cgroups[k], e.Cgroups[k], MemoryEvents)
              /\ \/ d.Cgroups[k].MemoryHighEvents = e.Cgroups[k].MemoryHighEvents
                 \/ <<"Cgroups", "memory_events", paths[k]>> \in B
  <2>1. /\ k \in all /\ d.Cgroups[k].Path = e.Cgroups[k].Path
        /\ paths[k] \in DOMAIN dirA \cap DOMAIN dirB
        /\ d.Cgroups[k] = CounterDiff(dirA[paths[k]], dirB[paths[k]], CgroupCounters)
        /\ e.Cgroups[k] = CounterDiff(h.Cgroups[paths[k]], g.Cgroups[paths[k]], CgroupCounters)
    BY <1>6, <1>7, <1>8
  <2> QED  BY <1>1, <1>4, <2>1, PartialCgroup
<1>12. ASSUME NEW k \in DOMAIN d.Cgroups
       PROVE  \E j \in DOMAIN e.Cgroups : CgroupPoorer(d.Cgroups[k], e.Cgroups[j])
  <2>1. k \in DOMAIN e.Cgroups /\ CgroupPoorer(d.Cgroups[k], e.Cgroups[k])
    BY <1>10, <1>11 DEF CgroupPoorer
  <2> QED  BY <2>1
<1>13. CASE <<"Cgroups">> \in A \cup B
  <2>1. \A k \in some : <<"Cgroups">> \notin A /\ <<"Cgroups">> \notin B
    BY <1>4, <1>6 DEF ReadInPart, Seen
  <2>2. \A k : k \notin DOMAIN d.Cgroups  BY <1>10, <1>13, <2>1
  <2> QED  BY <1>12, <2>2 DEF CgroupsPoorer
<1>14. CASE "EDGE_MEMCG_SOCK_MEMORY_THROTTLE" \in Misled(A) \cup Misled(B)
  BY <1>12, <1>14 DEF CgroupsPoorer, Misleading
<1>15. CASE <<"Processes">> \in B
  <2>1. \A pid : pid \notin DOMAIN d.Processes  BY <1>15, PartialProcesses DEF ReadTasks
  <2> QED  BY <1>12, <2>1 DEF CgroupsPoorer
<1>16. CASE /\ <<"Cgroups">> \notin A \cup B /\ <<"Processes">> \notin B
            /\ "EDGE_MEMCG_SOCK_MEMORY_THROTTLE" \notin Misled(A) \cup Misled(B)
  <2>1. <<"Processes">> \notin A  BY <1>1, <1>16, BaselinesRead
  <2>2. some = all  BY <1>5, <1>9, <1>16, <2>1
  <2>3. \A name : /\ <<"Cgroups", "memory_events", name>> \notin B
                  /\ <<"Processes", "cgroup", name>> \notin B
    BY <1>16, ReadingsMislead DEF MisledByNamed
  <2>4. \A pid \in DOMAIN d.Processes : d.Processes[pid].CgroupPath = e.Processes[pid].CgroupPath
    <3>1. \A pid \in DOMAIN d.Processes :
            \/ d.Processes[pid].CgroupPath = e.Processes[pid].CgroupPath
            \/ <<"Processes", "cgroup", pid>> \in B
      <4>1. ReadTasks(d, e, B)  BY PartialProcesses
      <4> QED  BY <4>1 DEF ReadTasks
    <3> QED  BY <2>3, <3>1
  <2>5. SameThrottled(d, e)  BY <1>10, <1>11, <2>2, <2>3, <2>4 DEF SameThrottled
  <2> QED  BY <1>12, <2>5 DEF CgroupsPoorer
<1> QED  BY <1>13, <1>14, <1>15, <1>16

\* The directory that the newer snapshot lists.
LEMMA PartialCgroupDir ==
  ASSUME NEW d, NEW h, NEW g, NEW A, NEW B, NEW paths, PartialDiff(d, h, g, A, B, paths),
         NEW e, WholeDiff(e, h, g, paths)
  PROVE  CgroupDirPoorer(d, e)
<1> DEFINE b == CollectSnapshot(g, B, paths)
           s == CollectSnapshot(g, {}, paths)
           dir == ReadEntries("Cgroups", g.Cgroups, B)
           some == FoundAt(dir, b.Processes, paths)
           all == FoundAt(g.Cgroups, g.Processes, paths)
<1>1. /\ IsHost(g) /\ ~Fatal(B) /\ SnapshotOf(b, g, B, paths) /\ d.Latest = b
  BY PartialFields DEF PartialDiff, Partial, PartialFieldsOf
<1>2. e.Latest = s  BY WholeDiffFields DEF WholeFields
<1>3. s.Cgroups = ParseCgroups(g.Cgroups, g.Processes, paths)  BY <1>1, NothingLost
<1> HIDE DEF b, s
<1>4. CgroupsInPart(g, B, paths, b.Cgroups.Groups, dir)  BY <1>1, PartialDirectory
<1>5. b.Cgroups = ParseCgroups(dir, b.Processes, paths)  BY <1>1 DEF SnapshotOf
<1> HIDE DEF dir
<1>6. /\ ParsedAt(b.Cgroups.Groups, dir, some, paths) /\ DOMAIN b.Cgroups.Groups = some
      /\ b.Cgroups.Frozen <=> \E i \in some : dir[paths[i]].Frozen
  BY <1>5, ParsedGroups
<1>7. /\ ParsedAt(s.Cgroups.Groups, g.Cgroups, all, paths) /\ DOMAIN s.Cgroups.Groups = all
      /\ s.Cgroups.Frozen <=> \E i \in all : g.Cgroups[paths[i]].Frozen
  BY <1>3, ParsedGroups
<1>8. some \subseteq all /\ ReadInPart(dir, g.Cgroups, "Cgroups", B)
  BY <1>3, <1>4, <1>6, <1>7 DEF CgroupsInPart
<1>9. \A i \in some : paths[i] \in DOMAIN dir  BY DEF FoundAt
<1> HIDE DEF some, all
<1>10. ASSUME NEW i \in some
       PROVE  LET r == dir[paths[i]]
                  q == g.Cgroups[paths[i]]
              IN  /\ r.Path = q.Path /\ OrZero(r.CPUShares, q.CPUShares)
                  /\ r.Frozen = q.Frozen \/ r.Frozen = FALSE
  <2> DEFINE path == paths[i]
  <2>1. path \in DOMAIN g.Cgroups
        /\ RecordInPart(dir[path], g.Cgroups[path], MissingOf("Cgroups", path, B), Blank["Cgroups"])
    BY <1>8, <1>9 DEF ReadInPart, Seen
  <2>2. CgroupSettings \subseteq DOMAIN g.Cgroups[path]  BY <1>1, <2>1 DEF IsHost
  <2>3. {"Path", "CPUShares", "Frozen"} \subseteq DOMAIN g.Cgroups[path]
    BY <2>2 DEF CgroupSettings
  <2> HIDE DEF path
  <2>4. /\ dir[path].Path = g.Cgroups[path].Path
        /\ OrZero(dir[path].CPUShares, g.Cgroups[path].CPUShares)
        /\ dir[path].Frozen = g.Cgroups[path].Frozen \/ dir[path].Frozen = FALSE
    BY <2>1, <2>3, AlwaysRead, BlankSources, CgroupFiles DEF RecordInPart, OrZero
  <2> QED  BY <2>4 DEF path
<1>11. b.Cgroups.Frozen => s.Cgroups.Frozen  BY <1>6, <1>7, <1>8, <1>10
<1>12. ASSUME NEW k \in DOMAIN b.Cgroups.Groups
       PROVE  /\ k \in DOMAIN s.Cgroups.Groups
              /\ b.Cgroups.Groups[k].Path = s.Cgroups.Groups[k].Path
              /\ OrZero(b.Cgroups.Groups[k].CPUShares, s.Cgroups.Groups[k].CPUShares)
  <2>1. k \in some /\ k \in all  BY <1>6, <1>8
  <2>2. b.Cgroups.Groups[k] = dir[paths[k]] /\ s.Cgroups.Groups[k] = g.Cgroups[paths[k]]
    BY <1>6, <1>7, <2>1 DEF ParsedAt
  <2>3. k \in DOMAIN s.Cgroups.Groups  BY <1>7, <2>1
  <2> QED  BY <1>10, <2>1, <2>2, <2>3
<1> QED  BY <1>1, <1>2, <1>11, <1>12 DEF CgroupDirPoorer

-----------------------------------------------------------------------------
(***************************************************************************)
(* What the newer snapshot of a partial diff says of a source: what it     *)
(* would say, or less.                                                     *)
(***************************************************************************)
Stated == DOMAIN SystemSnapshot \ {"Cgroups", "Timestamp"}
LatestRead(d, e, g, lost) ==
  \A f \in Stated :
    /\ d.Latest[f] = (IF f \in Listed THEN ReadEntries(f, g[f], lost) ELSE ReadSource(f, g[f], lost))
    /\ e.Latest[f] = g[f]

LEMMA PartialLatest ==
  ASSUME NEW d, NEW h, NEW g, NEW A, NEW B, NEW paths, PartialDiff(d, h, g, A, B, paths),
         NEW e, WholeFields(e, h, g, paths)
  PROVE  /\ LatestRead(d, e, g, B) /\ Numbers(e.Latest)
         /\ d.Latest.CPU = e.Latest.CPU /\ d.FileLocks = d.Latest.FileLocks
         /\ IsHost(g) /\ HasFields(g)
<1> DEFINE b == CollectSnapshot(g, B, paths)
           s == CollectSnapshot(g, {}, paths)
           none == {}
<1>1. /\ IsHost(g) /\ ~Fatal(B) /\ SnapshotOf(b, g, B, paths) /\ d.Latest = b
      /\ d.FileLocks = b.FileLocks
  BY PartialFields DEF PartialDiff, Partial, PartialFieldsOf
<1>2. e.Latest = s  BY DEF WholeFields
<1>3. /\ s.CPU = g.CPU
      /\ \A f \in Stated : s[f] = g[f]
  BY <1>1, NothingLost DEF Stated
<1>4. ASSUME NEW f \in Stated
      PROVE  b[f] = IF f \in Listed THEN ReadEntries(f, g[f], B) ELSE ReadSource(f, g[f], B)
  <2>1. f \in DOMAIN SystemSnapshot /\ f # "Cgroups" /\ f # "Timestamp"  BY DEF Stated
  <2> HIDE DEF b
  <2> QED  BY <1>1, <2>1, SnapshotSources DEF b
<1>5. b.CPU = g.CPU  BY <1>1 DEF SnapshotOf
<1>6. Numbers(s)
  <2>1. ~Fatal(none)  BY DEF Fatal
  <2>2. s = CollectSnapshot(g, none, paths)  OBVIOUS
  <2> HIDE DEF none, s
  <2> QED  BY <1>1, <2>1, <2>2, SnapshotNumbers
<1> HIDE DEF b, s
<1>7. LatestRead(d, e, g, B)  BY <1>1, <1>2, <1>3, <1>4 DEF LatestRead
<1>8. HasFields(g)  BY <1>1 DEF IsHost
<1> QED  BY <1>1, <1>2, <1>3, <1>5, <1>6, <1>7, <1>8

\* A source of one file is there or not.
LEMMA LeftWhole ==
  ASSUME NEW d, NEW e, NEW g, NEW B, LatestRead(d, e, g, B), NEW f \in Stated,
         f \notin Listed, f \notin DOMAIN Files, f \notin DOMAIN Defaults
  PROVE  d.Latest[f] = e.Latest[f] \/ d.Latest[f] = SystemSnapshot[f]
<1>1. d.Latest[f] = ReadSource(f, g[f], B) /\ e.Latest[f] = g[f]  BY DEF LatestRead
<1> QED  BY <1>1, SourceRead DEF WholeOrUnread

\* One of several files may lack the fields of some.
LeftInPart(p, q, source, lost) ==
  \A k \in DOMAIN Blank[source] :
    \/ /\ p[k] = q[k]
       /\ \A file \in DOMAIN Files[source] :
            k \in Files[source][file] => <<source, file>> \notin lost
    \/ /\ p[k] = Blank[source][k]
       /\ \E file \in DOMAIN Files[source] :
            k \in Files[source][file] /\ <<source, file>> \in lost

LEMMA LeftOfFiles ==
  ASSUME NEW d, NEW e, NEW g, NEW B, LatestRead(d, e, g, B), HasFields(g), NEW f \in Stated,
         f \notin Listed, f \in DOMAIN Files, f \notin DOMAIN Defaults
  PROVE  \/ d.Latest[f] = SystemSnapshot[f]
         \/ LeftInPart(d.Latest[f], e.Latest[f], f, B)
<1>1. d.Latest[f] = ReadSource(f, g[f], B) /\ e.Latest[f] = g[f]  BY DEF LatestRead
<1>2. DOMAIN g[f] = DOMAIN Blank[f]  BY DEF HasFields, Stated
<1>3. \/ ReadSource(f, g[f], B) = SystemSnapshot[f]
      \/ RecordInPart(ReadSource(f, g[f], B), g[f], Missing(f, B), Blank[f])
  BY FilesInPart DEF ReadSource
<1>4. ASSUME RecordInPart(d.Latest[f], g[f], Missing(f, B), Blank[f])
      PROVE  LeftInPart(d.Latest[f], e.Latest[f], f, B)
  <2>1. ASSUME NEW k \in DOMAIN Blank[f], k \in Missing(f, B)
        PROVE  /\ d.Latest[f][k] = Blank[f][k]
               /\ \E file \in DOMAIN Files[f] : k \in Files[f][file] /\ <<f, file>> \in B
    <3>1. d.Latest[f][k] = Blank[f][k]  BY <1>2, <1>4, <2>1 DEF RecordInPart
    <3> QED  BY <2>1, <3>1 DEF Missing
  <2>2. ASSUME NEW k \in DOMAIN Blank[f], k \notin Missing(f, B)
        PROVE  /\ d.Latest[f][k] = e.Latest[f][k]
               /\ \A file \in DOMAIN Files[f] : k \in Files[f][file] => <<f, file>> \notin B
    <3>1. d.Latest[f][k] = e.Latest[f][k]  BY <1>1, <1>2, <1>4, <2>2 DEF RecordInPart
    <3> QED  BY <2>2, <3>1 DEF Missing
  <2> QED  BY <2>1, <2>2 DEF LeftInPart
<1> QED  BY <1>1, <1>3, <1>4

\* A source that was not read is not available.
LEMMA UnreadAvailable == \A names : ~Unread(names).Available
BY SMT DEF Unread

LEMMA UnreadGauges ==
  /\ \A f \in Gauges : ~SystemSnapshot[f].Available
  /\ ~SystemSnapshot.Neighbor.Available /\ ~SystemSnapshot.Inotify.Available
  /\ ~SystemSnapshot.SysVSem.Available /\ ~SystemSnapshot.SysVShm.Available
  /\ ~SystemSnapshot.SchedStat.Available /\ ~SystemSnapshot.IRQStat.Available
  /\ ~SystemSnapshot.KSM.Available
<1>1. SystemSnapshot.MDStat.Available = FALSE /\ SystemSnapshot.KSM.Available = FALSE
  BY Zenon DEF SystemSnapshot
<1>2. /\ \E names : SystemSnapshot.LoadAvg = Unread(names)
      /\ \E names : SystemSnapshot.Conntrack = Unread(names)
      /\ \E names : SystemSnapshot.BuddyInfo = Unread(names)
      /\ \E names : SystemSnapshot.FileNR = Unread(names)
      /\ \E names : SystemSnapshot.Slab = Unread(names)
      /\ \E names : SystemSnapshot.Neighbor = Unread(names)
      /\ \E names : SystemSnapshot.Inotify = Unread(names)
      /\ \E names : SystemSnapshot.SysVSem = Unread(names)
      /\ \E names : SystemSnapshot.SysVShm = Unread(names)
  BY Zenon DEF SystemSnapshot
<1>3. /\ \E names : SystemSnapshot.SchedStat = Unread(names)
      /\ \E names : SystemSnapshot.IRQStat = Unread(names)
  BY Zenon DEF SystemSnapshot
<1>4. /\ ~SystemSnapshot.LoadAvg.Available /\ ~SystemSnapshot.Conntrack.Available
      /\ ~SystemSnapshot.BuddyInfo.Available /\ ~SystemSnapshot.FileNR.Available
      /\ ~SystemSnapshot.Slab.Available
      /\ ~SystemSnapshot.Neighbor.Available /\ ~SystemSnapshot.Inotify.Available
      /\ ~SystemSnapshot.SysVSem.Available /\ ~SystemSnapshot.SysVShm.Available
      /\ ~SystemSnapshot.SchedStat.Available /\ ~SystemSnapshot.IRQStat.Available
  BY <1>2, <1>3, UnreadAvailable, Zenon
<1>5. \A f \in Gauges : ~SystemSnapshot[f].Available  BY <1>1, <1>4, Zenon DEF Gauges
<1> QED  BY <1>1, <1>4, <1>5

\* It holds no pressure, sets no limit and has no entries.
LEMMA UnreadSettings ==
  /\ \A s \in Settings : SystemSnapshot[s] = 0
  /\ SystemSnapshot.Clocksource = EmptyString /\ SystemSnapshot.THPDefragMode = EmptyString
  /\ SystemSnapshot.SchedMigrationCostNS = 0 /\ SystemSnapshot.PIDMax = 0
  /\ SystemSnapshot.PortRange.Low = 0 /\ SystemSnapshot.PortRange.High = 0
  /\ SystemSnapshot.AIO.AIONR = 0 /\ SystemSnapshot.AIO.AIOMaxNR = 0
  /\ SystemSnapshot.Virt.BalloonKB = 0
  /\ SystemSnapshot.SockStat.TCPInUse = 0 /\ SystemSnapshot.SockStat.TCPOrphan = 0
  /\ SystemSnapshot.SockStat.TCPTimeWait = 0
  /\ SystemSnapshot.PSI.Available = FALSE /\ SystemSnapshot.PSI.CPU = NoPressure
  /\ SystemSnapshot.PSI.Memory = NoPressure /\ SystemSnapshot.PSI.IO = NoPressure
<1>1. \A s \in Settings : SystemSnapshot[s] = 0  BY SMT DEF SystemSnapshot, Settings
<1>2. SystemSnapshot.Clocksource = EmptyString /\ SystemSnapshot.THPDefragMode = EmptyString
  BY Zenon DEF SystemSnapshot
<1>3. /\ SystemSnapshot.SchedMigrationCostNS = 0 /\ SystemSnapshot.PIDMax = 0
      /\ SystemSnapshot.PortRange.Low = 0 /\ SystemSnapshot.PortRange.High = 0
      /\ SystemSnapshot.AIO.AIONR = 0 /\ SystemSnapshot.AIO.AIOMaxNR = 0
      /\ SystemSnapshot.Virt.BalloonKB = 0
      /\ SystemSnapshot.SockStat.TCPInUse = 0 /\ SystemSnapshot.SockStat.TCPOrphan = 0
      /\ SystemSnapshot.SockStat.TCPTimeWait = 0
  BY SMT DEF SystemSnapshot, Counters
<1>4. /\ SystemSnapshot.PSI.Available = FALSE /\ SystemSnapshot.PSI.CPU = NoPressure
      /\ SystemSnapshot.PSI.Memory = NoPressure /\ SystemSnapshot.PSI.IO = NoPressure
  BY Zenon DEF SystemSnapshot
<1> QED  BY <1>1, <1>2, <1>3, <1>4

\* What a missing file leaves, and the fields there are.
LEMMA BlankRecords ==
  /\ Blank["PSI"] = SystemSnapshot.PSI /\ Blank["KSM"] = SystemSnapshot.KSM
  /\ Blank["SysVSem"] = SystemSnapshot.SysVSem /\ Blank["SysVShm"] = SystemSnapshot.SysVShm
  /\ Blank["AIO"] = SystemSnapshot.AIO /\ Blank["Inotify"] = SystemSnapshot.Inotify
  /\ DOMAIN Blank["Neighbor"] = DOMAIN SystemSnapshot.Neighbor
  /\ {"Available", "CPU", "Memory", "IO"} \subseteq DOMAIN SystemSnapshot.PSI
  /\ {"Available", "Running", "PagesToScan", "PagesSharing"} \subseteq DOMAIN SystemSnapshot.KSM
  /\ {"Available", "SemMNS", "SemMNI", "AllocatedSemaphores", "AllocatedSemSets"}
       \subseteq DOMAIN SystemSnapshot.SysVSem
  /\ {"Available", "AllocatedSegments", "AllocatedPages", "ShmMNI", "ShmAll"}
       \subseteq DOMAIN SystemSnapshot.SysVShm
  /\ {"AIONR", "AIOMaxNR"} \subseteq DOMAIN SystemSnapshot.AIO
  /\ {"Available", "MaxUserWatches", "MaxQueuedEvents"} \subseteq DOMAIN SystemSnapshot.Inotify
  /\ {"Available", "ActiveEntries", "GCThresh3"} \subseteq DOMAIN SystemSnapshot.Neighbor
<1>1. /\ Blank["PSI"] = SystemSnapshot.PSI /\ Blank["KSM"] = SystemSnapshot.KSM
      /\ Blank["SysVSem"] = SystemSnapshot.SysVSem /\ Blank["SysVShm"] = SystemSnapshot.SysVShm
      /\ Blank["AIO"] = SystemSnapshot.AIO /\ Blank["Inotify"] = SystemSnapshot.Inotify
      /\ DOMAIN Blank["Neighbor"] = DOMAIN SystemSnapshot.Neighbor
  BY SMT DEF Blank
<1>2. /\ {"Available", "CPU", "Memory", "IO"} \subseteq DOMAIN SystemSnapshot.PSI
      /\ {"Available", "Running", "PagesToScan", "PagesSharing"} \subseteq DOMAIN SystemSnapshot.KSM
      /\ {"AIONR", "AIOMaxNR"} \subseteq DOMAIN SystemSnapshot.AIO
  BY SMT DEF SystemSnapshot, Counters
<1>3. /\ {"Available", "SemMNS", "SemMNI", "AllocatedSemaphores", "AllocatedSemSets"}
           \subseteq DOMAIN SystemSnapshot.SysVSem
      /\ {"Available", "AllocatedSegments", "AllocatedPages", "ShmMNI", "ShmAll"}
           \subseteq DOMAIN SystemSnapshot.SysVShm
  BY SMT DEF SystemSnapshot, Unread
<1>4. /\ {"Available", "MaxUserWatches", "MaxQueuedEvents"} \subseteq DOMAIN SystemSnapshot.Inotify
      /\ {"Available", "ActiveEntries", "GCThresh3"} \subseteq DOMAIN SystemSnapshot.Neighbor
  BY SMT DEF SystemSnapshot, Unread
<1> QED  BY <1>1, <1>2, <1>3, <1>4

\* Which source is of which sort.
OneFile == Gauges \cup Settings \cup
  {"Clocksource", "THPDefragMode", "SockStat", "Virt", "FileLocks", "SchedMigrationCostNS",
   "SchedStat", "IRQStat", "Memory"}
SeveralFiles == {"PSI", "KSM", "SysVSem", "SysVShm", "AIO", "Neighbor", "Inotify"}

LEMMA SortsOfSources ==
  /\ \A f \in OneFile : /\ f \in Stated /\ f \notin Listed /\ f \notin DOMAIN Files
                        /\ f \notin DOMAIN Defaults
  /\ \A f \in SeveralFiles : /\ f \in Stated /\ f \notin Listed /\ f \in DOMAIN Files
                             /\ f \notin DOMAIN Defaults
  /\ \A f \in {"DiskSpace", "CPUFreq", "Thermal", "TCPSockets"} : f \in Stated /\ f \in Listed
  /\ "CPUFreq" \in DOMAIN Files
  /\ \A f \in {"DiskSpace", "Thermal", "TCPSockets"} : f \notin DOMAIN Files
  /\ \A f \in {"PIDMax", "PortRange"} : f \in Stated /\ f \notin Listed /\ f \notin DOMAIN Files
<1>1. OneFile \cup SeveralFiles \cup
        {"DiskSpace", "CPUFreq", "Thermal", "TCPSockets", "PIDMax", "PortRange"}
          \subseteq DOMAIN SystemSnapshot
  BY SMT DEF OneFile, SeveralFiles, Gauges, Settings, SystemSnapshot
<1>2. OneFile \cup SeveralFiles \cup
        {"DiskSpace", "CPUFreq", "Thermal", "TCPSockets", "PIDMax", "PortRange"} \subseteq Stated
  BY <1>1, SMT DEF Stated, OneFile, SeveralFiles, Gauges, Settings
<1>3. \A f \in OneFile \cup SeveralFiles : f \notin Listed /\ f \notin DOMAIN Defaults
  BY SMT DEF OneFile, SeveralFiles, Gauges, Settings, Listed, Defaults
<1>4. /\ \A f \in OneFile : f \notin DOMAIN Files
      /\ \A f \in SeveralFiles : f \in DOMAIN Files
  BY SMT DEF OneFile, SeveralFiles, Gauges, Settings, Files
<1>5. /\ \A f \in {"DiskSpace", "CPUFreq", "Thermal", "TCPSockets"} : f \in Listed
      /\ \A f \in {"PIDMax", "PortRange"} : f \notin Listed
  BY SMT DEF Listed
<1>6. /\ "CPUFreq" \in DOMAIN Files
      /\ \A f \in {"DiskSpace", "Thermal", "TCPSockets", "PIDMax", "PortRange"} :
           f \notin DOMAIN Files
  BY SMT DEF Files
<1> QED  BY <1>2, <1>3, <1>4, <1>5, <1>6

\* Sources of one file.
LEMMA PartialOneFile ==
  ASSUME NEW d, NEW e, NEW g, NEW B, LatestRead(d, e, g, B), NEW differ
  PROVE  /\ GaugesPoorer(d, e) /\ SettingsPoorer(d, e) /\ ModesPoorer(d, e)
         /\ SinceBootPoorer(d, e, differ)
         /\ \/ d.Latest.SockStat = e.Latest.SockStat
            \/ /\ d.Latest.SockStat.TCPInUse = 0 /\ d.Latest.SockStat.TCPOrphan = 0
               /\ d.Latest.SockStat.TCPTimeWait = 0
         /\ d.Latest.Virt = e.Latest.Virt \/ d.Latest.Virt.BalloonKB = 0
         /\ \/ d.Latest.FileLocks = e.Latest.FileLocks
            \/ d.Latest.FileLocks = SystemSnapshot.FileLocks
<1>1. ASSUME NEW f \in OneFile
      PROVE  d.Latest[f] = e.Latest[f] \/ d.Latest[f] = SystemSnapshot[f]
  BY SortsOfSources, LeftWhole
<1>2. /\ Gauges \subseteq OneFile /\ Settings \subseteq OneFile
      /\ {"Clocksource", "THPDefragMode", "SockStat", "Virt", "FileLocks", "SchedStat", "IRQStat"}
           \subseteq OneFile
  BY DEF OneFile
<1> HIDE DEF OneFile
<1>3. GaugesPoorer(d, e)  BY <1>1, <1>2, UnreadGauges DEF GaugesPoorer
<1>4. SettingsPoorer(d, e)  BY <1>1, <1>2, UnreadSettings DEF SettingsPoorer, OrZero
<1>5. ModesPoorer(d, e)  BY <1>1, <1>2, UnreadSettings DEF ModesPoorer, OrEmpty
<1>6. SinceBootPoorer(d, e, differ)  BY <1>1, <1>2, UnreadGauges DEF SinceBootPoorer
<1>7. /\ \/ d.Latest.SockStat = e.Latest.SockStat
         \/ /\ d.Latest.SockStat.TCPInUse = 0 /\ d.Latest.SockStat.TCPOrphan = 0
            /\ d.Latest.SockStat.TCPTimeWait = 0
      /\ d.Latest.Virt = e.Latest.Virt \/ d.Latest.Virt.BalloonKB = 0
      /\ \/ d.Latest.FileLocks = e.Latest.FileLocks
         \/ d.Latest.FileLocks = SystemSnapshot.FileLocks
  BY <1>1, <1>2, UnreadSettings
<1> QED  BY <1>3, <1>4, <1>5, <1>6, <1>7

\* Pressure, and the counters of asynchronous I/O.
LEMMA PartialPSI ==
  ASSUME NEW d, NEW e, NEW g, NEW B, LatestRead(d, e, g, B), HasFields(g)
  PROVE  PSIPoorer(d, e)
<1> DEFINE p == d.Latest.PSI
           q == e.Latest.PSI
<1>1. p = SystemSnapshot.PSI \/ LeftInPart(p, q, "PSI", B)
  BY SortsOfSources, LeftOfFiles DEF SeveralFiles
<1>2. \A file \in DOMAIN Files["PSI"] :
        "Available" \notin Files["PSI"][file] /\ "CPU" \notin Files["PSI"][file]
  BY SMT DEF Files
<1>3. NoPressure.Some = 0 /\ NoPressure.Full = 0  BY DEF NoPressure
<1> HIDE DEF p, q
<1>4. CASE p = SystemSnapshot.PSI
  BY <1>3, <1>4, UnreadSettings DEF PSIPoorer, p, q
<1>5. CASE LeftInPart(p, q, "PSI", B)
  <2>1. p.Available = q.Available /\ p.CPU = q.CPU
    BY <1>2, <1>5, BlankRecords DEF LeftInPart
  <2>2. /\ p.Memory = q.Memory \/ p.Memory = NoPressure
        /\ p.IO = q.IO \/ p.IO = NoPressure
    BY <1>5, BlankRecords, UnreadSettings DEF LeftInPart
  <2> QED  BY <1>3, <2>1, <2>2 DEF PSIPoorer, p, q
<1> QED  BY <1>1, <1>4, <1>5

LEMMA PartialAIO ==
  ASSUME NEW d, NEW e, NEW g, NEW B, LatestRead(d, e, g, B), HasFields(g)
  PROVE  /\ OrZero(d.Latest.AIO.AIONR, e.Latest.AIO.AIONR)
         /\ OrZero(d.Latest.AIO.AIOMaxNR, e.Latest.AIO.AIOMaxNR)
<1> DEFINE p == d.Latest.AIO
           q == e.Latest.AIO
<1>1. p = SystemSnapshot.AIO \/ LeftInPart(p, q, "AIO", B)
  BY SortsOfSources, LeftOfFiles DEF SeveralFiles
<1> HIDE DEF p, q
<1>2. OrZero(p.AIONR, q.AIONR) /\ OrZero(p.AIOMaxNR, q.AIOMaxNR)
  BY <1>1, BlankRecords, UnreadSettings DEF LeftInPart, OrZero
<1> QED  BY <1>2 DEF p, q

\* Pages shared by the kernel, and System V IPC.
LEMMA PartialKSM ==
  ASSUME NEW d, NEW e, NEW g, NEW B, LatestRead(d, e, g, B), HasFields(g)
  PROVE  KSMPoorer(d, e)
<1> DEFINE p == d.Latest.KSM
           q == e.Latest.KSM
<1>1. p = SystemSnapshot.KSM \/ LeftInPart(p, q, "KSM", B)
  BY SortsOfSources, LeftOfFiles DEF SeveralFiles
<1>2. \A file \in DOMAIN Files["KSM"] :
        "Available" \notin Files["KSM"][file] /\ "Running" \notin Files["KSM"][file]
  BY SMT DEF Files
<1>3. SystemSnapshot.KSM.PagesToScan = 0 /\ SystemSnapshot.KSM.PagesSharing = 0
  BY SMT DEF SystemSnapshot
<1> HIDE DEF p, q
<1>4. CASE p = SystemSnapshot.KSM  BY <1>4, UnreadGauges DEF KSMPoorer, p
<1>5. CASE LeftInPart(p, q, "KSM", B)
  <2>1. p.Available = q.Available /\ p.Running = q.Running
    BY <1>2, <1>5, BlankRecords DEF LeftInPart
  <2>2. OrZero(p.PagesToScan, q.PagesToScan) /\ OrZero(p.PagesSharing, q.PagesSharing)
    BY <1>3, <1>5, BlankRecords DEF LeftInPart, OrZero
  <2> QED  BY <2>1, <2>2 DEF KSMPoorer, p, q
<1> QED  BY <1>1, <1>4, <1>5

\* The file without which a source is not available, and the fields it fills.
Leading(source, file) ==
  /\ source \in DOMAIN Files /\ file \in DOMAIN Files[source]
  /\ "Available" \in Files[source][file] /\ "Available" \in DOMAIN Blank[source]
  /\ ~Blank[source].Available
SameInFile(p, q, source, file) ==
  /\ p.Available = q.Available
  /\ \A k \in Files[source][file] \cap DOMAIN Blank[source] : p[k] = q[k]

LEMMA LeadingFile ==
  ASSUME NEW p, NEW q, NEW source, NEW lost, LeftInPart(p, q, source, lost),
         NEW file, Leading(source, file), p.Available
  PROVE  SameInFile(p, q, source, file)
<1>0. /\ source \in DOMAIN Files /\ file \in DOMAIN Files[source]
      /\ "Available" \in Files[source][file] /\ "Available" \in DOMAIN Blank[source]
      /\ ~Blank[source].Available
  BY DEF Leading
<1>1. p.Available = q.Available /\ <<source, file>> \notin lost  BY <1>0 DEF LeftInPart
<1>2. ASSUME NEW k \in Files[source][file] \cap DOMAIN Blank[source] PROVE p[k] = q[k]
  <2>1. \A other \in DOMAIN Files[source] : k \in Files[source][other] => other = file
    BY <1>0, FilesDisjoint DEF Disjoint
  <2> QED  BY <1>0, <1>1, <2>1 DEF LeftInPart
<1> QED  BY <1>1, <1>2 DEF SameInFile

LEMMA PartialSemaphores ==
  ASSUME NEW d, NEW e, NEW g, NEW B, LatestRead(d, e, g, B), HasFields(g)
  PROVE  SemaphoresPoorer(d, e)
<1> DEFINE p == d.Latest.SysVSem
           q == e.Latest.SysVSem
<1>1. p = SystemSnapshot.SysVSem \/ LeftInPart(p, q, "SysVSem", B)
  BY SortsOfSources, LeftOfFiles DEF SeveralFiles
<1>2. /\ "SysVSem" \in DOMAIN Files /\ "kernel_sem" \in DOMAIN Files["SysVSem"]
      /\ Files["SysVSem"]["kernel_sem"] = {"Available", "SemMNS", "SemMNI"}
  BY SMT DEF Files
<1>3. Leading("SysVSem", "kernel_sem")  BY <1>2, BlankRecords, UnreadGauges DEF Leading
<1>4. /\ SystemSnapshot.SysVSem.AllocatedSemaphores = 0
      /\ SystemSnapshot.SysVSem.AllocatedSemSets = 0
  BY UnreadNumbers
<1> HIDE DEF p, q
<1>5. CASE ~p.Available  BY <1>5 DEF SemaphoresPoorer, p
<1>6. CASE p.Available /\ LeftInPart(p, q, "SysVSem", B)
  <2>0. SameInFile(p, q, "SysVSem", "kernel_sem")  BY <1>3, <1>6, LeadingFile
  <2>1. p.Available = q.Available  BY <2>0 DEF SameInFile
  <2>2. p.SemMNS = q.SemMNS /\ p.SemMNI = q.SemMNI  BY <1>2, <2>0, BlankRecords DEF SameInFile
  <2>3. /\ OrZero(p.AllocatedSemaphores, q.AllocatedSemaphores)
        /\ OrZero(p.AllocatedSemSets, q.AllocatedSemSets)
    BY <1>4, <1>6, BlankRecords DEF LeftInPart, OrZero
  <2> QED  BY <2>1, <2>2, <2>3 DEF SemaphoresPoorer, p, q
<1> QED  BY <1>1, <1>5, <1>6, UnreadGauges

LEMMA PartialSegments ==
  ASSUME NEW d, NEW e, NEW g, NEW B, LatestRead(d, e, g, B), HasFields(g)
  PROVE  SegmentsPoorer(d, e)
<1> DEFINE p == d.Latest.SysVShm
           q == e.Latest.SysVShm
<1>1. p = SystemSnapshot.SysVShm \/ LeftInPart(p, q, "SysVShm", B)
  BY SortsOfSources, LeftOfFiles DEF SeveralFiles
<1>2. /\ "SysVShm" \in DOMAIN Files /\ "sysvipc_shm" \in DOMAIN Files["SysVShm"]
      /\ Files["SysVShm"]["sysvipc_shm"] = {"Available", "AllocatedSegments", "AllocatedPages"}
  BY SMT DEF Files
<1>3. Leading("SysVShm", "sysvipc_shm")  BY <1>2, BlankRecords, UnreadGauges DEF Leading
<1>4. SystemSnapshot.SysVShm.ShmMNI = 0 /\ SystemSnapshot.SysVShm.ShmAll = 0
  BY SMT DEF SystemSnapshot, Unread
<1> HIDE DEF p, q
<1>5. CASE ~p.Available  BY <1>5 DEF SegmentsPoorer, p
<1>6. CASE p.Available /\ LeftInPart(p, q, "SysVShm", B)
  <2>0. SameInFile(p, q, "SysVShm", "sysvipc_shm")  BY <1>3, <1>6, LeadingFile
  <2>1. p.Available = q.Available  BY <2>0 DEF SameInFile
  <2>2. p.AllocatedSegments = q.AllocatedSegments /\ p.AllocatedPages = q.AllocatedPages
    BY <1>2, <2>0, BlankRecords DEF SameInFile
  <2>3. OrZero(p.ShmMNI, q.ShmMNI) /\ OrZero(p.ShmAll, q.ShmAll)
    BY <1>4, <1>6, BlankRecords DEF LeftInPart, OrZero
  <2> QED  BY <2>1, <2>2, <2>3 DEF SegmentsPoorer, p, q
<1> QED  BY <1>1, <1>5, <1>6, UnreadGauges

\* The limits that are assumed: the queue of inotify and the size of the ARP table.
LEMMA PartialInotify ==
  ASSUME NEW d, NEW e, NEW g, NEW B, LatestRead(d, e, g, B), HasFields(g)
  PROVE  InotifyPoorer(d, e, Misled(B))
<1> DEFINE p == d.Latest.Inotify
           q == e.Latest.Inotify
<1>1. p = SystemSnapshot.Inotify \/ LeftInPart(p, q, "Inotify", B)
  BY SortsOfSources, LeftOfFiles DEF SeveralFiles
<1>2. /\ "Inotify" \in DOMAIN Files /\ "max_user_watches" \in DOMAIN Files["Inotify"]
      /\ Files["Inotify"]["max_user_watches"] = {"Available", "MaxUserWatches"}
  BY SMT DEF Files
<1>3. \A file \in DOMAIN Files["Inotify"] :
        "MaxQueuedEvents" \in Files["Inotify"][file] => file = "max_queued_events"
  BY SMT DEF Files
<1>4. Leading("Inotify", "max_user_watches")  BY <1>2, BlankRecords, UnreadGauges DEF Leading
<1> HIDE DEF p, q
<1>5. CASE ~p.Available  BY <1>5 DEF InotifyPoorer, p
<1>6. CASE p.Available /\ LeftInPart(p, q, "Inotify", B)
  <2>0. SameInFile(p, q, "Inotify", "max_user_watches")  BY <1>4, <1>6, LeadingFile
  <2>1. p.Available = q.Available  BY <2>0 DEF SameInFile
  <2>2. p.MaxUserWatches = q.MaxUserWatches  BY <1>2, <2>0, BlankRecords DEF SameInFile
  <2>3. \/ p.MaxQueuedEvents = q.MaxQueuedEvents \/ <<"Inotify", "max_queued_events">> \in B
    BY <1>3, <1>6, BlankRecords DEF LeftInPart
  <2>4. \/ p.MaxQueuedEvents = q.MaxQueuedEvents
        \/ "EDGE_INOTIFY_QUEUE_OVERFLOW" \in Misled(B)
    BY <2>3, ReadingsMislead DEF MisledRules
  <2> QED  BY <2>1, <2>2, <2>4 DEF InotifyPoorer, p, q
<1> QED  BY <1>1, <1>5, <1>6, UnreadGauges

LEMMA PartialNeighbor ==
  ASSUME NEW d, NEW e, NEW g, NEW B, LatestRead(d, e, g, B), HasFields(g)
  PROVE  NeighborPoorer(d, e, Misled(B))
<1> DEFINE p == d.Latest.Neighbor
           q == e.Latest.Neighbor
<1>1. p = SystemSnapshot.Neighbor \/ LeftInPart(p, q, "Neighbor", B)
  BY SortsOfSources, LeftOfFiles DEF SeveralFiles
<1>2. \A file \in DOMAIN Files["Neighbor"] :
        /\ file = "gc_thresh3"
        /\ "Available" \notin Files["Neighbor"][file]
        /\ "ActiveEntries" \notin Files["Neighbor"][file]
  BY SMT DEF Files
<1> HIDE DEF p, q
<1>3. CASE p = SystemSnapshot.Neighbor  BY <1>3, UnreadGauges DEF NeighborPoorer, p
<1>4. CASE LeftInPart(p, q, "Neighbor", B)
  <2>1. p.Available = q.Available /\ p.ActiveEntries = q.ActiveEntries
    BY <1>2, <1>4, BlankRecords DEF LeftInPart
  <2>2. p.GCThresh3 = q.GCThresh3 \/ <<"Neighbor", "gc_thresh3">> \in B
    BY <1>2, <1>4, BlankRecords DEF LeftInPart
  <2>3. p.GCThresh3 = q.GCThresh3 \/ NeighborRules \subseteq Misled(B)
    BY <2>2, ReadingsMislead DEF MisledRules
  <2> QED  BY <2>1, <2>3 DEF NeighborPoorer, p, q
<1> QED  BY <1>1, <1>3, <1>4

\* The sources with names: those of which something could be read.
LEMMA PartialListed ==
  ASSUME NEW d, NEW e, NEW g, NEW B, LatestRead(d, e, g, B),
         NEW f \in {"DiskSpace", "Thermal", "TCPSockets"}
  PROVE  /\ Seen(d.Latest[f], e.Latest[f], f, B)
         /\ \A x \in DOMAIN d.Latest[f] : d.Latest[f][x] = e.Latest[f][x]
<1>1. f \in Stated /\ f \in Listed /\ f \notin DOMAIN Files  BY SortsOfSources
<1>2. d.Latest[f] = ReadEntries(f, g[f], B) /\ e.Latest[f] = g[f]  BY <1>1 DEF LatestRead
<1>3. \A x, r : ReadEntry(f, x, r, B) = r  BY <1>1 DEF ReadEntry
<1> QED  BY <1>2, <1>3, EntriesSeen

LEMMA PartialEntries ==
  ASSUME NEW d, NEW e, NEW g, NEW B, LatestRead(d, e, g, B)
  PROVE  /\ DiskSpacePoorer(d, e) /\ ThermalPoorer(d, e, Misled(B))
         /\ SocketsPoorer(d, e, Misled(B))
<1>1. DiskSpacePoorer(d, e)
  <2>1. /\ Seen(d.Latest["DiskSpace"], e.Latest["DiskSpace"], "DiskSpace", B)
        /\ \A x \in DOMAIN d.Latest["DiskSpace"] :
             d.Latest["DiskSpace"][x] = e.Latest["DiskSpace"][x]
    BY PartialListed
  <2> QED  BY <2>1 DEF DiskSpacePoorer, Seen
<1>2. ThermalPoorer(d, e, Misled(B))
  <2>1. /\ Seen(d.Latest["Thermal"], e.Latest["Thermal"], "Thermal", B)
        /\ \A x \in DOMAIN d.Latest["Thermal"] : d.Latest["Thermal"][x] = e.Latest["Thermal"][x]
    BY PartialListed
  <2>2. \A x : <<"Thermal", "entry", x>> \in B => "EDGE_SYSFS_POWER_THROTTLE_EVENT" \in Misled(B)
    BY ReadingsMislead DEF MisledByNamed
  <2> DEFINE zones == DOMAIN d.Latest["Thermal"]
             all == DOMAIN e.Latest["Thermal"]
  <2>3. \/ zones = all \/ (\A z : z \notin zones) \/ "EDGE_SYSFS_POWER_THROTTLE_EVENT" \in Misled(B)
    <3>1. \A x : x \in zones <=> /\ x \in all /\ <<"Thermal">> \notin B
                                 /\ <<"Thermal", "entry", x>> \notin B
      BY <2>1 DEF Seen
    <3> HIDE DEF zones, all
    <3> QED  BY <2>2, <3>1
  <2>4. \A z \in zones : z \in all  BY <2>1 DEF Seen
  <2> QED  BY <2>1, <2>3, <2>4 DEF ThermalPoorer
<1>3. SocketsPoorer(d, e, Misled(B))
  <2>1. /\ Seen(d.Latest["TCPSockets"], e.Latest["TCPSockets"], "TCPSockets", B)
        /\ \A x \in DOMAIN d.Latest["TCPSockets"] :
             d.Latest["TCPSockets"][x] = e.Latest["TCPSockets"][x]
    BY PartialListed
  <2>2. \A x : <<"TCPSockets", "entry", x>> \in B => "CONT_TCP_CLOSE_WAIT_LEAK" \in Misled(B)
    BY ReadingsMislead DEF MisledByNamed
  <2> DEFINE tables == DOMAIN d.Latest["TCPSockets"]
             all == DOMAIN e.Latest["TCPSockets"]
  <2>3. \/ tables = all \/ (\A z : z \notin tables) \/ "CONT_TCP_CLOSE_WAIT_LEAK" \in Misled(B)
    <3>1. \A x : x \in tables <=> /\ x \in all /\ <<"TCPSockets">> \notin B
                                  /\ <<"TCPSockets", "entry", x>> \notin B
      BY <2>1 DEF Seen
    <3> HIDE DEF tables, all
    <3> QED  BY <2>2, <3>1
  <2> QED  BY <2>1, <2>3 DEF SocketsPoorer
<1> QED  BY <1>1, <1>2, <1>3

\* The frequencies of a core are in a file each.
LEMMA FrequencyFiles ==
  /\ "CPUFreq" \in DOMAIN Files /\ Blank["CPUFreq"] = CoreFreq
  /\ {"scaling_max_freq", "scaling_cur_freq", "scaling_governor"} \subseteq DOMAIN Files["CPUFreq"]
  /\ "CurFreq" \in Files["CPUFreq"]["scaling_cur_freq"]
  /\ DOMAIN CoreFreq = {"MaxFreq", "CurFreq", "Governor"}
  /\ CoreFreq["MaxFreq"] = 0 /\ CoreFreq["Governor"] = EmptyString
<1>1. "CPUFreq" \in DOMAIN Files  BY SMT DEF Files
<1>2. Blank["CPUFreq"] = CoreFreq  BY SMT DEF Blank
<1>3. /\ {"scaling_max_freq", "scaling_cur_freq", "scaling_governor"}
             \subseteq DOMAIN Files["CPUFreq"]
      /\ "CurFreq" \in Files["CPUFreq"]["scaling_cur_freq"]
  BY SMT DEF Files
<1>4. /\ DOMAIN CoreFreq = {"MaxFreq", "CurFreq", "Governor"}
      /\ CoreFreq["MaxFreq"] = 0 /\ CoreFreq["Governor"] = EmptyString
  BY SMT DEF CoreFreq
<1> QED  BY <1>1, <1>2, <1>3, <1>4

LEMMA PartialFrequencies ==
  ASSUME NEW d, NEW e, NEW g, NEW B, LatestRead(d, e, g, B), HasFields(g)
  PROVE  CPUFreqPoorer(d, e, Misled(B))
<1> DEFINE p == d.Latest["CPUFreq"]
           q == e.Latest["CPUFreq"]
<1>1. "CPUFreq" \in Stated /\ "CPUFreq" \in Listed /\ "CPUFreq" \in DOMAIN Files
  BY SortsOfSources
<1>2. p = ReadEntries("CPUFreq", g["CPUFreq"], B) /\ q = g["CPUFreq"]
  BY <1>1 DEF LatestRead
<1>3. \A c \in DOMAIN q : DOMAIN q[c] = DOMAIN CoreFreq
  BY <1>1, <1>2, FrequencyFiles DEF HasFields
<1> HIDE DEF p, q
<1>4. ReadInPart(p, q, "CPUFreq", B)  BY <1>1, <1>2, EntriesInPart
<1>5. ASSUME NEW c \in DOMAIN p
      PROVE  /\ c \in DOMAIN q
             /\ OrZero(p[c].MaxFreq, q[c].MaxFreq) /\ OrEmpty(p[c].Governor, q[c].Governor)
             /\ p[c].CurFreq = q[c].CurFreq \/ FrequencyRules \subseteq Misled(B)
  <2>1. c \in DOMAIN q /\ RecordInPart(p[c], q[c], MissingOf("CPUFreq", c, B), CoreFreq)
    BY <1>4, FrequencyFiles DEF ReadInPart, Seen
  <2>2. OrZero(p[c].MaxFreq, q[c].MaxFreq) /\ OrEmpty(p[c].Governor, q[c].Governor)
    BY <1>3, <2>1, FrequencyFiles DEF RecordInPart, OrZero, OrEmpty
  <2>3. \/ p[c].CurFreq = q[c].CurFreq \/ "CurFreq" \in MissingOf("CPUFreq", c, B)
    BY <1>3, <2>1, FrequencyFiles DEF RecordInPart
  <2>4. "CurFreq" \in MissingOf("CPUFreq", c, B)
          <=> <<"CPUFreq", "scaling_cur_freq", c>> \in B
    BY FrequencyFiles, FieldMissing
  <2>5. p[c].CurFreq = q[c].CurFreq \/ FrequencyRules \subseteq Misled(B)
    BY <2>3, <2>4, ReadingsMislead DEF MisledByNamed
  <2> QED  BY <2>1, <2>2, <2>5
<1> QED  BY <1>5 DEF CPUFreqPoorer, p, q

\* The limits of which a rule assumes something.
LEMMA PartialAssumed ==
  ASSUME NEW d, NEW e, NEW g, NEW B, LatestRead(d, e, g, B)
  PROVE  AssumedPoorer(d, e, Misled(B))
<1>1. \A f \in {"SchedMigrationCostNS", "PIDMax", "PortRange"} :
        f \in Stated /\ f \notin Listed /\ f \notin DOMAIN Files
  BY SortsOfSources DEF OneFile
<1>2. \A f \in {"SchedMigrationCostNS", "PIDMax", "PortRange"} :
        d.Latest[f] = ReadSource(f, g[f], B) /\ e.Latest[f] = g[f]
  BY <1>1 DEF LatestRead
<1>3. \A f \in {"SchedMigrationCostNS", "PIDMax", "PortRange"} :
        \/ d.Latest[f] = e.Latest[f]
        \/ d.Latest[f] = SystemSnapshot[f] /\ <<"SystemConfig">> \in B
        \/ <<f>> \in B /\ (f \notin DOMAIN Defaults => d.Latest[f] = SystemSnapshot[f])
  BY <1>1, <1>2, Zenon DEF ReadSource, Late
<1>4. "SchedMigrationCostNS" \notin DOMAIN Defaults  BY UnreadNumbers
<1>5. \/ d.Latest.SchedMigrationCostNS = e.Latest.SchedMigrationCostNS
      \/ /\ d.Latest.SchedMigrationCostNS = 0
         /\ "CONT_SCHED_MIGRATION_COST_OVERHEAD" \in Misled(B)
  <2>1. \/ d.Latest.SchedMigrationCostNS = e.Latest.SchedMigrationCostNS
        \/ /\ d.Latest.SchedMigrationCostNS = 0
           /\ <<"SystemConfig">> \in B \/ <<"SchedMigrationCostNS">> \in B
    BY <1>3, <1>4, UnreadSettings
  <2> QED  BY <2>1, ReadingsMislead DEF MisledRules
<1>6. d.Latest.PIDMax \in {e.Latest.PIDMax, 0} \/ "CONT_PID_EXHAUSTION" \in Misled(B)
  <2>1. d.Latest.PIDMax \in {e.Latest.PIDMax, 0} \/ <<"PIDMax">> \in B
    BY <1>3, UnreadSettings
  <2> QED  BY <2>1, ReadingsMislead DEF MisledRules
<1>7. \/ d.Latest.PortRange = e.Latest.PortRange
      \/ "CONT_TIMEWAIT_PORT_EXHAUSTION" \in Misled(B)
      \/ d.Latest.PortRange.Low = 0 /\ d.Latest.PortRange.High = 0
  <2>1. \/ d.Latest.PortRange = e.Latest.PortRange \/ <<"PortRange">> \in B
        \/ d.Latest.PortRange.Low = 0 /\ d.Latest.PortRange.High = 0
    BY <1>3, UnreadSettings
  <2> QED  BY <2>1, ReadingsMislead DEF MisledRules
<1> QED  BY <1>5, <1>6, <1>7 DEF AssumedPoorer

\* What ends the snapshot when it fails is the same in both diffs.
LEMMA PartialTotals ==
  ASSUME NEW d, NEW h, NEW g, NEW A, NEW B, NEW paths, PartialDiff(d, h, g, A, B, paths),
         NEW e, WholeFields(e, h, g, paths)
  PROVE  SameTotals(d, e) /\ FileLocksPoorer(d, e, Misled(B))
<1> DEFINE a == CollectSnapshot(h, A, paths)
           b == CollectSnapshot(g, B, paths)
<1>1. PartialFieldsOf(d, a, b, h, g, A, B, paths) /\ ~Fatal(B)
  BY PartialFields DEF PartialDiff, Partial
<1> HIDE DEF a, b
<1>2. LatestRead(d, e, g, B) /\ d.Latest.CPU = e.Latest.CPU /\ d.FileLocks = d.Latest.FileLocks
  BY PartialLatest
<1>3. /\ d.Duration = e.Duration
      /\ d.ProcsRunning = e.ProcsRunning /\ d.ProcsBlocked = e.ProcsBlocked
      /\ d.ContextSwitches = e.ContextSwitches /\ d.ProcessesCreated = e.ProcessesCreated
      /\ d.TotalCPUUtil = e.TotalCPUUtil /\ d.PerCoreCPUUtil = e.PerCoreCPUUtil
  BY <1>1, Zenon DEF PartialFieldsOf, WholeFields
<1>4. d.Latest.Memory = e.Latest.Memory
  <2>1. /\ "Memory" \in Stated /\ "Memory" \notin Listed /\ "Memory" \notin DOMAIN Files
    BY SortsOfSources DEF OneFile
  <2>2. "Memory" \notin SystemConfig /\ <<"Memory">> \notin B
    BY <1>1, SMT DEF SystemConfig, Fatal
  <2>3. d.Latest["Memory"] = ReadSource("Memory", g["Memory"], B) /\ e.Latest["Memory"] = g["Memory"]
    BY <1>2, <2>1 DEF LatestRead
  <2> QED  BY <2>1, <2>2, <2>3 DEF ReadSource, Late
<1>5. SameTotals(d, e)  BY <1>2, <1>3, <1>4 DEF SameTotals
<1>6. FileLocksPoorer(d, e, Misled(B))
  <2>1. "FileLocks" \in Stated  BY SortsOfSources DEF OneFile
  <2>2. e.Latest["FileLocks"] = g["FileLocks"]  BY <1>2, <2>1 DEF LatestRead
  <2>3. e.FileLocks = g["FileLocks"]  BY DEF WholeFields
  <2>4. \/ d.Latest.FileLocks = e.Latest.FileLocks
        \/ d.Latest.FileLocks = SystemSnapshot.FileLocks
    BY <1>2, PartialOneFile
  <2> QED  BY <1>2, <2>2, <2>3, <2>4 DEF FileLocksPoorer
<1> QED  BY <1>5, <1>6

\* With more rules that may differ, a diff holds no more still.
LEMMA MoreMayDiffer ==
  ASSUME NEW d, NEW e, NEW some, NEW all, some \subseteq all
  PROVE  /\ DisksPoorer(d, e, some) => DisksPoorer(d, e, all)
         /\ NetIfacesPoorer(d, e, some) => NetIfacesPoorer(d, e, all)
         /\ ProcessesPoorer(d, e, some) => ProcessesPoorer(d, e, all)
         /\ FileLocksPoorer(d, e, some) => FileLocksPoorer(d, e, all)
         /\ CPUFreqPoorer(d, e, some) => CPUFreqPoorer(d, e, all)
         /\ ThermalPoorer(d, e, some) => ThermalPoorer(d, e, all)
         /\ SocketsPoorer(d, e, some) => SocketsPoorer(d, e, all)
         /\ NeighborPoorer(d, e, some) => NeighborPoorer(d, e, all)
         /\ InotifyPoorer(d, e, some) => InotifyPoorer(d, e, all)
         /\ AssumedPoorer(d, e, some) => AssumedPoorer(d, e, all)
<1>1. DisksPoorer(d, e, some) => DisksPoorer(d, e, all)  BY DEF DisksPoorer, QueuePoorer
<1>2. NetIfacesPoorer(d, e, some) => NetIfacesPoorer(d, e, all)  BY DEF NetIfacesPoorer
<1>3. ProcessesPoorer(d, e, some) => ProcessesPoorer(d, e, all)
  <2>1. \A p, q : StatusPoorer(p, q, some) => StatusPoorer(p, q, all)  BY DEF StatusPoorer
  <2>2. \A p, q : ProcessPoorer(p, q, some) => ProcessPoorer(p, q, all)  BY <2>1 DEF ProcessPoorer
  <2>3. SomeProcesses(d, e, some) => SomeProcesses(d, e, all)  BY <2>2 DEF SomeProcesses
  <2> QED  BY <2>3 DEF ProcessesPoorer
<1>4. /\ FileLocksPoorer(d, e, some) => FileLocksPoorer(d, e, all)
      /\ AssumedPoorer(d, e, some) => AssumedPoorer(d, e, all)
  BY DEF FileLocksPoorer, AssumedPoorer
<1>5. CPUFreqPoorer(d, e, some) => CPUFreqPoorer(d, e, all)  BY DEF CPUFreqPoorer
<1>6. /\ ThermalPoorer(d, e, some) => ThermalPoorer(d, e, all)
      /\ SocketsPoorer(d, e, some) => SocketsPoorer(d, e, all)
  BY DEF ThermalPoorer, SocketsPoorer
<1>7. /\ NeighborPoorer(d, e, some) => NeighborPoorer(d, e, all)
      /\ InotifyPoorer(d, e, some) => InotifyPoorer(d, e, all)
  BY DEF NeighborPoorer, InotifyPoorer
<1> QED  BY <1>1, <1>2, <1>3, <1>4, <1>5, <1>6, <1>7

\* So a diff of snapshots with failed readings holds no more than the whole one.
LEMMA PartialPoorer ==
  ASSUME NEW d, NEW h, NEW g, NEW A, NEW B, NEW paths, PartialDiff(d, h, g, A, B, paths),
         NEW e, WholeDiff(e, h, g, paths)
  PROVE  Poorer(d, e, Misleading(A, B))
<1> DEFINE all == Misleading(A, B)
<1>1. WholeFields(e, h, g, paths)  BY WholeDiffFields
<1>2. LatestRead(d, e, g, B) /\ HasFields(g) /\ Numbers(e.Latest)  BY <1>1, PartialLatest
<1>3. Misled(B) \subseteq all  BY DEF Misleading
<1> HIDE DEF all
<1>4. SameTotals(d, e) /\ FileLocksPoorer(d, e, all)  BY <1>1, <1>3, PartialTotals, MoreMayDiffer
<1>5. VMStatPoorer(d, e) /\ NetStatPoorer(d, e)  BY <1>1, PartialVMStat, PartialNetStat
<1>6. DisksPoorer(d, e, all) /\ NetIfacesPoorer(d, e, all)
  BY <1>1, <1>3, PartialDisks, PartialIfaces, MoreMayDiffer
<1>7. ProcessesPoorer(d, e, all)  BY <1>1, <1>3, PartialProcesses, MoreMayDiffer
<1>8. CgroupsPoorer(d, e, all) /\ CgroupDirPoorer(d, e)
  BY <1>1, PartialCgroups, PartialCgroupDir DEF all
<1>9. /\ GaugesPoorer(d, e) /\ SettingsPoorer(d, e) /\ ModesPoorer(d, e)
      /\ SinceBootPoorer(d, e, all)
  BY <1>2, PartialOneFile
<1>10. TablesPoorer(d, e)
  <2>1. /\ \/ d.Latest.SockStat = e.Latest.SockStat
           \/ /\ d.Latest.SockStat.TCPInUse = 0 /\ d.Latest.SockStat.TCPOrphan = 0
              /\ d.Latest.SockStat.TCPTimeWait = 0
        /\ d.Latest.Virt = e.Latest.Virt \/ d.Latest.Virt.BalloonKB = 0
    BY <1>2, PartialOneFile
  <2>2. /\ OrZero(d.Latest.AIO.AIONR, e.Latest.AIO.AIONR)
        /\ OrZero(d.Latest.AIO.AIOMaxNR, e.Latest.AIO.AIOMaxNR)
    BY <1>2, PartialAIO
  <2> QED  BY <2>1, <2>2 DEF TablesPoorer
<1>11. PSIPoorer(d, e) /\ DiskSpacePoorer(d, e)  BY <1>2, PartialPSI, PartialEntries
<1>12. AssumedPoorer(d, e, all)  BY <1>2, <1>3, PartialAssumed, MoreMayDiffer
<1>13. GaugesOfFilesPoorer(d, e, all)
  <2>1. CPUFreqPoorer(d, e, all)  BY <1>2, <1>3, PartialFrequencies, MoreMayDiffer
  <2>2. ThermalPoorer(d, e, all) /\ SocketsPoorer(d, e, all)
    BY <1>2, <1>3, PartialEntries, MoreMayDiffer
  <2>3. NeighborPoorer(d, e, all) /\ InotifyPoorer(d, e, all)
    BY <1>2, <1>3, PartialNeighbor, PartialInotify, MoreMayDiffer
  <2>4. KSMPoorer(d, e) /\ SemaphoresPoorer(d, e) /\ SegmentsPoorer(d, e)
    BY <1>2, PartialKSM, PartialSemaphores, PartialSegments
  <2> QED  BY <2>1, <2>2, <2>3, <2>4 DEF GaugesOfFilesPoorer
<1>14. Poorer(d, e, all)
  BY <1>2, <1>4, <1>5, <1>6, <1>7, <1>8, <1>9, <1>10, <1>11, <1>12, <1>13 DEF Poorer
<1> QED  BY <1>14 DEF all

LEMMA LostAddsNothing == DiagnosisInv => LostReadingAddsNothing
<1> DEFINE w == windows[1]
<1> SUFFICES ASSUME DiagnosisInv, pc = "report", ~restarted, Len(windows) = 1,
                    \A reading \in w.lostA \ w.lostB : Kind(reading) \notin Baselines
             PROVE  fired \subseteq Fired(w.fresh) \cup SinceBootRules
                                  \cup Misleading(w.lostA, w.lostB)
  BY Zenon DEF LostReadingAddsNothing, Misleading
<1>1. DOMAIN Diffs = 1..1 /\ DOMAIN windows = 1..1 /\ Len(Diffs) = 1  BY DiffsAreListed
<1>2. windows # <<>>  OBVIOUS
<1>3. fired = Fired(w.diff)
  <2>1. Diffs[1] = w.diff  BY <1>1 DEF Diffs
  <2>2. MedianDiff(Diffs) = Diffs[1]  BY <1>1, MedianOfOne
  <2>3. fired = Fired(MedianDiff(Diffs))
    BY <1>2, Zenon DEF DiagnosisInv, ReportIsOfMedian
  <2> QED  BY <2>1, <2>2, <2>3
<1>4. PICK h, t : WindowOf(w, h, t, order) /\ Restart(t, h) = h
  BY <1>1 DEF DiagnosisInv, Explained
<1> DEFINE g == Interval(t, h)
           d == DiffSnapshots(CollectSnapshot(h, {}, order), CollectSnapshot(g, {}, order))
<1>5. /\ IsHost(h) /\ t \in Troubles /\ IsHost(Window[t]) /\ IsHost(g)
      /\ IsHost(Fresh(h)) /\ IsHost(Interval(t, Fresh(h)))
      /\ ~Fatal(w.lostA) /\ ~Fatal(w.lostB)
  <2>1. IsHost(Interval(t, Restart(t, h)))  BY <1>4, WindowHosts
  <2> HIDE DEF w
  <2> QED  BY <1>4, <2>1, WindowHosts
<1>6. PartialDiff(w.diff, h, g, w.lostA, w.lostB, order)
  <2> HIDE DEF w
  <2>1. Partial(h, g, w.lostA, w.lostB)  BY <1>5 DEF Partial
  <2> QED  BY <1>4, <2>1, Zenon DEF WindowOf, PartialDiff
<1>7. /\ WholeDiff(d, h, g, order)
      /\ WholeDiff(w.fresh, Fresh(h), Interval(t, Fresh(h)), order)
  <2> HIDE DEF w
  <2> QED  BY <1>4, <1>5, Zenon DEF WindowOf, WholeDiff
<1> HIDE DEF d, w
<1>8. Fired(w.diff) \subseteq Fired(d) \cup Misleading(w.lostA, w.lostB)
  <2>1. Poorer(w.diff, d, Misleading(w.lostA, w.lostB))  BY <1>6, <1>7, PartialPoorer
  <2> QED  BY <2>1, PoorerFindsLess
<1>9. Fired(d) \subseteq Fired(w.fresh) \cup SinceBootRules
  <2>1. SameWindow(d, w.fresh)  BY <1>5, <1>7, WindowForgets
  <2> QED  BY <2>1, SameWindowFindsTheSame DEF SameWindow
<1> QED  BY <1>3, <1>8, <1>9

\* In every reachable report of one sample, no reading that failed, be it a source, a
\* file of it or a device of it, in one snapshot or in both, adds a finding, but for
\* those of the rules that the property names, each after the readings that mislead it.
THEOREM DiagnosisLostReading == Spec => []LostReadingAddsNothing
BY DiagnosisInvariant, LostAddsNothing, PTL
=============================================================================
