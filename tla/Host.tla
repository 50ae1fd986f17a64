-------------------------------- MODULE Host --------------------------------
(***************************************************************************)
(* The machine under diagnosis, from one reading to the next.  A host is a *)
(* record like a snapshot, with what the kernel would answer.  It goes     *)
(* through intervals, each as long as the sampling window and each with    *)
(* one trouble or calm: counters go on counting, everything else is as the *)
(* interval leaves it, and devices, cgroups and processes come and go.     *)
(* A driver that is loaded again, or a process that takes over a PID,      *)
(* begins its counters again at zero.                                      *)
(***************************************************************************)
EXTENDS Readings

CONSTANTS
  Troubles,     \* what may go on during an interval; "calm" is one of them
  BootedHost,   \* the host when it has just booted
  Window,       \* per trouble, what an interval of it counts and leaves behind
  Restarts      \* per trouble, what begins again at zero with it: names by source

SchedCounters == {"RunqueueWaitTimeMS", "RunningTimeMS"}
IRQCounters   == {"MaxCoreIRQs", "OtherCoresAvgIRQs"}
CgroupSettings == {"Path", "Frozen", "CPUShares"}

\* The counters of one source, and of every device, cgroup or process.
Counting(r, counters) ==
  counters \subseteq DOMAIN r /\ \A k \in counters : r[k] \in Nat
AllCounting(f, counters) == \A x \in DOMAIN f : Counting(f[x], counters)

\* A function from 1..n.
IsList(s) == s \in Seq({s[x] : x \in DOMAIN s})

\* Numbers that are unsigned in the code although they count nothing.
Unsigned(h) ==
  /\ h.CPU.ProcsRunning \in Nat /\ h.CPU.ProcsBlocked \in Nat
  /\ h.Memory.MemTotal \in Nat /\ h.PIDMax \in Nat
  /\ h.PortRange.Low \in Nat /\ h.PortRange.High \in Nat
  /\ h.SockStat.TCPTimeWait \in Nat /\ h.TCPMaxTWBuckets \in Nat
  /\ h.SysVSem.SemMNS \in Nat /\ h.SysVSem.SemMNI \in Nat
  /\ h.SysVSem.AllocatedSemaphores \in Nat /\ h.SysVSem.AllocatedSemSets \in Nat
  /\ h.AIO.AIOMaxNR \in Nat

\* The fields of the records of which a file may be missing.
HasFields(h) ==
  \A source \in DOMAIN Files :
    IF source \in Listed \cup {"Cgroups"}
    THEN \A name \in DOMAIN h[source] : DOMAIN h[source][name] = DOMAIN Blank[source]
    ELSE DOMAIN h[source] = DOMAIN Blank[source]

IsHost(h) ==
  /\ DOMAIN h = DOMAIN SystemSnapshot /\ h.Timestamp \in Nat
  /\ Unsigned(h) /\ HasFields(h)
  /\ DOMAIN h.CPU = DOMAIN SystemSnapshot.CPU
  /\ Counting(h.CPU.TotalCPU, DOMAIN CoreCPUStat)
  /\ IsList(h.CPU.PerCore)
  /\ AllCounting(h.CPU.PerCore, DOMAIN CoreCPUStat)
  /\ h.CPU.ContextSwitches \in Nat /\ h.CPU.ProcessesCreated \in Nat
  /\ Counting(h.VMStat, DOMAIN VMStatInfo) /\ Counting(h.NetStat, DOMAIN NetStatInfo)
  /\ AllCounting(h.DiskStats, DiskCounters)
  /\ AllCounting(h.NetIfaces, IfaceCounters)
  /\ AllCounting(h.Processes, ProcessCounters)
  /\ IsFiniteSet(DOMAIN h.Processes)
  /\ \A pid \in DOMAIN h.Processes : "CgroupPath" \in DOMAIN h.Processes[pid]
  /\ AllCounting(h.Cgroups, CgroupCounters)
  /\ \A path \in DOMAIN h.Cgroups :
       CgroupSettings \subseteq DOMAIN h.Cgroups[path] /\ h.Cgroups[path].Path = path
  /\ Counting(h.SchedStat, SchedCounters) /\ Counting(h.IRQStat, IRQCounters)

ASSUME HostAssumption ==
  /\ "calm" \in Troubles
  /\ IsHost(BootedHost)
  /\ \A t \in Troubles : t \in DOMAIN Window /\ IsHost(Window[t])

-----------------------------------------------------------------------------
Zeroed(r, counters) == [k \in DOMAIN r |-> IF k \in counters THEN 0 ELSE r[k]]

\* Of the devices or processes `names'.
ZeroSome(f, names, counters) ==
  [x \in DOMAIN f |-> IF x \in names THEN Zeroed(f[x], counters) ELSE f[x]]
ZeroAll(f, counters) == ZeroSome(f, DOMAIN f, counters)

\* Host h with every counter at zero.
FreshCPU(cpu) ==
  [cpu EXCEPT !.TotalCPU = Zeroed(@, DOMAIN CoreCPUStat),
              !.PerCore = ZeroAll(@, DOMAIN CoreCPUStat),
              !.ContextSwitches = 0, !.ProcessesCreated = 0]
Fresh(h) ==
  [h EXCEPT !.CPU = FreshCPU(@),
            !.VMStat = Zeroed(@, DOMAIN VMStatInfo),
            !.NetStat = Zeroed(@, DOMAIN NetStatInfo),
            !.DiskStats = ZeroAll(@, DiskCounters),
            !.NetIfaces = ZeroAll(@, IfaceCounters),
            !.Processes = ZeroAll(@, ProcessCounters),
            !.Cgroups = ZeroAll(@, CgroupCounters),
            !.SchedStat = Zeroed(@, SchedCounters),
            !.IRQStat = Zeroed(@, IRQCounters)]

\* The counters of `old' go on by what the window counts.
GoOn(old, window, counters) ==
  [k \in DOMAIN window |-> IF k \in counters THEN old[k] + window[k] ELSE window[k]]

\* What is new in the window has counted nothing before.
AllGoOn(old, window, counters) ==
  [x \in DOMAIN window |->
     IF x \in DOMAIN old THEN GoOn(old[x], window[x], counters) ELSE window[x]]

\* Host h after an interval of t.
IntervalCPU(old, window) ==
  [window EXCEPT !.TotalCPU = GoOn(old.TotalCPU, @, DOMAIN CoreCPUStat),
                 !.PerCore = AllGoOn(old.PerCore, @, DOMAIN CoreCPUStat),
                 !.ContextSwitches = old.ContextSwitches + @,
                 !.ProcessesCreated = old.ProcessesCreated + @]
Interval(t, h) ==
  [Window[t] EXCEPT
     !.Timestamp = h.Timestamp + @,
     !.CPU = IntervalCPU(h.CPU, @),
     !.VMStat = GoOn(h.VMStat, @, DOMAIN VMStatInfo),
     !.NetStat = GoOn(h.NetStat, @, DOMAIN NetStatInfo),
     !.DiskStats = AllGoOn(h.DiskStats, @, DiskCounters),
     !.NetIfaces = AllGoOn(h.NetIfaces, @, IfaceCounters),
     !.Processes = AllGoOn(h.Processes, @, ProcessCounters),
     !.Cgroups = AllGoOn(h.Cgroups, @, CgroupCounters),
     !.SchedStat = GoOn(h.SchedStat, @, SchedCounters),
     !.IRQStat = GoOn(h.IRQStat, @, IRQCounters)]

\* Host h after what starts an interval of t.
Restart(t, h) ==
  [h EXCEPT !.DiskStats = ZeroSome(@, Restarts[t].DiskStats, DiskCounters),
            !.NetIfaces = ZeroSome(@, Restarts[t].NetIfaces, IfaceCounters),
            !.Processes = ZeroSome(@, Restarts[t].Processes, ProcessCounters)]
=============================================================================
