------------------------------ MODULE ScanPool ------------------------------
(***************************************************************************)
(* The bounded worker pool of internal/collector/process.go.               *)
(*                                                                         *)
(* ScanProcesses lists /proc, starts min(NumCPU, #pids) workers, queues    *)
(* every PID on a buffered channel, closes it, starts a goroutine that     *)
(* closes the results channel once the wait group is empty, drains the     *)
(* results and finally reads smaps_rollup for the largest processes.       *)
(*                                                                         *)
(* Around it the kernel keeps running: processes exit, their PIDs are      *)
(* given to new processes, and the caller's context may be cancelled at    *)
(* any moment.  A process record keeps, instead of the numbers read, the   *)
(* incarnation of the PID that each group of files was read from.          *)
(***************************************************************************)
EXTENDS Integers, Sequences, FiniteSets

CONSTANTS
  Pids,            \* the PIDs the kernel may use
  Hidden,          \* PIDs whose stat file cannot be read or parsed
  Workers,         \* the worker goroutines, one per CPU (runtime.NumCPU)
  Rss,             \* resident set size of the process behind a PID
  SmapsLimit,      \* how many processes are enriched (50 in the code)
  MaxIncarnation   \* bound of the model: how often one PID is reused

ASSUME ScanAssumption ==
  /\ IsFiniteSet(Pids) /\ Pids # {} /\ Hidden \subseteq Pids
  /\ IsFiniteSet(Workers) /\ Workers # {}
  /\ Rss \in [Pids -> Nat]
  /\ SmapsLimit \in Nat /\ MaxIncarnation \in Nat

VARIABLES
  alive,           \* PIDs with a live process
  inc,             \* inc[p]: number of processes that have had PID p
  exited,          \* history: PIDs of which some process has exited
  cancelled,       \* the context is done
  mpc,             \* program counter of the goroutine in ScanProcesses
  pids,            \* the PIDs discoverPIDs found, in directory order
  sent,            \* how many of them were put on the jobs channel
  jobs, jobsClosed,
  results, resultsClosed,
  wg,              \* counter of the wait group
  wpc, info,       \* program counter and current record of each worker
  closer,          \* the goroutine { wg.Wait(); close(results) }
  collected        \* the slice ScanProcesses returns

kernel == <<alive, inc, exited>>
chans  == <<jobs, jobsClosed, results, resultsClosed>>
vars   == <<kernel, cancelled, mpc, pids, sent, chans, wg, wpc, info, closer,
            collected>>

(***************************************************************************)
(* A record under construction: the incarnation seen by the stat read, by  *)
(* the remaining per-PID reads and by smaps_rollup; 0 where nothing could  *)
(* be read (the field then keeps Go's zero value).                         *)
(***************************************************************************)
ProcessInfo ==
  [pid : Pids, stat : Nat, details : Nat, smaps : Nat]

NoInfo(p) == [pid |-> p, stat |-> 0, details |-> 0, smaps |-> 0]

\* Opening a file under /proc/p finds the current incarnation, or ENOENT.
Seen(p) == IF p \in alive THEN inc[p] ELSE 0

\* numWorkers, clamped to the number of PIDs found
NumWorkers == IF Cardinality(Workers) > Len(pids) THEN Len(pids)
                                                  ELSE Cardinality(Workers)

\* Faulty variant: no slot for the results the workers have in hand.
ResultsCapShort == Len(pids) - NumWorkers

\* make(chan ProcessInfo, len(pids)) and make(chan int, len(pids))
ResultsCap == Len(pids)
JobsCap == Len(pids)

Started == {w \in Workers : wpc[w] # "none"}

Init ==
  /\ alive \in SUBSET Pids
  /\ inc = [p \in Pids |-> IF p \in alive THEN 1 ELSE 0]
  /\ exited = {}
  /\ cancelled = FALSE
  /\ mpc = "discover" /\ pids = <<>> /\ sent = 0
  /\ jobs = <<>> /\ jobsClosed = FALSE
  /\ results = <<>> /\ resultsClosed = FALSE
  /\ wg = 0
  /\ wpc = [w \in Workers |-> "none"]
  /\ info = [w \in Workers |-> NoInfo(CHOOSE p \in Pids : TRUE)]
  /\ closer = "none"
  /\ collected = <<>>

-----------------------------------------------------------------------------
(* The environment: the kernel's process table and the caller's context.  *)

Exit(p) ==
  /\ p \in alive
  /\ alive' = alive \ {p}
  /\ exited' = exited \cup {p}
  /\ UNCHANGED <<inc, cancelled, mpc, pids, sent, chans, wg, wpc, info, closer,
                 collected>>

Fork(p) ==
  /\ p \notin alive /\ inc[p] < MaxIncarnation
  /\ alive' = alive \cup {p}
  /\ inc' = [inc EXCEPT ![p] = @ + 1]
  /\ UNCHANGED <<exited, cancelled, mpc, pids, sent, chans, wg, wpc, info,
                 closer, collected>>

Cancel ==
  /\ ~cancelled
  /\ cancelled' = TRUE
  /\ UNCHANGED <<kernel, mpc, pids, sent, chans, wg, wpc, info, closer,
                 collected>>

-----------------------------------------------------------------------------
(* The goroutine that runs ScanProcesses.                                  *)

\* Faulty variant: a PID may be listed twice.
ListingsWithRepeats == [1..Cardinality(alive) -> alive]

\* Readdirnames returns the live PIDs in some order, each one once.
Listings == {s \in [1..Cardinality(alive) -> alive] :
               \A i, j \in DOMAIN s : s[i] = s[j] => i = j}

\* The error path returns nil; an empty listing returns an empty slice.
DiscoverPIDs ==
  /\ mpc = "discover"
  /\ \/ mpc' = "failed" /\ UNCHANGED pids
     \/ /\ pids' \in Listings
        /\ mpc' = IF pids' = <<>> THEN "done" ELSE "spawn"
  /\ UNCHANGED <<kernel, cancelled, sent, chans, wg, wpc, info, closer,
                 collected>>

\* Faulty variant: wg.Add is left to the goroutine, which has not run yet.
SpawnWithoutAdd(w) ==
  /\ mpc = "spawn" /\ wpc[w] = "none"
  /\ wpc' = [wpc EXCEPT ![w] = "recv"]
  /\ mpc' = IF Cardinality(Started) + 1 = NumWorkers THEN "send" ELSE "spawn"
  /\ UNCHANGED <<kernel, cancelled, pids, sent, chans, wg, info, closer, collected>>

\* wg.Add(1); go worker.  After the last one, main turns to the jobs.
Spawn(w) ==
  /\ mpc = "spawn" /\ wpc[w] = "none"
  /\ wpc' = [wpc EXCEPT ![w] = "recv"]
  /\ wg' = wg + 1
  /\ mpc' = IF Cardinality(Started) + 1 = NumWorkers THEN "send" ELSE "spawn"
  /\ UNCHANGED <<kernel, cancelled, pids, sent, chans, info, closer, collected>>

SendJob ==
  /\ mpc = "send" /\ sent < Len(pids)
  /\ Len(jobs) < JobsCap
  /\ jobs' = Append(jobs, pids[sent + 1])
  /\ sent' = sent + 1
  /\ UNCHANGED <<kernel, cancelled, mpc, pids, jobsClosed, results,
                 resultsClosed, wg, wpc, info, closer, collected>>

\* close(jobs), then the closing goroutine is started.
CloseJobs ==
  /\ mpc = "send" /\ sent = Len(pids)
  /\ jobsClosed' = TRUE
  /\ closer' = "wait"
  /\ mpc' = "collect"
  /\ UNCHANGED <<kernel, cancelled, pids, sent, jobs, results, resultsClosed,
                 wg, wpc, info, collected>>

Collect ==
  /\ mpc = "collect" /\ results # <<>>
  /\ collected' = Append(collected, Head(results))
  /\ results' = Tail(results)
  /\ UNCHANGED <<kernel, cancelled, mpc, pids, sent, jobs, jobsClosed,
                 resultsClosed, wg, wpc, info, closer>>

ResultsDrained ==
  /\ mpc = "collect" /\ results = <<>> /\ resultsClosed
  /\ mpc' = "enrich"
  /\ UNCHANGED <<kernel, cancelled, pids, sent, chans, wg, wpc, info, closer,
                 collected>>

\* The indices enrichTopRSSSmapsRollup visits: a prefix of the slice sorted by
\* descending RSS.  sort.Slice is unstable, so ties fall either way.
TopRSS(S) ==
  /\ Cardinality(S) = IF SmapsLimit > Len(collected) THEN Len(collected)
                                                     ELSE SmapsLimit
  /\ \A i \in S, j \in DOMAIN collected \ S :
       Rss[collected[i].pid] >= Rss[collected[j].pid]

\* No context is consulted here; without kernel support it returns at once.
Enrich ==
  /\ mpc = "enrich"
  /\ \/ UNCHANGED collected
     \/ \E S \in SUBSET DOMAIN collected :
          /\ TopRSS(S)
          /\ collected' = [i \in DOMAIN collected |->
               IF i \in S
                 THEN [collected[i] EXCEPT !.smaps = Seen(collected[i].pid)]
                 ELSE collected[i]]
  /\ mpc' = "done"
  /\ UNCHANGED <<kernel, cancelled, pids, sent, chans, wg, wpc, info, closer>>

-----------------------------------------------------------------------------
(* A worker: for pid := range jobs { select ctx.Done / default: read }.    *)

TakeJob(w) ==
  /\ wpc[w] = "recv" /\ jobs # <<>>
  /\ info' = [info EXCEPT ![w] = NoInfo(Head(jobs))]
  /\ jobs' = Tail(jobs)
  /\ wpc' = [wpc EXCEPT ![w] = "got"]
  /\ UNCHANGED <<kernel, cancelled, mpc, pids, sent, jobsClosed, results,
                 resultsClosed, wg, closer, collected>>

\* Returning from the worker runs the deferred wg.Done().
Return(w) ==
  /\ wpc' = [wpc EXCEPT ![w] = "exited"]
  /\ wg' = wg - 1
  /\ UNCHANGED <<kernel, cancelled, mpc, pids, sent, chans, info, closer,
                 collected>>

\* Faulty variant: an empty channel is taken for a closed one.
JobsDrainedEarly(w) ==
  /\ wpc[w] = "recv" /\ jobs = <<>>
  /\ Return(w)

JobsDrained(w) ==
  /\ wpc[w] = "recv" /\ jobs = <<>> /\ jobsClosed
  /\ Return(w)

\* Faulty variant: this return path misses wg.Done().
AbandonWithoutDone(w) ==
  /\ wpc[w] = "got" /\ cancelled
  /\ wpc' = [wpc EXCEPT ![w] = "exited"]
  /\ UNCHANGED <<kernel, cancelled, mpc, pids, sent, chans, wg, info, closer,
                 collected>>

\* The job in hand is dropped when the context is done.
Abandon(w) ==
  /\ wpc[w] = "got" /\ cancelled
  /\ Return(w)

\* The default branch: nothing below looks at the context again.
Proceed(w) ==
  /\ wpc[w] = "got" /\ ~cancelled
  /\ wpc' = [wpc EXCEPT ![w] = "stat"]
  /\ UNCHANGED <<kernel, cancelled, mpc, pids, sent, chans, wg, info, closer,
                 collected>>

\* readProcessInfo gives up when stat is unreadable, and only then.
ReadStat(w) ==
  LET p == info[w].pid IN
  /\ wpc[w] = "stat"
  /\ IF p \in alive \ Hidden
       THEN /\ info' = [info EXCEPT ![w].stat = inc[p]]
            /\ wpc' = [wpc EXCEPT ![w] = "details"]
       ELSE /\ wpc' = [wpc EXCEPT ![w] = "recv"]
            /\ UNCHANGED info
  /\ UNCHANGED <<kernel, cancelled, mpc, pids, sent, chans, wg, closer,
                 collected>>

\* wchan, oom_score, io, limits, status, fd, cgroup: each error is ignored.
ReadDetails(w) ==
  /\ wpc[w] = "details"
  /\ info' = [info EXCEPT ![w].details = Seen(info[w].pid)]
  /\ wpc' = [wpc EXCEPT ![w] = "send"]
  /\ UNCHANGED <<kernel, cancelled, mpc, pids, sent, chans, wg, closer,
                 collected>>

SendResult(w) ==
  /\ wpc[w] = "send" /\ Len(results) < ResultsCap
  /\ results' = Append(results, info[w])
  /\ wpc' = [wpc EXCEPT ![w] = "recv"]
  /\ UNCHANGED <<kernel, cancelled, mpc, pids, sent, jobs, jobsClosed,
                 resultsClosed, wg, info, closer, collected>>

\* go func() { wg.Wait(); close(results) }()
CloseResults ==
  /\ closer = "wait" /\ wg = 0
  /\ resultsClosed' = TRUE
  /\ closer' = "done"
  /\ UNCHANGED <<kernel, cancelled, mpc, pids, sent, jobs, jobsClosed, results,
                 wg, wpc, info, collected>>

-----------------------------------------------------------------------------
Environment == Cancel \/ \E p \in Pids : Exit(p) \/ Fork(p)

Main ==
  \/ DiscoverPIDs \/ SendJob \/ CloseJobs \/ Collect \/ ResultsDrained \/ Enrich
  \/ \E w \in Workers : Spawn(w)

Worker(w) ==
  \/ TakeJob(w) \/ JobsDrained(w) \/ Abandon(w) \/ Proceed(w)
  \/ ReadStat(w) \/ ReadDetails(w) \/ SendResult(w)

\* ScanProcesses has returned; its caller keeps the slice.
Terminated == mpc \in {"done", "failed"} /\ UNCHANGED vars

Next ==
  \/ Environment \/ Main \/ CloseResults \/ Terminated
  \/ \E w \in Workers : Worker(w)

Spec == Init /\ [][Next]_vars

\* Go runs every goroutine that is not blocked; /proc reads return.
Fairness ==
  /\ WF_vars(Main) /\ WF_vars(CloseResults)
  /\ \A w \in Workers : WF_vars(Worker(w))

FairSpec == Spec /\ Fairness

-----------------------------------------------------------------------------
TypeOK ==
  /\ alive \subseteq Pids /\ exited \subseteq Pids
  /\ inc \in [Pids -> Nat]
  /\ cancelled \in BOOLEAN
  /\ mpc \in {"discover", "spawn", "send", "collect", "enrich", "done", "failed"}
  /\ pids \in Seq(Pids) /\ sent \in 0..Len(pids)
  /\ jobs \in Seq(Pids) /\ jobsClosed \in BOOLEAN
  /\ results \in Seq(ProcessInfo) /\ resultsClosed \in BOOLEAN
  /\ wg \in Nat
  /\ wpc \in [Workers -> {"none", "recv", "got", "stat", "details", "send",
                          "exited"}]
  /\ info \in [Workers -> ProcessInfo]
  /\ closer \in {"none", "wait", "done"}
  /\ collected \in Seq(ProcessInfo)

(***************************************************************************)
(* Sending on a closed channel panics and takes the program down.  The     *)
(* results channel is closed by a goroutine of its own, so the wait group  *)
(* alone orders that close after every worker's last send.                 *)
(***************************************************************************)
NoSendOnClosed ==
  resultsClosed => \A w \in Workers : wpc[w] \in {"none", "exited"}

(***************************************************************************)
(* Nobody drains results while jobs are queued, and cancelled workers stop *)
(* taking jobs, so a send that had to wait could wait for ever.  Both      *)
(* channels are large enough that no send ever waits: not main's sends of  *)
(* jobs and not a worker's send of a result.                               *)
(***************************************************************************)
SendsNeverBlock ==
  /\ mpc = "send" /\ sent < Len(pids) => Len(jobs) < JobsCap
  /\ \A w \in Workers : wpc[w] = "send" => Len(results) < ResultsCap

(***************************************************************************)
(* However jobs are interleaved over workers, no process is returned       *)
(* twice: rules that count or sum over processes would double it.          *)
(***************************************************************************)
NoDuplicates ==
  \A i, j \in DOMAIN collected :
    collected[i].pid = collected[j].pid => i = j

(***************************************************************************)
(* A scan whose context was never cancelled misses nothing: a listed,      *)
(* readable PID is absent from the returned slice only if a process with   *)
(* that PID exited in the meantime.                                        *)
(***************************************************************************)
CompleteUnlessCancelled ==
  mpc = "done" /\ ~cancelled =>
    \A i \in DOMAIN pids :
      \/ pids[i] \in Hidden \cup exited
      \/ \E j \in DOMAIN collected : collected[j].pid = pids[i]

(***************************************************************************)
(* ScanProcesses always returns, whenever the context is cancelled and     *)
(* however many processes vanish under it.                                 *)
(***************************************************************************)
ScanReturns == <>(mpc \in {"done", "failed"})

(***************************************************************************)
(* The pool keeps the promise of ScanContract.  The records gathered by    *)
(* the caller's goroutine stand for the reported PIDs; enriching them is a *)
(* part of finishing.                                                      *)
(***************************************************************************)
Contract == INSTANCE ScanContract WITH
  listed   <- {pids[i] : i \in DOMAIN pids},
  reported <- [i \in DOMAIN collected |-> collected[i].pid],
  excused  <- IF cancelled THEN Pids ELSE Hidden \cup exited,
  status   <- CASE mpc = "discover" -> "listing"
                [] mpc \in {"done", "failed"} -> mpc
                [] OTHER -> "scanning"

(***************************************************************************)
(* Whatever the interleaving of workers, exits, PID reuse and              *)
(* cancellation, ScanProcesses behaves towards its caller as ScanContract: *)
(* nothing is reported twice or unlisted, and nothing is left out without  *)
(* an excuse.                                                              *)
(***************************************************************************)
ImplementsContract == Contract!Spec

(***************************************************************************)
(* The operations runbook says of rapid PID recycling: "Zero impact; no    *)
(* race conditions".  All data of one record would then come from one      *)
(* process.  The code reads stat, the other files and smaps_rollup one     *)
(* after the other by PID, without comparing start times.                  *)
(***************************************************************************)
OneProcessPerRecord ==
  mpc = "done" =>
    \A i \in DOMAIN collected :
      LET r == collected[i] IN
      /\ r.details \in {0, r.stat}
      /\ r.smaps \in {0, r.stat}
=============================================================================
