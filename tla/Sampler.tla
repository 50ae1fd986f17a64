------------------------------ MODULE Sampler -------------------------------
(***************************************************************************)
(* The control flow of cmd/why-slow/main.go after the flags are parsed:    *)
(* the signal handler, the single-shot run, the watch loop, captureSamples *)
(* and captureDifferential.                                                *)
(*                                                                         *)
(* Taking a snapshot (module Snapshot) either fails or succeeds here; what *)
(* Analyze finds in a diff is the severity of the primary blocker, chosen  *)
(* freely.  Of a diff only the times are kept.  They are relative to the   *)
(* first snapshot of the pair: `elapsed' is what Go's monotonic clock      *)
(* shows, `shift' how far the wall clock was set back in the meantime.     *)
(***************************************************************************)
EXTENDS Integers, Sequences

CONSTANTS
  Configs,      \* command lines: --watch, --samples and --alert-threshold
  MaxShift      \* bound of the model: how far the wall clock is set back

ASSUME SamplerAssumption ==
  \* validateConfig refuses other numbers of samples, but no threshold.
  /\ Configs \subseteq [watch : BOOLEAN, samples : Nat \ {0},
                         alertThreshold : STRING]
  /\ MaxShift \in Nat

VARIABLES
  cfg,          \* the parsed flags
  signalled,    \* history: SIGINT or SIGTERM was sent to the program
  sigChan,      \* number of signals buffered by signal.Notify
  handler,      \* the goroutine { <-sigChan; cancel() }
  cancelled,    \* the context is done
  mpc,          \* program counter of main
  i, diffs,     \* the loop of captureSamples
  elapsed,      \* intervals since the first snapshot, monotonic clock
  shift,        \* intervals the wall clock was set back since then
  diff,         \* the result of captureSamples; <<>> stands for nil
  severity,     \* severity of the primary blocker found by Analyze
  outputFailed, \* history: a report could not be written
  reports       \* the last report written and how many since cancellation

output  == <<outputFailed, reports>>
signals == <<cfg, signalled, sigChan, handler, cancelled>>
clocks  == <<elapsed, shift>>
vars    == <<signals, mpc, i, diffs, clocks, diff, severity, output>>

Severities == {"CRITICAL", "HIGH", "MEDIUM", "INFO"}
NoFinding  == "NONE"

SeverityToRank(s) ==
  CASE s = "CRITICAL" -> 4 [] s = "HIGH" -> 3 [] s = "MEDIUM" -> 2
    [] s = "INFO" -> 1 [] OTHER -> 0

\* shouldAlert
ShouldAlert(s) ==
  LET minRank == SeverityToRank(cfg.alertThreshold)
  IN  IF s = NoFinding THEN minRank <= 0 ELSE SeverityToRank(s) >= minRank

Init ==
  /\ cfg \in Configs
  /\ signalled = FALSE /\ sigChan = 0 /\ handler = "wait" /\ cancelled = FALSE
  /\ mpc = "round"
  /\ i = 0 /\ diffs = <<>>
  /\ elapsed = 0 /\ shift = 0
  /\ diff = <<>> /\ severity = NoFinding
  /\ outputFailed = FALSE
  /\ reports = [diff |-> <<>>, severity |-> NoFinding, written |-> FALSE, late |-> 0]

-----------------------------------------------------------------------------
(* The environment.                                                        *)

\* signal.Notify never blocks: a signal that finds the channel full is dropped.
Signal ==
  /\ mpc # "exit" /\ sigChan = 0
  /\ signalled' = TRUE
  /\ sigChan' = 1
  /\ UNCHANGED <<cfg, handler, cancelled, mpc, i, diffs, clocks, diff, severity, output>>

SetClockBack ==
  /\ mpc \in {"sleep", "snapB"} /\ shift < MaxShift
  /\ shift' = shift + 1
  /\ UNCHANGED <<signals, mpc, i, diffs, elapsed, diff, severity, output>>

\* The handler receives one signal, cancels the context and ends.
Handle ==
  /\ handler = "wait" /\ sigChan = 1
  /\ sigChan' = 0 /\ handler' = "ended" /\ cancelled' = TRUE
  /\ UNCHANGED <<cfg, signalled, mpc, i, diffs, clocks, diff, severity, output>>

-----------------------------------------------------------------------------
(* captureSamples and captureDifferential.                                 *)

\* Faulty variant: the watch loop never looks at the context.
BeginRoundAnyway ==
  /\ mpc = "round"
  /\ mpc' = "sample"
  /\ i' = 0 /\ diffs' = <<>> /\ diff' = <<>>
  /\ UNCHANGED <<signals, clocks, severity, output>>

\* runWatchLoop returns when the context is done; a single-shot run does not
\* look.  Either way the round begins with an empty list of diffs.
BeginRound ==
  /\ mpc = "round"
  /\ mpc' = IF cfg.watch /\ cancelled THEN "exit" ELSE "sample"
  /\ i' = 0 /\ diffs' = <<>> /\ diff' = <<>>
  /\ UNCHANGED <<signals, clocks, severity, output>>

\* Faulty variant: one sample too many.
BeginExtraSample ==
  /\ mpc = "sample" /\ i <= cfg.samples
  /\ IF cfg.samples > 1 /\ cancelled
       THEN mpc' = "captured" /\ UNCHANGED i
       ELSE mpc' = "snapA" /\ i' = i + 1
  /\ UNCHANGED <<signals, diffs, clocks, diff, severity, output>>

\* The head of the loop: with more than one sample the context is checked.
BeginSample ==
  /\ mpc = "sample" /\ i < cfg.samples
  /\ IF cfg.samples > 1 /\ cancelled
       THEN mpc' = "captured" /\ UNCHANGED i
       ELSE mpc' = "snapA" /\ i' = i + 1
  /\ UNCHANGED <<signals, diffs, clocks, diff, severity, output>>

\* An error ends this sample: captureDifferential returns nil.
SnapshotA ==
  /\ mpc = "snapA"
  /\ mpc' \in {"sleep", "sample"}
  /\ elapsed' = 0 /\ shift' = 0
  /\ UNCHANGED <<signals, i, diffs, diff, severity, output>>

\* select: the interval passes, or the context is done and the sample is lost.
\* If both are ready either case is taken.
Sleep ==
  /\ mpc = "sleep"
  /\ \/ cancelled /\ mpc' = "sample" /\ UNCHANGED elapsed
     \/ mpc' = "snapB" /\ elapsed' = elapsed + 1
  /\ UNCHANGED <<signals, i, diffs, shift, diff, severity, output>>

\* DiffSnapshots.  Timestamp is time.Now(), so Sub compares monotonic clocks.
DiffSnapshots ==
  [duration |-> IF elapsed <= 0 THEN 1 ELSE elapsed,
   clockJump |-> elapsed <= 0,
   wall |-> elapsed - shift]

SnapshotB ==
  /\ mpc = "snapB"
  /\ mpc' = "sample"
  /\ \/ UNCHANGED diffs
     \/ diffs' = Append(diffs, DiffSnapshots)
  /\ UNCHANGED <<signals, i, clocks, diff, severity, output>>

\* Faulty variant: an empty diff, not nil, when no sample succeeded.
MedianOfNothing(ds) ==
  IF ds = <<>> THEN <<[duration |-> 0, clockJump |-> FALSE, wall |-> 0]>>
               ELSE <<ds[Len(ds)]>>

\* MedianDiff: nil without samples, else the times of the latest sample and a
\* clock jump if any sample saw one.
MedianDiff(ds) ==
  IF ds = <<>> THEN <<>>
  ELSE <<[ds[Len(ds)] EXCEPT !.clockJump =
            \E k \in DOMAIN ds : ds[k].clockJump]>>

EndSamples ==
  /\ mpc = "sample" /\ i = cfg.samples
  /\ diff' = MedianDiff(diffs)
  /\ mpc' = "captured"
  /\ UNCHANGED <<signals, i, diffs, clocks, severity, output>>

-----------------------------------------------------------------------------
(* main and runWatchLoop.                                                  *)

\* Faulty variants: a single-shot run tries again; the watch loop returns.
RetryOnNil == "round"
ReturnOnNil == IF cfg.watch THEN "exit" ELSE "render"

\* The watch loop starts over without a diff; a single-shot run analyses nil,
\* which is a report without findings.
OnNilDiff == IF cfg.watch THEN "round" ELSE "render"

Analyze ==
  /\ mpc = "captured"
  /\ IF diff = <<>>
       THEN /\ mpc' = OnNilDiff
            /\ severity' = NoFinding
       ELSE /\ severity' \in Severities \cup {NoFinding}
            /\ mpc' = IF cfg.watch /\ ~ShouldAlert(severity') THEN "round" ELSE "render"
  /\ UNCHANGED <<signals, i, diffs, clocks, diff, output>>

\* A report that cannot be written ends the program.
RenderReport ==
  /\ mpc = "render"
  /\ UNCHANGED <<signals, i, diffs, clocks, diff, severity>>
  /\ \/ /\ reports' = [diff |-> diff, severity |-> severity, written |-> TRUE,
                       late |-> IF cancelled THEN reports.late + 1 ELSE 0]
        /\ mpc' = IF cfg.watch THEN "round" ELSE "exit"
        /\ UNCHANGED outputFailed
     \/ /\ outputFailed' = TRUE /\ mpc' = "exit"
        /\ UNCHANGED reports

-----------------------------------------------------------------------------
Main ==
  \/ BeginRound \/ BeginSample \/ SnapshotA \/ Sleep \/ SnapshotB \/ EndSamples
  \/ Analyze \/ RenderReport

Exited == mpc = "exit" /\ UNCHANGED vars

Next == Signal \/ SetClockBack \/ Handle \/ Main \/ Exited

Spec == Init /\ [][Next]_vars

\* Snapshots return (SnapshotReturns, ScanReturns) and goroutines are scheduled.
Fairness == WF_vars(Main) /\ WF_vars(Handle)

FairSpec == Spec /\ Fairness

-----------------------------------------------------------------------------
Diff == [duration : Nat, clockJump : BOOLEAN, wall : Int]

TypeOK ==
  /\ cfg \in Configs /\ signalled \in BOOLEAN /\ cancelled \in BOOLEAN
  /\ sigChan \in 0..1 /\ handler \in {"wait", "ended"}
  /\ mpc \in {"round", "sample", "snapA", "sleep", "snapB", "captured", "render",
              "exit"}
  /\ i \in 0..cfg.samples
  /\ diffs \in Seq(Diff)
  /\ elapsed \in Nat /\ shift \in Nat
  /\ diff = <<>> \/ (Len(diff) = 1 /\ diff[1] \in Diff)
  /\ severity \in Severities \cup {NoFinding}
  /\ outputFailed \in BOOLEAN /\ reports.written \in BOOLEAN /\ reports.late \in Nat
  /\ reports.severity \in Severities \cup {NoFinding}

(***************************************************************************)
(* The first SIGINT or SIGTERM ends the program, whatever it is doing, in  *)
(* watch mode too; a second signal changes nothing.                        *)
(***************************************************************************)
SignalEndsProgram == [](signalled => <>(mpc = "exit"))

(***************************************************************************)
(* A single-shot run ends by itself, whatever fails and whenever it is     *)
(* interrupted.                                                            *)
(***************************************************************************)
SingleShotEnds == cfg.watch \/ <>(mpc = "exit")

(***************************************************************************)
(* A watch that is not interrupted and can write its reports never ends    *)
(* and never gets stuck, even if every snapshot fails.                     *)
(***************************************************************************)
WatchKeepsSampling ==
  cfg.watch => ([]<>(mpc = "snapA") \/ <>(signalled \/ outputFailed))

(***************************************************************************)
(* After the context is cancelled at most one more report is written, the  *)
(* one of the round under way.                                             *)
(***************************************************************************)
AtMostOneLateReport == reports.late <= 1

(***************************************************************************)
(* Whatever fails in a round, the watch loop reports only what it measured *)
(* in that round: a diff whose snapshots are at least an interval apart.   *)
(***************************************************************************)
WatchReportsMeasured ==
  cfg.watch /\ reports.written =>
    reports.diff # <<>> /\ reports.diff[1].duration >= 1

(***************************************************************************)
(* A report without findings is printed as "SYSTEM HEALTHY: No critical    *)
(* bottlenecks detected" (presenter/terminal.go).  A verdict needs a       *)
(* measurement, in a single-shot run as much as in a watch.                *)
(***************************************************************************)
HealthyIsMeasured ==
  reports.written /\ reports.severity = NoFinding => reports.diff # <<>>

(***************************************************************************)
(* snapshot.go says of ClockJumpDetected: "True when system clock jumped   *)
(* backward between snapshots".                                            *)
(***************************************************************************)
BackwardJumpDetected ==
  \A k \in DOMAIN diffs : diffs[k].wall < 0 => diffs[k].clockJump
=============================================================================
