---------------------------- MODULE SamplerProofs ----------------------------
(***************************************************************************)
(* Safety of the program flow, for every set of command lines and however  *)
(* many rounds a watch lasts.                                              *)
(***************************************************************************)
EXTENDS Sampler, SequenceTheorems, TLAPS

(***************************************************************************)
(* The types of the last report and of the diff under way, which TypeOK    *)
(* leaves open in part.                                                    *)
(***************************************************************************)
TypeInv ==
  /\ TypeOK
  /\ diff \in Seq(Diff)
  /\ reports \in [diff : Seq(Diff), severity : Severities \cup {NoFinding},
                  written : BOOLEAN, late : Nat]

\* A diff, if there is one, spans at least one interval.
Measured(d) == d # <<>> => d[1].duration >= 1

(***************************************************************************)
(* What a round in watch mode has in hand when it comes to its report, and *)
(* where main can be once a late report was written.                       *)
(***************************************************************************)
RoundInv ==
  /\ \A k \in DOMAIN diffs : diffs[k].duration >= 1
  /\ Measured(diff)
  /\ cfg.watch /\ mpc = "render" => diff # <<>>
  /\ reports.late > 0 => cancelled /\ (mpc = "exit" \/ (cfg.watch /\ mpc = "round"))

FlowInv ==
  /\ TypeInv /\ RoundInv
  /\ AtMostOneLateReport /\ WatchReportsMeasured

LEMMA ConfigType ==
  ASSUME NEW c \in Configs
  PROVE  /\ c.watch \in BOOLEAN
         /\ c.samples \in Nat \ {0}
         /\ c.alertThreshold \in STRING
  BY SamplerAssumption

LEMMA DiffType ==
  ASSUME TypeOK
  PROVE  DiffSnapshots \in Diff
  BY DEF TypeOK, DiffSnapshots, Diff

LEMMA MedianType ==
  ASSUME NEW ds \in Seq(Diff)
  PROVE  /\ MedianDiff(ds) \in Seq(Diff)
         /\ MedianDiff(ds) = <<>> \/ (/\ Len(MedianDiff(ds)) = 1
                                      /\ MedianDiff(ds)[1] \in Diff)
<1>1. CASE ds = <<>>
  BY <1>1 DEF MedianDiff
<1>2. CASE ds # <<>>
  <2>1. ds[Len(ds)] \in Diff
    BY <1>2
  <2>2. [ds[Len(ds)] EXCEPT !.clockJump = \E k \in DOMAIN ds : ds[k].clockJump] \in Diff
    BY <2>1 DEF Diff
  <2>3. QED
    BY <1>2, <2>2 DEF MedianDiff
<1>3. QED
  BY <1>1, <1>2
LEMMA TypeStart == Init => TypeInv
<1> SUFFICES ASSUME Init PROVE TypeInv
  OBVIOUS
<1>1. cfg \in Configs /\ cfg.samples \in Nat
  BY ConfigType DEF Init
<1>2. diffs \in Seq(Diff) /\ diff = <<>> /\ diff \in Seq(Diff)
  BY DEF Init
<1>3. reports \in [diff : Seq(Diff), severity : Severities \cup {NoFinding},
                  written : BOOLEAN, late : Nat]
  BY DEF Init
<1>4. reports.written \in BOOLEAN /\ reports.late \in Nat
      /\ reports.severity \in Severities \cup {NoFinding}
  BY <1>3
<1>5. signalled = FALSE /\ cancelled = FALSE /\ outputFailed = FALSE
  BY DEF Init
<1>6. /\ sigChan \in 0..1 /\ handler = "wait" /\ mpc = "round"
      /\ i \in 0..cfg.samples /\ elapsed \in Nat /\ shift \in Nat
      /\ severity = NoFinding
  BY <1>1 DEF Init
<1>7. TypeOK
  BY <1>1, <1>2, <1>4, <1>5, <1>6 DEF TypeOK
<1>8. QED
  BY <1>2, <1>3, <1>7 DEF TypeInv

LEMMA TypeStep == TypeInv /\ [Next]_vars => TypeInv'
<1> SUFFICES ASSUME TypeInv, [Next]_vars PROVE TypeInv'
  OBVIOUS
<1> USE DEF TypeInv, vars, signals, clocks, output
<1>1. cfg \in Configs /\ cfg.samples \in Nat /\ cfg.watch \in BOOLEAN
  BY ConfigType DEF TypeOK
<1>2. CASE Signal
  BY <1>1, <1>2 DEF Signal, TypeOK
<1>3. CASE SetClockBack
  BY <1>1, <1>3 DEF SetClockBack, TypeOK
<1>4. CASE Handle
  BY <1>1, <1>4 DEF Handle, TypeOK
<1>5. CASE BeginRound
  BY <1>1, <1>5 DEF BeginRound, TypeOK
<1>6. CASE BeginSample
  BY <1>1, <1>6 DEF BeginSample, TypeOK
<1>7. CASE SnapshotA
  BY <1>1, <1>7 DEF SnapshotA, TypeOK
<1>8. CASE Sleep
  BY <1>1, <1>8 DEF Sleep, TypeOK
<1>9. CASE SnapshotB
  <2>1. DiffSnapshots \in Diff /\ diffs \in Seq(Diff)
    BY DiffType DEF TypeOK
  <2>2. Append(diffs, DiffSnapshots) \in Seq(Diff)
    BY <2>1
  <2>3. diffs' = diffs \/ diffs' = Append(diffs, DiffSnapshots)
    BY <1>9 DEF SnapshotB
  <2>4. diffs' \in Seq(Diff)
    BY <2>1, <2>2, <2>3
  <2>5. QED
    BY <1>1, <1>9, <2>4 DEF SnapshotB, TypeOK
<1>10. CASE EndSamples
  BY <1>1, <1>10, MedianType DEF EndSamples, TypeOK
<1>11. CASE Analyze
  BY <1>1, <1>11 DEF Analyze, OnNilDiff, TypeOK
<1>12. CASE RenderReport
  <2>1. reports' \in [diff : Seq(Diff), severity : Severities \cup {NoFinding},
                     written : BOOLEAN, late : Nat]
    <3>1. (IF cancelled THEN reports.late + 1 ELSE 0) \in Nat
      BY DEF TypeOK
    <3>2. severity \in Severities \cup {NoFinding}
      BY DEF TypeOK
    <3>3. [diff |-> diff, severity |-> severity, written |-> TRUE,
           late |-> IF cancelled THEN reports.late + 1 ELSE 0]
             \in [diff : Seq(Diff), severity : Severities \cup {NoFinding},
                  written : BOOLEAN, late : Nat]
      BY <3>1, <3>2
    <3>4. QED
      BY <1>12, <3>3, Zenon DEF RenderReport
  <2>2. QED
    BY <1>1, <1>12, <2>1 DEF RenderReport, TypeOK
<1>13. CASE Exited \/ UNCHANGED vars
  BY <1>13 DEF Exited, TypeOK
<1>14. QED
  BY <1>2, <1>3, <1>4, <1>5, <1>6, <1>7, <1>8, <1>9, <1>10, <1>11, <1>12, <1>13
     DEF Next, Main

(***************************************************************************)
(* Whatever fails and whenever the program is interrupted, its state stays *)
(* well-formed; in particular no round takes more samples than asked for.  *)
(***************************************************************************)
THEOREM SamplerTypeOK == Spec => []TypeOK
<1>1. TypeInv => TypeOK
  BY DEF TypeInv
<1>2. QED
  BY <1>1, TypeStart, TypeStep, PTL DEF Spec

-----------------------------------------------------------------------------
(* What a round reports.                                                   *)

LEMMA MedianIsMeasured ==
  ASSUME NEW ds \in Seq(Diff), \A k \in DOMAIN ds : ds[k].duration >= 1
  PROVE  Measured(MedianDiff(ds))
<1>1. CASE ds = <<>>
  BY <1>1 DEF MedianDiff, Measured
<1>2. CASE ds # <<>>
  <2>1. Len(ds) \in DOMAIN ds /\ ds[Len(ds)] \in Diff
    BY <1>2
  <2> DEFINE m == [ds[Len(ds)] EXCEPT !.clockJump = \E k \in DOMAIN ds : ds[k].clockJump]
  <2>2. m.duration = ds[Len(ds)].duration
    BY <2>1 DEF Diff
  <2>3. MedianDiff(ds) = <<m>>
    BY <1>2 DEF MedianDiff
  <2> HIDE DEF m
  <2>4. <<m>>[1] = m
    OBVIOUS
  <2>5. QED
    BY <2>1, <2>2, <2>3, <2>4 DEF Measured
<1>3. QED
  BY <1>1, <1>2

LEMMA FlowStart == Init => FlowInv
<1> SUFFICES ASSUME Init PROVE FlowInv
  OBVIOUS
<1>1. TypeInv
  BY TypeStart
<1>2. RoundInv
  BY DEF Init, RoundInv, Measured
<1>3. AtMostOneLateReport /\ WatchReportsMeasured
  BY DEF Init, AtMostOneLateReport, WatchReportsMeasured
<1>4. QED
  BY <1>1, <1>2, <1>3 DEF FlowInv

(***************************************************************************)
(* A step that writes nothing leaves the last report as it was.            *)
(***************************************************************************)
LEMMA NothingWritten ==
  ASSUME FlowInv, TypeInv', RoundInv', UNCHANGED <<cfg, reports>>
  PROVE  FlowInv'
BY DEF FlowInv, AtMostOneLateReport, WatchReportsMeasured

LEMMA FlowStep == FlowInv /\ [Next]_vars => FlowInv'
<1> SUFFICES ASSUME FlowInv, [Next]_vars PROVE FlowInv'
  OBVIOUS
<1>1. TypeInv'
  BY TypeStep DEF FlowInv
<1>2. TypeInv /\ RoundInv
  BY DEF FlowInv
<1> USE DEF RoundInv, signals, clocks, output
<1>3. CASE Signal
  BY <1>1, <1>2, <1>3, NothingWritten DEF Signal, Measured
<1>4. CASE SetClockBack
  BY <1>1, <1>2, <1>4, NothingWritten DEF SetClockBack, Measured
<1>5. CASE Handle
  BY <1>1, <1>2, <1>5, NothingWritten DEF Handle, Measured
<1>6. CASE BeginRound
  BY <1>1, <1>2, <1>6, NothingWritten DEF BeginRound, Measured
<1>7. CASE BeginSample
  BY <1>1, <1>2, <1>7, NothingWritten DEF BeginSample, Measured
<1>8. CASE SnapshotA
  BY <1>1, <1>2, <1>8, NothingWritten DEF SnapshotA, Measured
<1>9. CASE Sleep
  BY <1>1, <1>2, <1>9, NothingWritten DEF Sleep, Measured
<1>10. CASE SnapshotB
  <2>1. DiffSnapshots.duration >= 1
    BY <1>2 DEF DiffSnapshots, TypeInv, TypeOK
  <2>2. diffs \in Seq(Diff) /\ DiffSnapshots \in Diff
    BY <1>2, DiffType DEF TypeInv, TypeOK
  <2>3. diffs' = diffs \/ diffs' = Append(diffs, DiffSnapshots)
    BY <1>10 DEF SnapshotB
  <2>4. \A k \in DOMAIN Append(diffs, DiffSnapshots) :
          Append(diffs, DiffSnapshots)[k].duration >= 1
    BY <1>2, <2>1, <2>2
  <2>5. \A k \in DOMAIN diffs' : diffs'[k].duration >= 1
    BY <1>2, <2>3, <2>4
  <2>6. QED
    BY <1>1, <1>2, <1>10, <2>5, NothingWritten DEF SnapshotB, Measured
<1>11. CASE EndSamples
  <2>1. Measured(diff')
    BY <1>2, <1>11, MedianIsMeasured DEF EndSamples, TypeInv, TypeOK
  <2>2. QED
    BY <1>1, <1>2, <1>11, <2>1, NothingWritten DEF EndSamples, Measured
<1>12. CASE Analyze
  BY <1>1, <1>2, <1>12, NothingWritten DEF Analyze, OnNilDiff, Measured
<1>13. CASE RenderReport
  <2>1. RoundInv'
    BY <1>2, <1>13 DEF RenderReport, Measured
  <2>2. CASE UNCHANGED reports
    BY <1>1, <1>13, <2>1, <2>2, NothingWritten DEF RenderReport
  <2>3. CASE reports' = [diff |-> diff, severity |-> severity, written |-> TRUE,
                         late |-> IF cancelled THEN reports.late + 1 ELSE 0]
    <3>1. reports.late = 0
      BY <1>2, <1>13 DEF RenderReport, TypeInv
    <3>2. AtMostOneLateReport'
      BY <2>3, <3>1 DEF AtMostOneLateReport
    <3>3. WatchReportsMeasured'
      BY <1>2, <1>13, <2>3 DEF RenderReport, WatchReportsMeasured, Measured
    <3>4. QED
      BY <1>1, <2>1, <3>2, <3>3 DEF FlowInv
  <2>4. QED
    BY <1>13, <2>2, <2>3 DEF RenderReport
<1>14. CASE Exited \/ UNCHANGED vars
  BY <1>1, <1>2, <1>14, NothingWritten DEF Exited, vars, Measured
<1>15. QED
  BY <1>3, <1>4, <1>5, <1>6, <1>7, <1>8, <1>9, <1>10, <1>11, <1>12, <1>13, <1>14
     DEF Next, Main

LEMMA FlowInvariant == Spec => []FlowInv
BY FlowStart, FlowStep, PTL DEF Spec

(***************************************************************************)
(* After cancellation at most the report of the round under way is still   *)
(* written, however many rounds there were and wherever the signal came.   *)
(***************************************************************************)
THEOREM SamplerAtMostOneLateReport == Spec => []AtMostOneLateReport
<1>1. FlowInv => AtMostOneLateReport
  BY DEF FlowInv
<1>2. QED
  BY <1>1, FlowInvariant, PTL

(***************************************************************************)
(* The watch loop reports only diffs it measured, whatever failed before.  *)
(***************************************************************************)
THEOREM SamplerWatchReportsMeasured == Spec => []WatchReportsMeasured
<1>1. FlowInv => WatchReportsMeasured
  BY DEF FlowInv
<1>2. QED
  BY <1>1, FlowInvariant, PTL

=============================================================================
