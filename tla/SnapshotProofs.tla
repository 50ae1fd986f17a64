--------------------------- MODULE SnapshotProofs ---------------------------
(***************************************************************************)
(* Proofs about Snapshot, for any number of collectors and snapshots.      *)
(*                                                                         *)
(* 1. Wrappers work for the snapshot being taken and for no other: hence   *)
(*    TypeOK (the wait group) and NoLateWrite.                             *)
(* 2. Where the answer of a call is: hence ReceivedResultKept.             *)
(* 3. A number on its way from a task was read after the task's snapshot   *)
(*    was begun: hence NoStaleField.                                       *)
(***************************************************************************)
EXTENDS Snapshot, FiniteSetTheorems, SequenceTheorems, TLAPS

\* The wrappers that hold a share of the wait group.
Running == {c \in Calls : wpc[c] \notin {"none", "exited"}}

(***************************************************************************)
(* Which calls may be going on, and which snapshots are finished.          *)
(***************************************************************************)
CallInv ==
  /\ TypeOK
  /\ wg = Cardinality(Running)
  /\ \A c \in Running : c[1] = n /\ mpc \in {"fork", "wait"}
  /\ \A c \in Calls : tpc[c] # "none" => c[1] <= n
  /\ \A i \in good : i <= n
  /\ mpc # "idle" => n >= 1 /\ n \notin good

(***************************************************************************)
(* A value that belongs to field f of snapshot i.                          *)
(***************************************************************************)
Fresh(i, f, v) == v # 0 => i <= n /\ opened[i][f] <= v /\ v <= counter[f]

FreshInv ==
  /\ \A i \in 1..MaxSnaps, f \in Fields : opened[i][f] <= counter[f]
  /\ \A i \in 1..MaxSnaps, f \in Fields : Fresh(i, f, snap[i][f])
  /\ \A c \in Calls : Fresh(c[1], c[2], res[c])

(***************************************************************************)
(* From the task through the channel and the wrapper into the snapshot.    *)
(***************************************************************************)
Handed(c) ==
  /\ tpc[c] = "none" <=> wpc[c] \in {"none", "start"}
  /\ done[c] # <<>> => tpc[c] = "exited" /\ done[c] = <<res[c]>>
  /\ wpc[c] = "apply" => tpc[c] = "exited" /\ done[c] = <<>>
  /\ tpc[c] = "exited" /\ done[c] = <<>>
       => wpc[c] = "apply" \/ (wpc[c] \in {"leave", "exited"}
                               /\ snap[c[1]][c[2]] = res[c])

HandoverInv == \A c \in Calls : Handed(c)

LEMMA CallsType ==
  /\ \A c \in Calls : c[1] \in 1..MaxSnaps /\ c[2] \in Tasks /\ c[2] \in Fields
                      /\ c = <<c[1], c[2]>>
  /\ \A i \in 1..MaxSnaps, t \in Tasks : <<i, t>> \in Calls
BY DEF Calls, Fields

LEMMA RunningIsFinite == IsFiniteSet(Running) /\ Cardinality(Running) \in Nat
<1>1. IsFiniteSet(1..MaxSnaps)
  BY FS_Interval, SnapshotAssumption DEF SnapshotAssumption
<1>2. IsFiniteSet(Calls)
  BY <1>1, FS_Product, SnapshotAssumption DEF Calls, SnapshotAssumption
<1>3. IsFiniteSet(Running)
  BY <1>2, FS_Subset DEF Running
<1> QED BY <1>3, FS_CardinalityType

LEMMA SnapshotInit == Init => CallInv /\ FreshInv /\ HandoverInv
<1> SUFFICES ASSUME Init PROVE CallInv /\ FreshInv /\ HandoverInv
  OBVIOUS
<1> USE SnapshotAssumption DEF SnapshotAssumption, Init, Zero
<1>1. TypeOK
  <2>1. done \in [Calls -> Seq(Nat)]
    OBVIOUS
  <2>2. snap \in [1..MaxSnaps -> [Fields -> Nat]]
        /\ opened \in [1..MaxSnaps -> [Fields -> Nat]]
        /\ counter \in [Fields -> Nat]
    OBVIOUS
  <2>3. /\ wpc \in [Calls -> {"none", "start", "select", "apply", "leave", "exited"}]
        /\ tpc \in [Calls -> {"none", "run", "send", "exited"}]
        /\ res \in [Calls -> Nat]
    OBVIOUS
  <2>4. n \in 0..MaxSnaps /\ wg \in Nat
    OBVIOUS
  <2>5. /\ mpc \in {"idle", "batch", "fork", "wait", "processes"}
        /\ cancelled \in BOOLEAN /\ expired \subseteq Calls
        /\ good \subseteq 1..MaxSnaps
    OBVIOUS
  <2> HIDE DEF Init
  <2> QED BY <2>1, <2>2, <2>3, <2>4, <2>5 DEF TypeOK
<1>2. Running = {}
  BY DEF Running
<1>3. CallInv
  BY <1>1, <1>2, FS_EmptySet DEF CallInv
<1>4. FreshInv
  BY CallsType DEF FreshInv, Fresh
<1>5. HandoverInv
  BY CallsType DEF HandoverInv, Handed
<1> QED BY <1>3, <1>4, <1>5

-----------------------------------------------------------------------------
(* 1. The calls that go on belong to the snapshot being taken.             *)

(***************************************************************************)
(* A step that does not change which wrappers are running.                 *)
(***************************************************************************)
LEMMA SameRunning ==
  ASSUME CallInv, TypeOK', Running' = Running, UNCHANGED <<n, mpc, wg, good>>,
         \A c \in Calls : tpc'[c] # "none" => tpc[c] # "none" \/ c \in Running
  PROVE  CallInv'
<1>1. n \in Nat /\ n <= n
  BY DEF CallInv, TypeOK
<1>2. \A c \in Calls : tpc'[c] # "none" => c[1] <= n
  BY <1>1 DEF CallInv
<1> QED BY <1>2 DEF CallInv

\* A wrapper that goes on.
LEMMA WrapperGoesOn ==
  ASSUME TypeOK, NEW c \in Running, wpc'[c] \notin {"none", "exited"},
         wpc' = [wpc EXCEPT ![c] = wpc'[c]]
  PROVE  Running' = Running
BY DEF Running, TypeOK

LEMMA CallStep == CallInv /\ [Next]_vars => CallInv'
<1> SUFFICES ASSUME CallInv, [Next]_vars PROVE CallInv'
  OBVIOUS
<1> USE DEF snapState, callState
<1>t. TypeOK
  BY DEF CallInv
<1>1. CASE Cancel
  <2>1. TypeOK' BY <1>1, <1>t DEF Cancel, TypeOK
  <2>2. Running' = Running BY <1>1 DEF Cancel, Running
  <2> QED BY <1>1, <2>1, <2>2, SameRunning DEF Cancel
<1>2. ASSUME NEW f \in Fields, Event(f) PROVE CallInv'
  <2>1. TypeOK' BY <1>2, <1>t DEF Event, TypeOK
  <2>2. Running' = Running BY <1>2 DEF Event, Running
  <2> QED BY <1>2, <2>1, <2>2, SameRunning DEF Event
<1>3. CASE CollectSnapshot
  <2>1. TypeOK' /\ n' = n + 1 /\ n \in Nat
    BY <1>3, <1>t, SnapshotAssumption DEF CollectSnapshot, TypeOK, SnapshotAssumption
  <2>2. Running = {} /\ Running' = {}
    BY <1>3 DEF CollectSnapshot, CallInv, Running
  <2>3. \A i \in good : i <= n /\ i \in Nat
    BY <1>t DEF CallInv, TypeOK
  <2>4. \A c \in Calls : c[1] \in Nat
    BY CallsType
  <2> QED BY <1>3, <2>1, <2>2, <2>3, <2>4 DEF CollectSnapshot, CallInv
<1>4. CASE ReadBatch
  <2>1. n \in 1..MaxSnaps
    BY <1>4, <1>t DEF ReadBatch, CallInv, TypeOK
  <2>2. snap' \in [1..MaxSnaps -> [Fields -> Nat]]
    <3>1. CASE UNCHANGED snap
      BY <3>1, <1>t DEF TypeOK
    <3>2. ASSUME NEW failed \in SUBSET Sequential,
                 snap' = [snap EXCEPT ![n] = [f \in Fields |->
                   IF f \in Sequential \ failed THEN counter[f] ELSE @[f]]]
          PROVE  snap' \in [1..MaxSnaps -> [Fields -> Nat]]
      <4>1. [f \in Fields |-> IF f \in Sequential \ failed THEN counter[f]
                              ELSE snap[n][f]] \in [Fields -> Nat]
        <5>1. \A f \in Fields : counter[f] \in Nat /\ snap[n][f] \in Nat
          BY <2>1, <1>t DEF TypeOK
        <5> QED BY <5>1
      <4> QED BY <3>2, <4>1, <1>t DEF TypeOK
    <3> QED BY <1>4, <3>1, <3>2 DEF ReadBatch
  <2>3. TypeOK' BY <1>4, <2>2, <1>t DEF ReadBatch, TypeOK
  <2>4. Running = {} /\ Running' = Running
    BY <1>4 DEF ReadBatch, CallInv, Running
  <2> QED BY <1>4, <2>3, <2>4 DEF ReadBatch, CallInv
<1>5. ASSUME NEW t \in Tasks, Run(t) PROVE CallInv'
  <2> DEFINE c == <<n, t>>
  <2>1. c \in Calls /\ n \in Nat /\ c[1] = n
    BY <1>5, <1>t, CallsType DEF Run, CallInv, TypeOK
  <2>2. Running' = Running \cup {c} /\ c \notin Running
    BY <1>5, <1>t, <2>1 DEF Run, Running, TypeOK
  <2>3. wg' = Cardinality(Running') /\ wg' \in Nat
    <3>1. Cardinality(Running') = Cardinality(Running) + 1
      BY <2>2, RunningIsFinite, FS_AddElement
    <3> QED BY <1>5, <3>1, RunningIsFinite DEF Run, CallInv
  <2>4. TypeOK'
    <3>1. wpc' \in [Calls -> {"none", "start", "select", "apply", "leave", "exited"}]
      BY <1>5, <1>t, <2>1 DEF Run, TypeOK
    <3> QED BY <1>5, <1>t, <2>3, <3>1 DEF Run, TypeOK
  <2>5. mpc' \in {"fork", "wait"} /\ mpc = "fork" /\ UNCHANGED <<n, tpc, good>>
    BY <1>5 DEF Run
  <2> HIDE DEF c
  <2> QED BY <2>1, <2>2, <2>3, <2>4, <2>5 DEF CallInv
<1>6. CASE Waited
  <2>1. TypeOK' BY <1>6, <1>t DEF Waited, TypeOK
  <2>2. Running = {} /\ Running' = Running
    BY <1>6, RunningIsFinite, FS_EmptySet DEF Waited, CallInv, Running
  <2> QED BY <1>6, <2>1, <2>2 DEF Waited, CallInv
<1>7. CASE CollectProcesses
  <2>1. n \in 1..MaxSnaps
    BY <1>7, <1>t DEF CollectProcesses, CallInv, TypeOK
  <2>2. TypeOK' BY <1>7, <1>t, <2>1 DEF CollectProcesses, TypeOK
  <2>3. Running = {} /\ Running' = Running
    BY <1>7 DEF CollectProcesses, CallInv, Running
  <2> QED BY <1>7, <2>1, <2>2, <2>3 DEF CollectProcesses, CallInv
<1>8. ASSUME NEW c \in Calls, Start(c) PROVE CallInv'
  <2>1. TypeOK' BY <1>8, <1>t DEF Start, TypeOK
  <2>2. c \in Running
    BY <1>8 DEF Start, Running
  <2>3. Running' = Running
    BY <1>8, <1>t, <2>2, WrapperGoesOn DEF Start, TypeOK
  <2>4. \A d \in Calls : tpc'[d] # "none" => tpc[d] # "none" \/ d \in Running
    BY <1>8, <1>t, <2>2 DEF Start, TypeOK
  <2> QED BY <1>8, <2>1, <2>3, <2>4, SameRunning DEF Start
<1>9. ASSUME NEW c \in Calls, Deadline(c) PROVE CallInv'
  <2>1. TypeOK' BY <1>9, <1>t DEF Deadline, TypeOK
  <2>2. Running' = Running BY <1>9 DEF Deadline, Running
  <2> QED BY <1>9, <2>1, <2>2, SameRunning DEF Deadline
<1>10. ASSUME NEW c \in Calls, Receive(c) PROVE CallInv'
  <2>1. Head(done[c]) \in Nat /\ Tail(done[c]) \in Seq(Nat)
    BY <1>10, <1>t, HeadTailProperties DEF Receive, TypeOK
  <2>2. TypeOK' BY <1>10, <1>t, <2>1 DEF Receive, TypeOK
  <2>3. Running' = Running
    BY <1>10, <1>t, WrapperGoesOn DEF Receive, TypeOK, Running
  <2> QED BY <1>10, <2>2, <2>3, SameRunning DEF Receive
<1>11. ASSUME NEW c \in Calls, Apply(c) PROVE CallInv'
  <2>1. snap' \in [1..MaxSnaps -> [Fields -> Nat]]
    <3>1. [snap[c[1]] EXCEPT ![c[2]] = res[c]] \in [Fields -> Nat]
      BY <1>t, CallsType DEF TypeOK
    <3> QED BY <1>11, <1>t, <3>1 DEF Apply, TypeOK
  <2>2. TypeOK' BY <1>11, <1>t, <2>1 DEF Apply, TypeOK
  <2>3. Running' = Running
    BY <1>11, <1>t, WrapperGoesOn DEF Apply, TypeOK, Running
  <2> QED BY <1>11, <2>2, <2>3, SameRunning DEF Apply
<1>12. ASSUME NEW c \in Calls, GiveUp(c) PROVE CallInv'
  <2>1. TypeOK' BY <1>12, <1>t DEF GiveUp, TypeOK
  <2>2. Running' = Running
    BY <1>12, <1>t, WrapperGoesOn DEF GiveUp, TypeOK, Running
  <2> QED BY <1>12, <2>1, <2>2, SameRunning DEF GiveUp
<1>13. ASSUME NEW c \in Calls, Leave(c) PROVE CallInv'
  <2>1. Running' = Running \ {c} /\ c \in Running
    BY <1>13, <1>t DEF Leave, Running, TypeOK
  <2>2. wg' = Cardinality(Running') /\ wg' \in Nat
    <3>1. /\ Cardinality(Running') = Cardinality(Running) - 1
          /\ Cardinality(Running') \in Nat
      BY <2>1, RunningIsFinite, FS_RemoveElement, FS_CardinalityType, FS_Subset
    <3> QED BY <1>13, <3>1 DEF Leave, CallInv
  <2>3. TypeOK' BY <1>13, <1>t, <2>2 DEF Leave, TypeOK
  <2> QED BY <1>13, <2>1, <2>2, <2>3 DEF Leave, CallInv
<1>14. ASSUME NEW c \in Calls, Compute(c) PROVE CallInv'
  <2>1. res' \in [Calls -> Nat]
    BY <1>14, <1>t, CallsType DEF Compute, TypeOK
  <2>2. TypeOK' BY <1>14, <1>t, <2>1 DEF Compute, TypeOK
  <2>3. Running' = Running BY <1>14 DEF Compute, Running
  <2>4. \A d \in Calls : tpc'[d] # "none" => tpc[d] # "none"
    BY <1>14, <1>t DEF Compute, TypeOK
  <2> QED BY <1>14, <2>2, <2>3, <2>4, SameRunning DEF Compute
<1>15. ASSUME NEW c \in Calls, Send(c) PROVE CallInv'
  <2>1. Append(done[c], res[c]) \in Seq(Nat)
    BY <1>t DEF TypeOK
  <2>2. TypeOK' BY <1>15, <1>t, <2>1 DEF Send, TypeOK
  <2>3. Running' = Running BY <1>15 DEF Send, Running
  <2>4. \A d \in Calls : tpc'[d] # "none" => tpc[d] # "none"
    BY <1>15, <1>t DEF Send, TypeOK
  <2> QED BY <1>15, <2>2, <2>3, <2>4, SameRunning DEF Send
<1>16. CASE UNCHANGED vars
  <2>1. TypeOK' BY <1>16, <1>t DEF vars, TypeOK
  <2>2. Running' = Running BY <1>16 DEF vars, Running
  <2> QED BY <1>16, <2>1, <2>2, SameRunning DEF vars
<1> QED
  BY <1>1, <1>2, <1>3, <1>4, <1>5, <1>6, <1>7, <1>8, <1>9, <1>10, <1>11, <1>12,
     <1>13, <1>14, <1>15, <1>16
  DEF Next, Main, Wrapper, Finished

(***************************************************************************)
(* Every state is well typed; the wait group never goes negative.          *)
(***************************************************************************)
THEOREM SnapshotTypeOK == Spec => []TypeOK
<1>1. CallInv => TypeOK
  BY DEF CallInv
<1> QED BY <1>1, SnapshotInit, CallStep, PTL DEF Spec

(***************************************************************************)
(* A snapshot that was returned without an error is never written again,   *)
(* however late the answers of its collectors are.                         *)
(***************************************************************************)
THEOREM SnapshotNoLateWrite == Spec => NoLateWrite
<1>1. ASSUME CallInv, [Next]_vars
      PROVE  [\A i \in 1..MaxSnaps : i \in good => snap'[i] = snap[i]]_snap
  <2> USE DEF snapState, callState
  <2>t. TypeOK
    BY <1>1 DEF CallInv
  <2>1. CASE ReadBatch
    BY <1>1, <2>1, <2>t DEF ReadBatch, CallInv, TypeOK
  <2>2. ASSUME NEW c \in Calls, Apply(c)
        PROVE  \A i \in 1..MaxSnaps : i \in good => snap'[i] = snap[i]
    <3>1. c[1] \notin good
      BY <1>1, <2>2 DEF Apply, CallInv, Running
    <3> QED BY <2>2, <2>t, <3>1 DEF Apply, TypeOK
  <2> QED BY <1>1, <2>1, <2>2
          DEF Next, Cancel, Main, CollectSnapshot, Run, Waited, CollectProcesses,
              Wrapper, Start, Receive, GiveUp, Leave, Finished, Event, Deadline,
              Compute, Send, vars
<1> QED BY <1>1, SnapshotInit, CallStep, PTL DEF Spec, NoLateWrite

-----------------------------------------------------------------------------
(* 2. The way of an answer.                                                *)

\* The answer in a result channel is the task's.
LEMMA ReceivedHead ==
  ASSUME HandoverInv, NEW c \in Calls, Receive(c)
  PROVE  Head(done[c]) = res[c] /\ Tail(done[c]) = <<>>
<1>1. done[c] = <<res[c]>>
  BY DEF HandoverInv, Handed, Receive
<1> QED BY <1>1

LEMMA OtherCalls ==
  ASSUME HandoverInv, NEW d \in Calls,
         tpc'[d] = tpc[d], wpc'[d] = wpc[d], done'[d] = done[d], res'[d] = res[d],
         snap'[d[1]][d[2]] = snap[d[1]][d[2]]
  PROVE  Handed(d)'
BY DEF HandoverInv, Handed

LEMMA HandoverStep == CallInv /\ HandoverInv /\ [Next]_vars => HandoverInv'
<1> SUFFICES ASSUME CallInv, HandoverInv, [Next]_vars, NEW d \in Calls
             PROVE  Handed(d)'
  BY DEF HandoverInv
<1> USE DEF snapState, callState
<1>t. TypeOK
  BY DEF CallInv
<1>d. d[1] \in 1..MaxSnaps /\ d[2] \in Tasks /\ d[2] \in Fields /\ d = <<d[1], d[2]>>
  BY CallsType
<1>1. CASE ReadBatch
  <2>1. snap'[d[1]][d[2]] = snap[d[1]][d[2]]
    <3>1. CASE UNCHANGED snap
      BY <3>1
    <3>2. ASSUME NEW failed \in SUBSET Sequential,
                 snap' = [snap EXCEPT ![n] = [f \in Fields |->
                   IF f \in Sequential \ failed THEN counter[f] ELSE @[f]]]
          PROVE  snap'[d[1]][d[2]] = snap[d[1]][d[2]]
      <4>1. d[2] \notin Sequential
        BY <1>d, SnapshotAssumption DEF SnapshotAssumption
      <4> QED BY <1>d, <1>t, <3>2, <4>1 DEF TypeOK
    <3> QED BY <1>1, <3>1, <3>2 DEF ReadBatch
  <2> QED BY <1>1, <2>1, OtherCalls DEF ReadBatch
<1>2. ASSUME NEW t \in Tasks, Run(t) PROVE Handed(d)'
  <2>1. CASE d = <<n, t>>
    BY <1>2, <1>t, <2>1 DEF Run, Handed, HandoverInv, TypeOK
  <2>2. CASE d # <<n, t>>
    BY <1>2, <1>t, <2>2, OtherCalls DEF Run, TypeOK
  <2> QED BY <2>1, <2>2
<1>3. ASSUME NEW c \in Calls, Start(c) PROVE Handed(d)'
  <2>1. CASE d = c
    BY <1>3, <1>t, <2>1 DEF Start, Handed, HandoverInv, TypeOK
  <2>2. CASE d # c
    BY <1>3, <1>t, <2>2, OtherCalls DEF Start, TypeOK
  <2> QED BY <2>1, <2>2
<1>4. ASSUME NEW c \in Calls, Receive(c) PROVE Handed(d)'
  <2>1. CASE d = c
    <3>1. /\ wpc'[c] = "apply" /\ tpc'[c] = tpc[c] /\ tpc[c] = "exited"
          /\ done'[c] = <<>>
      BY <1>4, <1>t, ReceivedHead DEF Receive, HandoverInv, Handed, TypeOK
    <3> QED BY <2>1, <3>1 DEF Handed
  <2>2. CASE d # c
    BY <1>4, <1>t, <2>2, OtherCalls DEF Receive, TypeOK
  <2> QED BY <2>1, <2>2
<1>5. ASSUME NEW c \in Calls, Apply(c) PROVE Handed(d)'
  <2>1. CASE d = c
    <3>1. /\ wpc'[c] = "leave" /\ tpc'[c] = "exited" /\ done'[c] = <<>>
          /\ res'[c] = res[c]
      BY <1>5, <1>t DEF Apply, HandoverInv, Handed, TypeOK
    <3>2. snap'[c[1]][c[2]] = res[c]
      BY <1>5, <1>t, CallsType DEF Apply, TypeOK
    <3> QED BY <2>1, <3>1, <3>2 DEF Handed
  <2>2. CASE d # c
    <3>1. d[1] # c[1] \/ d[2] # c[2]
      BY <2>2, CallsType
    <3>2. snap'[d[1]][d[2]] = snap[d[1]][d[2]]
      BY <1>5, <1>t, <1>d, <3>1, CallsType DEF Apply, TypeOK
    <3> QED BY <1>5, <1>t, <2>2, <3>2, OtherCalls DEF Apply, TypeOK
  <2> QED BY <2>1, <2>2
<1>6. ASSUME NEW c \in Calls, GiveUp(c) PROVE Handed(d)'
  <2>1. CASE d = c
    BY <1>6, <1>t, <2>1 DEF GiveUp, Handed, HandoverInv, TypeOK
  <2>2. CASE d # c
    BY <1>6, <1>t, <2>2, OtherCalls DEF GiveUp, TypeOK
  <2> QED BY <2>1, <2>2
<1>7. ASSUME NEW c \in Calls, Leave(c) PROVE Handed(d)'
  <2>1. CASE d = c
    BY <1>7, <1>t, <2>1 DEF Leave, Handed, HandoverInv, TypeOK
  <2>2. CASE d # c
    BY <1>7, <1>t, <2>2, OtherCalls DEF Leave, TypeOK
  <2> QED BY <2>1, <2>2
<1>8. ASSUME NEW c \in Calls, Compute(c) PROVE Handed(d)'
  <2>1. CASE d = c
    <3>1. /\ tpc[c] = "run" /\ tpc'[c] = "send" /\ done'[c] = done[c]
          /\ wpc'[c] = wpc[c]
      BY <1>8, <1>t DEF Compute, TypeOK
    <3> QED BY <2>1, <3>1 DEF Handed, HandoverInv
  <2>2. CASE d # c
    BY <1>8, <1>t, <2>2, OtherCalls DEF Compute, TypeOK
  <2> QED BY <2>1, <2>2
<1>9. ASSUME NEW c \in Calls, Send(c) PROVE Handed(d)'
  <2>1. CASE d = c
    <3>1. /\ tpc[c] = "send" /\ tpc'[c] = "exited" /\ wpc'[c] = wpc[c]
          /\ res'[c] = res[c] /\ done'[c] = Append(done[c], res[c])
      BY <1>9, <1>t DEF Send, TypeOK
    <3>2. done[c] = <<>> /\ wpc[c] \notin {"none", "start", "apply"}
      BY <3>1 DEF HandoverInv, Handed
    <3>3. done'[c] = <<res[c]>> /\ done'[c] # <<>>
      BY <3>1, <3>2
    <3> QED BY <2>1, <3>1, <3>2, <3>3 DEF Handed
  <2>2. CASE d # c
    BY <1>9, <1>t, <2>2, OtherCalls DEF Send, TypeOK
  <2> QED BY <2>1, <2>2
<1>10. CASE UNCHANGED <<wpc, tpc, res, done, snap>>
  BY <1>10, OtherCalls
<1> QED
  BY <1>1, <1>2, <1>3, <1>4, <1>5, <1>6, <1>7, <1>8, <1>9, <1>10
  DEF Next, Cancel, Main, CollectSnapshot, Waited, CollectProcesses, Wrapper,
      Finished, Event, Deadline, vars

-----------------------------------------------------------------------------
(* 3. The age of numbers.                                                  *)

(***************************************************************************)
(* Counters only grow, and a snapshot's beginning is recorded once, before *)
(* anything is read for it: what was fresh stays fresh.                    *)
(***************************************************************************)
LEMMA FreshStays ==
  ASSUME CallInv, FreshInv, [Next]_vars
  PROVE  /\ \A i \in 1..MaxSnaps, f \in Fields : (opened[i][f] <= counter[f])'
         /\ \A i \in 1..MaxSnaps, f \in Fields, v \in Nat :
              Fresh(i, f, v) => Fresh(i, f, v)'
<1> USE DEF snapState, callState
<1>t. TypeOK
  BY DEF CallInv
<1>n. /\ n \in Nat /\ \A i \in 1..MaxSnaps : i \in Nat
      /\ \A f \in Fields : counter[f] \in Nat
      /\ \A i \in 1..MaxSnaps, f \in Fields : opened[i][f] \in Nat
  <2>1. \A i \in 1..MaxSnaps : opened[i] \in [Fields -> Nat]
    BY <1>t DEF TypeOK
  <2>2. n \in Nat /\ \A f \in Fields : counter[f] \in Nat
    BY <1>t DEF TypeOK
  <2> QED BY <2>1, <2>2
<1>1. CASE \E g \in Fields : Event(g)
  <2>1. \A f \in Fields : counter'[f] \in Nat /\ counter[f] <= counter'[f]
    BY <1>1, <1>n, <1>t DEF Event, TypeOK
  <2>2. opened' = opened /\ n' = n
    BY <1>1 DEF Event
  <2> QED BY <1>n, <2>1, <2>2 DEF FreshInv, Fresh
<1>2. CASE CollectSnapshot
  <2>1. counter' = counter /\ n' = n + 1 /\ opened' = [opened EXCEPT ![n + 1] = counter]
    BY <1>2 DEF CollectSnapshot
  <2>2. /\ \A i \in 1..MaxSnaps : i <= n => opened'[i] = opened[i]
        /\ \A i \in 1..MaxSnaps : opened'[i] \in {opened[i], counter}
    BY <1>n, <1>t, <2>1 DEF TypeOK
  <2> QED BY <1>n, <2>1, <2>2 DEF FreshInv, Fresh
<1>3. CASE UNCHANGED <<counter, n, opened>>
  BY <1>3 DEF FreshInv, Fresh
<1> QED BY <1>1, <1>2, <1>3
        DEF Next, Cancel, Main, ReadBatch, Run, Waited, CollectProcesses, Wrapper,
            Start, Receive, Apply, GiveUp, Leave, Finished, Deadline, Compute,
            Send, vars

\* A step after which every number is an old one that belongs where it is.
LEMMA FreshKept ==
  ASSUME CallInv, FreshInv, [Next]_vars,
         \A i \in 1..MaxSnaps, f \in Fields :
           snap'[i][f] \in Nat /\ Fresh(i, f, snap'[i][f]),
         \A c \in Calls : res'[c] \in Nat /\ Fresh(c[1], c[2], res'[c])
  PROVE  FreshInv'
<1>1. \A i \in 1..MaxSnaps, f \in Fields, v \in Nat :
        Fresh(i, f, v) => (v # 0 => i <= n' /\ opened'[i][f] <= v /\ v <= counter'[f])
  BY FreshStays DEF Fresh
<1>2. \A i \in 1..MaxSnaps, f \in Fields : opened'[i][f] <= counter'[f]
  BY FreshStays
<1>3. \A c \in Calls : c[1] \in 1..MaxSnaps /\ c[2] \in Fields
  BY CallsType
<1> HIDE DEF Fresh
<1>4. \A i \in 1..MaxSnaps, f \in Fields : snap'[i][f] # 0 =>
        i <= n' /\ opened'[i][f] <= snap'[i][f] /\ snap'[i][f] <= counter'[f]
  BY <1>1
<1>5. \A c \in Calls : res'[c] # 0 =>
        c[1] <= n' /\ opened'[c[1]][c[2]] <= res'[c] /\ res'[c] <= counter'[c[2]]
  BY <1>1, <1>3
<1> QED BY <1>2, <1>4, <1>5 DEF FreshInv, Fresh

LEMMA FreshStep == CallInv /\ HandoverInv /\ FreshInv /\ [Next]_vars => FreshInv'
<1> SUFFICES ASSUME CallInv, HandoverInv, FreshInv, [Next]_vars PROVE FreshInv'
  OBVIOUS
<1> USE DEF snapState, callState
<1>t. TypeOK
  BY DEF CallInv
<1>n. /\ \A i \in 1..MaxSnaps, f \in Fields :
           snap[i][f] \in Nat /\ Fresh(i, f, snap[i][f])
      /\ \A c \in Calls : res[c] \in Nat /\ Fresh(c[1], c[2], res[c])
  <2>1. \A i \in 1..MaxSnaps, f \in Fields : snap[i][f] \in Nat
    <3>1. \A i \in 1..MaxSnaps : snap[i] \in [Fields -> Nat]
      BY <1>t DEF TypeOK
    <3> QED BY <3>1
  <2>2. \A c \in Calls : res[c] \in Nat
    BY <1>t DEF TypeOK
  <2> QED BY <2>1, <2>2 DEF FreshInv
<1>1. CASE ReadBatch
  <2>1. n \in 1..MaxSnaps /\ n <= n
    BY <1>1, <1>t DEF ReadBatch, CallInv, TypeOK
  <2>2. \A f \in Fields : counter[f] \in Nat /\ Fresh(n, f, counter[f])
    <3>1. \A f \in Fields : counter[f] \in Nat /\ opened[n][f] <= counter[f]
      BY <1>t, <2>1 DEF TypeOK, FreshInv
    <3> QED BY <2>1, <3>1 DEF Fresh
  <2>3. \A i \in 1..MaxSnaps, f \in Fields :
          snap'[i][f] \in Nat /\ Fresh(i, f, snap'[i][f])
    <3>1. CASE UNCHANGED snap
      BY <1>n, <3>1
    <3>2. ASSUME NEW failed \in SUBSET Sequential,
                 snap' = [snap EXCEPT ![n] = [f \in Fields |->
                   IF f \in Sequential \ failed THEN counter[f] ELSE @[f]]]
          PROVE  \A i \in 1..MaxSnaps, f \in Fields :
                   snap'[i][f] = snap[i][f] \/ (i = n /\ snap'[i][f] = counter[f])
      BY <1>t, <2>1, <3>2 DEF TypeOK
    <3> QED BY <1>1, <1>n, <2>2, <3>1, <3>2 DEF ReadBatch
  <2> QED BY <1>1, <1>n, <2>3, FreshKept DEF ReadBatch
<1>2. ASSUME NEW c \in Calls, Apply(c) PROVE FreshInv'
  <2>1. \A i \in 1..MaxSnaps, f \in Fields :
          \/ snap'[i][f] = snap[i][f]
          \/ i = c[1] /\ f = c[2] /\ snap'[i][f] = res[c]
    BY <1>2, <1>t, CallsType DEF Apply, TypeOK
  <2>2. \A i \in 1..MaxSnaps, f \in Fields :
          snap'[i][f] \in Nat /\ Fresh(i, f, snap'[i][f])
    BY <1>n, <2>1
  <2> QED BY <1>2, <1>n, <2>2, FreshKept DEF Apply
<1>3. ASSUME NEW c \in Calls, Receive(c) PROVE FreshInv'
  <2>1. Head(done[c]) = res[c]
    BY <1>3, ReceivedHead
  <2>2. \A d \in Calls : res'[d] = res[d]
    BY <1>3, <1>t, <2>1 DEF Receive, TypeOK
  <2> QED BY <1>3, <1>n, <2>2, FreshKept DEF Receive
<1>4. ASSUME NEW c \in Calls, Compute(c) PROVE FreshInv'
  <2>1. counter[c[2]] \in Nat /\ Fresh(c[1], c[2], counter[c[2]])
    <3>1. c[1] <= n /\ opened[c[1]][c[2]] <= counter[c[2]]
      BY <1>4, CallsType DEF Compute, CallInv, FreshInv
    <3> QED BY <1>t, <3>1, CallsType DEF Fresh, TypeOK
  <2>2. Fresh(c[1], c[2], 0)
    BY DEF Fresh
  <2>3. \A d \in Calls : res'[d] = res[d] \/ (d = c /\ res'[d] \in {counter[c[2]], 0})
    BY <1>4, <1>t DEF Compute, TypeOK
  <2>4. \A d \in Calls : res'[d] \in Nat /\ Fresh(d[1], d[2], res'[d])
    BY <1>n, <2>1, <2>2, <2>3
  <2> QED BY <1>4, <1>n, <2>4, FreshKept DEF Compute
<1>5. CASE UNCHANGED <<snap, res>>
  BY <1>5, <1>n, FreshKept
<1> QED
  BY <1>1, <1>2, <1>3, <1>4, <1>5
  DEF Next, Cancel, Main, CollectSnapshot, Run, Waited, CollectProcesses,
      Wrapper, Start, GiveUp, Leave, Finished, Event, Deadline, Send, vars

(***************************************************************************)
(* An answer that arrives while a later snapshot is being taken never ends *)
(* up there: every number in a snapshot was read after that snapshot was   *)
(* begun.                                                                  *)
(***************************************************************************)
THEOREM SnapshotNoStaleField == Spec => []NoStaleField
<1>1. CallInv /\ FreshInv => NoStaleField
  <2> SUFFICES ASSUME CallInv, FreshInv, NEW i \in 1..MaxSnaps, NEW f \in Fields,
                      snap[i][f] # 0
               PROVE  snap[i][f] \in opened[i][f]..counter[f]
    BY DEF NoStaleField
  <2>1. opened[i][f] <= snap[i][f] /\ snap[i][f] <= counter[f]
    BY DEF FreshInv, Fresh
  <2>2. /\ snap[i] \in [Fields -> Nat] /\ opened[i] \in [Fields -> Nat]
        /\ counter[f] \in Nat
    BY DEF CallInv, TypeOK
  <2> QED BY <2>1, <2>2
<1> QED BY <1>1, SnapshotInit, CallStep, HandoverStep, FreshStep, PTL DEF Spec

(***************************************************************************)
(* Every answer that was received is in its field once the snapshot has    *)
(* returned, whatever happened to the other collectors.                    *)
(***************************************************************************)
THEOREM SnapshotReceivedResultKept == Spec => []ReceivedResultKept
<1>1. CallInv /\ HandoverInv => ReceivedResultKept
  <2> SUFFICES ASSUME CallInv, HandoverInv, NEW c \in Calls, c[1] \in good,
                      tpc[c] = "exited", done[c] = <<>>
               PROVE  snap[c[1]][c[2]] = res[c]
    BY DEF ReceivedResultKept
  <2>1. c \notin Running
    BY DEF CallInv
  <2> QED BY <2>1 DEF HandoverInv, Handed, Running
<1> QED BY <1>1, SnapshotInit, CallStep, HandoverStep, PTL DEF Spec
=============================================================================
