--------------------------- MODULE ScanPoolProofs ---------------------------
(***************************************************************************)
(* Proofs about ScanPool, for any number of PIDs and workers.              *)
(*                                                                         *)
(* 1. The wait group counts the workers that have been started and have    *)
(*    not returned; with it go type correctness and the order in which the *)
(*    channels are closed, hence NoSendOnClosed.                           *)
(***************************************************************************)
EXTENDS ScanPool, FiniteSetTheorems, SequenceTheorems, TLAPS

\* The workers that hold a share of the wait group.
Live == {w \in Workers : wpc[w] \notin {"none", "exited"}}

(***************************************************************************)
(* The strengthening of TypeOK and NoSendOnClosed that is inductive.       *)
(***************************************************************************)
PoolInv ==
  /\ TypeOK
  /\ wg = Cardinality(Live)
  /\ mpc = "discover" => sent = 0
  /\ closer # "none" => mpc \in {"collect", "enrich", "done"}
  /\ resultsClosed => closer = "done"
  /\ closer = "done" => Live = {}

(***************************************************************************)
(* What Readdirnames may return is a sequence of PIDs.                     *)
(***************************************************************************)
LEMMA ListingType ==
  ASSUME TypeOK
  PROVE  Listings \subseteq Seq(Pids)
<1>1. IsFiniteSet(alive)
  BY FS_Subset, ScanAssumption DEF TypeOK, ScanAssumption
<1>2. Cardinality(alive) \in Nat
  BY <1>1, FS_CardinalityType
<1>3. [1..Cardinality(alive) -> Pids] \subseteq Seq(Pids)
  BY <1>2, SeqDef
<1> QED BY <1>3 DEF Listings, TypeOK

LEMMA LiveIsFinite == IsFiniteSet(Live) /\ Cardinality(Live) \in Nat
<1>1. IsFiniteSet(Live)
  BY FS_Subset, ScanAssumption DEF Live, ScanAssumption
<1> QED BY <1>1, FS_CardinalityType

(***************************************************************************)
(* Enriching some records of the slice leaves it a slice of records.       *)
(***************************************************************************)
LEMMA EnrichType ==
  ASSUME TypeOK, Enrich
  PROVE  collected' \in Seq(ProcessInfo)
<1>1. CASE UNCHANGED collected
  BY <1>1 DEF TypeOK
<1>2. ASSUME NEW S \in SUBSET DOMAIN collected,
             collected' = [i \in DOMAIN collected |->
               IF i \in S
                 THEN [collected[i] EXCEPT !.smaps = Seen(collected[i].pid)]
                 ELSE collected[i]]
      PROVE  collected' \in Seq(ProcessInfo)
  <2>1. /\ Len(collected) \in Nat /\ DOMAIN collected = 1..Len(collected)
        /\ \A i \in DOMAIN collected : collected[i] \in ProcessInfo
    BY LenProperties, ElementOfSeq DEF TypeOK
  <2>2. \A i \in DOMAIN collected :
          [collected[i] EXCEPT !.smaps = Seen(collected[i].pid)] \in ProcessInfo
    BY <2>1 DEF ProcessInfo, Seen, TypeOK
  <2>3. collected' \in [1..Len(collected) -> ProcessInfo]
    BY <1>2, <2>1, <2>2
  <2> QED BY <2>1, <2>3, SeqDef
<1> QED BY <1>1, <1>2 DEF Enrich

LEMMA PoolInit == Init => PoolInv
<1> SUFFICES ASSUME Init PROVE PoolInv
  OBVIOUS
<1> USE ScanAssumption DEF ScanAssumption, Init
<1>1. NoInfo(CHOOSE p \in Pids : TRUE) \in ProcessInfo
  BY DEF NoInfo, ProcessInfo
<1>2. TypeOK
  <2>1. pids \in Seq(Pids) /\ sent \in 0..Len(pids) /\ jobs \in Seq(Pids)
    OBVIOUS
  <2>2. results \in Seq(ProcessInfo) /\ collected \in Seq(ProcessInfo)
    OBVIOUS
  <2>3. info \in [Workers -> ProcessInfo]
    BY <1>1
  <2>4. wpc \in [Workers -> {"none"}] /\ inc \in [Pids -> Nat]
    OBVIOUS
  <2> QED BY <2>1, <2>2, <2>3, <2>4 DEF TypeOK
<1>3. Live = {}
  BY DEF Live
<1> QED BY <1>2, <1>3, FS_EmptySet DEF PoolInv

(***************************************************************************)
(* A step that leaves the workers, the wait group and the closing of       *)
(* channels alone only has to preserve the types.                          *)
(***************************************************************************)
LEMMA SameWorkers ==
  ASSUME PoolInv, TypeOK', UNCHANGED <<wpc, wg, closer, resultsClosed>>,
         mpc' = "discover" => mpc = "discover" /\ sent' = sent,
         mpc \in {"collect", "enrich", "done"}
           => mpc' \in {"collect", "enrich", "done"}
  PROVE  PoolInv'
<1>1. Live' = Live
  BY DEF Live
<1> QED BY <1>1 DEF PoolInv

(***************************************************************************)
(* A worker that goes on working stays in the wait group.                  *)
(***************************************************************************)
LEMMA BusyWorker ==
  ASSUME PoolInv, TypeOK', NEW w \in Workers, w \in Live,
         wpc'[w] \in {"recv", "got", "stat", "details", "send"},
         wpc' = [wpc EXCEPT ![w] = wpc'[w]],
         UNCHANGED <<wg, closer, resultsClosed, mpc, sent>>
  PROVE  PoolInv'
<1>1. wpc \in [Workers -> {"none", "recv", "got", "stat", "details", "send", "exited"}]
  BY DEF PoolInv, TypeOK
<1>2. Live' = Live
  BY <1>1 DEF Live
<1> QED BY <1>2 DEF PoolInv

(***************************************************************************)
(* A worker that returns leaves the wait group.                            *)
(***************************************************************************)
LEMMA ReturningWorker ==
  ASSUME PoolInv, NEW w \in Workers, w \in Live, Return(w)
  PROVE  PoolInv'
<1> USE DEF Return, kernel, chans
<1>1. wpc \in [Workers -> {"none", "recv", "got", "stat", "details", "send", "exited"}]
  BY DEF PoolInv, TypeOK
<1>2. Live' = Live \ {w}
  BY <1>1 DEF Live
<1>3. /\ Cardinality(Live') = Cardinality(Live) - 1
      /\ Cardinality(Live') \in Nat
  BY <1>2, LiveIsFinite, FS_RemoveElement, FS_CardinalityType, FS_Subset
<1>e. wg' = Cardinality(Live') /\ wg' \in Nat
  BY <1>3 DEF PoolInv
<1>4. TypeOK'
  BY <1>1, <1>e DEF PoolInv, TypeOK
<1> QED BY <1>2, <1>e, <1>4 DEF PoolInv

LEMMA PoolStep == PoolInv /\ [Next]_vars => PoolInv'
<1> SUFFICES ASSUME PoolInv, [Next]_vars PROVE PoolInv'
  OBVIOUS
<1> USE DEF kernel, chans
<1>t. TypeOK
  BY DEF PoolInv
<1>1. CASE Cancel
  <2>1. TypeOK' BY <1>1, <1>t DEF Cancel, TypeOK
  <2> QED BY <1>1, <2>1, SameWorkers DEF Cancel
<1>2. ASSUME NEW p \in Pids, Exit(p) PROVE PoolInv'
  <2>1. TypeOK' BY <1>2, <1>t DEF Exit, TypeOK
  <2> QED BY <1>2, <2>1, SameWorkers DEF Exit
<1>3. ASSUME NEW p \in Pids, Fork(p) PROVE PoolInv'
  <2>1. TypeOK' BY <1>3, <1>t DEF Fork, TypeOK
  <2> QED BY <1>3, <2>1, SameWorkers DEF Fork
<1>4. CASE DiscoverPIDs
  <2>0. pids' \in Seq(Pids)
    BY <1>4, <1>t, ListingType DEF DiscoverPIDs, TypeOK
  <2>1. Len(pids') \in Nat /\ sent' = 0
    BY <1>4, <2>0, LenProperties DEF DiscoverPIDs, PoolInv
  <2>2. TypeOK' BY <1>4, <1>t, <2>0, <2>1 DEF DiscoverPIDs, TypeOK
  <2> QED BY <1>4, <2>2, SameWorkers DEF DiscoverPIDs
<1>5. ASSUME NEW w \in Workers, Spawn(w) PROVE PoolInv'
  <2>1. Live' = Live \cup {w} /\ w \notin Live
    BY <1>5, <1>t DEF Spawn, Live, TypeOK
  <2>2. wg' = Cardinality(Live') /\ wg' \in Nat
    <3>1. /\ Cardinality(Live') = Cardinality(Live) + 1
          /\ Cardinality(Live) \in Nat
      BY <2>1, LiveIsFinite, FS_AddElement
    <3> QED BY <1>5, <3>1 DEF Spawn, PoolInv
  <2>3. TypeOK' BY <1>5, <1>t, <2>2 DEF Spawn, TypeOK
  <2> QED BY <1>5, <2>2, <2>3 DEF Spawn, PoolInv
<1>6. CASE SendJob
  <2>1. TypeOK' BY <1>6, <1>t DEF SendJob, TypeOK
  <2> QED BY <1>6, <2>1, SameWorkers DEF SendJob
<1>7. CASE CloseJobs
  <2>1. TypeOK' BY <1>7, <1>t DEF CloseJobs, TypeOK
  <2>2. Live' = Live BY <1>7 DEF CloseJobs, Live
  <2> QED BY <1>7, <2>1, <2>2 DEF CloseJobs, PoolInv
<1>8. CASE Collect
  <2>1. Head(results) \in ProcessInfo /\ Tail(results) \in Seq(ProcessInfo)
    BY <1>8, <1>t, HeadTailProperties DEF Collect, TypeOK
  <2>2. TypeOK' BY <1>8, <1>t, <2>1 DEF Collect, TypeOK
  <2> QED BY <1>8, <2>2, SameWorkers DEF Collect
<1>9. CASE ResultsDrained
  <2>1. TypeOK' BY <1>9, <1>t DEF ResultsDrained, TypeOK
  <2> QED BY <1>9, <2>1, SameWorkers DEF ResultsDrained
<1>10. CASE Enrich
  <2>1. collected' \in Seq(ProcessInfo)
    BY <1>10, <1>t, EnrichType DEF Enrich
  <2>2. TypeOK' BY <1>10, <1>t, <2>1 DEF Enrich, TypeOK
  <2> QED BY <1>10, <2>2, SameWorkers DEF Enrich
<1>11. ASSUME NEW w \in Workers, TakeJob(w) PROVE PoolInv'
  <2>1. Head(jobs) \in Pids /\ Tail(jobs) \in Seq(Pids)
    BY <1>11, <1>t, HeadTailProperties DEF TakeJob, TypeOK
  <2>2. NoInfo(Head(jobs)) \in ProcessInfo
    BY <2>1 DEF NoInfo, ProcessInfo
  <2>3. TypeOK' BY <1>11, <1>t, <2>1, <2>2 DEF TakeJob, TypeOK
  <2> QED BY <1>11, <1>t, <2>3, BusyWorker DEF TakeJob, Live, TypeOK
<1>12. ASSUME NEW w \in Workers, JobsDrained(w) PROVE PoolInv'
  BY <1>12, <1>t, ReturningWorker DEF JobsDrained, Live, TypeOK
<1>13. ASSUME NEW w \in Workers, Abandon(w) PROVE PoolInv'
  BY <1>13, <1>t, ReturningWorker DEF Abandon, Live, TypeOK
<1>14. ASSUME NEW w \in Workers, Proceed(w) PROVE PoolInv'
  <2>1. TypeOK' BY <1>14, <1>t DEF Proceed, TypeOK
  <2> QED BY <1>14, <1>t, <2>1, BusyWorker DEF Proceed, Live, TypeOK
<1>15. ASSUME NEW w \in Workers, ReadStat(w) PROVE PoolInv'
  <2>1. info' \in [Workers -> ProcessInfo]
    <3>1. info[w].pid \in Pids /\ inc[info[w].pid] \in Nat
      BY <1>t DEF TypeOK, ProcessInfo
    <3>2. [info[w] EXCEPT !.stat = inc[info[w].pid]] \in ProcessInfo
      BY <1>t, <3>1 DEF TypeOK, ProcessInfo
    <3>3. \/ info' = info
          \/ info' = [info EXCEPT ![w] = [info[w] EXCEPT !.stat = inc[info[w].pid]]]
      BY <1>15 DEF ReadStat
    <3> QED BY <1>t, <3>2, <3>3 DEF TypeOK
  <2>2. TypeOK' BY <1>15, <1>t, <2>1 DEF ReadStat, TypeOK
  <2> QED BY <1>15, <1>t, <2>2, BusyWorker DEF ReadStat, Live, TypeOK
<1>16. ASSUME NEW w \in Workers, ReadDetails(w) PROVE PoolInv'
  <2>1. info' \in [Workers -> ProcessInfo]
    BY <1>16, <1>t DEF ReadDetails, TypeOK, ProcessInfo, Seen
  <2>2. TypeOK' BY <1>16, <1>t, <2>1 DEF ReadDetails, TypeOK
  <2> QED BY <1>16, <1>t, <2>2, BusyWorker DEF ReadDetails, Live, TypeOK
<1>17. ASSUME NEW w \in Workers, SendResult(w) PROVE PoolInv'
  <2>1. TypeOK' BY <1>17, <1>t DEF SendResult, TypeOK
  <2> QED BY <1>17, <1>t, <2>1, BusyWorker DEF SendResult, Live, TypeOK
<1>18. CASE CloseResults
  <2>1. TypeOK' BY <1>18, <1>t DEF CloseResults, TypeOK
  <2>2. Live' = {}
    BY <1>18, LiveIsFinite, FS_EmptySet DEF CloseResults, PoolInv, Live
  <2>3. wg' = Cardinality(Live')
    BY <1>18, <2>2, FS_EmptySet DEF CloseResults
  <2> QED BY <1>18, <2>1, <2>2, <2>3 DEF CloseResults, PoolInv
<1>19. CASE UNCHANGED vars
  <2>1. TypeOK' BY <1>19, <1>t DEF vars, TypeOK
  <2> QED BY <1>19, <2>1, SameWorkers DEF vars
<1> QED
  BY <1>1, <1>2, <1>3, <1>4, <1>5, <1>6, <1>7, <1>8, <1>9, <1>10, <1>11, <1>12,
     <1>13, <1>14, <1>15, <1>16, <1>17, <1>18, <1>19
  DEF Next, Environment, Main, Worker, Terminated

(***************************************************************************)
(* Every state of the pool is well typed: the wait group never goes        *)
(* negative and no record of an unknown process is made.                   *)
(***************************************************************************)
THEOREM PoolTypeOK == Spec => []TypeOK
<1>1. PoolInv => TypeOK
  BY DEF PoolInv
<1> QED BY <1>1, PoolInit, PoolStep, PTL DEF Spec

(***************************************************************************)
(* No worker sends on the results channel after it was closed, however     *)
(* many workers there are and wherever cancellation finds them.            *)
(***************************************************************************)
THEOREM PoolNoSendOnClosed == Spec => []NoSendOnClosed
<1>1. PoolInv => NoSendOnClosed
  BY DEF PoolInv, NoSendOnClosed, Live
<1> QED BY <1>1, PoolInit, PoolStep, PTL DEF Spec
=============================================================================
