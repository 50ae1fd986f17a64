------------------------- MODULE ScanPoolFlowProofs -------------------------
(***************************************************************************)
(* Proofs about ScanPool, continued: where a PID can be on its way from    *)
(* the listing to the returned slice.                                      *)
(*                                                                         *)
(* 2. At any time a listed PID is in one place only: still to be sent, on  *)
(*    the jobs channel, in the hands of one worker, or in one record of    *)
(*    the results channel or the slice.  Hence NoDuplicates, and since     *)
(*    both channels have a slot per PID, SendsNeverBlock.                  *)
(***************************************************************************)
EXTENDS ScanPoolProofs

\* Workers with a PID in hand.
Holding == {w \in Workers : wpc[w] \in {"got", "stat", "details", "send"}}

\* The records made so far, in the order in which they were sent.
Gathered == collected \o results

\* How many PIDs have been received from the jobs channel.
Taken == sent - Len(jobs)

Handed == {pids[i] : i \in 1..Taken}

(***************************************************************************)
(* Every PID is in one place.                                              *)
(***************************************************************************)
FlowInv ==
  /\ \A i, j \in 1..Len(pids) : pids[i] = pids[j] => i = j
  /\ Taken \in Nat
  /\ \A k \in 1..Len(jobs) : jobs[k] = pids[Taken + k]
  /\ \A w \in Holding : info[w].pid \in Handed
  /\ \A k \in 1..Len(Gathered) : Gathered[k].pid \in Handed
  /\ \A v, w \in Holding : info[v].pid = info[w].pid => v = w
  /\ \A j, k \in 1..Len(Gathered) :
       Gathered[j].pid = Gathered[k].pid => j = k
  /\ \A w \in Holding, k \in 1..Len(Gathered) : info[w].pid # Gathered[k].pid
  /\ mpc = "discover" => Holding = {} /\ Gathered = <<>> /\ jobs = <<>>

LEMMA GatheredType ==
  ASSUME TypeOK
  PROVE  /\ Gathered \in Seq(ProcessInfo) /\ Len(Gathered) \in Nat
         /\ Len(Gathered) = Len(collected) + Len(results)
         /\ Len(collected) \in Nat /\ Len(results) \in Nat
         /\ \A k \in 1..Len(Gathered) : Gathered[k].pid \in Pids
<1>1. /\ Gathered \in Seq(ProcessInfo)
      /\ Len(Gathered) = Len(collected) + Len(results)
  BY ConcatProperties DEF TypeOK, Gathered
<1>2. ASSUME NEW k \in 1..Len(Gathered) PROVE Gathered[k].pid \in Pids
  <2>1. Gathered[k] \in ProcessInfo
    BY <1>1, ElementOfSeq
  <2> QED BY <2>1 DEF ProcessInfo
<1> QED BY <1>1, <1>2, LenProperties DEF TypeOK

(***************************************************************************)
(* A step that moves no PID, though it may drop one from a worker's hands  *)
(* or change other parts of a record.                                      *)
(***************************************************************************)
LEMMA QuietFlow ==
  ASSUME FlowInv, UNCHANGED <<pids, sent, jobs>>,
         Holding' \subseteq Holding,
         \A w \in Holding' : info'[w].pid = info[w].pid,
         Len(Gathered') = Len(Gathered),
         \A k \in 1..Len(Gathered) : Gathered'[k].pid = Gathered[k].pid,
         mpc' = "discover" => mpc = "discover" /\ Gathered' = Gathered
  PROVE  FlowInv'
<1>1. Taken' = Taken /\ Handed' = Handed
  BY DEF Taken, Handed
<1> QED BY <1>1 DEF FlowInv

\* A step that leaves the records alone and moves no PID.
LEMMA QuietStep ==
  ASSUME FlowInv, UNCHANGED <<pids, sent, jobs, collected, results>>,
         Holding' \subseteq Holding,
         \A w \in Holding' : info'[w].pid = info[w].pid,
         mpc' = "discover" => mpc = "discover"
  PROVE  FlowInv'
<1>1. Gathered' = Gathered
  BY DEF Gathered
<1> QED BY <1>1, QuietFlow

LEMMA FlowInit == Init => FlowInv
<1> SUFFICES ASSUME Init PROVE FlowInv
  OBVIOUS
<1>1. pids = <<>> /\ sent = 0 /\ jobs = <<>> /\ Len(jobs) = 0 /\ Len(pids) = 0
  BY DEF Init
<1>2. Holding = {}
  BY DEF Holding, Init
<1>3. Gathered = <<>> /\ Len(Gathered) = 0
  BY ConcatEmptySeq, EmptySeq DEF Gathered, Init
<1> QED BY <1>1, <1>2, <1>3 DEF FlowInv, Taken

LEMMA DiscoverFlow ==
  ASSUME FlowInv, PoolInv, DiscoverPIDs
  PROVE  FlowInv'
<1> USE DEF chans, kernel
<1>1. /\ Holding' = {} /\ Gathered' = <<>> /\ jobs' = <<>>
      /\ Taken' = 0 /\ Len(jobs') = 0 /\ Len(Gathered') = 0
  <2>1. mpc = "discover" /\ sent = 0 /\ UNCHANGED <<wpc, jobs, results, collected, sent>>
    BY DEF DiscoverPIDs, PoolInv
  <2>2. Holding' = Holding /\ Gathered' = Gathered /\ jobs' = jobs /\ Len(jobs) = 0
    BY <2>1 DEF Holding, Gathered, FlowInv
  <2>3. Taken' = 0
    BY <2>1, <2>2 DEF Taken
  <2> QED BY <2>1, <2>2, <2>3 DEF FlowInv
<1>2. \A i, j \in 1..Len(pids') : pids'[i] = pids'[j] => i = j
  <2>1. CASE UNCHANGED pids
    BY <2>1 DEF FlowInv
  <2>2. CASE pids' \in Listings
    <3>1. Cardinality(alive) \in Nat
      BY FS_Subset, FS_CardinalityType, ScanAssumption
         DEF PoolInv, TypeOK, ScanAssumption
    <3>2. DOMAIN pids' = 1..Cardinality(alive)
      BY <2>2 DEF Listings
    <3>3. DOMAIN pids' = 1..Len(pids')
      BY <2>2, ListingType, LenProperties DEF PoolInv
    <3> QED BY <2>2, <3>3 DEF Listings
  <2> QED BY <2>1, <2>2 DEF DiscoverPIDs
<1> QED BY <1>1, <1>2 DEF FlowInv

LEMMA SendJobFlow ==
  ASSUME FlowInv, PoolInv, SendJob
  PROVE  FlowInv'
<1> USE DEF chans, kernel
<1>1. /\ Len(jobs) \in Nat /\ sent \in Nat /\ pids[sent + 1] \in Pids
      /\ jobs \in Seq(Pids)
  BY LenProperties, ElementOfSeq DEF PoolInv, TypeOK, SendJob
<1>2. /\ Len(jobs') = Len(jobs) + 1
      /\ \A k \in 1..Len(jobs) : jobs'[k] = jobs[k]
      /\ jobs'[Len(jobs) + 1] = pids[sent + 1]
  BY <1>1, AppendProperties DEF SendJob
<1>3. Taken' = Taken /\ Handed' = Handed /\ pids' = pids
  BY <1>1, <1>2 DEF Taken, Handed, SendJob
<1>4. \A k \in 1..Len(jobs') : jobs'[k] = pids'[Taken' + k]
  <2>1. /\ Taken' = sent - Len(jobs)
        /\ \A k \in 1..Len(jobs) : jobs[k] = pids[Taken + k]
    BY <1>3 DEF Taken, FlowInv
  <2>2. ASSUME NEW k \in 1..Len(jobs') PROVE jobs'[k] = pids'[Taken' + k]
    <3>1. CASE k \in 1..Len(jobs)
      BY <1>2, <1>3, <2>1, <3>1
    <3>2. CASE k = Len(jobs) + 1
      BY <1>1, <1>2, <1>3, <2>1, <3>2
    <3> QED BY <1>1, <1>2, <3>1, <3>2
  <2> QED BY <2>2
<1>5. Holding' = Holding /\ Gathered' = Gathered /\ info' = info /\ mpc' = "send"
  BY DEF Holding, Gathered, SendJob
<1> QED BY <1>3, <1>4, <1>5 DEF FlowInv

(***************************************************************************)
(* A record that is collected moves from the head of the results channel   *)
(* to the end of the slice.                                                *)
(***************************************************************************)
LEMMA CollectKeepsGathered ==
  ASSUME TypeOK, Collect
  PROVE  Gathered' = Gathered
<1>1. /\ collected \in Seq(ProcessInfo) /\ results \in Seq(ProcessInfo)
      /\ results # <<>> /\ Head(results) \in ProcessInfo
      /\ Tail(results) \in Seq(ProcessInfo)
  BY HeadTailProperties DEF TypeOK, Collect
<1>2. collected' = collected \o <<Head(results)>> /\ results' = Tail(results)
  BY <1>1, AppendIsConcat DEF Collect
<1>3. <<Head(results)>> \o Tail(results) = results
  <2>1. <<Head(results)>> \in Seq(ProcessInfo) /\ Len(<<Head(results)>>) = 1
        /\ <<Head(results)>>[1] = Head(results)
    BY <1>1
  <2> DEFINE r == <<Head(results)>> \o Tail(results)
  <2>2. /\ r \in Seq(ProcessInfo) /\ Len(r) = 1 + Len(Tail(results))
        /\ \A i \in 1 .. 1 + Len(Tail(results)) :
             r[i] = IF i <= 1 THEN Head(results) ELSE Tail(results)[i - 1]
    BY <1>1, <2>1, ConcatProperties
  <2>3. /\ Len(results) \in Nat \ {0} /\ Len(Tail(results)) = Len(results) - 1
        /\ \A i \in 1 .. Len(Tail(results)) : Tail(results)[i] = results[i + 1]
        /\ Head(results) = results[1]
    BY <1>1, HeadTailProperties, EmptySeq
  <2>4. \A i \in 1..Len(r) : r[i] = results[i]
    BY <2>2, <2>3
  <2> HIDE DEF r
  <2>5. r = results
    BY <1>1, <2>2, <2>3, <2>4, SeqEqual
  <2> QED BY <2>5 DEF r
<1>4. <<Head(results)>> \in Seq(ProcessInfo)
  BY <1>1
<1> QED BY <1>1, <1>2, <1>3, <1>4, ConcatAssociative DEF Gathered

(***************************************************************************)
(* Enriching changes no record's PID.                                      *)
(***************************************************************************)
LEMMA EnrichMoves ==
  ASSUME PoolInv, Enrich
  PROVE  /\ Len(Gathered') = Len(Gathered)
         /\ \A k \in 1..Len(Gathered) : Gathered'[k].pid = Gathered[k].pid
<1> USE DEF chans, kernel
<1>t. TypeOK
  BY DEF PoolInv
<1>1. /\ Len(collected) \in Nat /\ DOMAIN collected = 1..Len(collected)
      /\ collected \in Seq(ProcessInfo) /\ results \in Seq(ProcessInfo)
      /\ \A i \in DOMAIN collected : collected[i] \in ProcessInfo
  BY <1>t, LenProperties, ElementOfSeq DEF TypeOK
<1>2. collected' \in Seq(ProcessInfo)
  BY <1>t, EnrichType
<1>3. DOMAIN collected' = DOMAIN collected
  BY DEF Enrich
<1>4. Len(collected') = Len(collected)
  BY <1>1, <1>2, <1>3, LenProperties
<1>5. \A i \in 1..Len(collected) : collected'[i].pid = collected[i].pid
  BY <1>1 DEF Enrich, ProcessInfo
<1>6. results' = results
  BY DEF Enrich
<1>7. /\ Len(results) \in Nat
      /\ Len(Gathered) = Len(collected) + Len(results)
      /\ \A i \in 1 .. Len(collected) + Len(results) :
           Gathered[i] = IF i <= Len(collected) THEN collected[i]
                                                ELSE results[i - Len(collected)]
  BY <1>1, ConcatProperties, LenProperties DEF Gathered
<1>c. /\ Len(Gathered') = Len(collected') + Len(results')
      /\ \A i \in 1 .. Len(collected') + Len(results') :
           Gathered'[i] = IF i <= Len(collected') THEN collected'[i]
                                                  ELSE results'[i - Len(collected')]
  <2>1. results' \in Seq(ProcessInfo)
    BY <1>1, <1>6
  <2> QED BY <1>2, <2>1, ConcatProperties DEF Gathered
<1>8. \A k \in 1..Len(Gathered) : Gathered'[k].pid = Gathered[k].pid
  BY <1>1, <1>4, <1>5, <1>6, <1>7, <1>c
<1> QED BY <1>4, <1>6, <1>7, <1>c, <1>8

LEMMA EnrichFlow ==
  ASSUME FlowInv, PoolInv, Enrich
  PROVE  FlowInv'
<1> USE DEF chans, kernel
<1>1. /\ Len(Gathered') = Len(Gathered)
      /\ \A k \in 1..Len(Gathered) : Gathered'[k].pid = Gathered[k].pid
  BY EnrichMoves
<1>9. Holding' = Holding /\ info' = info /\ mpc' = "done"
  BY DEF Holding, Enrich
<1> QED BY <1>1, <1>9, QuietFlow DEF Enrich

(***************************************************************************)
(* The PID at the head of the jobs channel was never in a worker's hands.  *)
(***************************************************************************)
LEMMA TakeJobMoves ==
  ASSUME FlowInv, PoolInv, NEW w \in Workers, TakeJob(w)
  PROVE  LET h == Head(jobs) IN
         /\ Taken \in Nat /\ Taken' = Taken + 1 /\ pids' = pids /\ mpc' = mpc
         /\ Len(jobs) \in Nat \ {0} /\ Len(jobs') = Len(jobs) - 1
         /\ \A k \in 1..Len(jobs') : jobs'[k] = jobs[k + 1]
         /\ Handed' = Handed \cup {h} /\ h \notin Handed
         /\ Holding' = Holding \cup {w} /\ w \notin Holding
         /\ info'[w].pid = h /\ \A v \in Holding : info'[v] = info[v]
         /\ Gathered' = Gathered
<1> USE DEF chans, kernel
<1> DEFINE h == Head(jobs)
<1>t. TypeOK
  BY DEF PoolInv
<1>1. /\ jobs \in Seq(Pids) /\ jobs # <<>> /\ jobs' = Tail(jobs)
      /\ Len(jobs) \in Nat \ {0} /\ Len(jobs') = Len(jobs) - 1
      /\ \A k \in 1..Len(jobs') : jobs'[k] = jobs[k + 1]
      /\ h = jobs[1] /\ h \in Pids
  BY <1>t, HeadTailProperties, EmptySeq DEF TypeOK, TakeJob
<1>2. /\ sent \in Nat /\ sent <= Len(pids) /\ Len(pids) \in Nat
      /\ Taken \in Nat /\ Taken + 1 <= sent
      /\ Taken' = Taken + 1 /\ pids' = pids /\ mpc' = mpc
  BY <1>1, <1>t, LenProperties DEF TypeOK, TakeJob, Taken, FlowInv
<1>3. h = pids[Taken + 1]
  BY <1>1, <1>2 DEF FlowInv
<1>4. Handed' = Handed \cup {h} /\ h \notin Handed
  <2>1. Handed' = {pids[i] : i \in 1 .. Taken + 1}
    BY <1>2 DEF Handed
  <2>2. 1 .. Taken + 1 = (1..Taken) \cup {Taken + 1}
    BY <1>2
  <2>3. \A i \in 1..Taken : pids[i] # h
    <3>1. \A i, j \in 1..Len(pids) : pids[i] = pids[j] => i = j
      BY DEF FlowInv
    <3> QED BY <1>2, <1>3, <3>1
  <2> QED BY <1>3, <2>1, <2>2, <2>3 DEF Handed
<1>5. Holding' = Holding \cup {w} /\ w \notin Holding
  BY <1>t DEF TakeJob, Holding, TypeOK
<1>6. info'[w].pid = h /\ \A v \in Holding : info'[v] = info[v]
  BY <1>t, <1>5 DEF TakeJob, NoInfo, TypeOK, Holding
<1>7. Gathered' = Gathered
  BY DEF TakeJob, Gathered
<1> QED BY <1>1, <1>2, <1>4, <1>5, <1>6, <1>7

LEMMA TakeJobFlow ==
  ASSUME FlowInv, PoolInv, NEW w \in Workers, TakeJob(w)
  PROVE  FlowInv'
<1> DEFINE h == Head(jobs)
<1>1. /\ Taken \in Nat /\ Taken' = Taken + 1 /\ pids' = pids /\ mpc' = mpc
      /\ Len(jobs) \in Nat \ {0} /\ Len(jobs') = Len(jobs) - 1
      /\ \A k \in 1..Len(jobs') : jobs'[k] = jobs[k + 1]
  BY TakeJobMoves
<1>4. Handed' = Handed \cup {h} /\ h \notin Handed
  BY TakeJobMoves
<1>5. Holding' = Holding \cup {w} /\ w \notin Holding
  BY TakeJobMoves
<1>6. info'[w].pid = h /\ \A v \in Holding : info'[v] = info[v]
  BY TakeJobMoves
<1>7. Gathered' = Gathered
  BY TakeJobMoves
<1>8. \A k \in 1..Len(jobs') : jobs'[k] = pids'[Taken' + k]
  <2>1. \A k \in 1..Len(jobs) : jobs[k] = pids[Taken + k]
    BY DEF FlowInv
  <2>2. ASSUME NEW k \in 1..Len(jobs') PROVE jobs'[k] = pids'[Taken' + k]
    <3>1. k + 1 \in 1..Len(jobs) /\ Taken + (k + 1) = Taken' + k
      BY <1>1
    <3>2. jobs'[k] = jobs[k + 1] /\ jobs[k + 1] = pids[Taken + (k + 1)]
      BY <1>1, <2>1, <3>1
    <3> QED BY <1>1, <3>1, <3>2
  <2> QED BY <2>2
<1>9. mpc # "discover"
  BY DEF FlowInv, TakeJob
<1>10. /\ \A v \in Holding' : info'[v].pid \in Handed'
       /\ \A k \in 1..Len(Gathered') : Gathered'[k].pid \in Handed'
  BY <1>4, <1>5, <1>6, <1>7 DEF FlowInv
<1>11. \A v, u \in Holding' : info'[v].pid = info'[u].pid => v = u
  BY <1>4, <1>5, <1>6 DEF FlowInv
<1>12. \A v \in Holding', k \in 1..Len(Gathered') :
         info'[v].pid # Gathered'[k].pid
  BY <1>4, <1>5, <1>6, <1>7 DEF FlowInv
<1> QED BY <1>1, <1>7, <1>8, <1>9, <1>10, <1>11, <1>12 DEF FlowInv

(***************************************************************************)
(* A worker that has sent its record has its hands free.                   *)
(***************************************************************************)
LEMMA SendResultMoves ==
  ASSUME FlowInv, PoolInv, NEW w \in Workers, SendResult(w)
  PROVE  LET n == Len(Gathered) IN
         /\ n \in Nat /\ Len(Gathered') = n + 1 /\ Gathered' # <<>>
         /\ Gathered'[n + 1] = info[w]
         /\ \A k \in 1..n : Gathered'[k] = Gathered[k]
         /\ Holding' = Holding \ {w} /\ w \in Holding /\ info' = info
         /\ Taken' = Taken /\ Handed' = Handed /\ pids' = pids
         /\ jobs' = jobs /\ mpc' = mpc
<1> USE DEF chans, kernel
<1> DEFINE n == Len(Gathered)
<1>t. TypeOK
  BY DEF PoolInv
<1>1. /\ collected \in Seq(ProcessInfo) /\ results \in Seq(ProcessInfo)
      /\ info[w] \in ProcessInfo /\ <<info[w]>> \in Seq(ProcessInfo)
      /\ Gathered \in Seq(ProcessInfo) /\ n \in Nat
  BY <1>t, GatheredType DEF TypeOK
<1>2. Gathered' = Append(Gathered, info[w])
  <2>1. results' = results \o <<info[w]>> /\ collected' = collected
    BY <1>1, AppendIsConcat DEF SendResult
  <2>2. Append(Gathered, info[w]) = (collected \o results) \o <<info[w]>>
    BY <1>1, AppendIsConcat DEF Gathered
  <2> QED BY <1>1, <2>1, <2>2, ConcatAssociative DEF Gathered
<1>3. /\ Len(Gathered') = n + 1 /\ Gathered' # <<>>
      /\ Gathered'[n + 1] = info[w]
      /\ \A k \in 1..n : Gathered'[k] = Gathered[k]
  BY <1>1, <1>2, AppendProperties
<1>4. Holding' = Holding \ {w} /\ w \in Holding /\ info' = info
  BY <1>t DEF SendResult, Holding, TypeOK
<1>5. Taken' = Taken /\ Handed' = Handed /\ pids' = pids /\ jobs' = jobs /\ mpc' = mpc
  BY DEF SendResult, Taken, Handed
<1> QED BY <1>1, <1>3, <1>4, <1>5

LEMMA SendResultFlow ==
  ASSUME FlowInv, PoolInv, NEW w \in Workers, SendResult(w)
  PROVE  FlowInv'
<1> DEFINE n == Len(Gathered)
<1>3. /\ n \in Nat /\ Len(Gathered') = n + 1 /\ Gathered' # <<>>
      /\ Gathered'[n + 1] = info[w]
      /\ \A k \in 1..n : Gathered'[k] = Gathered[k]
  BY SendResultMoves
<1>4. Holding' = Holding \ {w} /\ w \in Holding /\ info' = info
  BY SendResultMoves
<1>5. /\ Taken' = Taken /\ Handed' = Handed /\ pids' = pids
      /\ jobs' = jobs /\ mpc' = mpc
  BY SendResultMoves
<1>6. mpc # "discover"
  BY <1>4 DEF FlowInv
<1>i. 1..Len(Gathered') = (1..n) \cup {n + 1}
  BY <1>3
<1>7. \A k \in 1..Len(Gathered') : Gathered'[k].pid \in Handed'
  BY <1>3, <1>4, <1>5, <1>i DEF FlowInv
<1>8. \A j, k \in 1..Len(Gathered') : Gathered'[j].pid = Gathered'[k].pid => j = k
  <2>1. /\ \A j, k \in 1..n : Gathered[j].pid = Gathered[k].pid => j = k
        /\ \A k \in 1..n : info[w].pid # Gathered[k].pid
    BY <1>4 DEF FlowInv
  <2> QED BY <1>3, <1>i, <2>1
<1>9. \A v \in Holding', k \in 1..Len(Gathered') :
        info'[v].pid # Gathered'[k].pid
  <2>1. /\ \A v \in Holding, k \in 1..n : info[v].pid # Gathered[k].pid
        /\ \A v \in Holding : info[v].pid = info[w].pid => v = w
    BY <1>4 DEF FlowInv
  <2> QED BY <1>3, <1>4, <1>i, <2>1
<1> QED BY <1>4, <1>5, <1>6, <1>7, <1>8, <1>9 DEF FlowInv

LEMMA FlowStep == PoolInv /\ FlowInv /\ [Next]_vars => FlowInv'
<1> SUFFICES ASSUME PoolInv, FlowInv, [Next]_vars PROVE FlowInv'
  OBVIOUS
<1> USE DEF kernel, chans
<1>t. TypeOK
  BY DEF PoolInv
<1>1. CASE Cancel
  BY <1>1, QuietStep DEF Cancel, Holding
<1>2. ASSUME NEW p \in Pids, Exit(p) \/ Fork(p) PROVE FlowInv'
  BY <1>2, QuietStep DEF Exit, Fork, Holding
<1>3. CASE DiscoverPIDs
  BY <1>3, DiscoverFlow
<1>4. ASSUME NEW w \in Workers, Spawn(w) PROVE FlowInv'
  <2>1. Holding' = Holding
    BY <1>4, <1>t DEF Spawn, Holding, TypeOK
  <2> QED BY <1>4, <2>1, QuietStep DEF Spawn
<1>5. CASE SendJob
  BY <1>5, SendJobFlow
<1>6. CASE CloseJobs
  BY <1>6, QuietStep DEF CloseJobs, Holding
<1>7. CASE Collect
  <2>1. Gathered' = Gathered
    BY <1>7, <1>t, CollectKeepsGathered
  <2> QED BY <1>7, <2>1, QuietFlow DEF Collect, Holding
<1>8. CASE ResultsDrained
  BY <1>8, QuietStep DEF ResultsDrained, Holding
<1>9. CASE Enrich
  BY <1>9, EnrichFlow
<1>10. ASSUME NEW w \in Workers, TakeJob(w) PROVE FlowInv'
  BY <1>10, TakeJobFlow
<1>11. ASSUME NEW w \in Workers, JobsDrained(w) \/ Abandon(w) PROVE FlowInv'
  <2>1. Holding' \subseteq Holding
    BY <1>11, <1>t DEF JobsDrained, Abandon, Return, Holding, TypeOK
  <2> QED BY <1>11, <2>1, QuietStep DEF JobsDrained, Abandon, Return
<1>12. ASSUME NEW w \in Workers, Proceed(w) PROVE FlowInv'
  <2>1. Holding' = Holding
    BY <1>12, <1>t DEF Proceed, Holding, TypeOK
  <2> QED BY <1>12, <2>1, QuietStep DEF Proceed
<1>13. ASSUME NEW w \in Workers, ReadStat(w) \/ ReadDetails(w) PROVE FlowInv'
  <2>1. Holding' \subseteq Holding
    BY <1>13, <1>t DEF ReadStat, ReadDetails, Holding, TypeOK
  <2>2. \A v \in Workers : info'[v].pid = info[v].pid
    <3>1. \A v \in Workers : info[v] \in ProcessInfo
      BY <1>t DEF TypeOK
    <3>2. CASE ReadStat(w)
      <4>1. CASE UNCHANGED info
        BY <4>1
      <4>2. CASE info' = [info EXCEPT ![w].stat = inc[info[w].pid]]
        BY <4>2, <1>t, <3>1 DEF TypeOK, ProcessInfo
      <4> QED BY <3>2, <4>1, <4>2 DEF ReadStat
    <3>3. CASE ReadDetails(w)
      BY <3>3, <1>t, <3>1 DEF ReadDetails, TypeOK, ProcessInfo
    <3> QED BY <1>13, <3>2, <3>3
  <2>3. \A v \in Holding' : info'[v].pid = info[v].pid
    BY <2>2 DEF Holding
  <2> QED BY <1>13, <2>1, <2>3, QuietStep DEF ReadStat, ReadDetails
<1>14. ASSUME NEW w \in Workers, SendResult(w) PROVE FlowInv'
  BY <1>14, SendResultFlow
<1>15. CASE CloseResults
  BY <1>15, QuietStep DEF CloseResults, Holding
<1>16. CASE UNCHANGED vars
  BY <1>16, QuietStep DEF vars, Holding
<1> QED
  BY <1>1, <1>2, <1>3, <1>4, <1>5, <1>6, <1>7, <1>8, <1>9, <1>10, <1>11, <1>12,
     <1>13, <1>14, <1>15, <1>16
  DEF Next, Environment, Main, Worker, Terminated

LEMMA FlowAlways == Spec => [](PoolInv /\ FlowInv)
BY PoolInit, PoolStep, FlowInit, FlowStep, PTL DEF Spec

(***************************************************************************)
(* However the jobs are shared out among the workers, no PID is in the     *)
(* returned slice twice.                                                   *)
(***************************************************************************)
THEOREM PoolNoDuplicates == Spec => []NoDuplicates
<1>1. PoolInv /\ FlowInv => NoDuplicates
  <2> SUFFICES ASSUME PoolInv, FlowInv PROVE NoDuplicates
    OBVIOUS
  <2>1. /\ collected \in Seq(ProcessInfo) /\ results \in Seq(ProcessInfo)
        /\ DOMAIN collected = 1..Len(collected)
    BY LenProperties DEF PoolInv, TypeOK
  <2>2. /\ Len(collected) \in Nat /\ Len(results) \in Nat
        /\ Len(Gathered) = Len(collected) + Len(results)
        /\ \A i \in 1..Len(collected) : Gathered[i] = collected[i]
    BY <2>1, ConcatProperties, LenProperties DEF Gathered
  <2>3. \A i \in 1..Len(collected) : i \in 1..Len(Gathered)
    BY <2>2
  <2> QED BY <2>1, <2>2, <2>3 DEF FlowInv, NoDuplicates
<1> QED BY <1>1, FlowAlways, PTL

(***************************************************************************)
(* A worker's record and the records made before it name different PIDs    *)
(* of the listing, so there is room for it.                                *)
(***************************************************************************)
LEMMA RoomForOneMore ==
  ASSUME PoolInv, FlowInv, NEW w \in Holding
  PROVE  Len(Gathered) < Len(pids)
<1> DEFINE n == Len(Gathered)
<1> DEFINE f == [k \in 1 .. n + 1 |->
                   IF k = n + 1 THEN info[w].pid ELSE Gathered[k].pid]
<1>1. n \in Nat /\ Taken \in Nat /\ Len(pids) \in Nat /\ Taken <= Len(pids)
  <2>1. sent \in Nat /\ sent <= Len(pids) /\ Len(pids) \in Nat /\ Len(jobs) \in Nat
    BY LenProperties DEF PoolInv, TypeOK
  <2>2. n \in Nat /\ Taken \in Nat
    BY GatheredType DEF PoolInv, FlowInv
  <2>3. Taken <= sent
    BY <2>1 DEF Taken
  <2> QED BY <2>1, <2>2, <2>3
<1>2. \A k \in 1 .. n + 1 : k = n + 1 \/ k \in 1..n
  BY <1>1
<1>3. f \in [1 .. n + 1 -> Handed]
  BY <1>2 DEF FlowInv
<1>4. \A j, k \in 1 .. n + 1 : f[j] = f[k] => j = k
  BY <1>2 DEF FlowInv
<1>5. IsFiniteSet(Handed) /\ Cardinality(Handed) <= Taken
  <2>1. IsFiniteSet(1..Taken) /\ Cardinality(1..Taken) = Taken
    BY <1>1, FS_Interval
  <2> DEFINE g == [i \in 1..Taken |-> pids[i]]
  <2>2. g \in Surjection(1..Taken, Handed)
    BY DEF Handed, Surjection
  <2> QED BY <2>1, <2>2, FS_Surjection
<1>6. f \in Injection(1 .. n + 1, Handed)
  BY <1>3, <1>4 DEF Injection, IsInjective
<1>7. IsFiniteSet(1 .. n + 1) /\ Cardinality(1 .. n + 1) = n + 1
  BY <1>1, FS_Interval
<1>8. n + 1 <= Cardinality(Handed)
  BY <1>5, <1>6, <1>7, FS_Injection
<1>9. Cardinality(Handed) \in Nat
  BY <1>5, FS_CardinalityType
<1> QED BY <1>1, <1>5, <1>8, <1>9

(***************************************************************************)
(* Neither main nor a worker ever waits for a slot in a channel, so a      *)
(* cancelled scan cannot hang on results that nobody drains yet.           *)
(***************************************************************************)
THEOREM PoolSendsNeverBlock == Spec => []SendsNeverBlock
<1>1. PoolInv /\ FlowInv => SendsNeverBlock
  <2> SUFFICES ASSUME PoolInv, FlowInv PROVE SendsNeverBlock
    OBVIOUS
  <2>1. ASSUME sent < Len(pids) PROVE Len(jobs) < Len(pids)
    <3>1. sent \in Nat /\ Len(pids) \in Nat /\ Len(jobs) \in Nat
      BY LenProperties DEF PoolInv, TypeOK
    <3>2. sent - Len(jobs) \in Nat
      BY DEF FlowInv, Taken
    <3> QED BY <2>1, <3>1, <3>2
  <2>2. ASSUME NEW w \in Workers, wpc[w] = "send" PROVE Len(results) < Len(pids)
    <3>1. Len(Gathered) < Len(pids)
      BY <2>2, RoomForOneMore DEF Holding
    <3>2. /\ Len(Gathered) = Len(collected) + Len(results)
          /\ Len(collected) \in Nat /\ Len(results) \in Nat
      BY GatheredType DEF PoolInv
    <3>3. Len(pids) \in Nat
      BY LenProperties DEF PoolInv, TypeOK
    <3> QED BY <3>1, <3>2, <3>3
  <2> QED BY <2>1, <2>2 DEF SendsNeverBlock, JobsCap, ResultsCap
<1> QED BY <1>1, FlowAlways, PTL
=============================================================================
