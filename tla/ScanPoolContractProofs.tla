----------------------- MODULE ScanPoolContractProofs -----------------------
(***************************************************************************)
(* Proofs about ScanPool, concluded: nothing is left out without an        *)
(* excuse, and the pool implements ScanContract.                           *)
(*                                                                         *)
(* 3. A PID that a worker has received is in a worker's hands, in a record *)
(*    or excused, unless the context is cancelled; and when main stops     *)
(*    draining, every PID has been received and every worker has returned. *)
(*    Hence CompleteUnlessCancelled and ImplementsContract.                *)
(***************************************************************************)
EXTENDS ScanPoolFlowProofs

\* What happened to a PID that a worker received.
Accounted(p) ==
  \/ p \in Hidden \cup exited
  \/ \E w \in Holding : info[w].pid = p
  \/ \E k \in 1..Len(Gathered) : Gathered[k].pid = p

\* The loop over the results channel has ended.
Drained == jobsClosed /\ resultsClosed /\ results = <<>> /\ Started # {}

(***************************************************************************)
(* How far main, the workers and the channels have come together.          *)
(***************************************************************************)
PhaseInv ==
  /\ jobsClosed => sent = Len(pids) /\ mpc \in {"collect", "enrich", "done"}
  /\ mpc \in {"send", "collect"} => Started # {}
  /\ mpc = "collect" => jobsClosed
  /\ mpc = "enrich" => Drained
  /\ mpc = "done" /\ pids # <<>> => Drained
  /\ (\E w \in Workers : wpc[w] = "exited")
       => cancelled \/ (jobs = <<>> /\ jobsClosed)

(***************************************************************************)
(* No PID is lost on its way while the context is alive.                   *)
(***************************************************************************)
AccountInv ==
  /\ \A i \in 1..Len(pids) : pids[i] \in alive \cup exited
  /\ cancelled \/ \A p \in Handed : Accounted(p)

LEMMA CompleteInit == Init => PhaseInv /\ AccountInv
<1> SUFFICES ASSUME Init PROVE PhaseInv /\ AccountInv
  OBVIOUS
<1>1. Len(pids) = 0 /\ Len(jobs) = 0 /\ sent = 0
  BY DEF Init
<1>2. Handed = {}
  BY <1>1 DEF Handed, Taken
<1>3. PhaseInv
  BY DEF Init, PhaseInv
<1> QED BY <1>1, <1>2, <1>3 DEF AccountInv

LEMMA PhaseStep == TypeOK /\ FlowInv /\ PoolInv /\ PhaseInv /\ [Next]_vars => PhaseInv'
<1> SUFFICES ASSUME TypeOK, FlowInv, PoolInv, PhaseInv, [Next]_vars
             PROVE  PhaseInv'
  OBVIOUS
<1> USE DEF kernel, chans, PhaseInv, Drained, Started
<1>1. CASE Cancel
  BY <1>1 DEF Cancel
<1>2. ASSUME NEW p \in Pids, Exit(p) \/ Fork(p) PROVE PhaseInv'
  BY <1>2 DEF Exit, Fork
<1>3. CASE DiscoverPIDs
  <2>1. /\ mpc = "discover" /\ ~jobsClosed' /\ jobs' = <<>>
        /\ mpc' \in {"failed", "done", "spawn"}
        /\ mpc' = "done" => pids' = <<>>
        /\ ~jobsClosed
    BY <1>3 DEF DiscoverPIDs, FlowInv
  <2>2. (\E w \in Workers : wpc'[w] = "exited") => cancelled'
    BY <1>3, <2>1 DEF DiscoverPIDs
  <2> QED BY <2>1, <2>2
<1>4. ASSUME NEW w \in Workers, Spawn(w) PROVE PhaseInv'
  <2>1. w \in Started' /\ mpc' \in {"spawn", "send"} /\ ~jobsClosed'
    BY <1>4 DEF Spawn, TypeOK
  <2>2. \A v \in Workers : wpc'[v] = "exited" => wpc[v] = "exited"
    BY <1>4 DEF Spawn, TypeOK
  <2>3. UNCHANGED <<cancelled, jobs, jobsClosed>>
    BY <1>4 DEF Spawn
  <2> HIDE DEF Started
  <2> QED BY <2>1, <2>2, <2>3
<1>5. CASE SendJob
  <2>1. ~jobsClosed
    BY <1>5 DEF SendJob
  <2> QED BY <1>5, <2>1 DEF SendJob
<1>6. CASE CloseJobs
  <2>1. ~jobsClosed
    BY <1>6 DEF CloseJobs
  <2> QED BY <1>6, <2>1 DEF CloseJobs
<1>7. CASE Collect
  BY <1>7 DEF Collect
<1>8. CASE ResultsDrained
  BY <1>8 DEF ResultsDrained
<1>9. CASE Enrich
  BY <1>9 DEF Enrich
<1>10. ASSUME NEW w \in Workers, TakeJob(w) PROVE PhaseInv'
  <2>1. /\ \A v \in Workers : wpc'[v] = "exited" => wpc[v] = "exited"
        /\ Started' = Started
    BY <1>10 DEF TakeJob, TypeOK
  <2>2. jobs # <<>> /\ UNCHANGED <<cancelled, sent, pids, mpc, jobsClosed, resultsClosed, results>>
    BY <1>10 DEF TakeJob
  <2> HIDE DEF Started
  <2> QED BY <2>1, <2>2
<1>11. ASSUME NEW w \in Workers, JobsDrained(w) \/ Abandon(w) PROVE PhaseInv'
  <2>1. /\ cancelled' \/ (jobs' = <<>> /\ jobsClosed')
        /\ Started' = Started
    BY <1>11 DEF JobsDrained, Abandon, Return, TypeOK
  <2>2. UNCHANGED <<sent, pids, mpc, jobsClosed, resultsClosed, results>>
    BY <1>11 DEF JobsDrained, Abandon, Return
  <2> HIDE DEF Started
  <2> QED BY <2>1, <2>2
<1>12. ASSUME NEW w \in Workers, Proceed(w) \/ ReadStat(w) \/ ReadDetails(w)
       PROVE  PhaseInv'
  <2>1. /\ \A v \in Workers : wpc'[v] = "exited" => wpc[v] = "exited"
        /\ Started' = Started
    BY <1>12 DEF Proceed, ReadStat, ReadDetails, TypeOK
  <2>2. UNCHANGED <<cancelled, sent, pids, mpc, jobs, jobsClosed, resultsClosed, results>>
    BY <1>12 DEF Proceed, ReadStat, ReadDetails
  <2> HIDE DEF Started
  <2> QED BY <2>1, <2>2
<1>13. ASSUME NEW w \in Workers, SendResult(w) PROVE PhaseInv'
  <2>1. /\ \A v \in Workers : wpc'[v] = "exited" => wpc[v] = "exited"
        /\ Started' = Started
    BY <1>13 DEF SendResult, TypeOK
  <2>2. ~resultsClosed
    BY <1>13 DEF SendResult, PoolInv, Live
  <2>3. UNCHANGED <<cancelled, sent, pids, mpc, jobs, jobsClosed, resultsClosed>>
    BY <1>13 DEF SendResult
  <2> HIDE DEF Started
  <2> QED BY <2>1, <2>2, <2>3
<1>14. CASE CloseResults
  BY <1>14 DEF CloseResults
<1>15. CASE UNCHANGED vars
  BY <1>15 DEF vars
<1> QED
  BY <1>1, <1>2, <1>3, <1>4, <1>5, <1>6, <1>7, <1>8, <1>9, <1>10, <1>11, <1>12,
     <1>13, <1>14, <1>15
  DEF Next, Environment, Main, Worker, Terminated

(***************************************************************************)
(* A step that receives no PID keeps the account if every PID stays        *)
(* accounted for.                                                          *)
(***************************************************************************)
LEMMA QuietAccount ==
  ASSUME AccountInv, UNCHANGED <<pids, sent, jobs>>,
         alive \cup exited \subseteq alive' \cup exited',
         cancelled => cancelled',
         cancelled' \/ \A p \in Handed : Accounted(p) => Accounted(p)'
  PROVE  AccountInv'
<1>1. Handed' = Handed
  BY DEF Handed, Taken
<1> QED BY <1>1 DEF AccountInv

\* A step that leaves hands and records alone.
LEMMA QuietAccountStep ==
  ASSUME AccountInv, UNCHANGED <<pids, sent, jobs, cancelled>>,
         alive \cup exited \subseteq alive' \cup exited', exited \subseteq exited',
         Holding' = Holding, \A w \in Holding : info'[w].pid = info[w].pid,
         Len(Gathered') = Len(Gathered),
         \A k \in 1..Len(Gathered) : Gathered'[k].pid = Gathered[k].pid
  PROVE  AccountInv'
<1>1. \A p \in Handed : Accounted(p) => Accounted(p)'
  BY DEF Accounted
<1> QED BY <1>1, QuietAccount

LEMMA DiscoverAccount ==
  ASSUME AccountInv, FlowInv, PoolInv, DiscoverPIDs
  PROVE  AccountInv'
<1> USE DEF chans, kernel
<1>1. sent' = 0 /\ Len(jobs') = 0
  BY DEF DiscoverPIDs, FlowInv, PoolInv
<1>2. Taken' = 0
  BY <1>1 DEF Taken
<1>3. Handed' = {}
  BY <1>2 DEF Handed
<1>4. \A i \in 1..Len(pids') : pids'[i] \in alive' \cup exited'
  <2>1. CASE UNCHANGED pids
    BY <2>1 DEF AccountInv, DiscoverPIDs
  <2>2. CASE pids' \in Listings
    <3>1. DOMAIN pids' = 1..Len(pids')
      BY <2>2, ListingType, LenProperties DEF PoolInv
    <3> QED BY <2>2, <3>1 DEF Listings, DiscoverPIDs
  <2> QED BY <2>1, <2>2 DEF DiscoverPIDs
<1> QED BY <1>3, <1>4 DEF AccountInv

(***************************************************************************)
(* A worker gives up a PID only if its stat file cannot be read: it is     *)
(* hidden, or the process that was listed has exited.                      *)
(***************************************************************************)
LEMMA ReadStatAccount ==
  ASSUME AccountInv, TypeOK, FlowInv, NEW w \in Workers, ReadStat(w)
  PROVE  AccountInv'
<1> USE DEF chans, kernel
<1> DEFINE q == info[w].pid
<1>1. w \in Holding /\ Gathered' = Gathered
  BY DEF ReadStat, Holding, Gathered
<1>2. CASE q \in alive \ Hidden
  <2>1. Holding' = Holding
    BY <1>2 DEF ReadStat, Holding, TypeOK
  <2>2. info' = [info EXCEPT ![w].stat = inc[q]]
    BY <1>2 DEF ReadStat
  <2>3. \A v \in Holding : info[v] \in ProcessInfo
    BY DEF Holding, TypeOK
  <2>4. \A v \in Holding : info'[v].pid = info[v].pid
    BY <2>2, <2>3 DEF TypeOK, ProcessInfo, Holding
  <2> QED BY <1>1, <2>1, <2>4, QuietAccountStep DEF ReadStat
<1>3. CASE q \notin alive \ Hidden
  <2>1. Holding' = Holding \ {w} /\ info' = info /\ exited' = exited
    BY <1>3 DEF ReadStat, Holding, TypeOK
  <2>2. q \in alive \cup exited
    <3>1. q \in Handed
      BY <1>1 DEF FlowInv
    <3>2. PICK i \in 1..Taken : pids[i] = q
      BY <3>1 DEF Handed
    <3>3. i \in 1..Len(pids)
      <4>1. sent \in Nat /\ sent <= Len(pids) /\ Len(pids) \in Nat /\ Len(jobs) \in Nat
        BY LenProperties DEF TypeOK
      <4> QED BY <4>1 DEF Taken, FlowInv
    <3> QED BY <3>2, <3>3 DEF AccountInv
  <2>3. q \in Hidden \cup exited'
    BY <1>3, <2>1, <2>2
  <2>4. \A p \in Handed : Accounted(p) => Accounted(p)'
    BY <1>1, <2>1, <2>3 DEF Accounted
  <2> QED BY <2>4, QuietAccount DEF ReadStat
<1> QED BY <1>2, <1>3

LEMMA AccountStep == FlowInv /\ PoolInv /\ AccountInv /\ [Next]_vars => AccountInv'
<1> SUFFICES ASSUME FlowInv, PoolInv, AccountInv, [Next]_vars
             PROVE  AccountInv'
  OBVIOUS
<1> USE DEF kernel, chans
<1>t. TypeOK
  BY DEF PoolInv
<1>g. UNCHANGED <<collected, results>> =>
        /\ Len(Gathered') = Len(Gathered)
        /\ \A k \in 1..Len(Gathered) : Gathered'[k].pid = Gathered[k].pid
  BY DEF Gathered
<1>1. CASE Cancel
  BY <1>1, QuietAccount DEF Cancel
<1>2. ASSUME NEW p \in Pids, Exit(p) \/ Fork(p) PROVE AccountInv'
  BY <1>2, <1>g, QuietAccountStep DEF Exit, Fork, Holding
<1>3. CASE DiscoverPIDs
  BY <1>3, DiscoverAccount
<1>4. ASSUME NEW w \in Workers, Spawn(w) PROVE AccountInv'
  <2>1. Holding' = Holding
    BY <1>4, <1>t DEF Spawn, Holding, TypeOK
  <2> QED BY <1>4, <1>g, <2>1, QuietAccountStep DEF Spawn
<1>5. CASE SendJob
  <2>1. Taken' = Taken
    <3>1. jobs \in Seq(Pids) /\ pids[sent + 1] \in Pids /\ sent \in Nat
      BY <1>5, <1>t, LenProperties, ElementOfSeq DEF SendJob, TypeOK
    <3>2. Len(jobs') = Len(jobs) + 1 /\ sent' = sent + 1 /\ Len(jobs) \in Nat
      BY <1>5, <3>1, AppendProperties, LenProperties DEF SendJob
    <3> QED BY <3>1, <3>2 DEF Taken
  <2>2. Handed' = Handed
    BY <1>5, <2>1 DEF Handed, SendJob
  <2>3. \A p \in Handed : Accounted(p) => Accounted(p)'
    BY <1>5 DEF Accounted, SendJob, Holding, Gathered
  <2> QED BY <1>5, <2>2, <2>3 DEF SendJob, AccountInv
<1>6. CASE CloseJobs \/ ResultsDrained \/ CloseResults
  BY <1>6, <1>g, QuietAccountStep DEF CloseJobs, ResultsDrained, CloseResults, Holding
<1>7. CASE Collect
  <2>1. Gathered' = Gathered
    BY <1>7, <1>t, CollectKeepsGathered
  <2> QED BY <1>7, <2>1, QuietAccountStep DEF Collect, Holding
<1>8. CASE Enrich
  <2>1. /\ Len(Gathered') = Len(Gathered)
        /\ \A k \in 1..Len(Gathered) : Gathered'[k].pid = Gathered[k].pid
    BY <1>8, EnrichMoves
  <2> QED BY <1>8, <2>1, QuietAccountStep DEF Enrich, Holding
<1>9. ASSUME NEW w \in Workers, TakeJob(w) PROVE AccountInv'
  <2>1. /\ Handed' = Handed \cup {Head(jobs)} /\ pids' = pids
        /\ Holding' = Holding \cup {w}
        /\ info'[w].pid = Head(jobs)
        /\ \A v \in Holding : info'[v] = info[v]
        /\ Gathered' = Gathered
    BY <1>9, TakeJobMoves
  <2>2. UNCHANGED <<alive, exited, cancelled>>
    BY <1>9 DEF TakeJob
  <2>3. \A p \in Handed : Accounted(p) => Accounted(p)'
    BY <2>1, <2>2 DEF Accounted
  <2>4. \A p : p = Head(jobs) => Accounted(p)'
    BY <2>1 DEF Accounted
  <2> QED BY <2>1, <2>2, <2>3, <2>4 DEF AccountInv
<1>10. ASSUME NEW w \in Workers, JobsDrained(w) PROVE AccountInv'
  <2>1. Holding' = Holding
    BY <1>10, <1>t DEF JobsDrained, Return, Holding, TypeOK
  <2> QED BY <1>10, <1>g, <2>1, QuietAccountStep DEF JobsDrained, Return
<1>11. ASSUME NEW w \in Workers, Abandon(w) PROVE AccountInv'
  BY <1>11, QuietAccount DEF Abandon, Return
<1>12. ASSUME NEW w \in Workers, Proceed(w) PROVE AccountInv'
  <2>1. Holding' = Holding
    BY <1>12, <1>t DEF Proceed, Holding, TypeOK
  <2> QED BY <1>12, <1>g, <2>1, QuietAccountStep DEF Proceed
<1>13. ASSUME NEW w \in Workers, ReadStat(w) PROVE AccountInv'
  BY <1>13, <1>t, ReadStatAccount
<1>14. ASSUME NEW w \in Workers, ReadDetails(w) PROVE AccountInv'
  <2>1. Holding' = Holding
    BY <1>14, <1>t DEF ReadDetails, Holding, TypeOK
  <2>2. \A v \in Workers : info[v] \in ProcessInfo
    BY <1>t DEF TypeOK
  <2>3. \A v \in Holding : info'[v].pid = info[v].pid
    BY <1>14, <1>t, <2>2 DEF ReadDetails, TypeOK, ProcessInfo, Holding
  <2> QED BY <1>14, <1>g, <2>1, <2>3, QuietAccountStep DEF ReadDetails
<1>15. ASSUME NEW w \in Workers, SendResult(w) PROVE AccountInv'
  <2>1. /\ Len(Gathered) \in Nat /\ Len(Gathered') = Len(Gathered) + 1
        /\ Gathered'[Len(Gathered) + 1] = info[w]
        /\ \A k \in 1..Len(Gathered) : Gathered'[k] = Gathered[k]
        /\ Holding' = Holding \ {w} /\ info' = info
    BY <1>15, SendResultMoves
  <2>2. /\ 1..Len(Gathered) \subseteq 1..Len(Gathered')
        /\ Len(Gathered) + 1 \in 1..Len(Gathered')
    BY <2>1
  <2>3. UNCHANGED <<alive, exited, cancelled, pids, sent, jobs>>
    BY <1>15 DEF SendResult
  <2>4. \A p \in Handed : Accounted(p) => Accounted(p)'
    BY <2>1, <2>2, <2>3 DEF Accounted
  <2> QED BY <2>3, <2>4, QuietAccount
<1>16. CASE UNCHANGED vars
  BY <1>16, <1>g, QuietAccountStep DEF vars, Holding
<1> QED
  BY <1>1, <1>2, <1>3, <1>4, <1>5, <1>6, <1>7, <1>8, <1>9, <1>10, <1>11, <1>12,
     <1>13, <1>14, <1>15, <1>16
  DEF Next, Environment, Main, Worker, Terminated

(***************************************************************************)
(* When the loop over the results has ended, the slice is all there is.    *)
(***************************************************************************)
LEMMA DrainedMeansAll ==
  ASSUME PhaseInv, AccountInv, FlowInv, PoolInv, Drained, ~cancelled,
         NEW i \in 1..Len(pids)
  PROVE  \/ pids[i] \in Hidden \cup exited
         \/ \E j \in 1..Len(collected) : collected[j].pid = pids[i]
<1>1. Live = {} /\ Holding = {}
  BY DEF Drained, PoolInv, Live, Holding
<1>2. PICK w \in Workers : wpc[w] = "exited"
  BY <1>1 DEF Drained, Started, Live
<1>3. jobs = <<>> /\ sent = Len(pids) /\ sent \in Nat
  BY <1>2, LenProperties DEF PhaseInv, PoolInv, TypeOK
<1>4. Taken = Len(pids)
  BY <1>3 DEF Taken
<1>5. Accounted(pids[i])
  BY <1>4 DEF AccountInv, Handed
<1>6. Gathered = collected
  BY ConcatEmptySeq DEF Gathered, Drained, PoolInv, TypeOK
<1> QED BY <1>1, <1>5, <1>6 DEF Accounted

LEMMA PoolAlways == Spec => [](PoolInv /\ FlowInv /\ PhaseInv /\ AccountInv)
<1>1. PoolInv => TypeOK
  BY DEF PoolInv
<1> QED BY <1>1, PoolInit, PoolStep, FlowInit, FlowStep, CompleteInit, PhaseStep,
           AccountStep, PTL DEF Spec

(***************************************************************************)
(* Unless its context was cancelled, a scan leaves out only PIDs it could  *)
(* not read: hidden ones, and ones whose process exited.                   *)
(***************************************************************************)
THEOREM PoolComplete == Spec => []CompleteUnlessCancelled
<1>1. PoolInv /\ FlowInv /\ PhaseInv /\ AccountInv => CompleteUnlessCancelled
  <2> SUFFICES ASSUME PoolInv, FlowInv, PhaseInv, AccountInv,
                      mpc = "done", ~cancelled, NEW i \in DOMAIN pids
               PROVE  \/ pids[i] \in Hidden \cup exited
                      \/ \E j \in DOMAIN collected : collected[j].pid = pids[i]
    BY DEF CompleteUnlessCancelled
  <2>1. /\ DOMAIN pids = 1..Len(pids) /\ DOMAIN collected = 1..Len(collected)
        /\ Len(pids) \in Nat
    BY LenProperties DEF PoolInv, TypeOK
  <2>2. pids # <<>>
    BY <2>1
  <2>3. Drained
    BY <2>2 DEF PhaseInv
  <2> QED BY <2>1, <2>3, DrainedMeansAll
<1> QED BY <1>1, PoolAlways, PTL

-----------------------------------------------------------------------------
(* The refinement.  The mapped variables of the contract, by name.         *)

Listed == {pids[i] : i \in DOMAIN pids}
ReportedSeq == [i \in DOMAIN collected |-> collected[i].pid]
Excused == IF cancelled THEN Pids ELSE Hidden \cup exited
Status == CASE mpc = "discover" -> "listing"
            [] mpc \in {"done", "failed"} -> mpc
            [] OTHER -> "scanning"

\* A step that only lets excuses grow.
LEMMA ExcuseStep ==
  ASSUME TypeOK, TypeOK', Listed' = Listed, ReportedSeq' = ReportedSeq,
         Status' = Status, exited \subseteq exited', cancelled => cancelled'
  PROVE  Contract!Excuse
<1>1. Excused' \in SUBSET Pids /\ Excused \subseteq Excused'
  BY ScanAssumption DEF Excused, TypeOK, ScanAssumption
<1> QED BY <1>1 DEF Contract!Excuse, Listed, ReportedSeq, Status, Excused

LEMMA ContractInit == Init => Contract!Init
<1> SUFFICES ASSUME Init PROVE Contract!Init
  OBVIOUS
<1>1. Listed = {} /\ ReportedSeq = <<>> /\ Status = "listing"
  BY DEF Init, Listed, ReportedSeq, Status
<1>2. Excused \in SUBSET Pids
  BY ScanAssumption DEF Init, Excused, ScanAssumption
<1> QED BY <1>1, <1>2 DEF Contract!Init, Listed, ReportedSeq, Status, Excused

\* The listing of /proc is the contract's listing.
LEMMA ListStep ==
  ASSUME PoolInv, TypeOK', FlowInv, DiscoverPIDs
  PROVE  Contract!List
<1> USE DEF kernel, chans
<1>1. Status = "listing" /\ ReportedSeq' = ReportedSeq /\ Excused' = Excused
  BY DEF DiscoverPIDs, Status, ReportedSeq, Excused
<1>2. CASE mpc' = "failed"
  <2>1. Status' = "failed"
    BY <1>2 DEF Status
  <2>2. CASE Listed' = Listed
    BY <1>1, <2>1, <2>2 DEF Contract!List, Listed, ReportedSeq, Status, Excused
  <2>3. CASE pids' = pids
    BY <2>2, <2>3 DEF Listed
  <2> QED BY <1>2, <2>3 DEF DiscoverPIDs
<1>3. CASE pids' \in Listings /\ mpc' # "failed"
  <2>1. DOMAIN pids' = 1..Len(pids') /\ pids' \in Seq(Pids) /\ Len(pids') \in Nat
    BY <1>3, ListingType, LenProperties DEF PoolInv
  <2>2. \A i \in DOMAIN pids' : pids'[i] \in Pids
    BY <2>1, ElementOfSeq
  <2>3. Listed' \in SUBSET Pids
    BY <2>2 DEF Listed
  <2>4. Listed' = {} <=> pids' = <<>>
    <3>1. Listed' = {} <=> DOMAIN pids' = {}
      BY DEF Listed
    <3>2. DOMAIN pids' = {} <=> Len(pids') = 0
      <4>1. Len(pids') # 0 => 1 \in DOMAIN pids'
        BY <2>1
      <4>2. Len(pids') = 0 => DOMAIN pids' = {}
        BY <2>1
      <4> QED BY <4>1, <4>2
    <3> QED BY <2>1, <3>1, <3>2, EmptySeq
  <2>5. Status' = IF Listed' = {} THEN "done" ELSE "scanning"
    BY <1>3, <2>4 DEF DiscoverPIDs, Status
  <2> QED BY <1>1, <2>3, <2>5 DEF Contract!List, Listed, ReportedSeq, Status, Excused
<1> QED BY <1>2, <1>3 DEF DiscoverPIDs

(***************************************************************************)
(* The record that is collected names a listed PID not reported before.    *)
(***************************************************************************)
LEMMA ReportStep ==
  ASSUME PoolInv, TypeOK', FlowInv, Collect
  PROVE  \E p \in Pids : Contract!Report(p)
<1> USE DEF kernel, chans
<1> DEFINE n == Len(collected)
<1>t. TypeOK
  BY DEF PoolInv
<1>1. /\ collected \in Seq(ProcessInfo) /\ results \in Seq(ProcessInfo)
      /\ results # <<>> /\ Head(results) = results[1]
      /\ Head(results) \in ProcessInfo
      /\ n \in Nat /\ Len(results) \in Nat \ {0}
      /\ DOMAIN collected = 1..n
  BY <1>t, HeadTailProperties, EmptySeq, LenProperties DEF TypeOK, Collect
<1>2. PICK q \in Pids : q = Head(results).pid
  BY <1>1 DEF ProcessInfo
<1>3. /\ Len(Gathered) = n + Len(results)
      /\ \A i \in 1..n : Gathered[i] = collected[i]
      /\ Gathered[n + 1] = Head(results)
  <2>1. /\ Len(Gathered) = n + Len(results)
        /\ \A i \in 1 .. n + Len(results) :
             Gathered[i] = IF i <= n THEN collected[i] ELSE results[i - n]
    BY <1>1, ConcatProperties DEF Gathered
  <2>2. n + 1 \in 1 .. n + Len(results) /\ ~(n + 1 <= n) /\ (n + 1) - n = 1
    BY <1>1
  <2>3. Gathered[n + 1] = results[1]
    BY <2>1, <2>2
  <2> QED BY <1>1, <2>1, <2>3
<1>4. q \in Handed /\ \A i \in 1..n : collected[i].pid # q
  <2>1. /\ n + 1 \in 1..Len(Gathered)
        /\ \A i \in 1..n : i \in 1..Len(Gathered) /\ i # n + 1
    BY <1>1, <1>3
  <2> QED BY <1>2, <1>3, <2>1 DEF FlowInv
<1>5. q \in Listed
  <2>1. PICK i \in 1..Taken : pids[i] = q
    BY <1>4 DEF Handed
  <2>2. i \in DOMAIN pids
    <3>1. /\ sent \in Nat /\ sent <= Len(pids) /\ Len(pids) \in Nat
          /\ Len(jobs) \in Nat /\ DOMAIN pids = 1..Len(pids)
      BY <1>t, LenProperties DEF TypeOK
    <3> QED BY <3>1 DEF Taken, FlowInv
  <2> QED BY <2>1, <2>2 DEF Listed
<1>6. q \notin {ReportedSeq[i] : i \in DOMAIN ReportedSeq}
  BY <1>1, <1>4 DEF ReportedSeq
<1>7. ReportedSeq' = Append(ReportedSeq, q)
  <2>1. collected' = Append(collected, Head(results))
    BY DEF Collect
  <2>2. /\ Len(collected') = n + 1 /\ DOMAIN collected' = 1 .. n + 1
        /\ \A i \in 1..n : collected'[i] = collected[i]
        /\ collected'[n + 1] = Head(results)
    BY <1>1, <2>1, AppendProperties, LenProperties
  <2>3. \A i \in 1..n : collected[i].pid \in Pids
    <3>1. \A i \in 1..n : collected[i] \in ProcessInfo
      BY <1>1, ElementOfSeq
    <3> QED BY <3>1 DEF ProcessInfo
  <2>4. ReportedSeq \in [1..n -> Pids]
    BY <1>1, <2>3 DEF ReportedSeq
  <2>5. ReportedSeq \in Seq(Pids)
    BY <1>1, <2>4, SeqDef
  <2>6. Len(ReportedSeq) = n
    BY <1>1, <2>4, <2>5, LenProperties
  <2>7. \A i \in 1 .. n + 1 : i \in 1..n \/ i = n + 1
    BY <1>1
  <2>8. ReportedSeq' \in [1 .. n + 1 -> Pids]
    BY <1>1, <1>2, <2>2, <2>3, <2>7 DEF ReportedSeq
  <2>9. ReportedSeq' \in Seq(Pids)
    BY <1>1, <2>8, SeqDef
  <2>10. Len(ReportedSeq') = n + 1
    BY <1>1, <2>8, <2>9, LenProperties
  <2> DEFINE a == Append(ReportedSeq, q)
  <2>11. /\ a \in Seq(Pids) /\ Len(a) = n + 1 /\ a[n + 1] = q
         /\ \A i \in 1..n : a[i] = ReportedSeq[i]
    BY <1>2, <2>5, <2>6, AppendProperties
  <2>12. \A i \in 1 .. n + 1 : ReportedSeq'[i] = a[i]
    <3>1. \A i \in 1..n : ReportedSeq'[i] = collected[i].pid /\ ReportedSeq[i] = collected[i].pid
      BY <1>1, <2>2, <2>7 DEF ReportedSeq
    <3>2. ReportedSeq'[n + 1] = q
      BY <1>1, <1>2, <2>2 DEF ReportedSeq
    <3> QED BY <2>7, <2>11, <3>1, <3>2
  <2> HIDE DEF a
  <2>13. ReportedSeq' = a
    BY <2>9, <2>10, <2>11, <2>12, SeqEqual
  <2> QED BY <2>13 DEF a
<1>8. Status = "scanning" /\ Status' = Status /\ Listed' = Listed /\ Excused' = Excused
  BY DEF Collect, Status, Listed, Excused
<1>9. Contract!Report(q)
  BY <1>5, <1>6, <1>7, <1>8
  DEF Contract!Report, Contract!Reported, Listed, ReportedSeq, Status, Excused
<1> QED BY <1>2, <1>9

(***************************************************************************)
(* Enriching finishes the scan: by then everything is accounted for.       *)
(***************************************************************************)
LEMMA FinishStep ==
  ASSUME PoolInv, TypeOK', FlowInv, PhaseInv, AccountInv, Enrich
  PROVE  Contract!Finish
<1> USE DEF kernel, chans
<1>1. /\ DOMAIN pids = 1..Len(pids) /\ DOMAIN collected = 1..Len(collected)
      /\ \A i \in DOMAIN pids : pids[i] \in Pids
      /\ \A i \in DOMAIN collected : collected[i] \in ProcessInfo
  BY LenProperties, ElementOfSeq DEF PoolInv, TypeOK
<1>2. Listed \subseteq {ReportedSeq[i] : i \in DOMAIN ReportedSeq} \cup Excused
  <2> SUFFICES ASSUME NEW i \in DOMAIN pids
               PROVE  \/ pids[i] \in Excused
                      \/ \E j \in DOMAIN collected : collected[j].pid = pids[i]
    BY DEF Listed, ReportedSeq
  <2>1. CASE cancelled
    BY <1>1, <2>1 DEF Excused
  <2>2. CASE ~cancelled
    BY <1>1, <2>2, DrainedMeansAll DEF Excused, PhaseInv, Enrich
  <2> QED BY <2>1, <2>2
<1>3. ReportedSeq' = ReportedSeq
  <2>1. DOMAIN collected' = DOMAIN collected
    BY DEF Enrich
  <2>2. \A i \in DOMAIN collected : collected'[i].pid = collected[i].pid
    BY <1>1 DEF Enrich, ProcessInfo
  <2> QED BY <2>1, <2>2 DEF ReportedSeq
<1>4. Status = "scanning" /\ Status' = "done" /\ Listed' = Listed /\ Excused' = Excused
  BY DEF Enrich, Status, Listed, Excused
<1> QED BY <1>2, <1>3, <1>4
        DEF Contract!Finish, Contract!Reported, Listed, ReportedSeq, Status, Excused

LEMMA ContractStep ==
  PoolInv /\ PoolInv' /\ FlowInv /\ PhaseInv /\ AccountInv /\ [Next]_vars
    => [Contract!Next]_Contract!cvars
<1> SUFFICES ASSUME PoolInv, PoolInv', FlowInv, PhaseInv, AccountInv, [Next]_vars
             PROVE  [Contract!Next]_Contract!cvars
  OBVIOUS
<1> USE DEF kernel, chans
<1>t. TypeOK /\ TypeOK'
  BY DEF PoolInv
<1>1. CASE DiscoverPIDs
  BY <1>1, <1>t, ListStep DEF Contract!Next
<1>2. CASE Collect
  BY <1>2, <1>t, ReportStep DEF Contract!Next
<1>3. CASE Enrich
  BY <1>3, <1>t, FinishStep DEF Contract!Next
<1>4. ASSUME UNCHANGED <<pids, collected>>,
             mpc' = mpc \/ {mpc, mpc'} \subseteq {"spawn", "send", "collect", "enrich"},
             exited \subseteq exited', cancelled => cancelled'
      PROVE  [Contract!Next]_Contract!cvars
  <2>1. Listed' = Listed /\ ReportedSeq' = ReportedSeq
    BY <1>4 DEF Listed, ReportedSeq
  <2>2. Status' = Status
    BY <1>4 DEF Status
  <2> QED BY <1>4, <1>t, <2>1, <2>2, ExcuseStep DEF Contract!Next
<1>5. CASE Environment
  BY <1>4, <1>5 DEF Environment, Cancel, Exit, Fork
<1>6. CASE SendJob \/ CloseJobs \/ ResultsDrained \/ \E w \in Workers : Spawn(w)
  BY <1>4, <1>6 DEF SendJob, CloseJobs, ResultsDrained, Spawn
<1>7. CASE CloseResults \/ UNCHANGED vars
  BY <1>4, <1>7 DEF CloseResults, vars
<1>8. ASSUME NEW w \in Workers, Worker(w) PROVE [Contract!Next]_Contract!cvars
  BY <1>4, <1>8 DEF Worker, TakeJob, JobsDrained, Abandon, Return, Proceed,
                    ReadStat, ReadDetails, SendResult
<1> QED BY <1>1, <1>2, <1>3, <1>5, <1>6, <1>7, <1>8 DEF Next, Main, Terminated

(***************************************************************************)
(* Towards its caller ScanProcesses behaves as ScanContract, for any       *)
(* number of processes and workers, whatever exits and wherever the        *)
(* context is cancelled.                                                   *)
(***************************************************************************)
THEOREM PoolImplementsContract == Spec => ImplementsContract
<1>1. PoolInv /\ FlowInv /\ PhaseInv /\ AccountInv
      /\ (PoolInv /\ FlowInv /\ PhaseInv /\ AccountInv)' /\ [Next]_vars
        => [Contract!Next]_Contract!cvars
  BY ContractStep
<1> QED BY <1>1, ContractInit, PoolAlways, PTL DEF Spec, ImplementsContract, Contract!Spec
=============================================================================
