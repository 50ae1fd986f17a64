------------------------------ MODULE Snapshot ------------------------------
(***************************************************************************)
(* CollectSnapshot and collectParallelIndependent of                       *)
(* internal/collector/snapshot.go, called again and again as the watch     *)
(* loop does.                                                              *)
(*                                                                         *)
(* One snapshot is a sequential batch, a fan-out of independent collectors *)
(* and the process scan.  Each collector of the fan-out has two            *)
(* goroutines: a wrapper that waits for the result or for its deadline,    *)
(* and the task proper, which may hang in the kernel and outlive the       *)
(* snapshot.  The task hands its result over through a channel of          *)
(* capacity one and only the wrapper writes the snapshot.                  *)
(*                                                                         *)
(* A collector reads one monotone kernel counter; a field of a snapshot is *)
(* the number read, or 0, Go's zero value, where nothing was stored.       *)
(***************************************************************************)
EXTENDS Integers, Sequences, FiniteSets

CONSTANTS
  Sequential,   \* fields of the sequential batch whose read errors are ignored
  Tasks,        \* the collectors of the fan-out (12 in the code)
  MaxSnaps,     \* bound of the model: number of snapshots taken
  MaxCount      \* bound of the model: highest value of each kernel counter

ASSUME SnapshotAssumption ==
  /\ IsFiniteSet(Tasks) /\ Tasks # {}
  /\ Sequential \cap Tasks = {}
  /\ MaxSnaps \in Nat /\ MaxCount \in [Sequential \cup Tasks -> Nat]

Fields == Sequential \cup Tasks
Calls  == (1..MaxSnaps) \X Tasks      \* one call of one collector

VARIABLES
  counter,      \* the kernel's counters
  cancelled,    \* the context of the program is done
  n,            \* number of CollectSnapshot calls so far
  mpc,          \* program counter of CollectSnapshot
  wg,           \* counter of the wait group
  wpc,          \* program counters of the wrappers
  tpc, res,     \* program counters and results of the tasks
  done,         \* the result channels
  expired,      \* calls whose 500 ms deadline has passed
  snap,         \* the snapshots, as their callers see them
  good,         \* calls of CollectSnapshot that returned without an error
  opened        \* history: the counters when each snapshot was begun

snapState == <<snap, good, opened>>
callState == <<wpc, tpc, res, done, expired>>
vars == <<counter, cancelled, n, mpc, wg, callState, snapState>>

Zero == [f \in Fields |-> 0]

\* Faulty variant: an unbuffered channel.
Unbuffered == 0

\* make(chan func(), 1)
DoneCap == 1

Init ==
  /\ counter = Zero
  /\ cancelled = FALSE
  /\ n = 0 /\ mpc = "idle" /\ wg = 0
  /\ wpc = [c \in Calls |-> "none"]
  /\ tpc = [c \in Calls |-> "none"]
  /\ res = [c \in Calls |-> 0]
  /\ done = [c \in Calls |-> <<>>]
  /\ expired = {}
  /\ snap = [i \in 1..MaxSnaps |-> Zero]
  /\ good = {}
  /\ opened = [i \in 1..MaxSnaps |-> Zero]

-----------------------------------------------------------------------------
(* The environment.                                                        *)

Event(f) ==
  /\ counter[f] < MaxCount[f]
  /\ counter' = [counter EXCEPT ![f] = @ + 1]
  /\ UNCHANGED <<cancelled, n, mpc, wg, callState, snapState>>

Cancel ==
  /\ ~cancelled
  /\ cancelled' = TRUE
  /\ UNCHANGED <<counter, n, mpc, wg, callState, snapState>>

-----------------------------------------------------------------------------
(* The goroutine that runs CollectSnapshot.                                *)

\* The callers look at the context before, but it may be done when the call begins.
CollectSnapshot ==
  /\ mpc = "idle" /\ n < MaxSnaps
  /\ n' = n + 1
  /\ mpc' = "batch"
  /\ opened' = [opened EXCEPT ![n + 1] = counter]
  /\ UNCHANGED <<counter, cancelled, wg, callState, snap, good>>

\* PSI, CPU, memory, vmstat.  An unreadable stat or meminfo ends the call with
\* an error; other failures leave the field at zero.
ReadBatch ==
  /\ mpc = "batch"
  /\ \/ mpc' = "idle" /\ UNCHANGED snap
     \/ \E failed \in SUBSET Sequential :
          /\ snap' = [snap EXCEPT ![n] = [f \in Fields |->
               IF f \in Sequential \ failed THEN counter[f] ELSE @[f]]]
          /\ mpc' = "fork"
  /\ UNCHANGED <<counter, cancelled, n, wg, callState, good, opened>>

\* Faulty variant: wg.Add is left to the goroutine, which has not run yet.
RunWithoutAdd(t) ==
  /\ mpc = "fork" /\ wpc[<<n, t>>] = "none"
  /\ wpc' = [wpc EXCEPT ![<<n, t>>] = "start"]
  /\ mpc' = IF \A u \in Tasks \ {t} : wpc[<<n, u>>] # "none" THEN "wait"
                                                            ELSE "fork"
  /\ UNCHANGED <<counter, cancelled, n, wg, tpc, res, done, expired, snapState>>

\* run(task): wg.Add(1); go wrapper.  The last one is followed by wg.Wait().
Run(t) ==
  /\ mpc = "fork" /\ wpc[<<n, t>>] = "none"
  /\ wg' = wg + 1
  /\ wpc' = [wpc EXCEPT ![<<n, t>>] = "start"]
  /\ mpc' = IF \A u \in Tasks \ {t} : wpc[<<n, u>>] # "none" THEN "wait"
                                                            ELSE "fork"
  /\ UNCHANGED <<counter, cancelled, n, tpc, res, done, expired, snapState>>

Waited ==
  /\ mpc = "wait" /\ wg = 0
  /\ mpc' = "processes"
  /\ UNCHANGED <<counter, cancelled, n, wg, callState, snapState>>

\* CollectProcesses and CollectCgroups (ScanPool); their errors are ignored.
CollectProcesses ==
  /\ mpc = "processes"
  /\ mpc' = "idle"
  /\ good' = good \cup {n}
  /\ UNCHANGED <<counter, cancelled, n, wg, callState, snap, opened>>

-----------------------------------------------------------------------------
(* The wrapper of call c = <<i, t>>.                                       *)

\* The deadline starts, the channel is made and the task is started.
Start(c) ==
  /\ wpc[c] = "start"
  /\ wpc' = [wpc EXCEPT ![c] = "select"]
  /\ tpc' = [tpc EXCEPT ![c] = "run"]
  /\ UNCHANGED <<counter, cancelled, n, mpc, wg, res, done, expired, snapState>>

Deadline(c) ==
  /\ wpc[c] = "select" /\ c \notin expired
  /\ expired' = expired \cup {c}
  /\ UNCHANGED <<counter, cancelled, n, mpc, wg, wpc, tpc, res, done, snapState>>

\* case apply := <-done.  If the deadline has passed too, either case is taken.
Receive(c) ==
  /\ wpc[c] = "select" /\ done[c] # <<>>
  /\ done' = [done EXCEPT ![c] = Tail(@)]
  /\ res' = [res EXCEPT ![c] = Head(done[c])]
  /\ wpc' = [wpc EXCEPT ![c] = "apply"]
  /\ UNCHANGED <<counter, cancelled, n, mpc, wg, tpc, expired, snapState>>

\* Faulty variant: an answer received after the deadline is thrown away.
ApplyInTime(c) ==
  /\ wpc[c] = "apply"
  /\ snap' = IF c \in expired THEN snap ELSE [snap EXCEPT ![c[1]][c[2]] = res[c]]
  /\ wpc' = [wpc EXCEPT ![c] = "leave"]
  /\ UNCHANGED <<counter, cancelled, n, mpc, wg, tpc, res, done, expired, good,
                 opened>>

\* apply() assigns one field of the snapshot the call belongs to.
Apply(c) ==
  /\ wpc[c] = "apply"
  /\ snap' = [snap EXCEPT ![c[1]][c[2]] = res[c]]
  /\ wpc' = [wpc EXCEPT ![c] = "leave"]
  /\ UNCHANGED <<counter, cancelled, n, mpc, wg, tpc, res, done, expired, good,
                 opened>>

\* Faulty variant: the wrapper looks at the program's context only.
GiveUpOnCancel(c) ==
  /\ wpc[c] = "select" /\ cancelled
  /\ wpc' = [wpc EXCEPT ![c] = "leave"]
  /\ UNCHANGED <<counter, cancelled, n, mpc, wg, tpc, res, done, expired,
                 snapState>>

\* case <-cCtx.Done(): the deadline, or the program's context behind it.
GiveUp(c) ==
  /\ wpc[c] = "select" /\ (c \in expired \/ cancelled)
  /\ wpc' = [wpc EXCEPT ![c] = "leave"]
  /\ UNCHANGED <<counter, cancelled, n, mpc, wg, tpc, res, done, expired,
                 snapState>>

\* The deferred cancel() and wg.Done().
Leave(c) ==
  /\ wpc[c] = "leave"
  /\ wpc' = [wpc EXCEPT ![c] = "exited"]
  /\ wg' = wg - 1
  /\ UNCHANGED <<counter, cancelled, n, mpc, tpc, res, done, expired, snapState>>

-----------------------------------------------------------------------------
(* The task of call c: done <- task().                                     *)

\* Nothing interrupts the read; a failed one yields the zero value.
Compute(c) ==
  /\ tpc[c] = "run"
  /\ \E v \in {counter[c[2]], 0} : res' = [res EXCEPT ![c] = v]
  /\ tpc' = [tpc EXCEPT ![c] = "send"]
  /\ UNCHANGED <<counter, cancelled, n, mpc, wg, wpc, done, expired, snapState>>

\* Faulty variant: one result channel per collector, shared by all snapshots.
SendToLatest(c) ==
  /\ tpc[c] = "send" /\ Len(done[<<n, c[2]>>]) < DoneCap
  /\ done' = [done EXCEPT ![<<n, c[2]>>] = Append(@, res[c])]
  /\ tpc' = [tpc EXCEPT ![c] = "exited"]
  /\ UNCHANGED <<counter, cancelled, n, mpc, wg, wpc, res, expired, snapState>>

Send(c) ==
  /\ tpc[c] = "send" /\ Len(done[c]) < DoneCap
  /\ done' = [done EXCEPT ![c] = Append(@, res[c])]
  /\ tpc' = [tpc EXCEPT ![c] = "exited"]
  /\ UNCHANGED <<counter, cancelled, n, mpc, wg, wpc, res, expired, snapState>>

-----------------------------------------------------------------------------
Main == CollectSnapshot \/ ReadBatch \/ Waited \/ CollectProcesses
        \/ \E t \in Tasks : Run(t)

Wrapper(c) == Start(c) \/ Receive(c) \/ Apply(c) \/ GiveUp(c) \/ Leave(c)

\* No further snapshot is taken; tasks that still hang stay behind.
Finished == mpc = "idle" /\ (n = MaxSnaps \/ cancelled) /\ UNCHANGED vars

Next ==
  \/ Cancel \/ Main \/ Finished
  \/ \E f \in Fields : Event(f)
  \/ \E c \in Calls : Wrapper(c) \/ Deadline(c) \/ Compute(c) \/ Send(c)

Spec == Init /\ [][Next]_vars

\* Goroutines that can run do run and timers fire.  Compute has no fairness: a
\* collector may hang for ever in a read of /proc, /sys or a dead mount.  Nobody has
\* to ask for another snapshot.
Fairness ==
  /\ WF_vars(mpc # "idle" /\ Main)
  /\ \A c \in Calls : WF_vars(Wrapper(c)) /\ WF_vars(Deadline(c)) /\ WF_vars(Send(c))

FairSpec == Spec /\ Fairness

-----------------------------------------------------------------------------
TypeOK ==
  /\ counter \in [Fields -> Nat]
  /\ cancelled \in BOOLEAN
  /\ n \in 0..MaxSnaps
  /\ mpc \in {"idle", "batch", "fork", "wait", "processes"}
  /\ wg \in Nat
  /\ wpc \in [Calls -> {"none", "start", "select", "apply", "leave", "exited"}]
  /\ tpc \in [Calls -> {"none", "run", "send", "exited"}]
  /\ res \in [Calls -> Nat]
  /\ done \in [Calls -> Seq(Nat)]
  /\ expired \subseteq Calls
  /\ snap \in [1..MaxSnaps -> [Fields -> Nat]]
  /\ good \subseteq 1..MaxSnaps
  /\ opened \in [1..MaxSnaps -> [Fields -> Nat]]

(***************************************************************************)
(* A snapshot that CollectSnapshot has returned is read by the differ and  *)
(* the rules without a lock.  However late a task delivers its result, it  *)
(* never writes into such a snapshot.                                      *)
(***************************************************************************)
NoLateWrite ==
  [][\A i \in 1..MaxSnaps : i \in good => snap'[i] = snap[i]]_snap

(***************************************************************************)
(* A task that hung in an earlier snapshot may answer while a later one is *)
(* being taken.  Its answer never ends up there: a number in a snapshot    *)
(* was read after that snapshot was begun.                                 *)
(***************************************************************************)
NoStaleField ==
  \A i \in 1..MaxSnaps, f \in Fields :
    snap[i][f] # 0 => snap[i][f] \in opened[i][f]..counter[f]

(***************************************************************************)
(* A hung collector costs its own field only: once the snapshot has        *)
(* returned, the field of every collector whose answer was received holds  *)
(* exactly that answer, whatever happened to the other collectors.         *)
(***************************************************************************)
ReceivedResultKept ==
  \A c \in Calls :
    c[1] \in good /\ tpc[c] = "exited" /\ done[c] = <<>>
      => snap[c[1]][c[2]] = res[c]

(***************************************************************************)
(* CollectSnapshot returns although any number of its parallel collectors  *)
(* never do: the deadline of each wrapper is enough.                       *)
(***************************************************************************)
SnapshotReturns == [](mpc = "batch" => <>(mpc = "idle"))

(***************************************************************************)
(* A task whose wrapper gave up is not stuck on its send: the channel has  *)
(* room for the answer nobody will read, so the goroutine ends.            *)
(***************************************************************************)
LateTaskEnds == \A c \in Calls : [](tpc[c] = "send" => <>(tpc[c] = "exited"))

(***************************************************************************)
(* diffUint64: the difference of two readings, 0 if the counter shrank.    *)
(***************************************************************************)
DiffUint64(new, old) == IF new > old THEN new - old ELSE 0

(***************************************************************************)
(* snapshot.go calls these differences "delta counters for memory events   *)
(* over the sampling window".  The difference of two consecutive snapshots *)
(* would then never exceed what was counted since the first was begun.     *)
(***************************************************************************)
DeltaWithinWindow ==
  n > 1 /\ {n - 1, n} \subseteq good =>
    \A f \in Fields :
      DiffUint64(snap[n][f], snap[n - 1][f]) <= counter[f] - opened[n - 1][f]
=============================================================================
