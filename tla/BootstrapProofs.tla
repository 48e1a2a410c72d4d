--------------------------- MODULE BootstrapProofs ---------------------------
(***************************************************************************)
(* Theorems of Bootstrap, for any number of them: two hold the writer      *)
(* lease, or pay for two jobs, only for the reasons the properties name,   *)
(* and an ok receipt for a container nobody delivered has its reason too.  *)
(* A run and its worker take a bounded number of steps.                    *)
(***************************************************************************)
EXTENDS Bootstrap, TLAPS

Kept == ~outlived /\ ~Raced

(***************************************************************************)
(* OneWriter is not inductive: that nobody unlinks the lock of a run that  *)
(* is inside needs to know that the lock a run is about to unlink is still *)
(* the one it has judged old, and that its holder is dead.                 *)
(***************************************************************************)
Dead(token) == token \in Runs => stage[token] = "dead"

HolderAlive == lock \in Runs => Inside(lock) \/ stage[lock] = "dead"
Unjudged == \A r \in Runs : stage[r] \in {"new", "exists"} => judged[r] = NoRun
HolderInFile == \A r \in Runs : Inside(r) => lock = r
StaleIsDead == stale => lock # NoRun /\ Dead(lock)
OldIsDead ==
  \A r \in Runs : stage[r] = "old" => lock # NoRun /\ lock = judged[r] /\ Dead(lock)
Orderly == HolderInFile /\ StaleIsDead /\ OldIsDead

IInv ==
  /\ LeaseTypeOK
  /\ HolderAlive
  /\ Unjudged
  /\ Kept => Orderly

LEMMA InitIInv == LeaseInit => IInv
BY LeaseAssumption
   DEF LeaseInit, IInv, LeaseTypeOK, HolderAlive, Unjudged, Orderly, HolderInFile, StaleIsDead,
       OldIsDead, Inside, Stages

LEMMA MoveTyped ==
  ASSUME LeaseTypeOK, NEW r \in Runs, NEW to \in Stages, Move(r, to)
  PROVE  /\ stage' \in [Runs -> Stages]
         /\ stage'[r] = to
         /\ \A s \in Runs \ {r} : stage'[s] = stage[s]
BY DEF LeaseTypeOK, Move

LEMMA LeaseTypeNext == LeaseTypeOK /\ [LeaseNext]_leaseVars => LeaseTypeOK'
<1> SUFFICES ASSUME LeaseTypeOK, [LeaseNext]_leaseVars PROVE LeaseTypeOK'
  OBVIOUS
<1>1. CASE UNCHANGED leaseVars
  BY <1>1 DEF LeaseTypeOK, leaseVars
<1>2. CASE LockAges
  BY <1>2 DEF LeaseTypeOK, LockAges
<1>3. ASSUME NEW r \in Runs, Acquire(r) \/ Leave(r) \/ Release(r) \/ Die(r)
      PROVE  LeaseTypeOK'
  BY <1>3, MoveTyped
     DEF LeaseTypeOK, Acquire, Create, FindLock, Judge, JudgeOld, Unlink, Recreate, Leave,
         Release, ReadToken, UnlinkOwn, Die, history, Stages
<1> QED
  BY <1>1, <1>2, <1>3 DEF LeaseNext

\* One step of a run, seen from its stage, the lock file and the verdicts.
LEMMA LeaseMoves ==
  ASSUME LeaseTypeOK, NEW q \in Runs, Acquire(q) \/ Leave(q) \/ Release(q) \/ Die(q)
  PROVE  /\ \A s \in Runs \ {q} : stage'[s] = stage[s] /\ judged'[s] = judged[s]
         /\ outlived' = outlived
         /\ \/ /\ stage[q] \in {"new", "unlinked"} /\ stage'[q] = "inside"
               /\ lock = NoRun /\ lock' = q /\ stale' = FALSE /\ judged' = judged
            \/ /\ stage[q] = "new" /\ stage'[q] = "exists"
               /\ UNCHANGED <<lock, stale, judged>>
            \/ /\ stage[q] = "exists" /\ stage'[q] = "old" /\ lock # NoRun /\ stale
               /\ judged'[q] = lock /\ UNCHANGED <<lock, stale>>
            \/ /\ stage[q] = "old" /\ stage'[q] \in {"over", "unlinked"}
               /\ lock' = NoRun /\ stale' = FALSE /\ judged' = judged
            \/ /\ stage[q] \in {"exists", "unlinked"} /\ stage'[q] = "over"
               /\ UNCHANGED <<lock, stale, judged>>
            \/ /\ stage[q] = "inside" /\ stage'[q] = "releasing"
               /\ UNCHANGED <<lock, stale, judged>>
            \/ /\ stage[q] = "releasing" /\ stage'[q] = IF lock = q THEN "unlinking" ELSE "over"
               /\ UNCHANGED <<lock, stale, judged>>
            \/ /\ stage[q] = "unlinking" /\ stage'[q] = "over"
               /\ lock' = NoRun /\ stale' = FALSE /\ judged' = judged
            \/ /\ Taking(q) \/ Inside(q)
               /\ stage'[q] = "dead" /\ UNCHANGED <<lock, stale, judged>>
<1> USE DEF Stages, history
<1>1. CASE Create(q)
  BY <1>1, MoveTyped DEF Create
<1>2. CASE FindLock(q)
  BY <1>2, MoveTyped DEF FindLock
<1>3. CASE Judge(q)
  BY <1>3, MoveTyped DEF Judge, JudgeOld, LeaseTypeOK
<1>4. CASE Unlink(q)
  BY <1>4, MoveTyped DEF Unlink
<1>5. CASE Recreate(q)
  BY <1>5, MoveTyped DEF Recreate
<1>6. CASE Leave(q)
  BY <1>6, MoveTyped DEF Leave
<1>7. CASE ReadToken(q)
  BY <1>7, MoveTyped DEF ReadToken
<1>8. CASE UnlinkOwn(q)
  BY <1>8, MoveTyped DEF UnlinkOwn
<1>9. CASE Die(q)
  BY <1>9, MoveTyped DEF Die
<1> QED
  BY <1>1, <1>2, <1>3, <1>4, <1>5, <1>6, <1>7, <1>8, <1>9 DEF Acquire, Release

\* A verdict is not taken back, so that a behaviour that was upset stays so.
LEMMA KeptBefore ==
  ASSUME IInv, [LeaseNext]_leaseVars, Kept'
  PROVE  Kept
<1>1. CASE UNCHANGED leaseVars
  BY <1>1 DEF leaseVars, Kept, Raced
<1>2. CASE LockAges
  BY <1>2 DEF LockAges, Kept, Raced
<1>3. ASSUME NEW q \in Runs, Acquire(q) \/ Leave(q) \/ Release(q) \/ Die(q)
      PROVE  Kept
  <2>1. \A r \in Runs : judged[r] # NoRun => judged'[r] = judged[r]
    BY <1>3, LeaseMoves DEF IInv, Unjudged
  <2>2. outlived' = outlived
    BY <1>3, LeaseMoves DEF IInv
  <2> QED
    BY <2>1, <2>2 DEF Kept, Raced
<1> QED
  BY <1>1, <1>2, <1>3 DEF LeaseNext

LEMMA LockKept ==
  ASSUME LeaseTypeOK, HolderAlive, Unjudged, [LeaseNext]_leaseVars
  PROVE  HolderAlive' /\ Unjudged'
<1> USE LeaseAssumption DEF HolderAlive, Unjudged, Inside
<1>1. CASE UNCHANGED leaseVars
  BY <1>1 DEF leaseVars
<1>2. CASE LockAges
  BY <1>2 DEF LockAges
<1>3. ASSUME NEW q \in Runs, Acquire(q) \/ Leave(q) \/ Release(q) \/ Die(q)
      PROVE  HolderAlive' /\ Unjudged'
  <2>1. HolderAlive'
    BY <1>3, LeaseMoves
  <2>2. Unjudged'
    BY <1>3, LeaseMoves DEF Taking
  <2> QED
    BY <2>1, <2>2
<1> QED
  BY <1>1, <1>2, <1>3 DEF LeaseNext

LEMMA OrderKept ==
  ASSUME IInv, [LeaseNext]_leaseVars, Kept'
  PROVE  Orderly'
<1>1. Kept /\ HolderInFile /\ StaleIsDead /\ OldIsDead
  BY KeptBefore DEF IInv, Orderly
<1>2. LeaseTypeOK /\ HolderAlive
  BY DEF IInv
<1> USE LeaseAssumption
<1>3. CASE UNCHANGED leaseVars
  BY <1>1, <1>3
     DEF leaseVars, Orderly, HolderInFile, StaleIsDead, OldIsDead, Inside, Dead
<1>4. CASE LockAges
  <2>1. UNCHANGED <<stage, lock, judged>> /\ lock # NoRun
    BY <1>4 DEF LockAges
  <2>2. \A r \in Runs : ~(r = lock /\ Inside(r))
    BY <1>4 DEF LockAges, Kept
  <2>3. Dead(lock)
    BY <1>2, <2>2 DEF HolderAlive, Dead
  <2> QED
    BY <1>1, <2>1, <2>3 DEF Orderly, HolderInFile, StaleIsDead, OldIsDead, Inside, Dead
<1>5. ASSUME NEW q \in Runs, Acquire(q) \/ Leave(q) \/ Release(q) \/ Die(q)
      PROVE  Orderly'
  <2>0. \A s \in Runs \ {q} : stage'[s] = stage[s] /\ judged'[s] = judged[s]
    BY <1>2, <1>5, LeaseMoves
  <2> USE DEF HolderInFile, StaleIsDead, OldIsDead, Inside, Dead
  <2>1. CASE stage'[q] = "inside"
    <3>1. /\ lock = NoRun /\ lock' = q /\ stale' = FALSE
      BY <1>2, <1>5, <2>1, LeaseMoves DEF Taking, Inside
    <3> QED
      BY <1>1, <2>0, <2>1, <3>1 DEF Orderly
  <2>2. CASE stage'[q] = "old"
    <3>1. /\ stage[q] = "exists" /\ lock # NoRun /\ stale
          /\ judged'[q] = lock /\ UNCHANGED <<lock, stale>>
      BY <1>2, <1>5, <2>2, LeaseMoves DEF Taking
    <3> QED
      BY <1>1, <2>0, <2>2, <3>1 DEF Orderly
  <2>3. CASE stage[q] = "old" /\ stage'[q] \in {"over", "unlinked"}
    <3>1. lock' = NoRun /\ stale' = FALSE /\ judged' = judged
      BY <1>2, <1>5, <2>3, LeaseMoves DEF Taking
    <3>2. \A s \in Runs : ~Inside(s)
      BY <1>1, <2>3
    <3>3. \A s \in Runs \ {q} : stage[s] # "old"
      BY <1>1, <2>3 DEF Kept, Raced
    <3> QED
      BY <2>0, <2>3, <3>1, <3>2, <3>3 DEF Orderly
  <2>4. CASE stage[q] = "unlinking" /\ stage'[q] = "over"
    <3>1. lock' = NoRun /\ stale' = FALSE
      BY <1>2, <1>5, <2>4, LeaseMoves DEF Taking
    <3>2. lock = q /\ \A s \in Runs : stage[s] # "old"
      BY <1>1, <2>4
    <3> QED
      BY <1>1, <2>0, <2>4, <3>1, <3>2 DEF Orderly
  <2>5. CASE /\ stage'[q] \in {"exists", "releasing", "unlinking", "over", "dead"}
             /\ UNCHANGED <<lock, stale, judged>>
    <3>1. stage[q] # "dead"
      BY <1>2, <1>5, LeaseMoves DEF Taking
    <3>2. stage'[q] \in {"releasing", "unlinking"} => Inside(q)
      BY <1>2, <1>5, LeaseMoves DEF Taking
    <3> QED
      BY <1>1, <2>0, <2>5, <3>1, <3>2 DEF Orderly
  <2> QED
    BY <1>2, <1>5, <2>1, <2>2, <2>3, <2>4, <2>5, LeaseMoves
<1> QED
  BY <1>3, <1>4, <1>5 DEF LeaseNext

LEMMA NextIInv == IInv /\ [LeaseNext]_leaseVars => IInv'
BY LeaseTypeNext, LockKept, OrderKept DEF IInv

(***************************************************************************)
(* A bootstrap touches the lease only the way WriterLease does: the worker *)
(* and the chain leave the lock file alone.                                *)
(***************************************************************************)
LEMMA StepIsLeaseStep == [Next]_vars => [LeaseNext]_leaseVars
<1> SUFFICES ASSUME [Next]_vars PROVE [LeaseNext]_leaseVars
  OBVIOUS
<1>1. CASE UNCHANGED vars
  BY <1>1 DEF vars
<1>2. ASSUME NEW r \in Runs, Worker(r)
      PROVE  UNCHANGED leaseVars
  BY <1>2 DEF Worker, ReadIndex, Search, Gate, SendList, ListConfirmed, ListRefused,
              Claimed, JobLost, CheckRecovered, Deliver, WorkFails
<1>3. ASSUME NEW r \in Runs, Caller(r)
      PROVE  [LeaseNext]_leaseVars
  BY <1>3 DEF Caller, StartWorker, NoSandbox, Collect, LeaseNext
<1>4. ASSUME NEW j \in Runs, ListLands(j) \/ ListDrops(j) \/ Claim(j) \/ JobEnds(j)
      PROVE  UNCHANGED leaseVars
  BY <1>4 DEF ListLands, ListDrops, Claim, JobEnds
<1>5. ASSUME NEW r \in Runs, LeaseStep(r) \/ Die(r)
      PROVE  LeaseNext
  BY <1>5 DEF LeaseStep, LeaseNext
<1>6. CASE FifteenMinutes
  BY <1>6 DEF FifteenMinutes, LeaseNext
<1>7. CASE Traffic
  BY <1>7 DEF Traffic
<1> QED
  BY <1>1, <1>2, <1>3, <1>4, <1>5, <1>6, <1>7 DEF Next

\* Every behaviour of the bootstraps is one of the lease: nothing but the lease's
\* own steps changes the lock file or a run's place with respect to it
\* (modal-nosana-bootstrap.mjs:40-85, :329, :407-409).
THEOREM BootstrapKeepsLease == Spec => LeaseSpec
<1>1. Init => LeaseInit
  BY DEF Init
<1>2. [Next]_vars => [LeaseNext]_leaseVars
  BY StepIsLeaseStep
<1> QED
  BY <1>1, <1>2, PTL DEF Spec, LeaseSpec

\* Two bootstraps hold the lease at once only after a run outlived its own or two
\* runs judged the same lock old, for any number of bootstraps and in every world
\* (modal-nosana-bootstrap.mjs:61-72, :76-84).
THEOREM LeaseAdmitsOne == Spec => []OneWriter
<1>1. LeaseSpec => []IInv
  BY InitIInv, NextIInv, PTL DEF LeaseSpec
<1>2. IInv => OneWriter
  BY DEF IInv, Kept, Orderly, HolderInFile, OneWriter
<1> QED
  BY <1>1, <1>2, BootstrapKeepsLease, PTL

----------------------------------------------------------------------------
LEMMA InitTyped == ASSUME Init PROVE TypeOK
<1>1. nos \in Nat /\ sol \in Nat
  BY WalletAssumption DEF Init
<1> QED
  BY <1>1, LeaseAssumption DEF Init, LeaseInit, TypeOK, LeaseTypeOK, Receipts, Stages

LEMMA WorkerTyped ==
  ASSUME TypeOK, NEW r \in Runs, Worker(r)
  PROVE  TypeOK'
<1> USE DEF Goto, workers, chain, aim, leaseVars, Slips
<1>1. LeaseTypeOK'
  BY DEF Worker, ReadIndex, Search, Gate, SendList, ListConfirmed, ListRefused, Claimed, JobLost,
     CheckRecovered, Deliver, WorkFails, TypeOK, LeaseTypeOK
<1>2. CASE ReadIndex(r) \/ Search(r)
  <2>1. /\ UNCHANGED chain /\ slip' \in Slips \cup {"none"}
        /\ \/ \E to \in {"searching", "searchingBlind", "gating", "failed"} :
                Goto(r, to) /\ UNCHANGED aim
           \/ \E shown \in SUBSET {j \in Runs : Active(j)} : Recover(r, shown)
    BY <1>2 DEF ReadIndex, Search, Active, SlipIf, TypeOK
  <2>2. CASE \E to \in {"searching", "searchingBlind", "gating", "failed"} :
               Goto(r, to) /\ UNCHANGED aim
    BY <1>1, <2>1, <2>2 DEF TypeOK
  <2>3. CASE \E shown \in SUBSET {j \in Runs : Active(j)} : Recover(r, shown)
    <3>1. PICK j \in Runs : /\ target' = [target EXCEPT ![r] = j]
                            /\ found' = [found EXCEPT ![r] = job[j]]
                            /\ Goto(r, "claiming") /\ Active(j)
      BY <2>3 DEF Recover
    <3> QED
      BY <1>1, <2>1, <3>1 DEF TypeOK, Active
  <2> QED
    BY <2>1, <2>2, <2>3
<1>3. CASE Gate(r) \/ ListConfirmed(r) \/ ListRefused(r) \/ Claimed(r) \/ JobLost(r)
  BY <1>1, <1>3 DEF Gate, ListConfirmed, ListRefused, Claimed, JobLost, TypeOK
<1>4. CASE SendList(r)
  BY <1>1, <1>4 DEF SendList, TypeOK
<1>5. CASE CheckRecovered(r)
  BY <1>1, <1>5 DEF CheckRecovered, TypeOK, Receipts
<1>6. CASE Deliver(r)
  BY <1>1, <1>6 DEF Deliver, TypeOK, Receipts
<1>7. CASE WorkFails(r)
  BY <1>1, <1>7 DEF WorkFails, TypeOK, SlipIf
<1> QED
  BY <1>2, <1>3, <1>4, <1>5, <1>6, <1>7 DEF Worker

LEMMA NextTyped == ASSUME TypeOK, [Next]_vars PROVE TypeOK'
<1> USE DEF Goto, workers, chain, aim, Slips
<1>1. LeaseTypeOK'
  BY StepIsLeaseStep, LeaseTypeNext DEF TypeOK
<1>2. ASSUME NEW r \in Runs, LeaseStep(r) \/ Caller(r) \/ (Die(r) /\ UNCHANGED <<workers, chain>>)
      PROVE  TypeOK'
  <2>1. CASE Collect(r)
    BY <1>1, <2>1 DEF Collect, SlipIf, TypeOK
  <2>2. CASE LeaseStep(r) \/ StartWorker(r) \/ NoSandbox(r) \/ (Die(r) /\ UNCHANGED <<workers, chain>>)
    BY <1>1, <2>2 DEF LeaseStep, StartWorker, NoSandbox, TypeOK
  <2> QED
    BY <1>2, <2>1, <2>2 DEF Caller
<1>3. ASSUME NEW j \in Runs, ListLands(j) \/ ListDrops(j) \/ Claim(j) \/ JobEnds(j)
      PROVE  TypeOK'
  BY <1>1, <1>3, WalletAssumption DEF ListLands, ListDrops, Claim, JobEnds, TypeOK
<1>4. CASE FifteenMinutes
  BY <1>1, <1>4 DEF FifteenMinutes, TypeOK, SlipIf
<1>5. CASE Traffic \/ UNCHANGED vars
  BY <1>1, <1>5 DEF Traffic, vars, TypeOK
<1> QED
  BY <1>2, <1>3, <1>4, <1>5, WorkerTyped DEF Next

\* The variables keep their types, for every value of the constants.
THEOREM BootstrapTyped == Spec => []TypeOK
BY InitTyped, NextTyped, PTL DEF Spec

----------------------------------------------------------------------------
(***************************************************************************)
(* The jobs, as long as nothing has upset their order.  A worker that may  *)
(* still list one is that of the run whose token the lock file carries:    *)
(* its caller waits for it, or has died, and then the lock is not taken    *)
(* before the worker is past listing.                                      *)
(***************************************************************************)
HoldInv ==
  ~Crowded =>
    /\ \A r \in Runs : Listing(r) => lock = r /\ stage[r] \in {"inside", "dead"}
    /\ \A r \in Runs : (stale \/ stage[r] = "old") /\ lock \in Runs => ~Listing(lock)
    /\ \A r \in Runs : job[r] = "sent" => work[r] = "posting"

\* Without a job, neither paid for nor about to be.
Free(j) == job[j] \in {"none", "ended"}

\* A worker that has looked everywhere and is about to list found no job.
JobInv ==
  ~Crowded =>
    /\ \A r \in Runs : work[r] \in {"gating", "listing"} => \A j \in Runs : Free(j)
    /\ \A r \in Runs : work[r] = "posting" => \A j \in Runs \ {r} : Free(j)
    /\ \A j, k \in Runs : Active(j) /\ Active(k) => j = k

\* A step of the worker of one run, or of its caller, leaves the other workers
\* and jobs as they are, and no definition is taken back from a node.
LEMMA OthersUntouched ==
  ASSUME TypeOK, NEW q \in Runs, Worker(q) \/ Caller(q)
  PROVE  /\ \A r \in Runs \ {q} : /\ work'[r] = work[r] /\ target'[r] = target[r]
                                  /\ found'[r] = found[r] /\ job'[r] = job[r]
         /\ \A j \in Runs : served[j] => served'[j]
<1> USE DEF TypeOK, Goto, workers, chain, aim, leaseVars
<1>1. CASE ReadIndex(q) \/ Search(q)
  BY <1>1 DEF ReadIndex, Search, Recover
<1>2. CASE \/ Gate(q) \/ SendList(q) \/ ListConfirmed(q) \/ ListRefused(q) \/ Claimed(q)
           \/ JobLost(q) \/ CheckRecovered(q) \/ WorkFails(q)
  BY <1>2 DEF Gate, SendList, ListConfirmed, ListRefused, Claimed, JobLost, CheckRecovered, WorkFails
<1>3. CASE Deliver(q)
  BY <1>3 DEF Deliver
<1>4. CASE Caller(q)
  BY <1>4 DEF Caller, StartWorker, NoSandbox, Collect
<1> QED
  BY <1>1, <1>2, <1>3, <1>4 DEF Worker

\* What upset the order is not forgotten.
LEMMA CalmBefore ==
  ASSUME IInv, TypeOK, [Next]_vars, ~Crowded'
  PROVE  ~Crowded /\ Kept /\ Kept' /\ slip = "none" /\ slip' = "none"
<1>1. Kept' /\ slip' = "none"
  BY DEF Crowded, Kept
<1>2. Kept
  BY <1>1, StepIsLeaseStep, KeptBefore
<1>3. slip' = slip \/ \E what \in Slips : slip' = what
  <2>1. ASSUME NEW r \in Runs, Worker(r) PROVE slip' = slip \/ slip' \in Slips
    BY <2>1 DEF Worker, ReadIndex, Search, Gate, SendList, ListConfirmed, ListRefused, Claimed,
       JobLost, CheckRecovered, Deliver, WorkFails, SlipIf, Slips
  <2>2. ASSUME NEW r \in Runs, \/ Caller(r) \/ LeaseStep(r)
                               \/ (Die(r) /\ UNCHANGED <<workers, chain>>)
        PROVE  slip' = slip \/ slip' \in Slips
    BY <2>2 DEF Caller, StartWorker, NoSandbox, Collect, LeaseStep, workers, SlipIf, Slips
  <2>3. CASE \/ \E j \in Runs : ListLands(j) \/ ListDrops(j) \/ Claim(j) \/ JobEnds(j)
             \/ FifteenMinutes \/ Traffic \/ UNCHANGED vars
    BY <2>3 DEF ListLands, ListDrops, Claim, JobEnds, FifteenMinutes, Traffic, vars, workers,
       SlipIf, Slips
  <2> QED
    BY <2>1, <2>2, <2>3 DEF Next
<1>4. slip = "none"
  BY <1>1, <1>3 DEF Slips
<1> QED
  BY <1>1, <1>2, <1>4 DEF Crowded, Kept

\* A worker lists at most once, and an outcome it did not learn is a slip.
LEMMA WorkGoesOn ==
  ASSUME TypeOK, NEW r \in Runs, Worker(r), slip = "none", slip' = "none"
  PROVE  /\ UNCHANGED leaseVars
         /\ Listing(r)' => Listing(r)
         /\ job'[r] = "sent" => work'[r] = "posting" \/ (job[r] = "sent" /\ work[r] # "posting")
<1> USE DEF TypeOK, Goto, workers, chain, aim, leaseVars, Listing
<1>1. CASE ReadIndex(r) \/ Search(r)
  BY <1>1 DEF ReadIndex, Search, Recover
<1>2. CASE Gate(r) \/ SendList(r) \/ Claimed(r) \/ JobLost(r) \/ CheckRecovered(r) \/ Deliver(r)
  BY <1>2 DEF Gate, SendList, Claimed, JobLost, CheckRecovered, Deliver, Receipts
<1>3. CASE ListConfirmed(r) \/ ListRefused(r)
  BY <1>3 DEF ListConfirmed, ListRefused
<1>4. CASE WorkFails(r)
  BY <1>4 DEF WorkFails, SlipIf
<1> QED
  BY <1>1, <1>2, <1>3, <1>4 DEF Worker

LEMMA HoldKept ==
  ASSUME IInv, IInv', TypeOK, HoldInv, [Next]_vars
  PROVE  HoldInv'
<1> SUFFICES ASSUME ~Crowded'
             PROVE  /\ \A r \in Runs : Listing(r)' => lock' = r /\ stage'[r] \in {"inside", "dead"}
                    /\ \A r \in Runs : (stale' \/ stage'[r] = "old") /\ lock' \in Runs
                         => ~Listing(lock)'
                    /\ \A r \in Runs : job'[r] = "sent" => work'[r] = "posting"
  BY DEF HoldInv
<1>0. ~Crowded /\ Kept /\ Kept' /\ slip = "none" /\ slip' = "none"
  BY CalmBefore
<1>1. /\ \A r \in Runs : Listing(r) => lock = r /\ stage[r] \in {"inside", "dead"}
      /\ \A r \in Runs : (stale \/ stage[r] = "old") /\ lock \in Runs => ~Listing(lock)
      /\ \A r \in Runs : job[r] = "sent" => work[r] = "posting"
  BY <1>0 DEF HoldInv
<1>2. HolderInFile /\ StaleIsDead /\ OldIsDead /\ LeaseTypeOK
  BY <1>0 DEF IInv, Orderly
<1> DEFINE Goal ==
      /\ \A r \in Runs : Listing(r)' => lock' = r /\ stage'[r] \in {"inside", "dead"}
      /\ \A r \in Runs : (stale' \/ stage'[r] = "old") /\ lock' \in Runs => ~Listing(lock)'
      /\ \A r \in Runs : job'[r] = "sent" => work'[r] = "posting"
<1>3. ASSUME NEW q \in Runs, LeaseStep(q) \/ (Die(q) /\ UNCHANGED <<workers, chain>>)
      PROVE  Goal
  <2>0. UNCHANGED <<work, job>>
    BY <1>3 DEF LeaseStep, workers, chain
  <2>1. /\ \A s \in Runs \ {q} : stage'[s] = stage[s]
        /\ \/ /\ stage[q] \in {"new", "unlinked"} /\ stage'[q] = "inside"
              /\ lock = NoRun /\ lock' = q /\ stale' = FALSE
           \/ /\ stage[q] = "old" /\ stage'[q] \in {"over", "unlinked"}
              /\ lock' = NoRun
           \/ /\ stage[q] = "unlinking" /\ stage'[q] = "over"
              /\ lock' = NoRun
           \/ /\ stage[q] = "exists" /\ stage'[q] = "old" /\ stale
              /\ UNCHANGED <<lock, stale>>
           \/ /\ stage[q] \notin {"inside", "dead"} /\ stage'[q] # "old"
              /\ UNCHANGED <<lock, stale>>
           \/ /\ stage'[q] = "dead" /\ UNCHANGED <<lock, stale>>
    <3>1. CASE Acquire(q) \/ Release(q)
      <4>1. stage[q] \notin {"inside", "dead"}
        BY <3>1, <1>2 DEF Acquire, Release, Create, FindLock, Judge, Unlink, Recreate, ReadToken,
           UnlinkOwn
      <4> QED
        BY <1>2, <3>1, <4>1, LeaseMoves
    <3>2. CASE Die(q)
      BY <1>2, <3>2, MoveTyped DEF Die, Stages
    <3> QED
      BY <1>3, <3>1, <3>2 DEF LeaseStep
  <2>2. CASE lock' = NoRun /\ stage[q] \in {"old", "unlinking"}
    <3>1. \A r \in Runs : ~Listing(r)
      BY <1>1, <1>2, <2>2 DEF OldIsDead, HolderInFile, Inside
    <3> QED
      BY <1>1, <2>0, <2>2, <3>1, LeaseAssumption DEF Listing
  <2>3. CASE lock = NoRun /\ lock' = q /\ stale' = FALSE /\ stage'[q] = "inside"
    <3>1. \A r \in Runs : ~Listing(r)
      BY <1>1, <2>3, LeaseAssumption
    <3> QED
      BY <1>1, <2>0, <3>1 DEF Listing
  <2>4. CASE /\ UNCHANGED <<lock, stale>>
             /\ \/ stage'[q] = "old" /\ stale /\ stage[q] = "exists"
                \/ stage'[q] # "old" /\ stage[q] \notin {"inside", "dead"}
                \/ stage'[q] = "dead"
    BY <1>1, <2>0, <2>1, <2>4 DEF Listing
  <2> QED
    BY <2>1, <2>2, <2>3, <2>4
<1>4. ASSUME NEW q \in Runs, StartWorker(q) PROVE Goal
  <2>1. /\ stage[q] = "inside" /\ UNCHANGED <<stage, lock, stale, job>>
        /\ work[q] = "idle" /\ work' = [work EXCEPT ![q] = "discovering"]
    BY <1>4 DEF StartWorker, leaseVars, chain, Goto
  <2>2. lock = q
    BY <1>2, <2>1 DEF HolderInFile, Inside
  <2>3. \A r \in Runs : ~(stale \/ stage[r] = "old")
    BY <1>2, <2>1, <2>2 DEF StaleIsDead, OldIsDead, Dead
  <2>4. \A r \in Runs \ {q} : work'[r] = work[r]
    BY <2>1 DEF TypeOK
  <2> QED
    BY <1>1, <2>1, <2>2, <2>3, <2>4 DEF Listing
<1>5. ASSUME NEW q \in Runs, NoSandbox(q) \/ Collect(q) PROVE Goal
  <2>1. UNCHANGED <<work, job, lock, stale>> /\ Leave(q)
    BY <1>5 DEF NoSandbox, Collect, Leave, workers, chain
  <2>2. stage'[q] = "releasing" /\ \A r \in Runs \ {q} : stage'[r] = stage[r]
    BY <1>2, <2>1, MoveTyped DEF Leave, Stages
  <2>3. ~Listing(q)
    BY <1>0, <1>5 DEF NoSandbox, Collect, SlipIf, Listing
  <2> QED
    BY <1>1, <2>1, <2>2, <2>3 DEF Listing
<1>6. ASSUME NEW q \in Runs, Worker(q) PROVE Goal
  <2>1. /\ UNCHANGED <<stage, lock, stale>> /\ (Listing(q)' => Listing(q))
        /\ job'[q] = "sent" => work'[q] = "posting" \/ (job[q] = "sent" /\ work[q] # "posting")
    BY <1>0, <1>6, WorkGoesOn DEF leaseVars
  <2>2. \A r \in Runs \ {q} : work'[r] = work[r] /\ job'[r] = job[r]
    BY <1>6, OthersUntouched
  <2>3. \A r \in Runs : Listing(r)' => Listing(r)
    BY <2>1, <2>2 DEF Listing
  <2>4. ASSUME NEW r \in Runs, stale' \/ stage'[r] = "old", lock' \in Runs PROVE ~Listing(lock)'
    <3>1. ~Listing(lock) /\ lock \in Runs
      BY <1>1, <2>1, <2>4
    <3>2. work'[lock] = work[lock] \/ lock = q
      BY <2>2, <3>1
    <3> QED
      BY <2>1, <3>1, <3>2 DEF Listing
  <2> QED
    BY <1>1, <2>1, <2>2, <2>3, <2>4
<1>7. ASSUME NEW j \in Runs, ListLands(j) \/ ListDrops(j) \/ Claim(j) \/ JobEnds(j)
      PROVE  Goal
  <2>1. UNCHANGED <<work, stage, lock, stale>> /\ \A r \in Runs : job'[r] = "sent" => job[r] = "sent"
    BY <1>7 DEF ListLands, ListDrops, Claim, JobEnds, leaseVars, workers, TypeOK
  <2> QED
    BY <1>1, <2>1 DEF Listing
<1>8. CASE FifteenMinutes
  <2>1. UNCHANGED <<work, job, stage, lock>> /\ (lock \in Runs => ~Listing(lock))
    BY <1>0, <1>8 DEF FifteenMinutes, LockAges, chain, SlipIf
  <2> QED
    BY <1>1, <2>1 DEF Listing
<1>9. CASE Traffic \/ UNCHANGED vars
  BY <1>1, <1>9 DEF Traffic, vars, leaseVars, workers, chain, Listing
<1> QED
  BY <1>3, <1>4, <1>5, <1>6, <1>7, <1>8, <1>9 DEF Next, Caller

\* What the lock file tells of two workers that are both about to list.
LEMMA ListingAlone ==
  ASSUME ~Crowded, HoldInv, NEW r \in Runs, Listing(r)
  PROVE  \A q \in Runs \ {r} : ~Listing(q) /\ job[q] # "sent"
BY DEF HoldInv, Listing

\* The state of one job follows that of another only through its lister.
LEMMA ChainFrees ==
  ASSUME TypeOK, NEW q \in Runs, ListLands(q) \/ ListDrops(q) \/ Claim(q) \/ JobEnds(q)
  PROVE  /\ UNCHANGED <<work, target, found, served>>
         /\ \A r \in Runs : Free(r) => Free(r)'
         /\ \A r \in Runs : Active(r)' => Active(r) \/ (r = q /\ ListLands(q))
BY DEF TypeOK, ListLands, ListDrops, Claim, JobEnds, leaseVars, workers, aim, Free, Active

LEMMA JobKept ==
  ASSUME IInv, TypeOK, HoldInv, JobInv, [Next]_vars
  PROVE  JobInv'
<1> DEFINE Goal ==
     /\ \A r \in Runs : work[r] \in {"gating", "listing"} => \A j \in Runs : Free(j)
     /\ \A r \in Runs : work[r] = "posting" => \A j \in Runs \ {r} : Free(j)
     /\ \A j, k \in Runs : Active(j) /\ Active(k) => j = k
<1> SUFFICES ASSUME ~Crowded' PROVE Goal'
  BY DEF JobInv
<1>0. ~Crowded /\ slip = "none" /\ slip' = "none"
  BY CalmBefore
<1>1. Goal
  BY <1>0 DEF JobInv
<1>s. \A r \in Runs : job[r] = "sent" => work[r] = "posting"
  BY <1>0 DEF HoldInv
<1>2. CASE UNCHANGED <<work, job>>
  BY <1>1, <1>2 DEF Free, Active
<1>3. ASSUME NEW q \in Runs, StartWorker(q) PROVE Goal'
  BY <1>1, <1>3 DEF StartWorker, Goto, chain, Free, Active, TypeOK
<1>4. ASSUME NEW q \in Runs, Worker(q) PROVE Goal'
  <2> USE DEF Goto, leaseVars, chain, aim
  <2>0. \A r \in Runs \ {q} : work'[r] = work[r] /\ job'[r] = job[r]
    BY <1>4, OthersUntouched
  <2>1. CASE ReadIndex(q)
    <3>1. work'[q] \notin {"gating", "listing", "posting"} /\ UNCHANGED job
      BY <2>1 DEF ReadIndex, Recover, TypeOK
    <3> QED
      BY <1>1, <2>0, <3>1 DEF Free, Active
  <2>2. CASE Search(q)
    <3>1. UNCHANGED job /\ Listing(q) /\ work'[q] \in {"claiming", "gating", "failed"}
      BY <2>2 DEF Search, Recover, Listing, TypeOK
    <3>2. CASE work'[q] = "gating"
      <4>1. \A j \in Runs : ~Active(j)
        BY <1>0, <2>2, <3>2 DEF Search, Recover, SlipIf, TypeOK
      <4>2. job[q] # "sent" /\ \A j \in Runs \ {q} : job[j] # "sent"
        BY <1>0, <1>s, <2>2, <3>1, ListingAlone DEF Search
      <4>3. \A j \in Runs : Free(j)
        BY <4>1, <4>2 DEF Free, Active, TypeOK
      <4> QED
        BY <1>1, <3>1, <4>3 DEF Free, Active
    <3>3. CASE work'[q] # "gating"
      BY <1>1, <2>0, <3>1, <3>3 DEF Free, Active
    <3> QED
      BY <3>2, <3>3
  <2>3. CASE Gate(q)
    BY <1>1, <2>0, <2>3 DEF Gate, Free, Active, TypeOK
  <2>4. CASE SendList(q)
    <3>1. work[q] = "listing" /\ work'[q] = "posting" /\ job'[q] = "sent"
      BY <2>4 DEF SendList, TypeOK
    <3>2. \A j \in Runs \ {q} : Free(j)'
      BY <1>1, <2>0, <3>1 DEF Free
    <3>3. \A r \in Runs \ {q} : work'[r] \notin {"gating", "listing", "posting"}
      <4>1. \A r \in Runs \ {q} : ~Listing(r)
        BY <1>0, <3>1, ListingAlone DEF Listing
      <4> QED
        BY <2>0, <4>1 DEF Listing
    <3> QED
      BY <3>1, <3>2, <3>3 DEF Free, Active
  <2>5. CASE \/ ListConfirmed(q) \/ ListRefused(q) \/ Claimed(q) \/ JobLost(q)
             \/ CheckRecovered(q) \/ Deliver(q) \/ WorkFails(q)
    <3>1. work'[q] \notin {"gating", "listing", "posting"} /\ UNCHANGED job
      BY <2>5 DEF ListConfirmed, ListRefused, Claimed, JobLost, CheckRecovered, Deliver,
         WorkFails, TypeOK
    <3> QED
      BY <1>1, <2>0, <3>1 DEF Free, Active
  <2> QED
    BY <1>4, <2>1, <2>2, <2>3, <2>4, <2>5 DEF Worker
<1>5. ASSUME NEW q \in Runs, ListLands(q) \/ ListDrops(q) \/ Claim(q) \/ JobEnds(q)
      PROVE  Goal'
  <2>1. /\ UNCHANGED work /\ \A r \in Runs : Free(r) => Free(r)'
        /\ \A r \in Runs : Active(r)' => Active(r) \/ (r = q /\ ListLands(q))
    BY <1>5, ChainFrees
  <2>2. CASE ListLands(q)
    <3>1. work[q] = "posting" /\ \A j \in Runs \ {q} : Free(j)
      BY <1>1, <1>s, <2>2 DEF ListLands
    <3>2. \A j \in Runs : Active(j)' => j = q
      BY <2>1, <3>1 DEF Free, Active
    <3>3. \A r \in Runs : work[r] \notin {"gating", "listing"}
      BY <1>1, <2>2 DEF ListLands, Free
    <3> QED
      BY <1>1, <2>1, <3>2, <3>3
  <2>3. CASE ~ListLands(q)
    BY <1>1, <2>1, <2>3
  <2> QED
    BY <2>2, <2>3
<1>6. CASE \/ \E r \in Runs : \/ LeaseStep(r) \/ NoSandbox(r) \/ Collect(r)
                              \/ (Die(r) /\ UNCHANGED <<workers, chain>>)
           \/ FifteenMinutes \/ Traffic \/ UNCHANGED vars
  BY <1>2, <1>6 DEF LeaseStep, NoSandbox, Collect, FifteenMinutes, Traffic, vars, workers, chain
<1> QED
  BY <1>3, <1>4, <1>5, <1>6 DEF Next, Caller

LEMMA HoldInvariant == Spec => [](IInv /\ TypeOK /\ HoldInv)
<1>1. Spec => []IInv
  BY BootstrapKeepsLease, InitIInv, NextIInv, PTL DEF LeaseSpec
<1>2. Init => HoldInv
  BY LeaseAssumption DEF Init, LeaseInit, HoldInv, Listing
<1>3. IInv /\ IInv' /\ TypeOK /\ HoldInv /\ [Next]_vars => HoldInv'
  BY HoldKept
<1> QED
  BY <1>1, <1>2, <1>3, BootstrapTyped, PTL DEF Spec

\* Two jobs are paid at once only after a run outlived its lock or raced for an old
\* one, a worker listed without its caller, or a search missed the job, for any
\* number of bootstraps and in every world
\* (specs/00-SHELTER-INDEPENDENCE.md:268-269, nosana_bootstrap.py:650-711).
THEOREM OneJobAtATime == Spec => []SingleJob
<1>1. Init => JobInv
  BY DEF Init, JobInv, Active
<1>2. IInv /\ TypeOK /\ HoldInv /\ JobInv /\ [Next]_vars => JobInv'
  BY JobKept
<1>3. JobInv => SingleJob
  BY DEF JobInv, SingleJob
<1> QED
  BY <1>1, <1>2, <1>3, HoldInvariant, PTL DEF Spec

----------------------------------------------------------------------------
(***************************************************************************)
(* Receipts, in every world.  What a run lists it delivers itself or fails *)
(* to; a job that was recovered was listed by another run.                 *)
(***************************************************************************)
Undecided == {"idle", "discovering", "searching", "searchingBlind", "gating", "listing"}

ReceiptOf(r) ==
  /\ work[r] \in Undecided => job[r] = "none"
  /\ work[r] \in Undecided \cup {"posting"} => found[r] = "none"
  /\ found[r] # "none" => job[r] = "none"
  /\ job[r] # "none" /\ ~served[r] => work[r] = "failed" \/ Working(r)
  /\ work[r] = "posting" => target[r] = r
  /\ work[r] \in {"claiming", "checking", "delivering"} \cup Receipts =>
       IF found[r] = "none" THEN target[r] = r
       ELSE target[r] \in Runs \ {r} /\ job[target[r]] \in {"queued", "running", "ended"}
  /\ work[r] = "checking" => found[r] # "none"
  /\ work[r] \in Receipts /\ ~served[target[r]] =>
       work[r] = "alreadyRunning" /\ found[r] = "running"

ReceiptInv == \A r \in Runs : ReceiptOf(r)

LEMMA WorkerReports ==
  ASSUME TypeOK, ReceiptInv, NEW q \in Runs, Worker(q)
  PROVE  ReceiptOf(q)'
<1> USE DEF TypeOK, Goto, leaseVars, chain, aim, Undecided, Receipts
<1>0. ReceiptOf(q)
  BY DEF ReceiptInv
<1>1. CASE ReadIndex(q) \/ Search(q)
  <2>1. UNCHANGED <<job, served>> /\ work[q] \in {"discovering", "searching", "searchingBlind"}
    BY <1>1 DEF ReadIndex, Search
  <2>2. job[q] = "none" /\ found[q] = "none"
    BY <1>0, <2>1 DEF ReceiptOf
  <2>3. CASE UNCHANGED aim /\ work'[q] \in {"searching", "searchingBlind", "gating", "failed"}
    BY <2>1, <2>2, <2>3 DEF ReceiptOf
  <2>4. CASE \E j \in Runs : /\ Active(j) /\ target'[q] = j /\ found'[q] = job[j]
                             /\ work'[q] = "claiming"
    BY <2>1, <2>2, <2>4 DEF ReceiptOf, Working, Active
  <2> QED
    <3>1. ASSUME NEW shown \in SUBSET {j \in Runs : Active(j)}, Recover(q, shown)
          PROVE  \E j \in Runs : /\ Active(j) /\ target'[q] = j /\ found'[q] = job[j]
                                /\ work'[q] = "claiming"
      BY <3>1 DEF Recover
    <3>2. CASE ReadIndex(q)
      BY <2>3, <2>4, <3>1, <3>2 DEF ReadIndex, Active
    <3>3. CASE Search(q)
      BY <2>3, <2>4, <3>1, <3>3 DEF Search
    <3> QED
      BY <1>1, <3>2, <3>3
<1>2. CASE Gate(q)
  BY <1>0, <1>2 DEF Gate, ReceiptOf
<1>3. CASE SendList(q)
  BY <1>0, <1>3 DEF SendList, ReceiptOf, Working
<1>4. CASE ListConfirmed(q)
  BY <1>0, <1>4 DEF ListConfirmed, ReceiptOf, Working
<1>5. CASE ListRefused(q)
  BY <1>0, <1>5 DEF ListRefused, ReceiptOf
<1>6. CASE Claimed(q)
  BY <1>0, <1>6 DEF Claimed, ReceiptOf, Working
<1>7. CASE JobLost(q)
  BY <1>0, <1>7 DEF JobLost, ReceiptOf
<1>8. CASE CheckRecovered(q)
  BY <1>0, <1>8 DEF CheckRecovered, ReceiptOf, Working, MayAnswer
<1>9. CASE Deliver(q)
  <2>1. work[q] = "delivering" /\ UNCHANGED <<target, found, job>>
        /\ work'[q] \in {"delivered", "failed"}
    BY <1>9 DEF Deliver
  <2>2. target[q] \in Runs
    BY <1>0, <2>1 DEF ReceiptOf
  <2>3. served'[target[q]] /\ (served[q] => served'[q])
    BY <1>9, <2>2 DEF Deliver
  <2> QED
    BY <1>0, <2>1, <2>2, <2>3 DEF ReceiptOf, Working
<1>10. CASE WorkFails(q)
  BY <1>0, <1>10 DEF WorkFails, ReceiptOf
<1> QED
  BY <1>1, <1>2, <1>3, <1>4, <1>5, <1>6, <1>7, <1>8, <1>9, <1>10 DEF Worker

\* A job that was found active stays on chain, and what was delivered delivered.
LEMMA OthersReport ==
  ASSUME TypeOK, NEW r \in Runs, ReceiptOf(r),
         UNCHANGED <<work[r], target[r], found[r], job[r]>>,
         \A j \in Runs : served[j] => served'[j],
         \A j \in Runs : job[j] \in {"queued", "running", "ended"} =>
           job'[j] \in {"queued", "running", "ended"}
  PROVE  ReceiptOf(r)'
<1>1. Working(r)' = Working(r)
  BY DEF Working
<1>2. work[r] \in Receipts => target[r] \in Runs
  BY DEF ReceiptOf
<1> QED
  BY <1>1, <1>2 DEF ReceiptOf

LEMMA ReceiptKept ==
  ASSUME TypeOK, ReceiptInv, [Next]_vars
  PROVE  ReceiptInv'
<1> SUFFICES ASSUME NEW r \in Runs PROVE ReceiptOf(r)'
  BY DEF ReceiptInv
<1>1. ReceiptOf(r)
  BY DEF ReceiptInv
<1>2. CASE UNCHANGED <<work, target, found, job, served>>
  BY <1>1, <1>2, OthersReport
<1>3. ASSUME NEW q \in Runs, Worker(q) \/ StartWorker(q) PROVE ReceiptOf(r)'
  <2>1. CASE r # q
    <3>1. /\ work'[r] = work[r] /\ target'[r] = target[r] /\ found'[r] = found[r]
          /\ job'[r] = job[r] /\ \A j \in Runs : served[j] => served'[j]
      BY <1>3, <2>1, OthersUntouched DEF Caller
    <3>2. \A j \in Runs \ {q} : job'[j] = job[j]
      BY <1>3, OthersUntouched DEF Caller
    <3>3. job[q] \in {"queued", "running", "ended"} => job'[q] = job[q]
      <4>1. work[q] = "listing" => job[q] = "none"
        BY DEF ReceiptInv, ReceiptOf, Undecided
      <4>2. CASE SendList(q)
        BY <4>1, <4>2 DEF SendList
      <4>3. CASE ~SendList(q)
        BY <1>3, <4>3 DEF Worker, ReadIndex, Search, Gate, ListConfirmed, ListRefused, Claimed,
           JobLost, CheckRecovered, Deliver, WorkFails, StartWorker, chain
      <4> QED
        BY <4>2, <4>3
    <3> QED
      BY <1>1, <3>1, <3>2, <3>3, OthersReport
  <2>2. CASE r = q /\ StartWorker(q)
    BY <1>1, <2>2 DEF StartWorker, Goto, chain, aim, TypeOK, ReceiptOf, Undecided, Working, Receipts
  <2> QED
    BY <1>3, <2>1, <2>2, WorkerReports
<1>4. ASSUME NEW q \in Runs, ListLands(q) \/ ListDrops(q) \/ Claim(q) \/ JobEnds(q)
      PROVE  ReceiptOf(r)'
  <2>1. /\ UNCHANGED <<work, target, found, served>>
        /\ job[q] # "none" /\ \A j \in Runs \ {q} : job'[j] = job[j]
        /\ job[q] \in {"queued", "running", "ended"} => job'[q] \in {"queued", "running", "ended"}
    BY <1>4 DEF ListLands, ListDrops, Claim, JobEnds, TypeOK, workers, aim
  <2>2. CASE r # q
    BY <1>1, <2>1, <2>2, OthersReport
  <2>3. CASE r = q
    <3>1. work[r] \notin Undecided /\ found[r] = "none"
      BY <1>1, <2>1, <2>3 DEF ReceiptOf
    <3>2. Working(r)' = Working(r)
      BY <2>1 DEF Working
    <3> QED
      BY <1>1, <2>1, <2>3, <3>1, <3>2 DEF ReceiptOf, Undecided
  <2> QED
    BY <2>2, <2>3
<1>5. CASE \/ \E q \in Runs : \/ LeaseStep(q) \/ NoSandbox(q) \/ Collect(q)
                              \/ (Die(q) /\ UNCHANGED <<workers, chain>>)
           \/ FifteenMinutes \/ Traffic \/ UNCHANGED vars
  BY <1>2, <1>5 DEF LeaseStep, NoSandbox, Collect, FifteenMinutes, Traffic, vars, workers, chain, aim
<1> QED
  BY <1>3, <1>4, <1>5 DEF Next, Caller

\* An ok receipt for a container that never got its definition is given only for a
\* job found running whose own run has failed or is not done with it, for any
\* number of bootstraps and in every world (nosana_bootstrap.py:827-841).
THEOREM ReceiptIsExplained == Spec => []OkIsExplained
<1>1. Init => ReceiptInv
  BY DEF Init, ReceiptInv, ReceiptOf, Undecided, Receipts
<1>2. TypeOK /\ ReceiptInv /\ [Next]_vars => ReceiptInv'
  BY ReceiptKept
<1>3. ReceiptInv => OkIsExplained
  BY DEF ReceiptInv, ReceiptOf, OkIsExplained
<1> QED
  BY <1>1, <1>2, <1>3, BootstrapTyped, PTL DEF Spec

----------------------------------------------------------------------------
(***************************************************************************)
(* What LeaseGivenBack leaves to fairness: neither a run nor its worker    *)
(* starts over, so that both take a bounded number of steps.               *)
(***************************************************************************)
StagesLeft == [new |-> 7, exists |-> 6, old |-> 5, unlinked |-> 4, inside |-> 3,
               releasing |-> 2, unlinking |-> 1, over |-> 0, dead |-> 0]
WorkAhead == [idle |-> 9, discovering |-> 8, searching |-> 7, searchingBlind |-> 7,
              gating |-> 6, listing |-> 5, posting |-> 4, claiming |-> 3,
              checking |-> 2, delivering |-> 1]
WorkLeft(r) == IF work[r] \in DOMAIN WorkAhead THEN WorkAhead[work[r]] ELSE 0
StepsLeft(r) == StagesLeft[stage[r]] + WorkLeft(r)

OfRun(r) == LeaseStep(r) \/ Caller(r) \/ Worker(r) \/ (Die(r) /\ UNCHANGED <<workers, chain>>)

LEMMA StepsBound ==
  ASSUME TypeOK, NEW r \in Runs
  PROVE  /\ StagesLeft[stage[r]] \in 0 .. 7
         /\ WorkLeft(r) \in 0 .. 9
         /\ Inside(r) => StagesLeft[stage[r]] > 0
<1>1. stage[r] \in DOMAIN StagesLeft
  BY DEF TypeOK, LeaseTypeOK, Stages, StagesLeft
<1> QED
  BY <1>1 DEF StagesLeft, WorkLeft, WorkAhead, Inside

\* The lease and the caller go through their stages once.
LEMMA StageFalls ==
  ASSUME TypeOK, NEW r \in Runs,
         Acquire(r) \/ Release(r) \/ Leave(r) \/ Die(r)
  PROVE  /\ StagesLeft[stage'[r]] < StagesLeft[stage[r]]
         /\ \A q \in Runs \ {r} : stage'[q] = stage[q]
<1>1. /\ \/ stage[r] = "new" /\ stage'[r] \in {"inside", "exists"}
         \/ stage[r] = "exists" /\ stage'[r] \in {"old", "over"}
         \/ stage[r] = "old" /\ stage'[r] \in {"over", "unlinked"}
         \/ stage[r] = "unlinked" /\ stage'[r] \in {"inside", "over"}
         \/ stage[r] = "inside" /\ stage'[r] = "releasing"
         \/ stage[r] = "releasing" /\ stage'[r] \in {"unlinking", "over"}
         \/ stage[r] = "unlinking" /\ stage'[r] = "over"
         \/ (Taking(r) \/ Inside(r)) /\ stage'[r] = "dead"
      /\ \A q \in Runs \ {r} : stage'[q] = stage[q]
  BY LeaseMoves DEF TypeOK
<1> QED
  BY <1>1 DEF StagesLeft, Taking, Inside

\* The worker never goes back: it lists at most one job.
LEMMA WorkFallsOff ==
  ASSUME TypeOK, NEW r \in Runs, Worker(r) \/ StartWorker(r)
  PROVE  WorkLeft(r)' < WorkLeft(r) /\ stage' = stage
<1>1. /\ \/ work[r] = "idle" /\ work'[r] = "discovering"
         \/ work[r] = "discovering" /\ work'[r] \in {"searching", "searchingBlind", "claiming"}
         \/ work[r] \in {"searching", "searchingBlind"} /\ work'[r] \in {"claiming", "gating", "failed"}
         \/ work[r] = "gating" /\ work'[r] \in {"listing", "failed"}
         \/ work[r] = "listing" /\ work'[r] = "posting"
         \/ work[r] = "posting" /\ work'[r] \in {"claiming", "failed"}
         \/ work[r] = "claiming" /\ work'[r] \in {"checking", "delivering", "failed"}
         \/ work[r] = "checking" /\ work'[r] \in {"reconciled", "alreadyRunning", "delivering"}
         \/ work[r] = "delivering" /\ work'[r] \in {"delivered", "failed"}
         \/ Working(r) /\ work'[r] = "failed"
      /\ stage' = stage
  <2> USE DEF Goto, TypeOK, leaseVars, aim
  <2>1. CASE ReadIndex(r)
    BY <2>1 DEF ReadIndex, Recover
  <2>2. CASE Search(r)
    BY <2>2 DEF Search, Recover
  <2>3. CASE Gate(r) \/ SendList(r) \/ ListConfirmed(r) \/ ListRefused(r)
    BY <2>3 DEF Gate, SendList, ListConfirmed, ListRefused
  <2>4. CASE Claimed(r) \/ JobLost(r) \/ CheckRecovered(r) \/ Deliver(r)
    BY <2>4 DEF Claimed, JobLost, CheckRecovered, Deliver
  <2>5. CASE WorkFails(r) \/ StartWorker(r)
    BY <2>5 DEF WorkFails, StartWorker
  <2> QED
    BY <2>1, <2>2, <2>3, <2>4, <2>5 DEF Worker
<1> QED
  BY <1>1 DEF WorkLeft, WorkAhead, Working

LEMMA OwnCount ==
  ASSUME TypeOK, NEW r \in Runs, OfRun(r)
  PROVE  /\ StepsLeft(r)' < StepsLeft(r)
         /\ StepsLeft(r)' <= StepsLeft(r)
         /\ \A q \in Runs \ {r} : stage'[q] = stage[q] /\ work'[q] = work[q]
<1>1. StagesLeft[stage[r]] \in Nat /\ WorkLeft(r) \in Nat
  BY StepsBound
<1>2. CASE Worker(r) \/ StartWorker(r)
  <2>1. WorkLeft(r)' < WorkLeft(r) /\ stage' = stage
    BY <1>2, WorkFallsOff
  <2>2. WorkLeft(r)' \in Nat
    BY DEF WorkLeft, WorkAhead
  <2>3. \A q \in Runs \ {r} : work'[q] = work[q]
    BY <1>2, OthersUntouched DEF Caller
  <2> QED
    BY <1>1, <2>1, <2>2, <2>3 DEF StepsLeft
<1>3. CASE LeaseStep(r) \/ NoSandbox(r) \/ Collect(r) \/ (Die(r) /\ UNCHANGED <<workers, chain>>)
  <2>1. /\ StagesLeft[stage'[r]] < StagesLeft[stage[r]]
        /\ \A q \in Runs \ {r} : stage'[q] = stage[q]
    BY <1>3, StageFalls DEF LeaseStep, NoSandbox, Collect
  <2>2. work' = work
    BY <1>3 DEF LeaseStep, NoSandbox, Collect, workers
  <2>3. WorkLeft(r)' = WorkLeft(r)
    BY <2>2 DEF WorkLeft
  <2>4. StagesLeft[stage'[r]] \in Nat
    <3>1. TypeOK'
      BY <1>3, NextTyped DEF Next, Caller
    <3>2. stage'[r] \in DOMAIN StagesLeft
      BY <3>1 DEF TypeOK, LeaseTypeOK, Stages, StagesLeft
    <3> QED
      BY <3>2 DEF StagesLeft
  <2> QED
    BY <1>1, <2>1, <2>2, <2>3, <2>4 DEF StepsLeft
<1> QED
  BY <1>2, <1>3 DEF OfRun, Caller

\* Every step of a run, its own and its worker's, takes at least one from a number
\* that starts at sixteen, and nobody else touches it; a run that holds the lease has
\* some left.  Whatever is found, lost, refused or claimed, nothing is tried again
\* (modal-nosana-bootstrap.mjs:317-411, nosana_bootstrap.py:765-863).
THEOREM BootstrapsComeToAnEnd ==
  Spec => [][\A r \in Runs : /\ StepsLeft(r) \in 0 .. 16
                             /\ Inside(r) => StepsLeft(r) > 0
                             /\ StepsLeft(r)' <= StepsLeft(r)
                             /\ OfRun(r) => StepsLeft(r)' < StepsLeft(r)]_vars
<1> DEFINE Countdown == \A r \in Runs : /\ StepsLeft(r) \in 0 .. 16
                                        /\ Inside(r) => StepsLeft(r) > 0
                                        /\ StepsLeft(r)' <= StepsLeft(r)
                                        /\ OfRun(r) => StepsLeft(r)' < StepsLeft(r)
<1>1. ASSUME TypeOK, [Next]_vars PROVE Countdown
  <2> SUFFICES ASSUME NEW r \in Runs
               PROVE  /\ StepsLeft(r) \in 0 .. 16
                      /\ Inside(r) => StepsLeft(r) > 0
                      /\ StepsLeft(r)' <= StepsLeft(r)
                      /\ OfRun(r) => StepsLeft(r)' < StepsLeft(r)
    OBVIOUS
  <2>1. StepsLeft(r) \in 0 .. 16 /\ (Inside(r) => StepsLeft(r) > 0)
    BY <1>1, StepsBound DEF StepsLeft
  <2>2. CASE OfRun(r)
    BY <1>1, <2>1, <2>2, OwnCount
  <2>3. CASE ~OfRun(r)
    <3>1. stage'[r] = stage[r] /\ work'[r] = work[r]
      <4>1. ASSUME NEW q \in Runs, OfRun(q) PROVE stage'[r] = stage[r] /\ work'[r] = work[r]
        BY <1>1, <2>3, <4>1, OwnCount
      <4>2. ASSUME NEW j \in Runs, ListLands(j) \/ ListDrops(j) \/ Claim(j) \/ JobEnds(j)
            PROVE  stage' = stage /\ work' = work
        BY <4>2 DEF ListLands, ListDrops, Claim, JobEnds, workers, leaseVars
      <4>3. CASE FifteenMinutes \/ Traffic \/ UNCHANGED vars
        BY <4>3 DEF FifteenMinutes, LockAges, Traffic, vars, workers, leaseVars
      <4> QED
        BY <1>1, <4>1, <4>2, <4>3 DEF Next, OfRun
    <3>2. StepsLeft(r)' = StepsLeft(r)
      BY <3>1 DEF StepsLeft, WorkLeft
    <3> QED
      BY <2>1, <2>3, <3>2
  <2> QED
    BY <2>2, <2>3
<1>2. TypeOK /\ [Next]_vars => [Countdown]_vars
  BY <1>1
<1> QED
  BY <1>2, BootstrapTyped, PTL DEF Spec

=============================================================================
