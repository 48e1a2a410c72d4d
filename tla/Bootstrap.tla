------------------------------ MODULE Bootstrap ------------------------------
(***************************************************************************)
(* The first job of a shelter: bootstrapNosanaFromModal of                 *)
(* modal-nosana-bootstrap.mjs, which takes the writer lease, rents a       *)
(* sandbox, starts a worker in it and collects its receipt a while later;  *)
(* and the worker, bootstrap_once of nosana_bootstrap.py, which recovers   *)
(* the payer's job or lists one, waits until a node has claimed it and     *)
(* delivers the container's definition to that node.                       *)
(*                                                                         *)
(* A run lists one job at most, so that Runs also names jobs.              *)
(***************************************************************************)
EXTENDS WriterLease

CONSTANTS
  Reserve,      \* DEFAULT_NOS_MOVE_OUT_RESERVE; a job's escrow is 1 NOS
  SolFloor,     \* DEFAULT_SOL_FEE_FLOOR; a transaction costs 1 SOL
  Wallets       \* the pairs of NOS and SOL the capped wallet may start with

(***************************************************************************)
(* "index": the payer's job index may be unreadable.  "search": reads of   *)
(* the payer's recent transactions may fail.  "traffic": the payer has     *)
(* other transactions, so that a job's may not be among the last ten.      *)
(* "queue": a job may be queued for longer than its lister waits.          *)
(* "outage": any request of a worker may fail, and its sandbox may end.    *)
(* "parting": a request of the caller may fail, or its one look for the    *)
(* receipt may come too early.                                             *)
(***************************************************************************)
ASSUME WalletAssumption ==
  Reserve \in Nat /\ SolFloor \in Nat \ {0} /\ Wallets \subseteq Nat \X Nat

VARIABLES
  work,    \* the worker of each run, "idle" before it is started
  target,  \* the job it works on
  found,   \* the state a recovered job was found in, "none" for a listed one
  job,     \* job[r]: the job run r has listed, on chain
  served,  \* served[r]: its node has got the definition
  buried,  \* jobs whose list transaction is not among the payer's last ten
  nos, sol, \* the capped wallet
  slip     \* history: what first upset the order of one job at a time

aim == <<target, found>>
workers == <<work, aim, slip>>
chain == <<job, served, buried, nos, sol>>
vars == <<leaseVars, workers, chain>>

\* The deliveries safeBootstrapReceipt accepts.
Receipts == {"delivered", "reconciled", "alreadyRunning"}
Working(r) == work[r] \in {"discovering", "searching", "searchingBlind", "gating",
                           "listing", "posting", "claiming", "checking", "delivering"}
\* The places at which a worker may still list a job.
Listing(r) == work[r] \in {"discovering", "searching", "searchingBlind", "gating",
                           "listing", "posting"}
Active(j) == job[j] \in {"queued", "running"}

(***************************************************************************)
(* "left": a caller gave up on a worker that went on to list a job.        *)
(* "late": a lock got old before the worker of its run had listed.         *)
(* "unlearnt": a worker failed while its list transaction was under way.   *)
(* "missed": a search did not show a job that was there.                   *)
(***************************************************************************)
Slips == {"left", "late", "unlearnt", "missed"}
SlipIf(happens, what) == slip' = IF happens /\ slip = "none" THEN what ELSE slip

\* Nobody waits as long as a job may queue.
QueuedTooLong(r) == Under("queue") /\ work[r] = "claiming"

Goto(r, to) == work' = [work EXCEPT ![r] = to]

Init ==
  /\ LeaseInit
  /\ work = [r \in Runs |-> "idle"]
  /\ target = [r \in Runs |-> NoRun]
  /\ found = [r \in Runs |-> "none"]
  /\ job = [r \in Runs |-> "none"]
  /\ served = [r \in Runs |-> FALSE]
  /\ buried = {}
  /\ \E wallet \in Wallets : nos = wallet[1] /\ sol = wallet[2]
  /\ slip = "none"

(***************************************************************************)
(* The caller.                                                             *)
(***************************************************************************)
\* Three requests: create the sandbox, make its key, start the worker.
StartWorker(r) ==
  /\ stage[r] = "inside" /\ work[r] = "idle"
  /\ Goto(r, "discovering")
  /\ UNCHANGED <<leaseVars, aim, slip, chain>>

NoSandbox(r) ==
  /\ Under("parting")
  /\ work[r] = "idle"
  /\ Leave(r)
  /\ UNCHANGED <<workers, chain>>

\* Reads the receipt once, two and a half minutes after the start; without one
\* the call fails and the worker goes on by itself.
Collect(r) ==
  /\ work[r] # "idle"
  /\ ~Working(r) \/ QueuedTooLong(r) \/ Under("parting")
  /\ Leave(r)
  /\ SlipIf(Listing(r), "left")
  /\ UNCHANGED <<work, aim, chain>>

----------------------------------------------------------------------------
(***************************************************************************)
(* The worker.  discover_active_job reads the payer's index, which may     *)
(* hide queued jobs, then the payer's recent transactions.                 *)
(***************************************************************************)
\* Keeps that the job was recovered, and not its state.
RecoverBug(r, shown) ==
  \E j \in shown :
    /\ target' = [target EXCEPT ![r] = j]
    /\ found' = [found EXCEPT ![r] = "recovered"]
    /\ Goto(r, "claiming")

\* select_active_job: of several the newest, and a queued one has no start time.
Recover(r, shown) ==
  \E j \in shown :
    /\ job[j] = "running" \/ \A k \in shown : job[k] = "queued"
    /\ target' = [target EXCEPT ![r] = j]
    /\ found' = [found EXCEPT ![r] = job[j]]
    /\ Goto(r, "claiming")

ReadIndex(r) ==
  /\ work[r] = "discovering"
  /\ \/ Under("index") /\ Goto(r, "searchingBlind") /\ UNCHANGED aim
     \/ \E queued \in SUBSET {j \in Runs : job[j] = "queued"} :
          LET shown == {j \in Runs : job[j] = "running"} \cup queued
          IN  IF shown = {}
              THEN Goto(r, "searching") /\ UNCHANGED aim
              ELSE Recover(r, shown)
  /\ UNCHANGED <<leaseVars, slip, chain>>

\* Nothing found counts as no job, and what is found is not looked at.
SearchBug(r) ==
  /\ work[r] \in {"searching", "searchingBlind"}
  /\ Goto(r, "gating")
  /\ UNCHANGED <<leaseVars, aim, slip, chain>>

\* Of the payer's last ten transactions, those that can be read; a failure of
\* either request counts as nothing found, and only an unreadable index makes an
\* empty result an error.
Search(r) ==
  /\ work[r] \in {"searching", "searchingBlind"}
  /\ LET recent == {j \in Runs : Active(j)} \ buried
     IN  \E shown \in IF Under("search") THEN SUBSET recent ELSE {recent} :
           IF shown # {} THEN Recover(r, shown) /\ UNCHANGED slip
           ELSE /\ Goto(r, IF work[r] = "searching" THEN "gating" ELSE "failed")
                /\ SlipIf(work[r] = "searching" /\ \E j \in Runs : Active(j), "missed")
                /\ UNCHANGED aim
  /\ UNCHANGED <<leaseVars, chain>>

AffordsJob == sol >= SolFloor /\ nos >= Reserve + 1

Gate(r) ==
  /\ work[r] = "gating"
  /\ Goto(r, IF AffordsJob THEN "listing" ELSE "failed")
  /\ UNCHANGED <<leaseVars, aim, slip, chain>>

\* Signed and sent once; the call may throw although the node accepted it.
SendList(r) ==
  /\ work[r] = "listing"
  /\ job' = [job EXCEPT ![r] = "sent"]
  /\ target' = [target EXCEPT ![r] = r]
  /\ Goto(r, "posting")
  /\ UNCHANGED <<leaseVars, found, slip, served, buried, nos, sol>>

ListConfirmed(r) ==
  /\ work[r] = "posting"
  /\ job[r] \in {"queued", "running", "ended"}
  /\ Goto(r, "claiming")
  /\ UNCHANGED <<leaseVars, aim, slip, chain>>

ListRefused(r) ==
  /\ work[r] = "posting"
  /\ job[r] = "none"
  /\ Goto(r, "failed")
  /\ UNCHANGED <<leaseVars, aim, slip, chain>>

Claimed(r) ==
  /\ work[r] = "claiming"
  /\ job[target[r]] = "running"
  /\ Goto(r, IF found[r] = "none" THEN "delivering" ELSE "checking")
  /\ UNCHANGED <<leaseVars, aim, slip, chain>>

\* The job is over before the worker could deliver.
JobLost(r) ==
  /\ work[r] \in {"claiming", "delivering"}
  /\ job[target[r]] = "ended"
  /\ Goto(r, "failed")
  /\ UNCHANGED <<leaseVars, aim, slip, chain>>

\* reconcile_running_service: only a container that was delivered can answer.
MayAnswer(j) == served[j]

\* Takes any recovered job for one that was running.
CheckRecoveredBug(r) ==
  /\ work[r] = "checking"
  /\ \/ MayAnswer(target[r]) /\ Goto(r, "reconciled")
     \/ Goto(r, "alreadyRunning")
  /\ UNCHANGED <<leaseVars, aim, slip, chain>>

\* A recovered job that answers needs no delivery.  One that does not answer, not
\* yet perhaps, gets one unless it was running when it was found.
CheckRecovered(r) ==
  /\ work[r] = "checking"
  /\ \/ MayAnswer(target[r]) /\ Goto(r, "reconciled")
     \/ Goto(r, IF found[r] = "running" THEN "alreadyRunning" ELSE "delivering")
  /\ UNCHANGED <<leaseVars, aim, slip, chain>>

\* The node's answer may be lost.
Deliver(r) ==
  /\ work[r] = "delivering"
  /\ job[target[r]] = "running"
  /\ served' = [served EXCEPT ![target[r]] = TRUE]
  /\ Goto(r, "delivered") \/ (Under("outage") /\ Goto(r, "failed"))
  /\ UNCHANGED <<leaseVars, aim, slip, job, buried, nos, sol>>

\* A request fails, a poll gives up, or the sandbox ends.
WorkFails(r) ==
  /\ Working(r)
  /\ Under("outage") \/ QueuedTooLong(r)
  /\ Goto(r, "failed")
  /\ SlipIf(work[r] = "posting" /\ job[r] = "sent", "unlearnt")
  /\ UNCHANGED <<leaseVars, aim, chain>>

----------------------------------------------------------------------------
(***************************************************************************)
(* Nosana, Solana and time.                                                *)
(***************************************************************************)
ListLands(j) ==
  /\ job[j] = "sent"
  /\ nos >= 1 /\ sol >= 1
  /\ job' = [job EXCEPT ![j] = "queued"]
  /\ nos' = nos - 1
  /\ sol' = sol - 1
  /\ UNCHANGED <<leaseVars, workers, served, buried>>

ListDrops(j) ==
  /\ job[j] = "sent"
  /\ job' = [job EXCEPT ![j] = "none"]
  /\ UNCHANGED <<leaseVars, workers, served, buried, nos, sol>>

Claim(j) ==
  /\ job[j] = "queued"
  /\ job' = [job EXCEPT ![j] = "running"]
  /\ UNCHANGED <<leaseVars, workers, served, buried, nos, sol>>

\* The lease is used up, or its node waited too long for the definition.
JobEnds(j) ==
  /\ job[j] = "running"
  /\ job' = [job EXCEPT ![j] = "ended"]
  /\ UNCHANGED <<leaseVars, workers, served, buried, nos, sol>>

\* Ten transactions of the payer: extensions, top-ups, other tokens.
Traffic ==
  /\ Under("traffic")
  /\ ~({j \in Runs : Active(j)} \subseteq buried)
  /\ buried' = buried \cup {j \in Runs : Active(j)}
  /\ UNCHANGED <<leaseVars, workers, job, served, nos, sol>>

FifteenMinutes ==
  /\ LockAges
  /\ SlipIf(\E r \in Runs : r = lock /\ Listing(r), "late")
  /\ UNCHANGED <<work, aim, chain>>

----------------------------------------------------------------------------
LeaseStep(r) == (Acquire(r) \/ Release(r)) /\ UNCHANGED <<workers, chain>>

Caller(r) == StartWorker(r) \/ NoSandbox(r) \/ Collect(r)

Worker(r) ==
  \/ ReadIndex(r) \/ Search(r) \/ Gate(r) \/ SendList(r) \/ ListConfirmed(r)
  \/ ListRefused(r) \/ Claimed(r) \/ JobLost(r) \/ CheckRecovered(r)
  \/ Deliver(r) \/ WorkFails(r)

Next ==
  \/ \E r \in Runs :
       \/ LeaseStep(r) \/ Caller(r) \/ Worker(r)
       \/ Die(r) /\ UNCHANGED <<workers, chain>>
  \/ \E j \in Runs : ListLands(j) \/ ListDrops(j) \/ Claim(j) \/ JobEnds(j)
  \/ FifteenMinutes \/ Traffic

Spec == Init /\ [][Next]_vars

\* Every await of the caller returns or throws, the worker polls a bounded number
\* of times and a transaction expires.  That a node claims a queued job is
\* assumed only where jobs do not queue for long.  As nobody starts over, one
\* condition for all that can go on is as strong as one for each.
GoesOn ==
  \E r \in Runs :
    \/ stage[r] # "new" /\ (LeaseStep(r) \/ Caller(r))
    \/ Worker(r)
    \/ ListLands(r) \/ ListDrops(r)
    \/ ~Under("queue") /\ Claim(r)

FairSpec == Spec /\ WF_vars(GoesOn)

----------------------------------------------------------------------------
(***************************************************************************)
(* Properties.                                                             *)
(***************************************************************************)
TypeOK ==
  /\ LeaseTypeOK
  /\ work \in [Runs -> Receipts \cup
       {"idle", "discovering", "searching", "searchingBlind", "gating", "listing",
        "posting", "claiming", "checking", "delivering", "failed"}]
  /\ target \in [Runs -> Runs \cup {NoRun}]
  /\ found \in [Runs -> {"none", "queued", "running"}]
  /\ job \in [Runs -> {"none", "sent", "queued", "running", "ended"}]
  /\ served \in [Runs -> BOOLEAN]
  /\ buried \subseteq Runs
  /\ nos \in Nat /\ sol \in Nat
  /\ slip \in Slips \cup {"none"}

\* The ways in which the lease and the discovery together can fail.
Crowded == outlived \/ Raced \/ slip # "none"

\* Two jobs are paid at once only after a run outlived its lock or raced for an old
\* one, a worker listed without its caller, or a search missed the job: bootstraps
\* that follow each other, die, find the index down or leave a job in the queue do
\* not (specs/00-SHELTER-INDEPENDENCE.md:268-269, nosana_bootstrap.py:650-711).
SingleJob == (\E j, k \in Runs : j # k /\ Active(j) /\ Active(k)) => Crowded

\* An ok receipt for a container that never got its definition is given only for a
\* job found running, and only because the run that listed it has failed or is
\* not done with it (nosana_bootstrap.py:827-841).
OkIsExplained ==
  \A r \in Runs : work[r] \in Receipts /\ ~served[target[r]] =>
    /\ work[r] = "alreadyRunning" /\ found[r] = "running"
    /\ target[r] # r /\ (work[target[r]] = "failed" \/ Working(target[r]))

\* A run gives the lease back, whatever becomes of its worker and its job, or it
\* has died or lost the lease to another (modal-nosana-bootstrap.mjs:407-409).
LeaseGivenBack ==
  \A r \in Runs : (lock = r) ~> (lock # r \/ stage[r] = "dead")

=============================================================================
