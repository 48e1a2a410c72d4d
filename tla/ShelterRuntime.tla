--------------------------- MODULE ShelterRuntime ---------------------------
(***************************************************************************)
(* The renewal loop of skills/self/shelter/python/nosana_runtime.py with   *)
(* replace_shelter_once and the transactions of nosana_bootstrap.py.  A    *)
(* shelter is a container in a leased Nosana job.  Its loop reads its own  *)
(* job every 45 seconds, extends the lease by ten minutes when little is   *)
(* left and the wallet can afford it, and, once the lease is as long as it *)
(* may get, finds or lists one successor job, delivers the container's     *)
(* definition to it and records the handover when the successor answers.   *)
(* Every shelter pays from the same capped wallet.                         *)
(*                                                                         *)
(* Time is counted in units of ten minutes, DEFAULT extension and          *)
(* successor timeout; a loop makes many turns in a unit.  Jobs are slots   *)
(* that are used again once nothing refers to the old job.                 *)
(*                                                                         *)
(* A definition whose name ends in Bug is a faulty variant of the one that *)
(* follows it; no other definition uses it.                                *)
(***************************************************************************)
EXTENDS Integers, FiniteSets

CONSTANTS
  Jobs,          \* job slots
  NoJob,
  Ceiling,       \* SHELTER_LEASE_CEILING_SEC
  Margin,        \* RENEW_MARGIN_SEC and REPLACEMENT_MARGIN_SEC, whole units
  Reserve,       \* DEFAULT_NOS_MOVE_OUT_RESERVE; a unit of lease costs 1 NOS
  SolFloor,      \* DEFAULT_SOL_FEE_FLOOR; a transaction costs 1 SOL
  NosCap, SolCap, \* what the refill pass tops the wallet up to
  RefillPeriod,  \* units between two refill passes
  Weathers       \* what may go wrong, see below

(***************************************************************************)
(* "calm": every request is answered, and a loop has nothing left to do    *)
(* when a unit of time has passed.  "flaky": any request may fail or show  *)
(* the job as it was before its last extension and containers may crash,   *)
(* but a list transaction's outcome is learnt and a job is claimed within  *)
(* the three minutes the lister waits.  "harsh": neither is certain.       *)
(***************************************************************************)
ASSUME ParametersAssumption ==
  /\ IsFiniteSet(Jobs) /\ NoJob \notin Jobs
  /\ Ceiling \in Nat /\ Margin \in Nat \ {0} /\ Margin < Ceiling /\ Reserve \in Nat
  /\ SolFloor \in Nat \ {0} /\ NosCap \in Nat /\ SolCap \in Nat
  /\ RefillPeriod \in Nat \ {0}
  /\ Weathers \subseteq {"calm", "flaky", "harsh"}

VARIABLES
  pc,      \* the loop of each job's container, "off" where none runs
  seen,    \* seen[j]: the timeout the loop read for its own job
  target,  \* target[j]: the successor it is working on
  done,    \* done[j]: replacement_completed
  state,   \* state of each job on chain
  age,     \* time since it was claimed
  length,  \* its timeout
  ext,     \* ext[j]: timeouts of the extensions in flight
  nos, sol, \* the capped wallet
  due,     \* units until the next refill pass
  weather,
  short,   \* history: in a calm a loop could not pay for what it had to do
  orphans  \* history: jobs whose lister gave up before they were claimed

loop == <<pc, seen, target, done>>
leases == <<state, age, length, ext>>
wallet == <<nos, sol>>
past == <<short, orphans>>
vars == <<loop, leases, wallet, due, past, weather>>

----------------------------------------------------------------------------
Turning == {"affording", "extending", "confirming", "replacing",
            "gating", "listing", "posting", "claiming", "checking",
            "delivering", "verifying"}
Alive(j) == pc[j] # "off"
Active(j) == state[j] \in {"queued", "running"}
Calm == weather = "calm"
Harsh == weather = "harsh"

Left(j, timeout) == timeout - age[j]
Free(s) ==
  /\ state[s] = "none" /\ pc[s] = "off" /\ ext[s] = {}
  /\ \A j \in Jobs : target[j] # s

Goto(j, to) == pc' = [pc EXCEPT ![j] = to]

\* A lister waits for the outcome of its transaction, then for a node.
Awaits(j, s) == pc[j] \in {"posting", "claiming"} /\ target[j] = s

\* The turn ends and the loop sleeps; an exception is caught and ends it too.
Sleep(j) ==
  /\ Goto(j, "asleep")
  /\ seen' = [seen EXCEPT ![j] = 0]
  /\ target' = [target EXCEPT ![j] = NoJob]

\* Compares what the wallet holds before the extension with the reserve.
AffordsExtensionBug == sol >= SolFloor /\ nos >= Reserve
AffordsExtension == sol >= SolFloor /\ nos - 1 >= Reserve

\* evaluate_post_gate with nos_reserve = 0.
AffordsSuccessor == sol >= SolFloor /\ nos >= 1

\* The margin itself excluded.
ShouldReplaceBug(j, timeout) ==
  timeout >= Ceiling /\ Left(j, timeout) \in 1 .. (Margin - 1)

\* should_attempt_replacement: the timeout was read at the start of the turn,
\* the time is the present one.
ShouldReplace(j, timeout) ==
  /\ timeout >= Ceiling
  /\ Left(j, timeout) \in 1 .. Margin

ShouldExtend(j, timeout) == timeout < Ceiling /\ Left(j, timeout) <= Margin

----------------------------------------------------------------------------
\* The bootstrap has posted one job, for which it demanded the reserve on top of the
\* price and the fee floor, and delivered its container; the refill pass has a clock
\* of its own.
Init ==
  /\ \E first \in Jobs :
       /\ pc = [j \in Jobs |-> IF j = first THEN "asleep" ELSE "off"]
       /\ state = [j \in Jobs |-> IF j = first THEN "running" ELSE "none"]
       /\ length = [j \in Jobs |-> IF j = first THEN 1 ELSE 0]
  /\ seen = [j \in Jobs |-> 0]
  /\ target = [j \in Jobs |-> NoJob]
  /\ done = [j \in Jobs |-> FALSE]
  /\ age = [j \in Jobs |-> 0]
  /\ ext = [j \in Jobs |-> {}]
  /\ nos \in Reserve .. NosCap
  /\ sol \in (SolFloor - 1) .. SolCap
  /\ due \in 1 .. RefillPeriod
  /\ weather \in Weathers
  /\ short = FALSE
  /\ orphans = {}

(***************************************************************************)
(* One turn of renewal_loop: read the own job, extend, replace.            *)
(***************************************************************************)
\* The index may not show the last extension yet.
Shown(j) == IF Calm THEN {length[j]} ELSE {length[j], length[j] - 1} \ {0}

\* A job without a timeout has the timeout -1.
ReadOwnJobBug(j) ==
  /\ pc[j] = "asleep"
  /\ seen' = [seen EXCEPT ![j] = -1]
  /\ Goto(j, "affording")
  /\ UNCHANGED <<target, done, leases, wallet, due, past, weather>>

ReadOwnJob(j) ==
  /\ pc[j] = "asleep"
  /\ seen' \in {[seen EXCEPT ![j] = t] : t \in Shown(j)}
  /\ Goto(j, IF ShouldExtend(j, seen'[j]) THEN "affording" ELSE "replacing")
  /\ UNCHANGED <<target, done, leases, wallet, due, past, weather>>

ReadWallet(j) ==
  /\ pc[j] = "affording"
  /\ Goto(j, IF AffordsExtension THEN "extending" ELSE "replacing")
  /\ UNCHANGED <<seen, target, done, leases, wallet, due, past, weather>>

\* Adds to what the lease is when the transaction lands.
ExtensionBug(j) == length[j] + 1
\* The transaction carries the new timeout, not the time to add.
Extension(j) == seen[j] + 1

\* The node may have accepted the transaction although the call throws.
SendExtension(j) ==
  /\ pc[j] = "extending"
  /\ ext' = [ext EXCEPT ![j] = @ \cup {Extension(j)}]
  /\ Goto(j, "confirming")
  /\ UNCHANGED <<seen, target, done, state, age, length, wallet, due, past, weather>>

ExtensionConfirmed(j) ==
  /\ pc[j] = "confirming"
  /\ Extension(j) \notin ext[j] /\ length[j] >= Extension(j)
  /\ Goto(j, "replacing")
  /\ UNCHANGED <<seen, target, done, leases, wallet, due, past, weather>>

ExtensionRefused(j) ==
  /\ pc[j] = "confirming"
  /\ Extension(j) \notin ext[j]
  /\ Sleep(j)
  /\ UNCHANGED <<done, leases, wallet, due, past, weather>>

\* Done already, or not due; otherwise the payer's jobs are read.
SkipReplacement(j) ==
  /\ pc[j] = "replacing"
  /\ done[j] \/ ~ShouldReplace(j, seen[j])
  /\ Sleep(j)
  /\ UNCHANGED <<done, leases, wallet, due, past, weather>>

----------------------------------------------------------------------------
(***************************************************************************)
(* replace_shelter_once.  The payer's index lists the running jobs; one    *)
(* that is still queued may be missing.                                    *)
(***************************************************************************)
Indexed(queued) == {j \in Jobs : state[j] = "running" \/ j \in queued}

\* Never finds the successor it listed.
SuccessorsBug(j, listed) == {}
Successors(j, listed) == listed \ {j}

\* A successor that is not newer than the job, as a queued one's missing start
\* makes it look, and a second one are refused.
Acceptable(j, s) == state[s] = "running" /\ age[s] < age[j]

ReadIndex(j) ==
  /\ pc[j] = "replacing"
  /\ ~done[j] /\ ShouldReplace(j, seen[j])
  /\ \E queued \in SUBSET {s \in Jobs : state[s] = "queued"} :
       LET found == Successors(j, Indexed(queued))
       IN  \/ found = {} /\ Goto(j, "gating") /\ UNCHANGED <<seen, target>>
           \/ \E s \in found :
                /\ found = {s} /\ Acceptable(j, s)
                /\ target' = [target EXCEPT ![j] = s]
                /\ Goto(j, "checking")
                /\ UNCHANGED seen
           \/ /\ found # {} /\ ~ \E s \in found : found = {s} /\ Acceptable(j, s)
              /\ Sleep(j)
  /\ UNCHANGED <<done, leases, wallet, due, past, weather>>

GateSuccessor(j) ==
  /\ pc[j] = "gating"
  /\ IF AffordsSuccessor
     THEN Goto(j, "listing") /\ UNCHANGED <<seen, target>>
     ELSE Sleep(j)
  /\ UNCHANGED <<done, leases, wallet, due, past, weather>>

\* One list transaction per turn, signed and sent once.
SendList(j) ==
  /\ pc[j] = "listing"
  /\ \E s \in {f \in Jobs : Free(f)} :
       /\ state' = [state EXCEPT ![s] = "sent"]
       /\ target' = [target EXCEPT ![j] = s]
  /\ Goto(j, "posting")
  /\ UNCHANGED <<seen, done, age, length, ext, wallet, due, past, weather>>

ListConfirmed(j) ==
  /\ pc[j] = "posting"
  /\ Active(target[j])
  /\ Goto(j, "claiming")
  /\ UNCHANGED <<seen, target, done, leases, wallet, due, past, weather>>

ListRefused(j) ==
  /\ pc[j] = "posting"
  /\ state[target[j]] = "none"
  /\ Sleep(j)
  /\ UNCHANGED <<done, leases, wallet, due, past, weather>>

Claimed(j) ==
  /\ pc[j] = "claiming"
  /\ state[target[j]] = "running"
  /\ Goto(j, "delivering")
  /\ UNCHANGED <<seen, target, done, leases, wallet, due, past, weather>>

\* The successor ended before it was claimed, or before this loop saw it.
ClaimLost(j) ==
  /\ pc[j] \in {"claiming", "checking"}
  /\ state[target[j]] = "none"
  /\ Sleep(j)
  /\ UNCHANGED <<done, leases, wallet, due, past, weather>>

\* A recovered successor that already answers is not delivered to again.
CheckRecovered(j) ==
  /\ pc[j] = "checking"
  /\ state[target[j]] = "running"
  /\ IF Alive(target[j])
     THEN \/ Sleep(j) /\ done' = [done EXCEPT ![j] = TRUE]
          \/ ~Calm /\ Goto(j, "delivering") /\ UNCHANGED <<seen, target, done>>
     ELSE Goto(j, "delivering") /\ UNCHANGED <<seen, target, done>>
  /\ UNCHANGED <<leases, wallet, due, past, weather>>

\* The node takes the definition, binds it to the job and starts the container;
\* a container that runs already stays.
Deliver(j) ==
  /\ pc[j] = "delivering"
  /\ LET s == target[j]
     IN  /\ state[s] = "running"
         /\ pc' = [pc EXCEPT ![s] = IF Alive(s) THEN @ ELSE "asleep",
                             ![j] = "verifying"]
  /\ UNCHANGED <<seen, target, done, leases, wallet, due, past, weather>>

\* The handover is recorded when the successor's signed heartbeat was read.
HandOver(j) ==
  /\ pc[j] = "verifying"
  /\ Alive(target[j])
  /\ Sleep(j)
  /\ done' = [done EXCEPT ![j] = TRUE]
  /\ UNCHANGED <<leases, wallet, due, past, weather>>

SuccessorGone(j) ==
  /\ pc[j] \in {"delivering", "verifying"}
  /\ ~Alive(target[j]) /\ (pc[j] = "verifying" \/ state[target[j]] = "none")
  /\ Sleep(j)
  /\ UNCHANGED <<done, leases, wallet, due, past, weather>>

\* A request fails or is answered too late, and the turn is over.
TurnFails(j) ==
  /\ ~Calm
  /\ pc[j] \in Turning
  /\ Harsh \/ pc[j] \notin {"posting", "claiming"}
  /\ Sleep(j)
  /\ orphans' = orphans \cup {s \in Jobs : Awaits(j, s) /\ state[s] \in {"sent", "queued"}}
  /\ UNCHANGED <<done, leases, wallet, due, short, weather>>

----------------------------------------------------------------------------
(***************************************************************************)
(* Nosana, Solana, time and the refill pass.                               *)
(***************************************************************************)
\* The jobs program accepts a timeout above the present one.
ExtensionLands(j, t) ==
  /\ t \in ext[j] /\ state[j] = "running" /\ t > length[j]
  /\ nos >= t - length[j] /\ sol >= 1
  /\ nos' = nos - (t - length[j])
  /\ sol' = sol - 1
  /\ length' = [length EXCEPT ![j] = t]
  /\ ext' = [ext EXCEPT ![j] = @ \ {t}]
  /\ UNCHANGED <<loop, state, age, due, past, weather>>

ExtensionDrops(j, t) ==
  /\ t \in ext[j]
  /\ ~Calm \/ state[j] # "running" \/ t <= length[j] \/ nos = 0 \/ sol = 0
  /\ ext' = [ext EXCEPT ![j] = @ \ {t}]
  /\ UNCHANGED <<loop, state, age, length, wallet, due, past, weather>>

ListLands(s) ==
  /\ state[s] = "sent"
  /\ nos >= 1 /\ sol >= 1
  /\ nos' = nos - 1
  /\ sol' = sol - 1
  /\ state' = [state EXCEPT ![s] = "queued"]
  /\ UNCHANGED <<loop, age, length, ext, due, past, weather>>

ListDrops(s) ==
  /\ state[s] = "sent"
  /\ ~Calm \/ nos = 0 \/ sol = 0
  /\ state' = [state EXCEPT ![s] = "none"]
  /\ orphans' = orphans \ {s}
  /\ UNCHANGED <<loop, age, length, ext, wallet, due, short, weather>>

Claim(s) ==
  /\ state[s] = "queued"
  /\ state' = [state EXCEPT ![s] = "running"]
  /\ age' = [age EXCEPT ![s] = 0]
  /\ length' = [length EXCEPT ![s] = 1]
  /\ UNCHANGED <<loop, ext, wallet, due, past, weather>>

Stopped(js) ==
  /\ pc' = [j \in Jobs |-> IF j \in js THEN "off" ELSE pc[j]]
  /\ seen' = [j \in Jobs |-> IF j \in js THEN 0 ELSE seen[j]]
  /\ target' = [j \in Jobs |-> IF j \in js THEN NoJob ELSE target[j]]
  /\ done' = [j \in Jobs |-> IF j \in js THEN FALSE ELSE done[j]]
  /\ state' = [j \in Jobs |-> IF j \in js THEN "none" ELSE state[j]]
  /\ length' = [j \in Jobs |-> IF j \in js THEN 0 ELSE length[j]]
  /\ orphans' = orphans \ js

\* A container exits, and its job is over.
ContainerExits(j) ==
  /\ ~Calm /\ Alive(j)
  /\ Stopped({j})
  /\ age' = [age EXCEPT ![j] = 0]
  /\ UNCHANGED <<ext, wallet, due, short, weather>>

MustExtend(j) == Alive(j) /\ ShouldExtend(j, length[j])
MustMove(j) == Alive(j) /\ ShouldReplace(j, length[j]) /\ ~done[j]

\* The loop has something to pay for and the wallet does not allow it.
Lacks(j) ==
  \/ MustExtend(j) /\ ~AffordsExtension
  \/ MustMove(j) /\ ~AffordsSuccessor

Rested ==
  /\ \A j \in Jobs : /\ pc[j] \in {"off", "asleep"}
                     /\ MustExtend(j) => ~AffordsExtension
                     /\ MustMove(j) => ~AffordsSuccessor
  /\ \A j \in Jobs : state[j] \notin {"sent", "queued"} /\ ext[j] = {}

\* Ten minutes pass; a lease that is used up ends with its container, and every
\* RefillPeriod a refill pass brings the wallet back to its caps.
Tick ==
  /\ Calm => Rested
  /\ LET over == {j \in Jobs : state[j] = "running" /\ age[j] + 1 >= length[j]}
     IN  /\ Stopped(over)
         /\ age' = [j \in Jobs |-> IF state[j] = "running" /\ j \notin over
                                   THEN age[j] + 1 ELSE 0]
  /\ IF due = 1
     THEN /\ due' = RefillPeriod
          /\ nos' = IF nos < NosCap THEN NosCap ELSE nos
          /\ sol' = IF sol < SolCap THEN SolCap ELSE sol
     ELSE due' = due - 1 /\ UNCHANGED wallet
  /\ short' = (short \/ (Calm /\ \E j \in Jobs : Lacks(j)))
  /\ UNCHANGED <<ext, weather>>

----------------------------------------------------------------------------
Turn(j) ==
  \/ ReadOwnJob(j) \/ ReadWallet(j) \/ SendExtension(j)
  \/ ExtensionConfirmed(j) \/ ExtensionRefused(j) \/ SkipReplacement(j)
  \/ ReadIndex(j) \/ GateSuccessor(j) \/ SendList(j)
  \/ ListConfirmed(j) \/ ListRefused(j) \/ Claimed(j) \/ ClaimLost(j)
  \/ CheckRecovered(j) \/ Deliver(j) \/ HandOver(j) \/ SuccessorGone(j)
  \/ TurnFails(j)

Chain(j) ==
  \/ \E t \in ext[j] : ExtensionLands(j, t) \/ ExtensionDrops(j, t)
  \/ ListLands(j) \/ ListDrops(j) \/ Claim(j)

Next == (\E j \in Jobs : Turn(j) \/ Chain(j) \/ ContainerExits(j)) \/ Tick

Spec == Init /\ [][Next]_vars

----------------------------------------------------------------------------
(***************************************************************************)
(* Properties.                                                             *)
(***************************************************************************)
TypeOK ==
  /\ pc \in [Jobs -> {"off", "asleep"} \cup Turning]
  /\ seen \in [Jobs -> Nat]
  /\ target \in [Jobs -> Jobs \cup {NoJob}]
  /\ done \in [Jobs -> BOOLEAN]
  /\ state \in [Jobs -> {"none", "sent", "queued", "running"}]
  /\ age \in [Jobs -> Nat]
  /\ length \in [Jobs -> Nat]
  /\ ext \in [Jobs -> SUBSET Nat]
  /\ nos \in Nat
  /\ sol \in Nat
  /\ due \in 1 .. RefillPeriod
  /\ weather \in Weathers
  /\ short \in BOOLEAN
  /\ orphans \subseteq {s \in Jobs : state[s] # "none"}

\* No lease grows past the ceiling, although the index shows it shorter than it
\* is and extensions whose outcome was lost are sent again and land late
\* (nosana_runtime.py:71, :380, :396).
CeilingKept == \A j \in Jobs : length[j] <= Ceiling

\* Where a lister waits until its job is claimed, what a loop read in the wallet
\* several awaits earlier still holds when its transaction lands, an unknown one
\* sent again included: an extension leaves the price of moving out, and nothing is
\* paid for under the fee floor (nosana_runtime.py:378-390, renew.mjs:20-23,
\* nosana_bootstrap.py:298).
ReserveKept ==
  [][~Harsh =>
       /\ \A j \in Jobs : length'[j] > length[j] /\ state[j] = "running" => nos' >= Reserve
       /\ sol' < sol => sol >= SolFloor]_vars

\* At most the shelter and one successor hold a lease (nosana_bootstrap.py:233),
\* through hidden queued jobs, failed turns and crashes, save for the jobs whose
\* lister gave up before a node claimed them: nothing that is read then shows them,
\* and each time it happens may cost one lease more (nosana_bootstrap.py:573, :740).
TwoJobCap == Cardinality({j \in Jobs : Active(j)} \ orphans) <= 2

\* When nothing fails, only an empty wallet makes the program homeless: as long as
\* every loop that had to extend or to move could pay when it looked, some container
\* runs, through every handover and every pace of refills (nosana_runtime.py:66-74,
\* :363-437).
StayHoused == Calm /\ ~short => \E j \in Jobs : Alive(j)

\* renew.mjs:20-23, "one that stops early can still relocate", and
\* nosana_runtime.py:198-200, which saves the reserve for this move: when nothing
\* fails, the last shelter does not lapse while the wallet holds the price of the
\* next one.  The code looks for a successor at the ceiling only (:70-74).
MoveOutKept ==
  [][Calm /\ (\E j \in Jobs : Alive(j)) /\ (\A j \in Jobs : ~Alive(j)') => ~AffordsSuccessor]_vars

=============================================================================
