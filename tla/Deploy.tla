------------------------------- MODULE Deploy -------------------------------
(***************************************************************************)
(* deployNosanaJob of skills/self/shelter/nosana/deploy.mjs, behind        *)
(* bin/citizen-up: price the market, read the balances, pass the spend     *)
(* gate, append an intent row, have the CLI validate and post the job, ask *)
(* the public jobs API which job that was, append a posted row and then a  *)
(* cost row.  The output of the CLI is never believed: the newest job of   *)
(* the wallet that started no earlier than five seconds before the run is  *)
(* taken for the one posted, or none is, and then the outcome is unknown.  *)
(*                                                                         *)
(* A run is one invocation, started by hand, and may die between any two   *)
(* steps.  A job is named by the run that posted it.  The API lists a job  *)
(* only once a node has claimed it, and the list may lag behind.  Runs are *)
(* either spaced (one at a time, and more than the five seconds apart) or  *)
(* crowded, fixed for a behaviour in `spaced'.  All runs pay from one      *)
(* wallet on one market.                                                   *)
(*                                                                         *)
(* A definition whose name ends in Bug is a faulty variant of the one that *)
(* follows it; no other definition uses it.                                *)
(***************************************************************************)
EXTENDS SpendGate, CostLedger, FiniteSets

CONSTANTS
  Runs,            \* invocations of citizen-up --live
  NoJob,           \* no job address
  Costs,           \* what a lease may cost, by the market of the day
  MaxSpendUsd,     \* NOSANA_MAX_SPEND_USD, the only cap a deployment sets
  Slack,           \* the five seconds of afterTs
  Pacings,         \* the values `spaced' may have
  MaxTime,         \* bound on the clock when runs keep their distance
  MaxCrowdedTime,  \* bound on the clock when they do not
  MaxCorrections   \* bound on the corrections made by hand

ASSUME ParametersAssumption ==
  /\ NoJob \notin Runs
  /\ Costs \subseteq Nat /\ MaxSpendUsd \in Nat
  /\ Slack \in Nat /\ MaxTime \in Nat /\ MaxCrowdedTime \in Nat /\ MaxCorrections \in Nat
  /\ Pacings \subseteq BOOLEAN

VARIABLES
  now,      \* the clock
  spaced,   \* whether runs keep their distance
  pc,       \* where each run is
  at,       \* at[r]: nowTs, the time of its gate
  cost,     \* cost[r]: costUsd
  intents,  \* nosana-deploy-intents.jsonl: rows [run, status, job]
  costs,    \* shelter-cost.jsonl, see CostLedger
  flying,   \* jobs whose transaction was sent and has not landed
  landed,   \* jobs listed and paid on chain
  start,    \* timeStart of each job, 0 until a node claims it
  ended,    \* when the last run ended
  meant     \* meant[r]: the job the cost row of r is last said to be for

run == <<pc, at, cost>>
files == <<intents, costs, meant>>
chain == <<flying, landed, start>>
vars == <<now, spaced, run, files, chain, ended>>

----------------------------------------------------------------------------
Working == {"pricing", "validating", "posting", "asking", "charging"}
Ended == {"refused", "rejected", "unknown", "posted", "threw", "died"}
Statuses == {"intent", "validate-failed", "post-unknown", "posted"}

Row(r, s, j) == [run |-> r, status |-> s, job |-> j]
Has(r, s) == \E row \in intents : row.run = r /\ row.status = s
Active(r) == pc[r] \in Working
Goto(r, to) ==
  /\ pc' = [pc EXCEPT ![r] = to]
  /\ ended' = IF to \in Ended THEN now ELSE ended

\* The history the gate is given: the resolved cost file, every row as sent,
\* keyed by job address.
History ==
  LET file == Resolved(costs)
  IN  [i \in DOMAIN file |-> [ts |-> file[i].ts, usd |-> file[i].usd,
                              status |-> "sent", hash |-> file[i].job]]

\* Neither a daily nor a cumulative cap is ever passed.
Config == [perJob |-> {MaxSpendUsd}, daily |-> {}, cumulative |-> {}]

Claimed == {j \in landed : start[j] > 0}

\* Jobs of any age.
EligibleBug(r, seen) == seen

\* afterTs, on the jobs the API shows.
Eligible(r, seen) == {j \in seen : start[j] + Slack >= at[r]}

\* The highest timeStart.
Newest(S) == {j \in S : \A k \in S : start[k] <= start[j]}

----------------------------------------------------------------------------
Init ==
  /\ now = 1
  /\ spaced \in Pacings
  /\ pc = [r \in Runs |-> "idle"]
  /\ at = [r \in Runs |-> 0]
  /\ cost = [r \in Runs |-> 0]
  /\ intents = {} /\ costs = <<>>
  /\ flying = {} /\ landed = {} /\ start = [j \in Runs |-> 0]
  /\ ended = 0
  /\ meant = [r \in Runs |-> NoJob]

\* By hand: nothing in the code keeps two runs apart.
Begin(r) ==
  /\ pc[r] = "idle"
  /\ spaced => \A q \in Runs : ~Active(q)
  /\ spaced /\ ended > 0 => now > ended + Slack
  /\ Goto(r, "pricing")
  /\ UNCHANGED <<now, spaced, at, cost, files, chain>>

\* No identity, market, price or balance, or an invalid definition.
Throw(r) ==
  /\ pc[r] = "pricing"
  /\ Goto(r, "threw")
  /\ UNCHANGED <<now, spaced, at, cost, files, chain>>

(***************************************************************************)
(* The gate and the intent row follow each other without an await.         *)
(***************************************************************************)
GateAndRecord(r) ==
  /\ pc[r] = "pricing"
  /\ \E usd \in Costs, funded \in BOOLEAN :
       /\ cost' = [cost EXCEPT ![r] = usd]
       /\ at' = [at EXCEPT ![r] = now]
       /\ LET allowed == EvaluateSpendGate(usd, funded, History, Config, now)
          IN  /\ Goto(r, IF allowed THEN "validating" ELSE "refused")
              /\ intents' = IF allowed THEN intents \cup {Row(r, "intent", NoJob)}
                            ELSE intents
  /\ UNCHANGED <<now, spaced, costs, meant, chain>>

\* The verdict of the validation is written down and not obeyed.
ValidateBug(r) ==
  /\ pc[r] = "validating"
  /\ \/ Goto(r, "posting") /\ UNCHANGED intents
     \/ Goto(r, "posting") /\ intents' = intents \cup {Row(r, "validate-failed", NoJob)}
  /\ UNCHANGED <<now, spaced, at, cost, costs, meant, chain>>

\* nosana job validate.
Validate(r) ==
  /\ pc[r] = "validating"
  /\ \/ Goto(r, "posting") /\ UNCHANGED intents
     \/ Goto(r, "rejected") /\ intents' = intents \cup {Row(r, "validate-failed", NoJob)}
  /\ UNCHANGED <<now, spaced, at, cost, costs, meant, chain>>

\* nosana job post: lands, is still in flight when the CLI gives up, or was
\* never sent.  Whether the CLI throws is not looked at.
Post(r) ==
  /\ pc[r] = "posting"
  /\ \/ landed' = landed \cup {r} /\ UNCHANGED flying
     \/ flying' = flying \cup {r} /\ UNCHANGED landed
     \/ UNCHANGED <<flying, landed>>
  /\ Goto(r, "asking")
  /\ UNCHANGED <<now, spaced, at, cost, files, start>>

(***************************************************************************)
(* reconcileNosanaJobViaApi and the row that follows it.  The API answers  *)
(* with some of the claimed jobs; an error is an answer without jobs.      *)
(***************************************************************************)
Reconcile(r) ==
  /\ pc[r] = "asking"
  /\ \E seen \in SUBSET Claimed :
       IF Eligible(r, seen) = {}
       THEN /\ intents' = intents \cup {Row(r, "post-unknown", NoJob)}
            /\ Goto(r, "unknown")
       ELSE \E j \in Newest(Eligible(r, seen)) :
              /\ intents' = intents \cup {Row(r, "posted", j)}
              /\ Goto(r, "charging")
  /\ UNCHANGED <<now, spaced, at, cost, costs, meant, chain>>

\* The second append.
Charge(r) ==
  /\ pc[r] = "charging"
  /\ \E row \in intents :
       /\ row.run = r /\ row.status = "posted"
       /\ costs' = Append(costs, CostRow(now, cost[r], row.job, r))
       /\ meant' = [meant EXCEPT ![r] = row.job]
  /\ Goto(r, "posted")
  /\ UNCHANGED <<now, spaced, at, cost, intents, chain>>

Die(r) ==
  /\ Active(r)
  /\ Goto(r, "died")
  /\ UNCHANGED <<now, spaced, at, cost, files, chain>>

\* appendShelterCostCorrection, by a person who looked at the chain; only the
\* time stamp says which row is meant.
Correct(r, j) ==
  /\ Cardinality({i \in DOMAIN costs : IsCorrection(costs[i])}) < MaxCorrections
  /\ meant[r] # j
  /\ \E i \in DOMAIN costs :
       /\ ~IsCorrection(costs[i]) /\ costs[i].by = r
       /\ costs' = Append(costs, Correction(costs[i].ts, j))
  /\ meant' = [meant EXCEPT ![r] = j]
  /\ UNCHANGED <<now, spaced, run, intents, chain, ended>>

\* The chain and the market.
Land(j) ==
  /\ j \in flying
  /\ flying' = flying \ {j}
  /\ landed' = landed \cup {j}
  /\ UNCHANGED <<now, spaced, run, files, start, ended>>

Claim(j) ==
  /\ j \in landed /\ start[j] = 0
  /\ start' = [start EXCEPT ![j] = now]
  /\ UNCHANGED <<now, spaced, run, files, flying, landed, ended>>

Tick ==
  /\ now < IF spaced THEN MaxTime ELSE MaxCrowdedTime
  /\ now' = now + 1
  /\ UNCHANGED <<spaced, run, files, chain, ended>>

Step(r) ==
  \/ Begin(r) \/ Throw(r) \/ GateAndRecord(r) \/ Validate(r) \/ Post(r)
  \/ Reconcile(r) \/ Charge(r) \/ Die(r)

Next ==
  \/ \E r \in Runs : Step(r)
  \/ \E r \in Runs, j \in landed : Correct(r, j)
  \/ \E j \in Runs : Land(j) \/ Claim(j)
  \/ Tick

Spec == Init /\ [][Next]_vars

----------------------------------------------------------------------------
(* Types, and what ties the rows to the places of their runs. *)
TypeOK ==
  /\ now \in Nat /\ ended \in Nat /\ spaced \in BOOLEAN
  /\ pc \in [Runs -> Working \cup Ended \cup {"idle"}]
  /\ at \in [Runs -> Nat] /\ cost \in [Runs -> Nat] /\ start \in [Runs -> Nat]
  /\ intents \subseteq [run : Runs, status : Statuses, job : Runs \cup {NoJob}]
  /\ \A row \in intents : row.status = "posted" <=> row.job # NoJob
  /\ flying \subseteq Runs /\ landed \subseteq Runs
  /\ meant \in [Runs -> Runs \cup {NoJob}]

(***************************************************************************)
(* No paid lease disappears from the books.  When runs keep their          *)
(* distance, the cost rows the gate counts and the intents that stand      *)
(* without a cost row are together at least as many as the leases paid,    *)
(* after a crash between any two rows, a post that lands late, a job that  *)
(* stays queued and a row that names an earlier job included.  (Rows       *)
(* corrected by hand count when each names the job of its own run.)        *)
(***************************************************************************)
Charged(r) == \E i \in DOMAIN costs : ~IsCorrection(costs[i]) /\ costs[i].by = r
Unexplained == {r \in Runs : Has(r, "intent") /\ ~Charged(r) /\ ~Has(r, "validate-failed")}
Truthful == \A i \in DOMAIN Resolved(costs) : Resolved(costs)[i].job = Resolved(costs)[i].by
Uncorrected == \A i \in DOMAIN costs : ~IsCorrection(costs[i])

NoLeaseLost ==
  spaced /\ (Uncorrected \/ Truthful) =>
    Cardinality(landed) <= Cardinality(OutflowRows(History)) + Cardinality(Unexplained)

(***************************************************************************)
(* The resolved file says of every row what was last said of it: the job   *)
(* its run recorded, or the last correction of that run, however the       *)
(* corrections of different rows are mixed.  This takes time stamps that   *)
(* tell the rows apart, which runs at a distance give them.                *)
(***************************************************************************)
CorrectionsStand ==
  spaced => \A i \in DOMAIN Resolved(costs) :
              Resolved(costs)[i].job = meant[Resolved(costs)[i].by]

(***************************************************************************)
(* What README.md calls at most once: an intent before its effect, one     *)
(* effect per intent, one verdict, and no effect after a failure verdict.  *)
(***************************************************************************)
Verdict(r) ==
  IF Has(r, "posted") THEN "settled"
  ELSE IF Has(r, "validate-failed") THEN "failed"
  ELSE IF Has(r, "post-unknown") THEN "unknown" ELSE "open"

Ledger == INSTANCE IntentLedger WITH
  Intents <- Runs, Exact <- FALSE,
  recorded <- {r \in Runs : Has(r, "intent")},
  effected <- landed,
  verdict <- [r \in Runs |-> Verdict(r)]

ImplementsLedger == Ledger!Spec

=============================================================================
