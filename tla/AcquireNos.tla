----------------------------- MODULE AcquireNos -----------------------------
(***************************************************************************)
(* acquireNos of skills/self/shelter/nosana/funding/acquire-nos.mjs: the   *)
(* treasury wallet swaps some of its SOL for NOS on Solana.  A run reads   *)
(* the balances, sizes the spend, fetches a quote and an unsigned          *)
(* transaction, passes one gate, signs, appends an intent row, sends,      *)
(* polls, reconciles an unknown outcome from chain state, and appends the  *)
(* settled row to the intent file and then a row to the funding ledger.    *)
(*                                                                         *)
(* A run is one invocation of acquireNos: bin/citizen-refill --live, which *)
(* launchd starts every hour, or bin/citizen-fund started by hand.  It     *)
(* signs at most one transaction, so a run also names its transaction and  *)
(* its intent.  The process may die between any two of its steps; files    *)
(* and chain survive, the run's memory does not.                           *)
(*                                                                         *)
(* Lamports and NOS are counted in coarse units.  Quotes, sizes, prices    *)
(* and slippage are reduced to the verdict the code draws from them.       *)
(*                                                                         *)
(* A definition whose name ends in Bug is a faulty variant of the one that *)
(* follows it; no other definition uses it.                                *)
(***************************************************************************)
EXTENDS Integers, FiniteSets

CONSTANTS
  Runs,          \* invocations of acquireNos
  HandRuns,      \* TRUE: runs may overlap and follow each other at once
  Requested,     \* requestedSol
  Floor,         \* solFeeFloorSol
  PriorityFee,   \* the priority fee the swap transaction pays
  SigFee,        \* what it pays beyond that and the gate never prices
  FeeEstimates,  \* values of built.prioritizationFeeLamports || 0
  OutAmounts,    \* NOS a landed swap may deliver
  Rungs,         \* length of SIZE_GUARD_MAX_ACCOUNTS_LADDER
  PollBudget,    \* polls that fit in confirmTimeoutMs
  SolMoves,      \* amounts other programs add to (or take from) the SOL
  NosMoves,      \* the same for NOS: refunds, deposits, rent paid
  MoveBudget,    \* bound on the number of such moves
  InitSol,       \* SOL the treasury may start with
  InitNos        \* NOS it starts with

ASSUME ParametersAssumption ==
  /\ HandRuns \in BOOLEAN
  /\ Requested \in Nat \ {0}
  /\ Floor \in Nat
  /\ PriorityFee \in Nat
  /\ SigFee \in Nat
  /\ FeeEstimates \subseteq 0 .. PriorityFee
  /\ OutAmounts \subseteq Nat \ {0}
  /\ Rungs \in Nat \ {0}
  /\ PollBudget \in Nat
  /\ SolMoves \subseteq Int
  /\ NosMoves \subseteq Int
  /\ MoveBudget \in Nat
  /\ InitSol \subseteq Nat
  /\ InitNos \in Nat

VARIABLES
  pc,       \* where each run is
  seen,     \* seen[r]: the balances the run read, [sol, nos]
  fee,      \* fee[r]: the fee estimate the gate used
  tries,    \* tries[r]: rungs of the ladder burnt, then polls made
  via,      \* via[r]: what confirmed the swap (settlement.source)
  got,      \* got[r]: nosReceived
  rows,     \* nosana-funding-intents.jsonl: [run, status] records
  funding,  \* nosana-funding.jsonl: [run, nos] records
  tx,       \* tx[r]: the run's transaction on chain
  credited, \* credited[r]: NOS its transaction really delivered
  sol,      \* the treasury's SOL on chain
  nos,      \* the treasury's NOS on chain
  moves     \* moves other programs have made

memory == <<seen, fee, tries, via, got>>
files == <<rows, funding>>
chain == <<tx, credited, sol, nos>>
vars == <<pc, memory, files, chain, moves>>

----------------------------------------------------------------------------
Working == {"reading", "building", "gating", "sending", "polling",
            "reconciling", "receiving", "ledger"}
Ended == {"returned", "posted", "threw", "crashed"}
Statuses == {"intent", "settled", "failed-onchain", "unknown"}
Sources == {"none", "poll", "status", "recent", "delta"}

Row(r, s) == [run |-> r, status |-> s]
HasRow(r, s) == Row(r, s) \in rows
Active(r) == pc[r] \in Working

\* resolveSpendLamports: the request, clamped to a quarter of the balance.
SpendBug(balance) == Requested
Spend(balance) ==
  IF Requested < balance \div 4 THEN Requested ELSE balance \div 4

\* evaluateFundingGate: quoteOk stands for the shape, slippage and impact checks.
GateBug(balance, estimate, quoteOk) == Spend(balance) > 0 /\ quoteOk
Gate(balance, estimate, quoteOk) ==
  /\ Spend(balance) > 0
  /\ quoteOk
  /\ balance - Spend(balance) - estimate >= Floor

Debit(r) == Spend(seen[r].sol) + PriorityFee + SigFee
FailedDebit == PriorityFee + SigFee

Goto(r, to) == pc' = [pc EXCEPT ![r] = to]

----------------------------------------------------------------------------
Init ==
  /\ pc = [r \in Runs |-> "idle"]
  /\ seen = [r \in Runs |-> [sol |-> 0, nos |-> 0]]
  /\ fee = [r \in Runs |-> 0]
  /\ tries = [r \in Runs |-> 0]
  /\ via = [r \in Runs |-> "none"]
  /\ got = [r \in Runs |-> 0]
  /\ rows = {}
  /\ funding = {}
  /\ tx = [r \in Runs |-> "none"]
  /\ credited = [r \in Runs |-> 0]
  /\ sol \in InitSol
  /\ nos = InitNos
  /\ moves = 0

(***************************************************************************)
(* launchd starts one process of the label at a time and the next one at   *)
(* the next hourly tick, long after a blockhash (about ninety seconds) has *)
(* expired.  A hand-run command waits for neither.  No run looks at the    *)
(* intent file before it starts.                                           *)
(***************************************************************************)
Begin(r) ==
  /\ pc[r] = "idle"
  /\ HandRuns \/ \A q \in Runs : ~Active(q) /\ tx[q] # "flight"
  /\ Goto(r, "reading")
  /\ UNCHANGED <<memory, files, chain, moves>>

\* Steps 1 to 3: both balances, then the spend; an unresolved identity, a
\* failed read and a spend of zero all throw.
ReadBalances(r) ==
  /\ pc[r] = "reading"
  /\ \/ Goto(r, "threw") /\ UNCHANGED seen
     \/ /\ seen' = [seen EXCEPT ![r] = [sol |-> sol, nos |-> nos]]
        /\ Goto(r, IF Spend(sol) > 0 THEN "building" ELSE "threw")
  /\ UNCHANGED <<fee, tries, via, got, files, chain, moves>>

\* One rung of buildRightSizedSwapTransaction that yields nothing usable: the
\* fetch failed or the transaction is too big.  The last one makes it throw.
RungMisses(r) ==
  /\ pc[r] = "building"
  /\ tries' = [tries EXCEPT ![r] = @ + 1]
  /\ Goto(r, IF tries[r] + 1 < Rungs THEN "building" ELSE "threw")
  /\ UNCHANGED <<seen, fee, via, got, files, chain, moves>>

\* Books an estimate the provider never gave.
RungFitsBug(r) ==
  /\ pc[r] = "building"
  /\ fee' = [fee EXCEPT ![r] = -1]
  /\ tries' = [tries EXCEPT ![r] = 0]
  /\ Goto(r, "gating")
  /\ UNCHANGED <<seen, via, got, files, chain, moves>>

RungFits(r) ==
  /\ pc[r] = "building"
  /\ fee' \in {[fee EXCEPT ![r] = e] : e \in FeeEstimates}
  /\ tries' = [tries EXCEPT ![r] = 0]
  /\ Goto(r, "gating")
  /\ UNCHANGED <<seen, via, got, files, chain, moves>>

\* Steps 5 to 7 without a signature: a price fetch throws, or the gate
\* refuses, or the run is dry and returns whatever the gate said.
StopBeforeSigning(r) ==
  /\ pc[r] = "gating"
  /\ Goto(r, "threw") \/ Goto(r, "returned")
  /\ UNCHANGED <<memory, files, chain, moves>>

RecordIntentBug(r) == UNCHANGED rows
RecordIntent(r) == rows' = rows \cup {Row(r, "intent")}

\* A live run the gate allows signs and appends the intent row in one turn of
\* the event loop, before the send.
SignAndRecord(r) ==
  /\ pc[r] = "gating"
  /\ \E quoteOk \in BOOLEAN : Gate(seen[r].sol, fee[r], quoteOk)
  /\ RecordIntent(r)
  /\ Goto(r, "sending")
  /\ UNCHANGED <<memory, funding, chain, moves>>

\* sendRawTransaction may be rejected by preflight, or throw although the node
\* accepted the bytes; the run goes on to poll either way.
Send(r) ==
  /\ pc[r] = "sending"
  /\ tx' \in {tx, [tx EXCEPT ![r] = "flight"]}
  /\ Goto(r, "polling")
  /\ UNCHANGED <<memory, files, credited, sol, nos, moves>>

----------------------------------------------------------------------------
(***************************************************************************)
(* pollForConfirmation.  A status lookup tells the truth or nothing: the   *)
(* RPC failed, or the node does not show the transaction yet.              *)
(***************************************************************************)
PollConfirmed(r) ==
  /\ pc[r] = "polling"
  /\ tx[r] = "landed"
  /\ via' = [via EXCEPT ![r] = "poll"]
  /\ Goto(r, "receiving")
  /\ UNCHANGED <<seen, fee, tries, got, files, chain, moves>>

PollFailedBug(r) ==
  /\ pc[r] = "polling"
  /\ tx[r] # "landed"
  /\ rows' = rows \cup {Row(r, "failed-onchain")}
  /\ Goto(r, "threw")
  /\ UNCHANGED <<memory, funding, chain, moves>>

PollFailed(r) ==
  /\ pc[r] = "polling"
  /\ tx[r] = "failed"
  /\ rows' = rows \cup {Row(r, "failed-onchain")}
  /\ Goto(r, "threw")
  /\ UNCHANGED <<memory, funding, chain, moves>>

\* The block height passed lastValidBlockHeight, so the transaction is no
\* longer in flight; it may have landed without showing.
PollExpired(r) ==
  /\ pc[r] = "polling"
  /\ tx[r] # "flight"
  /\ Goto(r, "reconciling")
  /\ UNCHANGED <<memory, files, chain, moves>>

PollAgain(r) ==
  /\ pc[r] = "polling"
  /\ tries[r] < PollBudget
  /\ tries' = [tries EXCEPT ![r] = @ + 1]
  /\ UNCHANGED <<pc, seen, fee, via, got, files, chain, moves>>

\* Polls without a deadline.
PollTimeoutBug(r) == FALSE /\ UNCHANGED vars
PollTimeout(r) ==
  /\ pc[r] = "polling"
  /\ tries[r] = PollBudget
  /\ Goto(r, "reconciling")
  /\ UNCHANGED <<memory, files, chain, moves>>

----------------------------------------------------------------------------
(***************************************************************************)
(* reconcileUnknownOutcome, and the row and the throw that follow it.  The *)
(* signature status, the recent signatures and the NOS balance are read in *)
(* this order; each read may fail.  Nothing here sends.                    *)
(***************************************************************************)
\* Takes a signature that is merely known for one that is confirmed.
ReconcileBySignatureBug(r) ==
  /\ pc[r] = "reconciling"
  /\ via' = [via EXCEPT ![r] = "status"]
  /\ Goto(r, "receiving")
  /\ UNCHANGED <<seen, fee, tries, got, files, chain, moves>>

ReconcileBySignature(r) ==
  /\ pc[r] = "reconciling"
  /\ tx[r] = "landed"
  /\ via' \in {[via EXCEPT ![r] = s] : s \in {"status", "recent"}}
  /\ Goto(r, "receiving")
  /\ UNCHANGED <<seen, fee, tries, got, files, chain, moves>>

\* The last resort: any increase of the wallet's NOS since the run read it.
ReconcileByDelta(r) ==
  /\ pc[r] = "reconciling"
  /\ nos > seen[r].nos
  /\ via' = [via EXCEPT ![r] = "delta"]
  /\ got' = [got EXCEPT ![r] = nos - seen[r].nos]
  /\ Goto(r, "receiving")
  /\ UNCHANGED <<seen, fee, tries, files, chain, moves>>

\* Forgets to throw after the row.
ReconcileUnknownBug(r) ==
  /\ pc[r] = "reconciling"
  /\ rows' = rows \cup {Row(r, "unknown")}
  /\ Goto(r, "receiving")
  /\ UNCHANGED <<memory, funding, chain, moves>>

\* No evidence, or a status that says the transaction failed on chain: both
\* append a row with status "unknown" and throw.
ReconcileUnknown(r) ==
  /\ pc[r] = "reconciling"
  /\ rows' = rows \cup {Row(r, "unknown")}
  /\ Goto(r, "threw")
  /\ UNCHANGED <<memory, funding, chain, moves>>

\* The balance read after a confirmed swap may throw, and then nothing is
\* appended at all.
ReceiveFails(r) ==
  /\ pc[r] = "receiving"
  /\ Goto(r, "threw")
  /\ UNCHANGED <<memory, files, chain, moves>>

\* Books the money first and never closes the intent.
ReceiveBug(r) ==
  /\ pc[r] = "receiving"
  /\ got' = [got EXCEPT ![r] = IF via[r] = "delta" THEN @ ELSE nos - seen[r].nos]
  /\ Goto(r, "ledger")
  /\ UNCHANGED <<seen, fee, tries, via, files, chain, moves>>

Receive(r) ==
  /\ pc[r] = "receiving"
  /\ got' = [got EXCEPT ![r] = IF via[r] = "delta" THEN @ ELSE nos - seen[r].nos]
  /\ rows' = rows \cup {Row(r, "settled")}
  /\ Goto(r, "ledger")
  /\ UNCHANGED <<seen, fee, tries, via, funding, chain, moves>>

AppendFunding(r) ==
  /\ pc[r] = "ledger"
  /\ funding' = funding \cup {[run |-> r, nos |-> got[r]]}
  /\ Goto(r, "posted")
  /\ UNCHANGED <<memory, rows, chain, moves>>

Crash(r) ==
  /\ Active(r)
  /\ Goto(r, "crashed")
  /\ UNCHANGED <<memory, files, chain, moves>>

----------------------------------------------------------------------------
(***************************************************************************)
(* The chain and the other programs that use the same wallet.              *)
(***************************************************************************)
Land(r) ==
  /\ tx[r] = "flight"
  /\ sol >= Debit(r)
  /\ \E n \in OutAmounts :
       /\ credited' = [credited EXCEPT ![r] = n]
       /\ nos' = nos + n
  /\ tx' = [tx EXCEPT ![r] = "landed"]
  /\ sol' = sol - Debit(r)
  /\ UNCHANGED <<pc, memory, files, moves>>

Revert(r) ==
  /\ tx[r] = "flight"
  /\ sol >= FailedDebit
  /\ tx' = [tx EXCEPT ![r] = "failed"]
  /\ sol' = sol - FailedDebit
  /\ UNCHANGED <<pc, memory, files, credited, nos, moves>>

BlockhashExpires(r) ==
  /\ tx[r] = "flight"
  /\ tx' = [tx EXCEPT ![r] = "dropped"]
  /\ UNCHANGED <<pc, memory, files, credited, sol, nos, moves>>

MoveSol ==
  /\ moves < MoveBudget
  /\ \E d \in SolMoves : sol + d >= 0 /\ sol' = sol + d
  /\ moves' = moves + 1
  /\ UNCHANGED <<pc, memory, files, tx, credited, nos>>

MoveNos ==
  /\ moves < MoveBudget
  /\ \E d \in NosMoves : nos + d >= 0 /\ nos' = nos + d
  /\ moves' = moves + 1
  /\ UNCHANGED <<pc, memory, files, tx, credited, sol>>

----------------------------------------------------------------------------
Proceed(r) ==
  \/ ReadBalances(r) \/ RungMisses(r) \/ RungFits(r)
  \/ StopBeforeSigning(r) \/ SignAndRecord(r) \/ Send(r)
  \/ PollConfirmed(r) \/ PollFailed(r) \/ PollExpired(r)
  \/ PollAgain(r) \/ PollTimeout(r)
  \/ ReconcileBySignature(r) \/ ReconcileByDelta(r) \/ ReconcileUnknown(r)
  \/ ReceiveFails(r) \/ Receive(r) \/ AppendFunding(r)

Solana(r) == Land(r) \/ Revert(r) \/ BlockhashExpires(r)

Next ==
  \/ \E r \in Runs : Begin(r) \/ Proceed(r) \/ Crash(r) \/ Solana(r)
  \/ MoveSol
  \/ MoveNos

Spec == Init /\ [][Next]_vars

\* The event loop runs a started process: each await returns or throws.  No
\* fairness is assumed of launchd, of the chain or of a crash.
FairSpec == Spec /\ \A r \in Runs : WF_vars(Proceed(r))

----------------------------------------------------------------------------
(***************************************************************************)
(* Properties.                                                             *)
(***************************************************************************)
TypeOK ==
  /\ pc \in [Runs -> {"idle"} \cup Working \cup Ended]
  /\ seen \in [Runs -> [sol : Nat, nos : Nat]]
  /\ fee \in [Runs -> 0 .. PriorityFee]
  /\ tries \in [Runs -> Nat]
  /\ via \in [Runs -> Sources]
  /\ got \in [Runs -> Int]
  /\ rows \subseteq [run : Runs, status : Statuses]
  /\ funding \subseteq [run : Runs, nos : Int]
  /\ tx \in [Runs -> {"none", "flight", "landed", "failed", "dropped"}]
  /\ credited \in [Runs -> Nat]
  /\ sol \in Nat
  /\ nos \in Nat
  /\ moves \in 0 .. MoveBudget

\* A transaction the network knows of has its intent row on disk, wherever the
\* process died (acquire-nos.mjs:983-1011, README.md:136).
BroadcastRecorded ==
  \A r \in Runs : tx[r] # "none" => HasRow(r, "intent")

\* A verdict drawn from the signature is true and final: a failed-onchain row
\* is about a transaction that failed and cannot land later, and a settled row
\* whose source is the poll, the status or the recent list is about one that
\* landed (decideSettlementFromStatus and its callers).
SignatureVerdictTrue ==
  \A r \in Runs :
    /\ HasRow(r, "failed-onchain") => tx[r] = "failed" /\ credited[r] = 0
    /\ HasRow(r, "settled") /\ via[r] # "delta" => tx[r] = "landed"

\* The two files agree whatever step the process died in: a funding row has
\* its settled row, an intent is closed by one kind of row only, and a landed
\* swap of a run that ended is missing from the funding ledger only if the run
\* died or its intent is not closed as settled (acquire-nos.mjs:1041-1069).
FilesAgree ==
  \A r \in Runs :
    /\ (\E f \in funding : f.run = r) => HasRow(r, "settled")
    /\ HasRow(r, "settled") =>
         ~HasRow(r, "failed-onchain") /\ ~HasRow(r, "unknown")
    /\ HasRow(r, "failed-onchain") => ~HasRow(r, "unknown")
    /\ HasRow(r, "settled") /\ ~Active(r) /\ pc[r] # "crashed" =>
         \E f \in funding : f.run = r

\* With nobody else moving NOS and runs one tick apart, a settled row means
\* the swap landed, and the amount booked is the amount delivered: the balance
\* the run read long before is still the right one to subtract.
SettledMeansLanded ==
  \A r \in Runs : HasRow(r, "settled") =>
    /\ tx[r] = "landed"
    /\ \A f \in funding : f.run = r => f.nos = credited[r]

\* What the gate was not told of the fees this transaction pays.
Unpriced(r) == PriorityFee + SigFee - fee[r]

\* A swap never takes the wallet under the fee floor by more than the fees the
\* gate did not price, at the time it lands and not only when the gate ran.
FloorKept ==
  [][\A r \in Runs : tx[r] = "flight" /\ tx'[r] \in {"landed", "failed"} =>
       sol' >= Floor - Unpriced(r)]_vars

\* A swap that lands spends at most a quarter of what the wallet then holds.
QuarterKept ==
  [][\A r \in Runs : tx[r] = "flight" /\ tx'[r] = "landed" =>
       4 * Spend(seen[r].sol) <= sol]_vars

\* Every run that starts comes to an end, whatever the RPC answers: the ladder
\* and the poll are bounded.
EveryRunEnds == \A r \in Runs : Active(r) ~> pc[r] \in Ended

\* What acquire-nos.mjs:555 and :1045 ask for: once an intent is recorded as
\* unknown, nothing more is swapped until a human has looked at it.
NoSwapWhileUnresolved ==
  [][\A r \in Runs : Row(r, "intent") \in rows' \ rows =>
       \A q \in Runs : ~HasRow(q, "unknown")]_vars

VerdictOf(r) ==
  CASE HasRow(r, "settled") -> "settled"
    [] HasRow(r, "failed-onchain") -> "failed"
    [] HasRow(r, "unknown") -> "unknown"
    [] OTHER -> "open"

RecordedIntents == {r \in Runs : HasRow(r, "intent")}
LandedSwaps == {r \in Runs : tx[r] = "landed"}

ExactLedger == INSTANCE IntentLedger WITH
  Intents <- Runs, Exact <- TRUE, recorded <- RecordedIntents,
  effected <- LandedSwaps, verdict <- [r \in Runs |-> VerdictOf(r)]

LooseLedger == INSTANCE IntentLedger WITH
  Intents <- Runs, Exact <- FALSE, recorded <- RecordedIntents,
  effected <- LandedSwaps, verdict <- [r \in Runs |-> VerdictOf(r)]

\* Under the launchd schedule, with a wallet only deposits of SOL move, the
\* runs implement the intent ledger README.md:136 promises, and a settled
\* verdict is always backed by the swap.
ImplementsExactLedger == ExactLedger!Spec

\* Whatever the schedule and the movements of the wallet, a swap lands only
\* after its intent row, once, never after a failure row, and the verdict
\* appended for an intent is never rewritten.
ImplementsLooseLedger == LooseLedger!Spec

=============================================================================
