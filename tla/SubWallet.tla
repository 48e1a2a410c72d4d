----------------------------- MODULE SubWallet -----------------------------
(***************************************************************************)
(* ensureSubWallet and fundSubWallet of                                    *)
(* skills/self/shelter/nosana/sub-wallet.mjs: the treasury keeps a capped  *)
(* wallet whose key alone is shipped to the cloud, and tops it up.  A run  *)
(* loads or creates the key file, reads the balances of both wallets,      *)
(* passes one gate, appends an intent row, transfers SOL, then NOS, then   *)
(* USDC, waiting for each to be confirmed, and appends the settled row.    *)
(*                                                                         *)
(* A run is one invocation: the last leg of bin/citizen-refill, which      *)
(* launchd starts every hour, or bin/citizen-subwallet fund started by     *)
(* hand.  The process may die between any two of its steps.  A wallet is   *)
(* named by the run that generated its key; Elder is one that was there    *)
(* before.                                                                 *)
(*                                                                         *)
(* A definition whose name ends in Bug is a faulty variant of the one that *)
(* follows it; no other definition uses it.                                *)
(***************************************************************************)
EXTENDS Integers

CONSTANTS
  Runs,          \* invocations of fundSubWallet
  Elder,         \* a wallet whose key file exists before the first run
  Absent, Torn,  \* contents of the key file: none, or not 64 bytes of JSON
  Overlap,       \* TRUE: two runs may be active at once
  AtOnce,        \* TRUE: a run may start while a transfer is still in flight
  Requests,      \* what a run may be asked to send, per asset
  Caps,          \* nosCap, solCap, usdcCap
  Floor,         \* solFeeFloor
  LegFee,        \* SOL a leg costs beyond its amount: fee, token account rent
  InitFile,      \* what the key file may hold at first
  InitOwner,     \* what the treasury holds
  InitSub,       \* what the elder wallet may hold
  Rents,         \* amounts the shelter spends from the capped wallet
  Refunds,       \* amounts that come back to it, unspent escrow
  MoveBudget     \* bound on the number of such movements

Assets == {"sol", "nos", "usdc"}
Amounts == [Assets -> Nat]
Wallets == Runs \cup {Elder}
NoWallet == {Absent, Torn}

ASSUME ParametersAssumption ==
  /\ Elder \notin Runs
  /\ NoWallet \cap Wallets = {} /\ Absent # Torn
  /\ Overlap \in BOOLEAN /\ AtOnce \in BOOLEAN
  /\ Requests \subseteq Amounts
  /\ Caps \in Amounts /\ Floor \in Nat /\ LegFee \in Amounts
  /\ InitFile \subseteq {Elder, Absent, Torn}
  /\ InitOwner \in Amounts /\ InitSub \subseteq Amounts
  /\ Rents \subseteq Amounts /\ Refunds \subseteq Amounts
  /\ MoveBudget \in Nat

VARIABLES
  pc,       \* where each run is
  req,      \* req[r]: what it was asked to send
  addr,     \* addr[r]: the wallet whose key it loaded or created
  seen,     \* seen[r]: the balances it read, [owner, sub]
  rows,     \* nosana-subwallet-funding.jsonl: [run, status] records
  file,     \* nosana_subwallet_key.json
  leg,      \* leg[r][a]: the transfer of asset a on chain
  owner,    \* what the treasury holds
  bal,      \* what each capped wallet holds
  refunded, \* refunds so far, per asset
  moves     \* movements made by others

memory == <<req, addr, seen>>
disk == <<rows, file>>
chain == <<leg, owner, bal>>
others == <<refunded, moves>>
vars == <<pc, memory, disk, chain, others>>

----------------------------------------------------------------------------
Working == {"looking", "loading", "creating", "writing", "reading", "gating",
            "legs", "confirming"}
Ended == {"returned", "sent", "threw", "crashed"}
Fates == {"none", "flight", "landed", "failed", "dropped"}

Zero == [a \in Assets |-> 0]
Row(r, s) == [run |-> r, status |-> s]
HasRow(r, s) == Row(r, s) \in rows
Active(r) == pc[r] \in Working
Goto(r, to) == pc' = [pc EXCEPT ![r] = to]

\* The legs run in the order SOL, NOS, USDC; an amount of zero has no leg.
Rank == [sol |-> 1, nos |-> 2, usdc |-> 3]
Legs(r) == {a \in Assets : req[r][a] > 0}
Pending(r) == {a \in Legs(r) : leg[r][a] = "none"}
IsNext(r, a) == a \in Pending(r) /\ \A b \in Pending(r) : Rank[a] <= Rank[b]

\* Forgets what the capped wallet already holds.
CapBug(q, held) == \A a \in Assets : q[a] > 0 => q[a] <= Caps[a]
Cap(q, held) == \A a \in Assets : q[a] > 0 => held[a] + q[a] <= Caps[a]

\* Compares the floor with what the treasury holds before the transfer.
OwnerKeepsBug(q, held) ==
  held["sol"] >= Floor /\ held["nos"] >= q["nos"] /\ held["usdc"] >= q["usdc"]

OwnerKeeps(q, held) ==
  /\ held["nos"] >= q["nos"]
  /\ held["usdc"] >= q["usdc"]
  /\ held["sol"] - q["sol"] >= Floor

\* evaluateFundingGate: all of the request or nothing.
Gate(q, s) == q # Zero /\ Cap(q, s.sub) /\ OwnerKeeps(q, s.owner)

----------------------------------------------------------------------------
Init ==
  /\ pc = [r \in Runs |-> "idle"]
  /\ req = [r \in Runs |-> Zero]
  /\ addr = [r \in Runs |-> Elder]
  /\ seen = [r \in Runs |-> [owner |-> Zero, sub |-> Zero]]
  /\ rows = {}
  /\ file \in InitFile
  /\ leg = [r \in Runs |-> [a \in Assets |-> "none"]]
  /\ owner = InitOwner
  /\ bal \in {[w \in Wallets |-> IF w = Elder THEN b ELSE Zero] : b \in InitSub}
  /\ refunded = Zero
  /\ moves = 0

(***************************************************************************)
(* launchd runs one process of its label at a time, an hour apart, and a   *)
(* blockhash lives ninety seconds; a command typed by hand waits for       *)
(* neither.                                                                *)
(***************************************************************************)
Begin(r) ==
  /\ pc[r] = "idle"
  /\ Overlap \/ \A q \in Runs : ~Active(q)
  /\ AtOnce \/ \A q \in Runs, a \in Assets : leg[q][a] # "flight"
  /\ req' \in {[req EXCEPT ![r] = q] : q \in Requests}
  /\ Goto(r, "looking")
  /\ UNCHANGED <<addr, seen, disk, chain, others>>

----------------------------------------------------------------------------
(***************************************************************************)
(* ensureSubWallet.  Each step is one system call: the existence test, the *)
(* read, the opening that truncates, the write.                            *)
(***************************************************************************)
\* Creates without looking.
LookBug(r) ==
  /\ pc[r] = "looking"
  /\ Goto(r, "creating")
  /\ UNCHANGED <<memory, disk, chain, others>>

\* An unresolved home or owner key throws before the file is looked at.
Look(r) ==
  /\ pc[r] = "looking"
  /\ \/ Goto(r, "threw")
     \/ Goto(r, IF file = Absent THEN "creating" ELSE "loading")
  /\ UNCHANGED <<memory, disk, chain, others>>

\* Takes whatever the file holds for a key.
LoadKeyBug(r) ==
  /\ pc[r] = "loading"
  /\ addr' = [addr EXCEPT ![r] = file]
  /\ Goto(r, "reading")
  /\ UNCHANGED <<req, seen, disk, chain, others>>

\* A file that is not a key is never overwritten.
LoadKey(r) ==
  /\ pc[r] = "loading"
  /\ IF file \in NoWallet
     THEN Goto(r, "threw") /\ UNCHANGED addr
     ELSE Goto(r, "reading") /\ addr' = [addr EXCEPT ![r] = file]
  /\ UNCHANGED <<req, seen, disk, chain, others>>

OpenKey(r) ==
  /\ pc[r] = "creating"
  /\ file' = Torn
  /\ Goto(r, "writing")
  /\ UNCHANGED <<memory, rows, chain, others>>

\* Two writers that both truncated leave one key, or the tail of the longer.
WriteKey(r) ==
  /\ pc[r] = "writing"
  /\ file' \in IF file \in Wallets THEN {r, Torn} ELSE {r}
  /\ addr' = [addr EXCEPT ![r] = r]
  /\ Goto(r, "reading")
  /\ UNCHANGED <<req, seen, rows, chain, others>>

----------------------------------------------------------------------------
(***************************************************************************)
(* fundSubWallet after the key: balances, gate, intent, legs, settled.     *)
(***************************************************************************)
ReadBalances(r) ==
  /\ pc[r] = "reading"
  /\ \/ Goto(r, "threw") /\ UNCHANGED seen
     \/ /\ seen' = [seen EXCEPT ![r] = [owner |-> owner, sub |-> bal[addr[r]]]]
        /\ Goto(r, "gating")
  /\ UNCHANGED <<req, addr, disk, chain, others>>

\* The gate refuses, or the run is dry: nothing is written.
Stop(r) ==
  /\ pc[r] = "gating"
  /\ Goto(r, "returned")
  /\ UNCHANGED <<memory, disk, chain, others>>

RowsWithIntentBug(r) == rows
RowsWithIntent(r) == rows \cup {Row(r, "intent")}

RecordIntent(r) ==
  /\ pc[r] = "gating"
  /\ Gate(req[r], seen[r])
  /\ rows' = RowsWithIntent(r)
  /\ Goto(r, "legs")
  /\ UNCHANGED <<memory, file, chain, others>>

\* One leg reaches the network; sendAndConfirmTransaction then waits.
SendLeg(r) ==
  /\ pc[r] = "legs"
  /\ \E a \in Assets :
       IsNext(r, a) /\ leg' = [leg EXCEPT ![r][a] = "flight"]
  /\ Goto(r, "confirming")
  /\ UNCHANGED <<memory, disk, owner, bal, others>>

ConfirmLeg(r) ==
  /\ pc[r] = "confirming"
  /\ \A a \in Assets : leg[r][a] \in {"none", "landed"}
  /\ Goto(r, "legs")
  /\ UNCHANGED <<memory, disk, chain, others>>

\* Never gives up on a leg that is not confirmed.
LegThrowsBug(r) == FALSE /\ UNCHANGED vars

\* Takes the error for a lost confirmation and carries on.
LegSwallowsBug(r) ==
  /\ pc[r] = "confirming"
  /\ Goto(r, "legs")
  /\ UNCHANGED <<memory, disk, chain, others>>

\* The send is refused, the transaction fails or expires, or the RPC fails
\* while it is still in flight: the exception leaves fundSubWallet.
LegThrows(r) ==
  /\ pc[r] = "confirming" \/ (pc[r] = "legs" /\ Pending(r) # {})
  /\ Goto(r, "threw")
  /\ UNCHANGED <<memory, disk, chain, others>>

Settle(r) ==
  /\ pc[r] = "legs"
  /\ Pending(r) = {}
  /\ rows' = rows \cup {Row(r, "settled")}
  /\ Goto(r, "sent")
  /\ UNCHANGED <<memory, file, chain, others>>

Crash(r) ==
  /\ Active(r)
  /\ Goto(r, "crashed")
  /\ UNCHANGED <<memory, disk, chain, others>>

----------------------------------------------------------------------------
(***************************************************************************)
(* The chain and the other users of the capped wallet.                     *)
(***************************************************************************)
Land(r, a) ==
  /\ leg[r][a] = "flight"
  /\ owner[a] >= req[r][a]
  /\ \E f \in 0 .. LegFee[a] :
       LET paid == [[owner EXCEPT ![a] = @ - req[r][a]] EXCEPT !["sol"] = @ - f]
       IN  paid["sol"] >= 0 /\ owner' = paid
  /\ bal' = [bal EXCEPT ![addr[r]][a] = @ + req[r][a]]
  /\ leg' = [leg EXCEPT ![r][a] = "landed"]
  /\ UNCHANGED <<pc, memory, disk, others>>

FailOrExpire(r, a) ==
  /\ leg[r][a] = "flight"
  /\ leg' \in {[leg EXCEPT ![r][a] = s] : s \in {"failed", "dropped"}}
  /\ UNCHANGED <<pc, memory, disk, owner, bal, others>>

SpendRent ==
  /\ moves < MoveBudget
  /\ \E w \in Wallets, d \in Rents :
       /\ \A a \in Assets : bal[w][a] >= d[a]
       /\ bal' = [bal EXCEPT ![w] = [a \in Assets |-> @[a] - d[a]]]
  /\ moves' = moves + 1
  /\ UNCHANGED <<pc, memory, disk, leg, owner, refunded>>

Refund ==
  /\ moves < MoveBudget
  /\ \E w \in Wallets, d \in Refunds :
       /\ bal' = [bal EXCEPT ![w] = [a \in Assets |-> @[a] + d[a]]]
       /\ refunded' = [a \in Assets |-> refunded[a] + d[a]]
  /\ moves' = moves + 1
  /\ UNCHANGED <<pc, memory, disk, leg, owner>>

----------------------------------------------------------------------------
Proceed(r) ==
  \/ Look(r) \/ LoadKey(r) \/ OpenKey(r) \/ WriteKey(r)
  \/ ReadBalances(r) \/ Stop(r) \/ RecordIntent(r)
  \/ SendLeg(r) \/ ConfirmLeg(r) \/ LegThrows(r) \/ Settle(r)

Solana(r) == \E a \in Assets : Land(r, a) \/ FailOrExpire(r, a)

Next ==
  \/ \E r \in Runs : Begin(r) \/ Proceed(r) \/ Crash(r) \/ Solana(r)
  \/ SpendRent
  \/ Refund

Spec == Init /\ [][Next]_vars

\* A started process is run to its end; nothing is assumed of the chain.
FairSpec == Spec /\ \A r \in Runs : WF_vars(Proceed(r))

----------------------------------------------------------------------------
(***************************************************************************)
(* Properties.                                                             *)
(***************************************************************************)
TypeOK ==
  /\ pc \in [Runs -> {"idle"} \cup Working \cup Ended]
  /\ req \in [Runs -> Amounts]
  /\ addr \in [Runs -> Wallets]
  /\ seen \in [Runs -> [owner : Amounts, sub : Amounts]]
  /\ rows \subseteq [run : Runs, status : {"intent", "settled"}]
  /\ file \in Wallets \cup NoWallet
  /\ leg \in [Runs -> [Assets -> Fates]]
  /\ owner \in Amounts
  /\ bal \in [Wallets -> Amounts]
  /\ refunded \in Amounts
  /\ moves \in 0 .. MoveBudget

\* A transfer that lands leaves the capped wallet under the cap of its asset,
\* escrow refunds aside, although the gate saw the balance several awaits, and
\* possibly a leg of a run that threw, earlier (sub-wallet.mjs:7, :67-71).
CapKept ==
  [][\A r \in Runs, a \in Assets :
       leg[r][a] = "flight" /\ leg'[r][a] = "landed" =>
         bal'[addr[r]][a] <= Caps[a] + refunded[a]]_vars

\* What the legs up to a cost beyond their amounts, which the gate never prices.
Unpriced(r, a) ==
  LET cost(b) == IF b \in Legs(r) /\ Rank[b] <= Rank[a] THEN LegFee[b] ELSE 0
  IN  cost("sol") + cost("nos") + cost("usdc")

\* No leg takes the treasury under its SOL fee floor by more than those costs,
\* at the time it lands and not only when the gate ran (sub-wallet.mjs:110).
FloorKept ==
  [][\A r \in Runs, a \in Assets :
       leg[r][a] = "flight" /\ leg'[r][a] = "landed" =>
         owner'["sol"] >= Floor - Unpriced(r, a)]_vars

\* A transfer that stops half way leaves a prefix of its legs on chain, under
\* an intent row and without a settled row; a settled row means all of them
\* landed (sub-wallet.mjs:275-308).
PartialTransferVisible ==
  \A r \in Runs :
    /\ \A a \in Legs(r) : leg[r][a] # "none" =>
         HasRow(r, "intent")
         /\ \A b \in Legs(r) : Rank[b] < Rank[a] => leg[r][b] = "landed"
    /\ HasRow(r, "settled") => \A a \in Legs(r) : leg[r][a] = "landed"

\* Money only ever goes to the wallet whose key is on disk (sub-wallet.mjs:
\* 154-156), after a crash in the middle of the key's creation too.
FundsReachable ==
  \A r \in Runs, a \in Assets : leg[r][a] # "none" => file = addr[r]

\* Every run that starts ends, whatever the chain does with its legs.
EveryRunEnds == \A r \in Runs : Active(r) ~> pc[r] \in Ended

Ledger == INSTANCE IntentLedger WITH
  Intents <- Runs, Exact <- TRUE,
  recorded <- {r \in Runs : HasRow(r, "intent")},
  effected <- {r \in Runs : \E a \in Assets : leg[r][a] = "landed"},
  verdict <- [r \in Runs |-> IF HasRow(r, "settled") THEN "settled" ELSE "open"]

\* The first leg is the effect of the intent: it lands after the intent row is
\* durable, and a settled row is backed by it.
ImplementsLedger == Ledger!Spec

=============================================================================
