------------------------------- MODULE Refill -------------------------------
(***************************************************************************)
(* bin/citizen-refill --live, which launchd starts every hour, and         *)
(* planRefill / executeRefill of                                           *)
(* skills/self/shelter/nosana/funding/refill.mjs.  A pass reads the three  *)
(* wallets, plans, appends an intent row, and carries the plan out in this *)
(* order: bridge Base USDC to the treasury as SOL (relay.link), swap SOL   *)
(* for NOS (acquireNos), top up the shelter's capped wallet                *)
(* (fundSubWallet).  Then it appends the settled row.                      *)
(*                                                                         *)
(* Passes follow each other for ever; the state keeps the last one.  The   *)
(* two Solana rails are reduced here to what executeRefill can see of      *)
(* them; AcquireNos and SubWallet open them up.  USDC, SOL and NOS are     *)
(* counted in coarse units of equal worth.                                 *)
(*                                                                         *)
(* A definition whose name ends in Bug is a faulty variant of the one that *)
(* follows it; no other definition uses it.                                *)
(***************************************************************************)
EXTENDS Integers

CONSTANTS
  Target,      \* targetSubNos, targetSubSol: the caps of the shelter wallet
  MinBridge,   \* minBridgeUsd
  KeepOnBase,  \* keepOnBaseUsd
  MaxPass,     \* maxPassUsd
  SubFloor,    \* SOL fee floor of fundSubWallet's gate
  SwapFloor,   \* SOL fee floor of acquireNos's gate
  Requested,   \* requestedSol of acquireNos
  Starts,      \* balances to start from: [base, owner, sub]
  Wealth,      \* bound: no revenue arrives when all wallets hold this much
  MaxSpent     \* bound: what is spent from Base between a plan and its deposit

Balances == [nos : Nat, sol : Nat]

ASSUME ParametersAssumption ==
  /\ Target \in Balances
  /\ MinBridge \in Nat \ {0} /\ KeepOnBase \in Nat /\ MaxPass \in Nat
  /\ SubFloor \in Nat /\ SwapFloor \in Nat /\ Requested \in Nat
  /\ Starts \subseteq [base : Nat, owner : Balances, sub : Balances]
  /\ Wealth \in Nat /\ MaxSpent \in Nat

VARIABLES
  pc,      \* where the pass is; "asleep" between passes
  plan,    \* what planRefill decided
  spent,   \* history: what others spent from Base since, until the deposit
  given,   \* what this pass's transfers delivered to the shelter
  last,    \* the rows of the last intent of citizen-refill's ledger
  deposit, \* this pass's deposit with relay.link
  late,    \* USDC of earlier passes still with relay.link
  base,    \* USDC on Base
  owner,   \* the treasury on Solana
  sub      \* the shelter's wallet

planned == <<plan, spent>>
progress == <<pc, planned, given, last>>
wallets == <<base, owner, sub>>
vars == <<progress, deposit, late, wallets>>

----------------------------------------------------------------------------
\* Without Math.max(0, ...).
ShortBug(a, b) == a - b
Short(a, b) == IF b < a THEN a - b ELSE 0
Lesser(a, b) == IF a < b THEN a ELSE b

NoPlan == [act |-> FALSE, bridge |-> 0, swap |-> FALSE, nos |-> 0, sol |-> 0]
Nothing == [nos |-> 0, sol |-> 0]

CoversBug(have, need) == have > need
Covers(have, need) == have >= need

\* Everything Base holds, as long as the pass keeps under its cap.
AvailableBug(usdc) == usdc
Available(usdc) == Short(usdc, KeepOnBase)

\* planRefill.  The inputs that are not finite numbers cannot come from the
\* readers of citizen-refill, which throw instead.
PlanRefill(usdc, o, s) ==
  LET need == [nos |-> Short(Target.nos, s.nos), sol |-> Short(Target.sol, s.sol)]
      hasNos == Covers(o.nos, need.nos)
      hasSol == Covers(o.sol, need.sol)
      usd == Lesser(Available(usdc), MaxPass)
  IN  CASE need = Nothing -> NoPlan
        [] need # Nothing /\ hasNos /\ hasSol ->
             [NoPlan EXCEPT !.act = TRUE, !.nos = need.nos, !.sol = need.sol]
        [] need # Nothing /\ ~(hasNos /\ hasSol) /\ usd < MinBridge ->
             [NoPlan EXCEPT !.nos = need.nos, !.sol = need.sol]
        [] OTHER ->
             [act |-> TRUE, bridge |-> usd, swap |-> need.nos > 0 /\ ~hasNos,
              nos |-> need.nos, sol |-> need.sol]

\* acquireNos spends at most the request and a quarter of the balance.
SwapSpend == Lesser(Requested, owner.sol \div 4)
SwapAllowed == SwapSpend > 0 /\ owner.sol - SwapSpend >= SwapFloor

\* Keeps the swap's fee floor in place of the transfer's.
GateAllowsBug ==
  /\ plan.nos > 0 => sub.nos + plan.nos <= Target.nos
  /\ plan.sol > 0 => sub.sol + plan.sol <= Target.sol
  /\ owner.nos >= plan.nos
  /\ owner.sol - plan.sol >= SwapFloor

\* evaluateFundingGate of sub-wallet.mjs on the balances fundSubWallet reads.
GateAllows ==
  /\ plan.nos > 0 => sub.nos + plan.nos <= Target.nos
  /\ plan.sol > 0 => sub.sol + plan.sol <= Target.sol
  /\ owner.nos >= plan.nos
  /\ owner.sol - plan.sol >= SubFloor

NoDeposit == [fate |-> "none", usd |-> 0]
Fates == {"none", "taken", "arrived", "refunded", "reverted"}

Goto(to) == pc' = to
AfterBridge == IF plan.swap THEN "swapping" ELSE "topup"

----------------------------------------------------------------------------
Init ==
  /\ pc = "asleep"
  /\ plan = NoPlan
  /\ spent = 0
  /\ given = Nothing
  /\ last = "none"
  /\ deposit = NoDeposit
  /\ late = 0
  /\ \E s \in Starts : base = s.base /\ owner = s.owner /\ sub = s.sub

\* The hourly tick; what an earlier pass left with relay.link stays there.
Tick ==
  /\ pc = "asleep"
  /\ late' = late + (IF deposit.fate = "taken" THEN deposit.usd ELSE 0)
  /\ deposit' = NoDeposit
  /\ plan' = NoPlan
  /\ spent' = 0
  /\ given' = Nothing
  /\ Goto("reading")
  /\ UNCHANGED <<last, wallets>>

\* The three reads, the plan and the intent row; a plan that does not act is
\* settled at once.
PlanAndRecord ==
  /\ pc = "reading"
  /\ plan' = PlanRefill(base, owner, sub)
  /\ IF plan'.act
     THEN last' = "intent" /\ Goto(IF plan'.bridge > 0 THEN "bridging"
                                   ELSE IF plan'.swap THEN "swapping" ELSE "topup")
     ELSE last' = "idle" /\ Goto("asleep")
  /\ UNCHANGED <<spent, given, deposit, late, wallets>>

\* An exception anywhere leaves executeRefill and citizen-refill: no row.
Throw ==
  /\ pc # "asleep"
  /\ Goto("asleep")
  /\ UNCHANGED <<planned, given, last, deposit, late, wallets>>

SettleAs(verdict) == last' = verdict /\ Goto("asleep")

----------------------------------------------------------------------------
(***************************************************************************)
(* The bridge leg, bridgeBaseUsdcToSolanaSol.                              *)
(***************************************************************************)
\* No Base key, or relay gave no route.
BridgeRefused ==
  /\ pc = "bridging"
  /\ SettleAs("failed")
  /\ UNCHANGED <<planned, given, deposit, late, wallets>>

\* The steps of the quote are sent and mined; the receipt's status is logged
\* and not looked at.
Deposit ==
  /\ pc = "bridging"
  /\ \/ /\ base >= plan.bridge
        /\ base' = base - plan.bridge
        /\ deposit' = [fate |-> "taken", usd |-> plan.bridge]
     \/ /\ deposit' = [fate |-> "reverted", usd |-> 0]
        /\ UNCHANGED base
  /\ Goto("polling")
  /\ UNCHANGED <<planned, given, last, late, owner, sub>>

PollSuccess ==
  /\ pc = "polling"
  /\ deposit.fate = "arrived"
  /\ Goto(AfterBridge)
  /\ UNCHANGED <<planned, given, last, deposit, late, wallets>>

PollFailure ==
  /\ pc = "polling"
  /\ deposit.fate = "refunded"
  /\ SettleAs("failed")
  /\ UNCHANGED <<planned, given, deposit, late, wallets>>

\* Thirty polls without an answer, or no status endpoint in the quote: ok.
PollsExhausted ==
  /\ pc = "polling"
  /\ Goto(AfterBridge)
  /\ UNCHANGED <<planned, given, last, deposit, late, wallets>>

----------------------------------------------------------------------------
(***************************************************************************)
(* The swap leg: acquireNos({live: true}).  It may throw after the swap    *)
(* landed, or report a swap whose row it reconciled.                       *)
(***************************************************************************)
SwapPosts ==
  /\ pc = "swapping"
  /\ SwapAllowed
  /\ owner' = [nos |-> owner.nos + SwapSpend, sol |-> owner.sol - SwapSpend]
  /\ Goto("topup") \/ Goto("asleep")
  /\ UNCHANGED <<planned, given, last, deposit, late, base, sub>>

\* Its gate refuses and it returns posted: false.
SwapRefused ==
  /\ pc = "swapping"
  /\ SettleAs("failed")
  /\ UNCHANGED <<planned, given, deposit, late, wallets>>

----------------------------------------------------------------------------
(***************************************************************************)
(* The top-up leg: fundSubWallet({live: true}), SOL first, then NOS.       *)
(***************************************************************************)
TopUpRefusedBug ==
  /\ pc = "topup"
  /\ ~GateAllows
  /\ SettleAs("ok")
  /\ UNCHANGED <<planned, given, deposit, late, wallets>>

TopUpRefused ==
  /\ pc = "topup"
  /\ ~GateAllows
  /\ SettleAs("failed")
  /\ UNCHANGED <<planned, given, deposit, late, wallets>>

TopUpAllowed ==
  /\ pc = "topup"
  /\ GateAllows
  /\ Goto("solleg")
  /\ UNCHANGED <<planned, given, last, deposit, late, wallets>>

\* A leg lands, and the call returns or throws all the same.
SolLeg ==
  /\ pc = "solleg"
  /\ owner.sol >= plan.sol
  /\ owner' = [owner EXCEPT !.sol = @ - plan.sol]
  /\ sub' = [sub EXCEPT !.sol = @ + plan.sol]
  /\ given' = [given EXCEPT !.sol = plan.sol]
  /\ Goto("nosleg") \/ (plan.sol > 0 /\ Goto("asleep"))
  /\ UNCHANGED <<planned, last, deposit, late, base>>

NosLeg ==
  /\ pc = "nosleg"
  /\ owner.nos >= plan.nos
  /\ owner' = [owner EXCEPT !.nos = @ - plan.nos]
  /\ sub' = [sub EXCEPT !.nos = @ + plan.nos]
  /\ given' = [given EXCEPT !.nos = plan.nos]
  /\ Goto("settling") \/ (plan.nos > 0 /\ Goto("asleep"))
  /\ UNCHANGED <<planned, last, deposit, late, base>>

SettleOk ==
  /\ pc = "settling"
  /\ SettleAs("ok")
  /\ UNCHANGED <<planned, given, deposit, late, wallets>>

----------------------------------------------------------------------------
(***************************************************************************)
(* relay.link, the shelter, the agent's customers and what it works with.  *)
(***************************************************************************)
Arrive ==
  /\ deposit.fate = "taken"
  /\ deposit' = [deposit EXCEPT !.fate = "arrived"]
  /\ owner' = [owner EXCEPT !.sol = @ + deposit.usd]
  /\ UNCHANGED <<progress, late, base, sub>>

RelayRefunds ==
  /\ deposit.fate = "taken"
  /\ deposit' = [deposit EXCEPT !.fate = "refunded"]
  /\ base' = base + deposit.usd
  /\ UNCHANGED <<progress, late, owner, sub>>

LateOutcome ==
  /\ late > 0
  /\ late' = 0
  /\ \/ owner' = [owner EXCEPT !.sol = @ + late] /\ UNCHANGED base
     \/ base' = base + late /\ UNCHANGED owner
  /\ UNCHANGED <<progress, deposit, sub>>

PayRent ==
  /\ \/ sub.nos > 0 /\ sub' = [sub EXCEPT !.nos = @ - 1]
     \/ sub.sol > 0 /\ sub' = [sub EXCEPT !.sol = @ - 1]
  /\ UNCHANGED <<progress, deposit, late, base, owner>>

Earn ==
  /\ base + late + deposit.usd + owner.nos + owner.sol + sub.nos + sub.sol < Wealth
  /\ base' = base + 1
  /\ UNCHANGED <<progress, deposit, late, owner, sub>>

\* Inference and Modal are paid from Base at any time.
SpendOnBase ==
  /\ base > 0
  /\ base' = base - 1
  /\ IF pc = "bridging" THEN spent < MaxSpent /\ spent' = spent + 1
                          ELSE UNCHANGED spent
  /\ UNCHANGED <<pc, plan, given, last, deposit, late, owner, sub>>

----------------------------------------------------------------------------
Bridge ==
  BridgeRefused \/ Deposit \/ PollSuccess \/ PollFailure \/ PollsExhausted
Swap == SwapPosts \/ SwapRefused
TopUp == TopUpRefused \/ TopUpAllowed \/ SolLeg \/ NosLeg
Step == PlanAndRecord \/ Bridge \/ Swap \/ TopUp \/ SettleOk

Next ==
  \/ Tick \/ Step \/ Throw
  \/ Arrive \/ RelayRefunds \/ LateOutcome \/ PayRent \/ Earn \/ SpendOnBase

Spec == Init /\ [][Next]_vars

\* launchd starts a pass every hour and a started pass ends.
FairSpec == Spec /\ WF_vars(Tick) /\ WF_vars(Step \/ Throw)

\* Besides, no outage lasts for ever: a step that is tried again and again
\* succeeds once.
WorkingSpec ==
  /\ FairSpec
  /\ SF_vars(PlanAndRecord) /\ SF_vars(SettleOk)
  /\ SF_vars(Deposit) /\ SF_vars(PollSuccess) /\ WF_vars(Arrive)
  /\ SF_vars(SwapPosts /\ pc' = "topup")
  /\ SF_vars(TopUpAllowed) /\ SF_vars(TopUpRefused)
  /\ SF_vars(SolLeg /\ pc' = "nosleg") /\ SF_vars(NosLeg /\ pc' = "settling")

----------------------------------------------------------------------------
(***************************************************************************)
(* Properties.                                                             *)
(***************************************************************************)
TypeOK ==
  /\ pc \in {"asleep", "reading", "bridging", "polling", "swapping", "topup",
             "solleg", "nosleg", "settling"}
  /\ plan \in [act : BOOLEAN, bridge : Nat, swap : BOOLEAN, nos : Nat, sol : Nat]
  /\ spent \in Nat
  /\ given \in Balances
  /\ last \in {"none", "intent", "idle", "ok", "failed"}
  /\ deposit \in [fate : Fates, usd : Nat]
  /\ late \in Nat
  /\ base \in Nat
  /\ owner \in Balances
  /\ sub \in Balances

\* "So this much always stays behind" (refill.mjs:42-46): a deposit takes Base
\* under what the agent works with by no more than the agent spent from it
\* between the reading and the deposit, whatever earlier passes left with
\* relay.link and whatever comes back from it in between.
WorkingCapitalKept ==
  [][deposit.fate = "none" /\ deposit'.fate = "taken" =>
       base' + spent >= KeepOnBase]_vars

\* A pass recorded as ok delivered all the shelter was short of when it was
\* planned, whatever failed before it (citizen-refill:280-297).
OkMeansDelivered ==
  [][last' = "ok" /\ last # "ok" =>
       given = [nos |-> plan.nos, sol |-> plan.sol]]_vars

\* After a swap the top-up can be short of NOS only: the swap's floor leaves
\* the SOL the transfer and its own floor ask for (acquire-nos.mjs:59,
\* sub-wallet.mjs:110).
SwapLeavesFees ==
  [][pc = "topup" /\ plan.swap /\ last' = "failed" /\ last # "failed" =>
       owner.nos < plan.nos]_vars

Stocked == sub.nos >= Target.nos /\ sub.sol >= Target.sol
Payable ==
  /\ owner.nos >= Short(Target.nos, sub.nos)
  /\ owner.sol >= Short(Target.sol, sub.sol) + SubFloor

\* When the treasury can pay for the shelter's shortfall and its own fee floor,
\* and goes on being able to, the hourly passes keep bringing the shelter back
\* to its caps.
PayableIsStocked == <>[]Payable => []<>Stocked

\* What the program exists to prevent (refill.mjs:5-6), with every rail working
\* again and again: for ever rich in USDC on Base, and homeless for want of NOS.
NeverRichAndHomeless ==
  ~ <>[](base >= KeepOnBase + MinBridge /\ sub.nos = 0)

=============================================================================
