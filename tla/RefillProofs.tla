---------------------------- MODULE RefillProofs ----------------------------
(***************************************************************************)
(* Proofs about the hourly refill, for any caps, floors and bridge limits, *)
(* any starting wallets and any pace of revenue, spending and relay.link.  *)
(***************************************************************************)
EXTENDS Refill, TLAPS

(***************************************************************************)
(* A plan is made from balances that others change while it is carried     *)
(* out.  The treasury only gains and the shelter only pays rent, which is  *)
(* in the plan's favour; Base loses what the agent works with, which       *)
(* `spent' counts.  For each place of a pass, what is left of the reading. *)
(***************************************************************************)
Planned == {"bridging", "polling", "swapping", "topup", "solleg"}

\* What the bridge leg will take was spare when it was planned, and what is gone
\* since was spent by others.
BridgeInv == pc = "bridging" => base + spent >= KeepOnBase + plan.bridge

\* What was delivered follows the legs.
GivenInv ==
  /\ pc \in Planned \cup {"reading"} => given = Nothing
  /\ pc = "nosleg" => given = [nos |-> 0, sol |-> plan.sol]
  /\ pc = "settling" => given = [nos |-> plan.nos, sol |-> plan.sol]

\* The top-up still fits under the caps, and the swap left its floor.
RoomInv ==
  /\ pc \in Planned =>
       /\ plan.nos > 0 => sub.nos + plan.nos <= Target.nos
       /\ plan.sol > 0 => sub.sol + plan.sol <= Target.sol
  /\ pc = "topup" /\ plan.swap => owner.sol >= SwapFloor

IInv == TypeOK /\ BridgeInv /\ GivenInv /\ RoomInv

----------------------------------------------------------------------------
\* The plan spares what stays on Base and asks for no more than the shortfall.
LEMMA PlanSound ==
  ASSUME NEW usdc \in Nat, NEW o \in Balances, NEW s \in Balances
  PROVE  LET p == PlanRefill(usdc, o, s)
         IN  /\ p \in [act : BOOLEAN, bridge : Nat, swap : BOOLEAN, nos : Nat, sol : Nat]
             /\ p.bridge > 0 => KeepOnBase + p.bridge <= usdc
             /\ p.nos > 0 => s.nos + p.nos <= Target.nos
             /\ p.sol > 0 => s.sol + p.sol <= Target.sol
<1> DEFINE need == [nos |-> Short(Target.nos, s.nos), sol |-> Short(Target.sol, s.sol)]
           usd == Lesser(Available(usdc), MaxPass)
           p == PlanRefill(usdc, o, s)
<1>1. /\ Target.nos \in Nat /\ Target.sol \in Nat /\ KeepOnBase \in Nat /\ MaxPass \in Nat
      /\ s.nos \in Nat /\ s.sol \in Nat
  BY ParametersAssumption DEF Balances
<1>2. /\ need.nos \in Nat /\ (need.nos > 0 => s.nos + need.nos <= Target.nos)
      /\ need.sol \in Nat /\ (need.sol > 0 => s.sol + need.sol <= Target.sol)
  BY <1>1 DEF Short
<1>3. usd \in Nat /\ (usd > 0 => KeepOnBase + usd <= usdc)
  BY <1>1 DEF Lesser, Available, Short
<1>4. \/ p = NoPlan
      \/ p = [NoPlan EXCEPT !.act = TRUE, !.nos = need.nos, !.sol = need.sol]
      \/ p = [NoPlan EXCEPT !.nos = need.nos, !.sol = need.sol]
      \/ \E b \in BOOLEAN :
           p = [act |-> TRUE, bridge |-> usd, swap |-> b, nos |-> need.nos, sol |-> need.sol]
  BY DEF PlanRefill
<1> HIDE DEF need, usd, p
<1>5. /\ p \in [act : BOOLEAN, bridge : Nat, swap : BOOLEAN, nos : Nat, sol : Nat]
      /\ p.bridge \in {0, usd} /\ p.nos \in {0, need.nos} /\ p.sol \in {0, need.sol}
  <2>1. CASE p = NoPlan
    BY <2>1 DEF NoPlan
  <2>2. CASE p = [NoPlan EXCEPT !.act = TRUE, !.nos = need.nos, !.sol = need.sol]
    BY <1>2, <2>2 DEF NoPlan
  <2>3. CASE p = [NoPlan EXCEPT !.nos = need.nos, !.sol = need.sol]
    BY <1>2, <2>3 DEF NoPlan
  <2>4. ASSUME NEW b \in BOOLEAN,
               p = [act |-> TRUE, bridge |-> usd, swap |-> b, nos |-> need.nos, sol |-> need.sol]
        PROVE  /\ p \in [act : BOOLEAN, bridge : Nat, swap : BOOLEAN, nos : Nat, sol : Nat]
               /\ p.bridge \in {0, usd} /\ p.nos \in {0, need.nos} /\ p.sol \in {0, need.sol}
    BY <1>2, <1>3, <2>4
  <2> QED
    BY <1>4, <2>1, <2>2, <2>3, <2>4
<1>6. /\ p.bridge > 0 => KeepOnBase + p.bridge <= usdc
      /\ p.nos > 0 => s.nos + p.nos <= Target.nos
      /\ p.sol > 0 => s.sol + p.sol <= Target.sol
  BY <1>2, <1>3, <1>5
<1> QED
  BY <1>5, <1>6 DEF p

LEMMA SpendLeaves ==
  ASSUME owner \in Balances
  PROVE  SwapSpend \in Nat /\ SwapSpend <= owner.sol
<1>1. owner.sol \in Nat /\ Requested \in Nat
  BY ParametersAssumption DEF Balances
<1>2. owner.sol \div 4 \in Nat /\ owner.sol \div 4 <= owner.sol
  BY <1>1
<1> QED
  BY <1>1, <1>2 DEF SwapSpend, Lesser

----------------------------------------------------------------------------
LEMMA InitIInv == ASSUME Init PROVE IInv
BY ParametersAssumption
   DEF Init, IInv, TypeOK, BridgeInv, GivenInv, RoomInv, Planned, NoPlan, Nothing, NoDeposit,
       Fates, Balances

LEMMA PlanKeeps == ASSUME IInv, Tick \/ PlanAndRecord \/ Throw PROVE IInv'
<1> USE DEF Goto, wallets, planned
<1>1. CASE Tick
  BY <1>1 DEF Tick, IInv, TypeOK, BridgeInv, GivenInv, RoomInv, Planned, NoPlan, Nothing,
     NoDeposit, Fates, Balances
<1>2. CASE PlanAndRecord
  <2>1. /\ plan' \in [act : BOOLEAN, bridge : Nat, swap : BOOLEAN, nos : Nat, sol : Nat]
        /\ plan'.bridge > 0 => KeepOnBase + plan'.bridge <= base
        /\ plan'.nos > 0 => sub.nos + plan'.nos <= Target.nos
        /\ plan'.sol > 0 => sub.sol + plan'.sol <= Target.sol
    BY <1>2, PlanSound DEF PlanAndRecord, IInv, TypeOK
  <2>2. /\ pc = "reading" /\ UNCHANGED <<spent, given, deposit, late, base, owner, sub>>
        /\ last' \in {"intent", "idle"}
        /\ \/ pc' = "bridging" /\ plan'.bridge > 0
           \/ pc' = "swapping"
           \/ pc' = "topup" /\ ~plan'.swap
           \/ pc' = "asleep"
    BY <1>2, <2>1 DEF PlanAndRecord
  <2>3. TypeOK'
    BY <2>1, <2>2 DEF IInv, TypeOK
  <2>4. KeepOnBase \in Nat
    BY ParametersAssumption
  <2> QED
    BY <2>1, <2>2, <2>3, <2>4 DEF IInv, TypeOK, BridgeInv, GivenInv, RoomInv, Planned
<1>3. CASE Throw
  BY <1>3 DEF Throw, IInv, TypeOK, BridgeInv, GivenInv, RoomInv, Planned
<1> QED
  BY <1>1, <1>2, <1>3

LEMMA BridgeKeeps == ASSUME IInv, Bridge PROVE IInv'
<1> USE DEF Goto, SettleAs, AfterBridge, wallets, planned, IInv, BridgeInv, GivenInv, RoomInv, Planned
<1>1. CASE BridgeRefused \/ PollFailure
  BY <1>1 DEF BridgeRefused, PollFailure, TypeOK
<1>2. CASE Deposit
  <2>1. base' \in Nat /\ deposit' \in [fate : Fates, usd : Nat]
    BY <1>2 DEF Deposit, TypeOK, Fates
  <2> QED
    BY <1>2, <2>1 DEF Deposit, TypeOK
<1>3. CASE PollSuccess \/ PollsExhausted
  BY <1>3 DEF PollSuccess, PollsExhausted, TypeOK
<1> QED
  BY <1>1, <1>2, <1>3 DEF Bridge

LEMMA SwapKeeps == ASSUME IInv, Swap PROVE IInv'
<1> USE DEF Goto, SettleAs, wallets, planned, IInv, BridgeInv, GivenInv, RoomInv, Planned
<1>1. CASE SwapPosts
  <2>1. /\ owner' = [nos |-> owner.nos + SwapSpend, sol |-> owner.sol - SwapSpend]
        /\ owner.sol - SwapSpend >= SwapFloor /\ owner \in Balances
    BY <1>1 DEF SwapPosts, SwapAllowed, TypeOK
  <2>2. owner' \in Balances /\ owner'.sol >= SwapFloor
    BY <2>1, SpendLeaves DEF Balances
  <2> QED
    BY <1>1, <2>2 DEF SwapPosts, TypeOK
<1>2. CASE SwapRefused
  BY <1>2 DEF SwapRefused, TypeOK
<1> QED
  BY <1>1, <1>2 DEF Swap

LEMMA TopUpKeeps == ASSUME IInv, TopUp \/ SettleOk PROVE IInv'
<1> USE DEF Goto, SettleAs, wallets, planned, IInv, BridgeInv, GivenInv, RoomInv, Planned
<1>1. CASE TopUpRefused \/ TopUpAllowed \/ SettleOk
  BY <1>1 DEF TopUpRefused, TopUpAllowed, SettleOk, TypeOK
<1>2. CASE SolLeg
  <2>1. owner' \in Balances /\ sub' \in Balances
    BY <1>2 DEF SolLeg, TypeOK, Balances
  <2>2. given' = [nos |-> 0, sol |-> plan.sol] /\ given' \in Balances
    BY <1>2 DEF SolLeg, Nothing, TypeOK, Balances
  <2> QED
    BY <1>2, <2>1, <2>2 DEF SolLeg, TypeOK
<1>3. CASE NosLeg
  <2>1. owner' \in Balances /\ sub' \in Balances
    BY <1>3 DEF NosLeg, TypeOK, Balances
  <2>2. given' = [nos |-> plan.nos, sol |-> plan.sol] /\ given' \in Balances
    BY <1>3 DEF NosLeg, TypeOK, Balances
  <2> QED
    BY <1>3, <2>1, <2>2 DEF NosLeg, TypeOK
<1> QED
  BY <1>1, <1>2, <1>3 DEF TopUp

\* Money that comes in, rent that is paid and what is spent from Base leave a plan
\* possible.
LEMMA WorldKeeps ==
  ASSUME IInv, Arrive \/ RelayRefunds \/ LateOutcome \/ PayRent \/ Earn \/ SpendOnBase
  PROVE  IInv'
<1> USE DEF progress, planned
<1>1. /\ UNCHANGED <<pc, plan, given, last>>
      /\ base' \in Nat /\ spent' \in Nat
      /\ pc = "bridging" => base + spent <= base' + spent'
      /\ owner' \in Balances /\ owner.sol <= owner'.sol
      /\ sub' \in Balances /\ sub'.nos <= sub.nos /\ sub'.sol <= sub.sol
      /\ late' \in Nat /\ deposit' \in [fate : Fates, usd : Nat]
  <2>1. CASE Arrive
    BY <2>1 DEF Arrive, IInv, TypeOK, Balances, Fates
  <2>2. CASE RelayRefunds
    BY <2>2 DEF RelayRefunds, IInv, TypeOK, Balances, Fates
  <2>3. CASE LateOutcome
    BY <2>3 DEF LateOutcome, IInv, TypeOK, Balances
  <2>4. CASE PayRent
    BY <2>4 DEF PayRent, IInv, TypeOK, Balances
  <2>5. CASE Earn
    BY <2>5 DEF Earn, IInv, TypeOK, Balances
  <2>6. CASE SpendOnBase
    BY <2>6 DEF SpendOnBase, IInv, TypeOK, Balances
  <2> QED
    BY <2>1, <2>2, <2>3, <2>4, <2>5, <2>6
<1>2. /\ plan.bridge \in Nat /\ plan.nos \in Nat /\ plan.sol \in Nat
      /\ base \in Nat /\ spent \in Nat
      /\ sub.nos \in Nat /\ sub.sol \in Nat /\ sub'.nos \in Nat /\ sub'.sol \in Nat
      /\ owner.sol \in Nat /\ owner'.sol \in Nat
      /\ KeepOnBase \in Nat /\ Target.nos \in Nat /\ Target.sol \in Nat /\ SwapFloor \in Nat
  BY <1>1, ParametersAssumption DEF IInv, TypeOK, Balances
<1>3. TypeOK'
  BY <1>1 DEF IInv, TypeOK
<1>4. BridgeInv'
  <2>1. base' \in Nat /\ spent' \in Nat
    BY <1>1
  <2>2. ASSUME pc = "bridging" PROVE base' + spent' >= KeepOnBase + plan.bridge
    <3>1. base + spent >= KeepOnBase + plan.bridge /\ base + spent <= base' + spent'
      BY <1>1, <2>2 DEF IInv, BridgeInv
    <3>2. base \in Nat /\ spent \in Nat /\ KeepOnBase \in Nat
      BY <1>2
    <3> QED
      <4>1. PICK b \in Nat, n \in Nat : b = base' /\ n = spent'
        BY <2>1
      <4>2. b + n >= KeepOnBase + plan.bridge
        <5>1. base + spent <= b + n
          BY <3>1, <4>1
        <5>2. plan.bridge \in Nat
          BY <1>2
        <5>3. base + spent >= KeepOnBase + plan.bridge
          BY <3>1
        <5> QED
          BY <3>2, <5>1, <5>2, <5>3
      <4> QED
        BY <4>1, <4>2
  <2>3. pc' = pc /\ plan' = plan
    BY <1>1
  <2> QED
    BY <2>2, <2>3 DEF BridgeInv
<1>5. GivenInv' /\ RoomInv'
  BY <1>1, <1>2 DEF IInv, GivenInv, RoomInv
<1> QED
  BY <1>3, <1>4, <1>5 DEF IInv

LEMMA NextIInv == ASSUME IInv, [Next]_vars PROVE IInv'
<1>1. CASE UNCHANGED vars
  BY <1>1 DEF vars, progress, planned, wallets, IInv, TypeOK, BridgeInv, GivenInv, RoomInv
<1> QED
  BY <1>1, PlanKeeps, BridgeKeeps, SwapKeeps, TopUpKeeps, WorldKeeps DEF Next, Step

LEMMA RefillInductive == Spec => []IInv
BY InitIInv, NextIInv, PTL DEF Spec

----------------------------------------------------------------------------
\* The variables keep their types, for every value of the constants.
THEOREM RefillTyped == Spec => []TypeOK
<1>1. IInv => TypeOK
  BY DEF IInv
<1> QED
  BY <1>1, RefillInductive, PTL

\* Whatever the agent earns and spends on Base and whatever earlier passes left
\* with relay.link: a deposit takes Base under the working capital by no more
\* than others spent from it since the plan (refill.mjs:42-46).
THEOREM WorkingCapitalIsKept == Spec => WorkingCapitalKept
<1>1. ASSUME IInv, [Next]_vars
      PROVE  [deposit.fate = "none" /\ deposit'.fate = "taken" =>
                base' + spent >= KeepOnBase]_vars
  <2>1. ASSUME deposit.fate = "none", deposit'.fate = "taken"
        PROVE  base' + spent >= KeepOnBase
    <3>1. Deposit
      <4>1. CASE Tick
        BY <2>1, <4>1 DEF Tick, NoDeposit
      <4>2. CASE PlanAndRecord \/ Throw \/ Swap \/ TopUp \/ SettleOk
        BY <2>1, <4>2 DEF PlanAndRecord, Throw, Swap, SwapPosts, SwapRefused, TopUp,
           TopUpRefused, TopUpAllowed, SolLeg, NosLeg, SettleOk
      <4>3. CASE Bridge
        BY <2>1, <4>3 DEF Bridge, BridgeRefused, PollSuccess, PollFailure, PollsExhausted
      <4>4. CASE Arrive \/ RelayRefunds \/ LateOutcome \/ PayRent \/ Earn \/ SpendOnBase
        BY <2>1, <4>4 DEF Arrive, RelayRefunds, LateOutcome, PayRent, Earn, SpendOnBase
      <4>5. CASE UNCHANGED vars
        BY <2>1, <4>5 DEF vars
      <4> QED
        BY <1>1, <4>1, <4>2, <4>3, <4>4, <4>5 DEF Next, Step
    <3>2. pc = "bridging" /\ base' = base - plan.bridge
      BY <2>1, <3>1 DEF Deposit
    <3> QED
      BY <1>1, <3>2, ParametersAssumption DEF IInv, TypeOK, BridgeInv
  <2> QED
    BY <2>1
<1> QED
  BY <1>1, RefillInductive, PTL DEF Spec, WorkingCapitalKept

\* Which step writes which verdict.
LEMMA WhoSettles ==
  ASSUME [Next]_vars, last' # last
  PROVE  /\ last' = "ok" => SettleOk
         /\ last' = "failed" /\ pc = "topup" => TopUpRefused
<1> USE DEF SettleAs, progress
<1>1. CASE Tick \/ Throw \/ Arrive \/ RelayRefunds \/ LateOutcome \/ PayRent \/ Earn \/ SpendOnBase
             \/ UNCHANGED vars
  BY <1>1 DEF Tick, Throw, Arrive, RelayRefunds, LateOutcome, PayRent, Earn, SpendOnBase, vars
<1>2. CASE PlanAndRecord
  BY <1>2 DEF PlanAndRecord
<1>3. CASE Bridge \/ Swap
  BY <1>3 DEF Bridge, BridgeRefused, Deposit, PollSuccess, PollFailure, PollsExhausted, Swap,
     SwapPosts, SwapRefused
<1>4. CASE TopUp
  BY <1>4 DEF TopUp, TopUpRefused, TopUpAllowed, SolLeg, NosLeg
<1>5. CASE SettleOk
  BY <1>5 DEF SettleOk
<1> QED
  BY <1>1, <1>2, <1>3, <1>4, <1>5 DEF Next, Step

\* A pass recorded as ok delivered the whole shortfall of its plan
\* (citizen-refill:280-297).
THEOREM OkIsDelivered == Spec => OkMeansDelivered
<1>1. ASSUME IInv, [Next]_vars
      PROVE  [last' = "ok" /\ last # "ok" => given = [nos |-> plan.nos, sol |-> plan.sol]]_vars
  BY <1>1, WhoSettles DEF SettleOk, IInv, GivenInv
<1> QED
  BY <1>1, RefillInductive, PTL DEF Spec, OkMeansDelivered

\* When the swap keeps at least what the transfer asks for, its cap and its own
\* floor, a top-up that fails after a swap fails for want of NOS only
\* (acquire-nos.mjs:59, sub-wallet.mjs:110).
THEOREM SwapFloorSuffices ==
  ASSUME SwapFloor >= Target.sol + SubFloor
  PROVE  Spec => SwapLeavesFees
<1>1. ASSUME IInv, [Next]_vars
      PROVE  [pc = "topup" /\ plan.swap /\ last' = "failed" /\ last # "failed" =>
                owner.nos < plan.nos]_vars
  <2>1. ASSUME pc = "topup", plan.swap, last' = "failed", last # "failed"
        PROVE  owner.nos < plan.nos
    <3>1. ~GateAllows
      BY <1>1, <2>1, WhoSettles DEF TopUpRefused
    <3>2. /\ owner.nos \in Nat /\ owner.sol \in Nat /\ plan.nos \in Nat /\ plan.sol \in Nat
          /\ sub.sol \in Nat /\ Target.sol \in Nat /\ SubFloor \in Nat /\ SwapFloor \in Nat
      BY <1>1, ParametersAssumption DEF IInv, TypeOK, Balances
    <3>3. /\ plan.nos > 0 => sub.nos + plan.nos <= Target.nos
          /\ plan.sol > 0 => sub.sol + plan.sol <= Target.sol
          /\ owner.sol >= SwapFloor
      BY <1>1, <2>1 DEF IInv, RoomInv, Planned
    <3>4. plan.sol <= Target.sol
      BY <3>2, <3>3
    <3>5. owner.sol - plan.sol >= SubFloor
      BY <3>2, <3>3, <3>4
    <3> QED
      BY <3>1, <3>2, <3>3, <3>5 DEF GateAllows
  <2> QED
    BY <2>1
<1> QED
  BY <1>1, RefillInductive, PTL DEF Spec, SwapLeavesFees

=============================================================================
