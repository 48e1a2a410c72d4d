--------------------------- MODULE SubWalletProofs ---------------------------
(***************************************************************************)
(* Proofs about SubWallet, for any number of runs, any amounts and any     *)
(* movement of the capped wallet: what the rows of the funding file tell   *)
(* about the legs, under every schedule; where the money goes, when runs   *)
(* do not overlap; and the cap and the floor, when moreover no run starts  *)
(* while a transfer is in flight.  A run takes a bounded number of steps.  *)
(***************************************************************************)
EXTENDS SubWallet, TLAPS

BeforeIntent ==
  {"idle", "looking", "loading", "creating", "writing", "reading", "gating"}

NoLegs(r) == \A a \in Assets : leg[r][a] = "none"

(***************************************************************************)
(* What holds of one run under every schedule.  PartialTransferVisible is  *)
(* not inductive: a leg may be sent only because the run that is between   *)
(* two legs has seen the ones before confirmed.                            *)
(***************************************************************************)
RunInv(r) ==
  /\ pc[r] \in BeforeIntent => NoLegs(r) /\ ~HasRow(r, "intent") /\ ~HasRow(r, "settled")
  /\ pc[r] \in {"legs", "confirming"} =>
       HasRow(r, "intent") /\ ~HasRow(r, "settled") /\ Legs(r) # {}
  /\ pc[r] = "legs" => \A a \in Assets : leg[r][a] \in {"none", "landed"}
  /\ \A a \in Assets : leg[r][a] # "none" =>
       /\ a \in Legs(r)
       /\ HasRow(r, "intent")
       /\ \A b \in Legs(r) : Rank[b] < Rank[a] => leg[r][b] = "landed"
  /\ HasRow(r, "settled") =>
       HasRow(r, "intent") /\ Legs(r) # {} /\ \A a \in Legs(r) : leg[r][a] = "landed"

IInv == TypeOK /\ \A r \in Runs : RunInv(r)

(***************************************************************************)
(* What holds when runs do not overlap: the key file that the active run   *)
(* looked at is as it left it, and a wallet that was paid is the last one. *)
(***************************************************************************)
OneActive == \A q, r \in Runs : Active(q) /\ Active(r) => q = r

KeyInv(r) ==
  /\ pc[r] = "creating" => file = Absent
  /\ pc[r] = "writing" => file = Torn
  /\ pc[r] \in {"reading", "gating", "legs", "confirming"} => file = addr[r]
  /\ ~NoLegs(r) => file = addr[r]

KeysInv == OneActive /\ \A r \in Runs : KeyInv(r)

(***************************************************************************)
(* What holds when, moreover, no run starts while a transfer is in flight: *)
(* the balances a run read differ from the present ones by its own landed  *)
(* legs, and for the capped wallet by refunds and rent.                    *)
(***************************************************************************)
InFlight(r) == \E a \in Assets : leg[r][a] = "flight"
Busy(r) == Active(r) \/ InFlight(r)
Solo == \A q, r \in Runs : Busy(q) /\ Busy(r) => q = r

Landed(r, a, amount) == IF leg[r][a] = "landed" THEN amount ELSE 0
Costs(r) ==
  Landed(r, "sol", LegFee["sol"]) + Landed(r, "nos", LegFee["nos"])
    + Landed(r, "usdc", LegFee["usdc"])

Pays(r) == pc[r] \in {"legs", "confirming"} \/ InFlight(r)

MoneyInv(r) ==
  /\ Pays(r) => Gate(req[r], seen[r])
  /\ Pays(r) \/ pc[r] = "gating" =>
       /\ \A a \in Assets :
            bal[addr[r]][a] <= seen[r].sub[a] + refunded[a] + Landed(r, a, req[r][a])
       /\ owner["sol"] + Landed(r, "sol", req[r]["sol"]) + Costs(r) >= seen[r].owner["sol"]

TickInv == Solo /\ \A r \in Runs : MoneyInv(r)

----------------------------------------------------------------------------
LEMMA InitTyped == ASSUME Init PROVE TypeOK
<1> USE ParametersAssumption DEF Init
<1>1. Zero \in Amounts
  BY DEF Zero, Amounts
<1>2. /\ pc \in [Runs -> {"idle"}] /\ rows = {} /\ moves \in 0 .. MoveBudget
      /\ leg \in [Runs -> [Assets -> Fates]]
  BY DEF Fates
<1>3. file \in Wallets \cup NoWallet
  BY DEF Wallets, NoWallet
<1>4. /\ req \in [Runs -> Amounts] /\ addr \in [Runs -> Wallets]
      /\ seen \in [Runs -> [owner : Amounts, sub : Amounts]]
      /\ owner \in Amounts /\ refunded \in Amounts
  BY <1>1 DEF Wallets
<1>5. bal \in [Wallets -> Amounts]
  <2>1. PICK b \in InitSub : bal = [w \in Wallets |-> IF w = Elder THEN b ELSE Zero]
    OBVIOUS
  <2>2. b \in Amounts
    BY <2>1
  <2> QED
    BY <1>1, <2>1, <2>2
<1> QED
  BY <1>2, <1>3, <1>4, <1>5 DEF TypeOK

\* What a run does to its own record keeps the types, the chain apart.
LEMMA ProceedTyped ==
  ASSUME TypeOK, NEW r \in Runs, Begin(r) \/ Proceed(r) \/ Crash(r)
  PROVE  TypeOK'
<1> USE DEF TypeOK, Goto, memory, disk, chain, others, Working, Ended
<1>1. CASE Begin(r)
  BY <1>1, ParametersAssumption DEF Begin
<1>2. CASE Look(r) \/ LoadKey(r) \/ OpenKey(r) \/ WriteKey(r)
  BY <1>2 DEF Look, LoadKey, OpenKey, WriteKey, Wallets, NoWallet
<1>3. CASE ReadBalances(r)
  <2>1. [owner |-> owner, sub |-> bal[addr[r]]] \in [owner : Amounts, sub : Amounts]
    OBVIOUS
  <2>2. pc' \in [Runs -> {"idle"} \cup Working \cup Ended]
    BY <1>3 DEF ReadBalances
  <2>3. seen' \in [Runs -> [owner : Amounts, sub : Amounts]]
    BY <1>3, <2>1 DEF ReadBalances
  <2> QED
    BY <1>3, <2>2, <2>3 DEF ReadBalances
<1>4. CASE Stop(r) \/ RecordIntent(r) \/ Settle(r)
  <2>1. pc' \in [Runs -> {"idle"} \cup Working \cup Ended]
    BY <1>4 DEF Stop, RecordIntent, Settle
  <2>2. rows' \subseteq [run : Runs, status : {"intent", "settled"}]
    BY <1>4 DEF Stop, RecordIntent, RowsWithIntent, Settle, Row
  <2> QED
    BY <1>4, <2>1, <2>2 DEF Stop, RecordIntent, Settle
<1>5. CASE SendLeg(r)
  BY <1>5 DEF SendLeg, Fates
<1>6. CASE ConfirmLeg(r) \/ LegThrows(r) \/ Crash(r)
  BY <1>6 DEF ConfirmLeg, LegThrows, Crash
<1> QED
  BY <1>1, <1>2, <1>3, <1>4, <1>5, <1>6 DEF Proceed

LEMMA LandTyped ==
  ASSUME TypeOK, NEW r \in Runs, NEW a \in Assets, Land(r, a)
  PROVE  TypeOK'
<1> USE DEF TypeOK, memory, disk, others
<1>1. owner' \in Amounts
  <2>1. PICK f \in 0 .. LegFee[a] :
          LET paid == [[owner EXCEPT ![a] = @ - req[r][a]] EXCEPT !["sol"] = @ - f]
          IN  paid["sol"] >= 0 /\ owner' = paid
    BY DEF Land
  <2> DEFINE mid == [owner EXCEPT ![a] = @ - req[r][a]]
  <2>2. owner[a] >= req[r][a] /\ owner[a] \in Nat /\ req[r][a] \in Nat
    BY DEF Land, Amounts
  <2>3. mid \in [Assets -> Nat]
    BY <2>2 DEF Amounts
  <2>4. f \in Nat
    BY ParametersAssumption DEF Amounts
  <2> HIDE DEF mid
  <2>5. mid["sol"] - f >= 0 /\ owner' = [mid EXCEPT !["sol"] = @ - f]
    BY <2>1, <2>3 DEF mid, Assets
  <2> QED
    BY <2>3, <2>4, <2>5 DEF Amounts, Assets
<1>2. bal' \in [Wallets -> Amounts]
  BY DEF Land, Amounts
<1>3. leg' \in [Runs -> [Assets -> Fates]]
  BY DEF Land, Fates
<1> QED
  BY <1>1, <1>2, <1>3 DEF Land

LEMMA MovesTyped == ASSUME TypeOK, SpendRent \/ Refund PROVE TypeOK'
<1> USE DEF TypeOK, memory, disk
<1>1. CASE SpendRent
  <2>1. PICK w \in Wallets, d \in Rents :
          /\ \A a \in Assets : bal[w][a] >= d[a]
          /\ bal' = [bal EXCEPT ![w] = [a \in Assets |-> @[a] - d[a]]]
    BY <1>1 DEF SpendRent
  <2>2. [a \in Assets |-> bal[w][a] - d[a]] \in Amounts
    BY <2>1, ParametersAssumption DEF Amounts
  <2>3. bal' \in [Wallets -> Amounts]
    BY <2>1, <2>2
  <2>4. moves' \in 0 .. MoveBudget
    BY <1>1, ParametersAssumption DEF SpendRent
  <2> QED
    BY <1>1, <2>3, <2>4 DEF SpendRent
<1>2. CASE Refund
  <2>1. PICK w \in Wallets, d \in Refunds :
          /\ bal' = [bal EXCEPT ![w] = [a \in Assets |-> @[a] + d[a]]]
          /\ refunded' = [a \in Assets |-> refunded[a] + d[a]]
    BY <1>2 DEF Refund
  <2>2. [a \in Assets |-> bal[w][a] + d[a]] \in Amounts /\ refunded' \in Amounts
    BY <2>1, ParametersAssumption DEF Amounts
  <2>3. bal' \in [Wallets -> Amounts]
    BY <2>1, <2>2
  <2>4. moves' \in 0 .. MoveBudget
    BY <1>2, ParametersAssumption DEF Refund
  <2> QED
    BY <1>2, <2>2, <2>3, <2>4 DEF Refund
<1> QED
  BY <1>1, <1>2

LEMMA NextTyped == ASSUME TypeOK, [Next]_vars PROVE TypeOK'
<1>1. ASSUME NEW r \in Runs, Begin(r) \/ Proceed(r) \/ Crash(r) PROVE TypeOK'
  BY <1>1, ProceedTyped
<1>2. ASSUME NEW r \in Runs, Solana(r) PROVE TypeOK'
  <2>1. PICK a \in Assets : Land(r, a) \/ FailOrExpire(r, a)
    BY <1>2 DEF Solana
  <2>2. CASE FailOrExpire(r, a)
    <3>1. PICK s \in {"failed", "dropped"} : leg' = [leg EXCEPT ![r][a] = s]
      BY <2>2 DEF FailOrExpire
    <3>2. leg' \in [Runs -> [Assets -> Fates]]
      BY <3>1 DEF TypeOK, Fates
    <3> QED
      BY <2>2, <3>2 DEF FailOrExpire, TypeOK, memory, disk, others
  <2> QED
    BY <2>1, <2>2, LandTyped
<1>3. CASE UNCHANGED vars
  BY <1>3 DEF vars, TypeOK, memory, disk, chain, others
<1> QED
  BY <1>1, <1>2, <1>3, MovesTyped DEF Next

\* The variables keep their types, for every value of the constants.
THEOREM SubWalletTyped == Spec => []TypeOK
BY InitTyped, NextTyped, PTL DEF Spec

----------------------------------------------------------------------------
\* An appended row is the only one that is new.
LEMMA AppendRow ==
  ASSUME NEW q \in Runs, NEW t, rows' = rows \cup {Row(q, t)}
  PROVE  \A r, s : HasRow(r, s)' <=> (HasRow(r, s) \/ (r = q /\ s = t))
BY DEF HasRow, Row

LEMMA SameRows ==
  ASSUME UNCHANGED rows
  PROVE  \A r, s : HasRow(r, s)' <=> HasRow(r, s)
BY DEF HasRow

\* A step of one run, or of one of its legs, leaves the others as they are.
LEMMA OthersUntouched ==
  ASSUME TypeOK, NEW q \in Runs,
         Begin(q) \/ Proceed(q) \/ Crash(q) \/ Solana(q),
         NEW r \in Runs \ {q}
  PROVE  /\ pc'[r] = pc[r] /\ req'[r] = req[r] /\ addr'[r] = addr[r]
         /\ seen'[r] = seen[r] /\ leg'[r] = leg[r]
         /\ \A s \in {"intent", "settled"} : HasRow(r, s)' <=> HasRow(r, s)
<1> USE DEF TypeOK, Goto, memory, disk, chain
<1>1. CASE Begin(q) \/ Crash(q)
  BY <1>1, SameRows DEF Begin, Crash
<1>2. CASE Look(q) \/ LoadKey(q) \/ OpenKey(q) \/ WriteKey(q) \/ ReadBalances(q) \/ Stop(q)
  BY <1>2, SameRows DEF Look, LoadKey, OpenKey, WriteKey, ReadBalances, Stop
<1>3. CASE RecordIntent(q) \/ Settle(q)
  BY <1>3, AppendRow DEF RecordIntent, RowsWithIntent, Settle
<1>4. CASE SendLeg(q) \/ ConfirmLeg(q) \/ LegThrows(q)
  BY <1>4, SameRows DEF SendLeg, ConfirmLeg, LegThrows
<1>5. CASE Solana(q)
  BY <1>5, SameRows DEF Solana, Land, FailOrExpire
<1> QED
  BY <1>1, <1>2, <1>3, <1>4, <1>5 DEF Proceed

LEMMA Untouched ==
  ASSUME NEW r \in Runs, RunInv(r),
         pc'[r] = pc[r], req'[r] = req[r], leg'[r] = leg[r],
         \A s \in {"intent", "settled"} : HasRow(r, s)' <=> HasRow(r, s)
  PROVE  RunInv(r)'
BY DEF RunInv, NoLegs, Legs

LEMMA LegsOf ==
  ASSUME TypeOK, NEW r \in Runs, req[r] # Zero
  PROVE  Legs(r) # {}
<1> SUFFICES ASSUME Legs(r) = {} PROVE req[r] = Zero
  OBVIOUS
<1>1. req[r] \in Amounts
  BY DEF TypeOK
<1>2. \A a \in Assets : req[r][a] = 0
  BY <1>1 DEF Legs, Amounts
<1> QED
  BY <1>1, <1>2 DEF Amounts, Zero

\* The order of the legs is total.
LEMMA RankOrders ==
  \A a, b \in Assets : Rank[a] \in Nat /\ (Rank[a] <= Rank[b] /\ Rank[b] <= Rank[a] => a = b)
BY DEF Rank, Assets

\* The step of a run keeps what is known of it.
LEMMA OwnStep ==
  ASSUME TypeOK, NEW r \in Runs, RunInv(r), Begin(r) \/ Proceed(r) \/ Crash(r)
  PROVE  RunInv(r)'
<1> USE DEF Goto, memory, disk, chain, BeforeIntent, NoLegs
<1>t. /\ pc \in [Runs -> {"idle"} \cup Working \cup Ended]
      /\ leg \in [Runs -> [Assets -> Fates]] /\ req \in [Runs -> Amounts]
  BY DEF TypeOK
<1>1. CASE \/ Begin(r) \/ Look(r) \/ LoadKey(r) \/ OpenKey(r) \/ WriteKey(r)
           \/ ReadBalances(r) \/ Stop(r)
  <2>1. NoLegs(r) /\ ~HasRow(r, "intent") /\ ~HasRow(r, "settled")
    BY <1>1 DEF Begin, Look, LoadKey, OpenKey, WriteKey, ReadBalances, Stop, RunInv
  <2>2. /\ UNCHANGED leg
        /\ HasRow(r, "intent")' = HasRow(r, "intent")
        /\ HasRow(r, "settled")' = HasRow(r, "settled")
    BY <1>1, SameRows
       DEF Begin, Look, LoadKey, OpenKey, WriteKey, ReadBalances, Stop, HasRow
  <2>3. pc'[r] \notin {"legs", "confirming"}
    BY <1>1, <1>t DEF Begin, Look, LoadKey, OpenKey, WriteKey, ReadBalances, Stop
  <2> QED
    BY <2>1, <2>2, <2>3 DEF RunInv
<1>2. CASE RecordIntent(r)
  <2>1. /\ pc[r] = "gating" /\ pc'[r] = "legs" /\ leg' = leg /\ req' = req
        /\ HasRow(r, "intent")' /\ (HasRow(r, "settled")' <=> HasRow(r, "settled"))
    BY <1>2, <1>t, AppendRow DEF RecordIntent, RowsWithIntent
  <2>2. Legs(r)' = Legs(r) /\ Legs(r) # {}
    BY <1>2, <2>1, LegsOf DEF RecordIntent, Gate, Legs
  <2> QED
    BY <2>1, <2>2 DEF RunInv
<1>3. CASE SendLeg(r)
  <2>1. PICK a \in Assets : IsNext(r, a) /\ leg' = [leg EXCEPT ![r][a] = "flight"]
    BY <1>3 DEF SendLeg
  <2>2. /\ pc[r] = "legs" /\ pc'[r] = "confirming" /\ req' = req
        /\ HasRow(r, "intent")' = HasRow(r, "intent")
        /\ HasRow(r, "settled")' = HasRow(r, "settled")
    BY <1>3, <1>t, SameRows DEF SendLeg, HasRow
  <2>3. Legs(r)' = Legs(r)
    BY <2>2 DEF Legs
  <2>4. a \in Legs(r) /\ leg[r][a] = "none"
    BY <2>1 DEF IsNext, Pending
  <2>5. \A b \in Legs(r) : Rank[b] < Rank[a] => leg[r][b] = "landed" /\ b # a
    <3> SUFFICES ASSUME NEW b \in Legs(r), Rank[b] < Rank[a]
                 PROVE  leg[r][b] = "landed" /\ b # a
      OBVIOUS
    <3>1. b \notin Pending(r)
      BY <2>1, RankOrders DEF IsNext, Legs
    <3>2. leg[r][b] # "none" /\ b # a
      BY <3>1, <2>1 DEF Pending, IsNext
    <3>3. \A c \in Assets : leg[r][c] \in {"none", "landed"}
      BY <2>2 DEF RunInv
    <3> QED
      BY <3>2, <3>3 DEF Legs
  <2>6. /\ leg'[r][a] = "flight"
        /\ \A b \in Assets \ {a} : leg'[r][b] = leg[r][b]
    BY <2>1, <1>t
  <2>7. ASSUME NEW b \in Assets, leg'[r][b] # "none"
        PROVE  /\ b \in Legs(r)
               /\ \A c \in Legs(r) : Rank[c] < Rank[b] => leg'[r][c] = "landed"
    <3>1. CASE b = a
      BY <2>4, <2>5, <2>6, <3>1 DEF Legs
    <3>2. CASE b # a
      <4>1. leg[r][b] # "none"
        BY <2>6, <2>7, <3>2
      <4>2. b \in Legs(r) /\ \A c \in Legs(r) : Rank[c] < Rank[b] => leg[r][c] = "landed"
        BY <4>1 DEF RunInv
      <4>3. \A c \in Legs(r) : Rank[c] < Rank[b] => c # a
        BY <4>2, <2>4
      <4> QED
        BY <2>6, <4>2, <4>3 DEF Legs
    <3> QED
      BY <3>1, <3>2
  <2>8. HasRow(r, "intent") /\ ~HasRow(r, "settled") /\ Legs(r) # {}
    BY <2>2 DEF RunInv
  <2> QED
    BY <2>2, <2>3, <2>7, <2>8 DEF RunInv
<1>4. CASE Settle(r)
  <2>1. /\ pc[r] = "legs" /\ pc'[r] = "sent" /\ leg' = leg /\ req' = req
        /\ HasRow(r, "settled")' /\ (HasRow(r, "intent")' <=> HasRow(r, "intent"))
    BY <1>4, <1>t, AppendRow DEF Settle
  <2>2. Legs(r)' = Legs(r) /\ \A a \in Legs(r) : leg[r][a] = "landed"
    BY <1>4, <2>1 DEF Settle, Pending, Legs, RunInv
  <2> QED
    BY <2>1, <2>2 DEF RunInv
<1>5. CASE ConfirmLeg(r) \/ LegThrows(r) \/ Crash(r)
  <2>1. /\ leg' = leg /\ req' = req
        /\ HasRow(r, "intent")' = HasRow(r, "intent")
        /\ HasRow(r, "settled")' = HasRow(r, "settled")
    BY <1>5, SameRows DEF ConfirmLeg, LegThrows, Crash, HasRow
  <2>2. Legs(r)' = Legs(r)
    BY <2>1 DEF Legs
  <2>3. \/ pc'[r] \in {"threw", "crashed"}
        \/ pc[r] = "confirming" /\ pc'[r] = "legs"
           /\ \A a \in Assets : leg[r][a] \in {"none", "landed"}
    BY <1>5, <1>t DEF ConfirmLeg, LegThrows, Crash
  <2> QED
    BY <2>1, <2>2, <2>3 DEF RunInv
<1> QED
  BY <1>1, <1>2, <1>3, <1>4, <1>5 DEF Proceed

\* What happens to a leg in flight.
LEMMA ChainStep ==
  ASSUME TypeOK, NEW r \in Runs, RunInv(r), Solana(r)
  PROVE  RunInv(r)'
<1> USE DEF memory, disk
<1>1. PICK a \in Assets : Land(r, a) \/ FailOrExpire(r, a)
  BY DEF Solana
<1>2. /\ leg[r][a] = "flight" /\ leg'[r][a] \in {"landed", "failed", "dropped"}
      /\ \A b \in Assets \ {a} : leg'[r][b] = leg[r][b]
      /\ pc' = pc /\ req' = req
      /\ HasRow(r, "intent")' = HasRow(r, "intent")
      /\ HasRow(r, "settled")' = HasRow(r, "settled")
  BY <1>1, SameRows DEF Land, FailOrExpire, TypeOK, HasRow
<1>3. Legs(r)' = Legs(r)
  BY <1>2 DEF Legs
<1>4. a \in Legs(r) /\ pc[r] # "legs" /\ pc[r] \notin BeforeIntent
  BY <1>2 DEF RunInv, NoLegs
<1>5. ~HasRow(r, "settled")
  BY <1>2, <1>4 DEF RunInv
<1>6. ASSUME NEW b \in Assets, leg'[r][b] # "none"
      PROVE  /\ b \in Legs(r) /\ HasRow(r, "intent")
             /\ \A c \in Legs(r) : Rank[c] < Rank[b] => leg'[r][c] = "landed"
  <2>1. leg[r][b] # "none"
    BY <1>2, <1>6
  <2>2. /\ b \in Legs(r) /\ HasRow(r, "intent")
        /\ \A c \in Legs(r) : Rank[c] < Rank[b] => leg[r][c] = "landed"
    BY <2>1 DEF RunInv
  <2>3. \A c \in Legs(r) : Rank[c] < Rank[b] => c # a
    BY <2>2, <1>2
  <2> QED
    BY <1>2, <2>2, <2>3 DEF Legs
<1> QED
  BY <1>2, <1>3, <1>4, <1>5, <1>6 DEF RunInv

LEMMA NextIInv == ASSUME IInv, [Next]_vars PROVE IInv'
<1>1. TypeOK'
  BY NextTyped DEF IInv
<1>2. ASSUME NEW r \in Runs PROVE RunInv(r)'
  <2>1. ASSUME NEW q \in Runs, Begin(q) \/ Proceed(q) \/ Crash(q) \/ Solana(q)
        PROVE  RunInv(r)'
    <3>1. CASE q = r
      BY <2>1, <3>1, OwnStep, ChainStep DEF IInv
    <3>2. CASE q # r
      <4>1. r \in Runs \ {q} /\ TypeOK /\ RunInv(r)
        BY <3>2 DEF IInv
      <4> QED
        BY <2>1, <4>1, OthersUntouched, Untouched
    <3> QED
      BY <3>1, <3>2
  <2>2. CASE SpendRent \/ Refund \/ UNCHANGED vars
    <3>1. UNCHANGED <<pc, req, leg, rows>>
      BY <2>2 DEF SpendRent, Refund, vars, memory, disk, chain
    <3> QED
      BY <3>1, SameRows, Untouched DEF IInv
  <2> QED
    BY <2>1, <2>2 DEF Next
<1> QED
  BY <1>1, <1>2 DEF IInv

LEMMA InitIInv == ASSUME Init PROVE IInv
<1>1. ASSUME NEW r \in Runs PROVE RunInv(r)
  BY DEF Init, RunInv, BeforeIntent, NoLegs, HasRow
<1> QED
  BY <1>1, InitTyped DEF IInv

LEMMA SubWalletInductive == Spec => []IInv
BY InitIInv, NextIInv, PTL DEF Spec

\* However runs overlap, die or throw, what is on chain of a transfer is a prefix
\* of its legs under an intent row, and a settled row means all of them landed
\* (sub-wallet.mjs:275-308).
THEOREM PartialTransferIsVisible == Spec => []PartialTransferVisible
<1>1. IInv => PartialTransferVisible
  BY DEF IInv, RunInv, PartialTransferVisible, Legs
<1> QED
  BY <1>1, SubWalletInductive, PTL

----------------------------------------------------------------------------
(***************************************************************************)
(* The refinement: the first leg that lands is the effect of the intent.   *)
(***************************************************************************)
Recorded == {r \in Runs : HasRow(r, "intent")}
Effected == {r \in Runs : \E a \in Assets : leg[r][a] = "landed"}
Verdict == [r \in Runs |-> IF HasRow(r, "settled") THEN "settled" ELSE "open"]

LEMMA QuietStep ==
  ASSUME UNCHANGED rows, Effected' = Effected
  PROVE  UNCHANGED Ledger!vars
BY SameRows DEF Ledger!vars, Recorded, Effected, Verdict

LEMMA ProceedImplements ==
  ASSUME IInv, NEW r \in Runs, Proceed(r)
  PROVE  [Ledger!Next]_(Ledger!vars)
<1> USE DEF Goto, memory, disk, chain
<1>t. TypeOK /\ RunInv(r)
  BY DEF IInv
<1>1. CASE RecordIntent(r)
  <2>1. rows' = rows \cup {Row(r, "intent")} /\ Effected' = Effected
    BY <1>1 DEF RecordIntent, RowsWithIntent, Effected
  <2>2. Recorded' = Recorded \cup {r} /\ r \notin Recorded
    BY <1>1, <1>t, <2>1, AppendRow DEF RecordIntent, RunInv, BeforeIntent, Recorded
  <2>3. Verdict' = Verdict
    BY <2>1, AppendRow DEF Verdict
  <2>4. Ledger!Record(r)
    BY <2>1, <2>2, <2>3 DEF Ledger!Record, Recorded, Effected, Verdict
  <2> QED
    BY <2>4 DEF Ledger!Next
<1>2. CASE Settle(r)
  <2>1. rows' = rows \cup {Row(r, "settled")} /\ Effected' = Effected
    BY <1>2 DEF Settle, Effected
  <2>2. Recorded' = Recorded /\ r \in Recorded
    BY <1>2, <1>t, <2>1, AppendRow DEF Settle, RunInv, Recorded
  <2>3. Verdict[r] = "open" /\ Verdict' = [Verdict EXCEPT ![r] = "settled"]
    <3>1. ~HasRow(r, "settled")
      BY <1>2, <1>t DEF Settle, RunInv
    <3>2. \A q \in Runs : HasRow(q, "settled")' <=> (HasRow(q, "settled") \/ q = r)
      BY <2>1, AppendRow
    <3> QED
      BY <3>1, <3>2 DEF Verdict
  <2>4. r \in Effected
    BY <1>2, <1>t DEF Settle, RunInv, Pending, Legs, Effected
  <2>5. Ledger!Settle(r)
    BY <2>1, <2>2, <2>3, <2>4 DEF Ledger!Settle, Ledger!Close, Recorded, Effected, Verdict
  <2> QED
    BY <2>5 DEF Ledger!Next
<1>3. CASE SendLeg(r)
  <2>1. PICK a \in Assets : leg[r][a] = "none" /\ leg' = [leg EXCEPT ![r][a] = "flight"]
    BY <1>3 DEF SendLeg, IsNext, Pending
  <2>2. Effected' = Effected
    BY <2>1, <1>t DEF Effected, TypeOK
  <2> QED
    BY <1>3, <2>2, QuietStep DEF SendLeg
<1>4. CASE \/ Look(r) \/ LoadKey(r) \/ OpenKey(r) \/ WriteKey(r) \/ ReadBalances(r)
           \/ Stop(r) \/ ConfirmLeg(r) \/ LegThrows(r)
  <2>1. UNCHANGED <<rows, leg>>
    BY <1>4 DEF Look, LoadKey, OpenKey, WriteKey, ReadBalances, Stop, ConfirmLeg, LegThrows
  <2> QED
    BY <2>1, QuietStep DEF Effected
<1> QED
  BY <1>1, <1>2, <1>3, <1>4 DEF Proceed

LEMMA SolanaImplements ==
  ASSUME IInv, NEW r \in Runs, NEW a \in Assets, Land(r, a) \/ FailOrExpire(r, a)
  PROVE  [Ledger!Next]_(Ledger!vars)
<1> USE DEF disk
<1>t. TypeOK /\ RunInv(r)
  BY DEF IInv
<1>1. UNCHANGED rows
  BY DEF Land, FailOrExpire
<1>2. CASE Land(r, a)
  <2>1. Effected' = Effected \cup {r} /\ r \in Recorded
    BY <1>2, <1>t DEF Land, Effected, Recorded, TypeOK, RunInv
  <2>2. Recorded' = Recorded /\ Verdict' = Verdict /\ Verdict[r] # "failed"
    BY <1>1, SameRows DEF Recorded, Verdict
  <2>3. CASE r \in Effected
    BY <1>1, <2>1, <2>3, QuietStep
  <2>4. CASE r \notin Effected
    <3>1. Ledger!Effect(r)
      BY <2>1, <2>2, <2>4 DEF Ledger!Effect, Recorded, Effected, Verdict
    <3> QED
      BY <3>1 DEF Ledger!Next
  <2> QED
    BY <2>3, <2>4
<1>3. CASE FailOrExpire(r, a)
  <2>1. Effected' = Effected
    <3>1. PICK s \in {"failed", "dropped"} : leg' = [leg EXCEPT ![r][a] = s]
      BY <1>3 DEF FailOrExpire
    <3>2. leg[r][a] = "flight"
      BY <1>3 DEF FailOrExpire
    <3> QED
      BY <1>t, <3>1, <3>2 DEF Effected, TypeOK
  <2> QED
    BY <1>1, <2>1, QuietStep
<1> QED
  BY <1>2, <1>3

LEMMA NextImplements ==
  ASSUME IInv, [Next]_vars
  PROVE  [Ledger!Next]_(Ledger!vars)
<1>1. CASE (\E r \in Runs : Begin(r) \/ Crash(r)) \/ SpendRent \/ Refund \/ UNCHANGED vars
  <2>1. UNCHANGED <<rows, leg>>
    BY <1>1 DEF Begin, Crash, SpendRent, Refund, vars, disk, chain
  <2> QED
    BY <2>1, QuietStep DEF Effected
<1> QED
  BY <1>1, ProceedImplements, SolanaImplements DEF Next, Solana

\* Every behaviour of the funding runs is one of the intent ledger README.md
\* promises, with a settled row backed by a landed transfer.
THEOREM FundingImplementsLedger == Spec => ImplementsLedger
<1>1. Init => Ledger!Init
  BY DEF Init, Ledger!Init, HasRow
<1>2. IInv /\ [Next]_vars => [Ledger!Next]_(Ledger!vars)
  BY NextImplements
<1> QED
  BY <1>1, <1>2, SubWalletInductive, PTL DEF Spec, ImplementsLedger, Ledger!Spec

----------------------------------------------------------------------------
(***************************************************************************)
(* Runs that do not overlap: where the money goes.                         *)
(***************************************************************************)
LEMMA OneActiveKept ==
  ASSUME ~Overlap, IInv, OneActive, [Next]_vars
  PROVE  OneActive'
<1> USE DEF Goto, memory, disk, chain, OneActive, Active
<1>1. ASSUME NEW r \in Runs, Begin(r) \/ Proceed(r) \/ Crash(r) \/ Solana(r)
      PROVE  OneActive'
  <2>1. \A q \in Runs \ {r} : pc'[q] = pc[q]
    BY <1>1, OthersUntouched DEF IInv
  <2>2. CASE Begin(r)
    BY <2>1, <2>2 DEF Begin
  <2>3. CASE Solana(r)
    BY <2>3 DEF Solana, Land, FailOrExpire
  <2>4. CASE Proceed(r) \/ Crash(r)
    <3>1. Active(r)
      BY <2>4 DEF Proceed, Crash, Working, Look, LoadKey, OpenKey, WriteKey, ReadBalances,
           Stop, RecordIntent, SendLeg, ConfirmLeg, LegThrows, Settle
    <3> QED
      BY <2>1, <3>1
  <2> QED
    BY <1>1, <2>2, <2>3, <2>4
<1>2. CASE SpendRent \/ Refund \/ UNCHANGED vars
  BY <1>2 DEF SpendRent, Refund, vars
<1> QED
  BY <1>1, <1>2 DEF Next

\* Only the creation of a key writes the file, and nobody was paid before it.
LEMMA KeysKept ==
  ASSUME ~Overlap, IInv, KeysInv, [Next]_vars
  PROVE  \A r \in Runs : KeyInv(r)'
<1> USE DEF Goto, memory, disk, chain
<1>t. TypeOK /\ OneActive /\ \A r \in Runs : RunInv(r) /\ KeyInv(r)
  BY DEF IInv, KeysInv
<1>w. Absent \notin Wallets /\ Torn \notin Wallets /\ Absent # Torn
  BY ParametersAssumption DEF NoWallet
<1>a. \A r \in Runs : addr[r] \in Wallets
  BY <1>t DEF TypeOK
<1>1. ASSUME NEW q \in Runs, NEW r \in Runs, OpenKey(q) \/ WriteKey(q)
      PROVE  KeyInv(r)'
  <2>1. file \notin Wallets
    BY <1>1, <1>t, <1>w DEF OpenKey, WriteKey, KeyInv
  <2>2. NoLegs(r) /\ NoLegs(r)'
    BY <1>1, <1>t, <1>a, <2>1 DEF OpenKey, WriteKey, KeyInv, NoLegs
  <2>3. CASE r = q
    <3>1. CASE OpenKey(q)
      BY <1>t, <2>2, <2>3, <3>1 DEF OpenKey, KeyInv, TypeOK
    <3>2. CASE WriteKey(q)
      BY <1>t, <2>1, <2>2, <2>3, <3>2 DEF WriteKey, KeyInv, TypeOK
    <3> QED
      BY <1>1, <3>1, <3>2
  <2>4. CASE r # q
    <3>1. ~Active(r)
      BY <1>1, <1>t, <2>4 DEF OneActive, Active, Working, OpenKey, WriteKey
    <3>2. pc'[r] = pc[r]
      BY <1>1, <2>4, <1>t DEF OpenKey, WriteKey, TypeOK
    <3> QED
      BY <2>2, <3>1, <3>2 DEF KeyInv, Active, Working
  <2> QED
    BY <2>3, <2>4
<1>2. ASSUME NEW r \in Runs,
             \/ Begin(r) \/ Look(r) \/ LoadKey(r) \/ ReadBalances(r) \/ Stop(r)
             \/ RecordIntent(r) \/ SendLeg(r) \/ ConfirmLeg(r) \/ LegThrows(r)
             \/ Settle(r) \/ Crash(r) \/ Solana(r)
      PROVE  KeyInv(r)'
  <2>1. file' = file
    BY <1>2 DEF Begin, Look, LoadKey, ReadBalances, Stop, RecordIntent, SendLeg,
         ConfirmLeg, LegThrows, Settle, Crash, Solana, Land, FailOrExpire
  <2>2. CASE LoadKey(r)
    <3>1. NoLegs(r) /\ NoLegs(r)'
      BY <2>2, <1>t DEF LoadKey, RunInv, BeforeIntent, NoLegs
    <3> QED
      BY <2>1, <2>2, <3>1, <1>t DEF LoadKey, KeyInv, TypeOK
  <2>3. CASE Begin(r) \/ Look(r)
    <3>1. NoLegs(r)'
      BY <2>3, <1>t DEF Begin, Look, RunInv, BeforeIntent, NoLegs
    <3> QED
      BY <2>1, <2>3, <3>1, <1>t DEF Begin, Look, KeyInv, TypeOK
  <2>4. CASE \/ ReadBalances(r) \/ Stop(r) \/ RecordIntent(r) \/ ConfirmLeg(r)
             \/ LegThrows(r) \/ Settle(r) \/ Crash(r)
    <3>1. /\ UNCHANGED <<leg, addr>>
          /\ \/ pc'[r] \in Ended
             \/ /\ pc'[r] \in {"gating", "legs"}
                /\ pc[r] \in {"reading", "gating", "confirming"}
      BY <2>4, <1>t DEF ReadBalances, Stop, RecordIntent, ConfirmLeg, LegThrows, Settle,
           Crash, Ended, TypeOK
    <3> QED
      BY <2>1, <3>1, <1>t DEF KeyInv, NoLegs, Ended
  <2>5. CASE SendLeg(r)
    BY <2>1, <2>5, <1>t DEF SendLeg, KeyInv, TypeOK
  <2>6. CASE Solana(r)
    <3>1. UNCHANGED <<pc, addr>> /\ ~NoLegs(r)
      BY <2>6 DEF Solana, Land, FailOrExpire, NoLegs
    <3> QED
      BY <2>1, <3>1, <1>t DEF KeyInv
  <2> QED
    BY <1>2, <2>2, <2>3, <2>4, <2>5, <2>6
<1>3. ASSUME NEW q \in Runs, NEW r \in Runs \ {q},
             \/ Begin(q) \/ Look(q) \/ LoadKey(q) \/ ReadBalances(q) \/ Stop(q)
             \/ RecordIntent(q) \/ SendLeg(q) \/ ConfirmLeg(q) \/ LegThrows(q)
             \/ Settle(q) \/ Crash(q) \/ Solana(q)
      PROVE  KeyInv(r)'
  <2>1. file' = file
    BY <1>3 DEF Begin, Look, LoadKey, ReadBalances, Stop, RecordIntent, SendLeg,
         ConfirmLeg, LegThrows, Settle, Crash, Solana, Land, FailOrExpire
  <2>2. pc'[r] = pc[r] /\ addr'[r] = addr[r] /\ leg'[r] = leg[r]
    BY <1>3, <1>t, OthersUntouched DEF Proceed
  <2> QED
    BY <2>1, <2>2, <1>t DEF KeyInv, NoLegs
<1>4. ASSUME NEW r \in Runs, SpendRent \/ Refund \/ UNCHANGED vars
      PROVE  KeyInv(r)'
  <2>1. UNCHANGED <<pc, file, addr, leg>>
    BY <1>4 DEF SpendRent, Refund, vars
  <2> QED
    BY <2>1, <1>t DEF KeyInv, NoLegs
<1> QED
  BY <1>1, <1>2, <1>3, <1>4 DEF Next, Proceed

\* Runs that do not overlap only ever pay the wallet whose key is on disk, also
\* when one of them dies while it creates the key (sub-wallet.mjs:154-156).
THEOREM MoneyIsReachable ==
  ASSUME ~Overlap
  PROVE  Spec => []FundsReachable
<1>1. Init => KeysInv
  BY DEF Init, KeysInv, OneActive, KeyInv, NoLegs, Active, Working
<1>2. IInv /\ KeysInv /\ [Next]_vars => KeysInv'
  BY OneActiveKept, KeysKept DEF KeysInv
<1>3. KeysInv => FundsReachable
  BY DEF KeysInv, KeyInv, NoLegs, FundsReachable
<1> QED
  BY <1>1, <1>2, <1>3, SubWalletInductive, PTL DEF Spec

----------------------------------------------------------------------------
(***************************************************************************)
(* The launchd schedule: the cap and the floor.                            *)
(***************************************************************************)
Tick == ~Overlap /\ ~AtOnce

LEMMA SoloKept ==
  ASSUME Tick, IInv, Solo, [Next]_vars
  PROVE  Solo'
<1> USE DEF Goto, memory, disk, chain, Solo, Busy, InFlight
<1>1. ASSUME NEW r \in Runs, Begin(r) \/ Proceed(r) \/ Crash(r) \/ Solana(r)
      PROVE  Solo'
  <2>1. \A q \in Runs \ {r} : pc'[q] = pc[q] /\ leg'[q] = leg[q]
    BY <1>1, OthersUntouched DEF IInv
  <2>2. \A q \in Runs \ {r} : Busy(q)' <=> Busy(q)
    BY <2>1 DEF Active
  <2>3. CASE Begin(r)
    <3>1. \A q \in Runs : ~Busy(q)
      BY <2>3 DEF Begin, Tick
    <3> QED
      BY <2>2, <3>1
  <2>4. CASE Proceed(r) \/ Crash(r) \/ Solana(r)
    <3>1. Busy(r)
      BY <2>4 DEF Proceed, Crash, Solana, Land, FailOrExpire, Active, Working, Look, LoadKey,
           OpenKey, WriteKey, ReadBalances, Stop, RecordIntent, SendLeg, ConfirmLeg,
           LegThrows, Settle
    <3> QED
      BY <2>2, <3>1
  <2> QED
    BY <1>1, <2>3, <2>4
<1>2. CASE SpendRent \/ Refund \/ UNCHANGED vars
  BY <1>2 DEF SpendRent, Refund, vars, Active
<1> QED
  BY <1>1, <1>2 DEF Next

LEMMA LandedTyped ==
  ASSUME TypeOK, NEW r \in Runs
  PROVE  /\ \A a \in Assets : Landed(r, a, req[r][a]) \in Nat /\ Landed(r, a, LegFee[a]) \in Nat
         /\ Costs(r) \in Nat
<1>1. \A a \in Assets : req[r][a] \in Nat /\ LegFee[a] \in Nat
  BY ParametersAssumption DEF TypeOK, Amounts
<1>2. \A a \in Assets : Landed(r, a, req[r][a]) \in Nat /\ Landed(r, a, LegFee[a]) \in Nat
  BY <1>1 DEF Landed
<1> QED
  BY <1>2 DEF Costs, Assets

\* A run that reads the balances has them; until a leg of its own lands they stay.
LEMMA OwnMoneyStep ==
  ASSUME Tick, IInv, NEW r \in Runs, MoneyInv(r), Begin(r) \/ Proceed(r) \/ Crash(r)
  PROVE  MoneyInv(r)'
<1> USE DEF Goto, memory, disk, chain
<1>t. TypeOK /\ RunInv(r)
  BY DEF IInv
<1>1. CASE \/ Begin(r) \/ Look(r) \/ LoadKey(r) \/ OpenKey(r) \/ WriteKey(r)
  <2>1. NoLegs(r) /\ leg' = leg
    BY <1>1, <1>t DEF Begin, Look, LoadKey, OpenKey, WriteKey, RunInv, BeforeIntent
  <2>2. pc'[r] \notin {"gating", "legs", "confirming"}
    BY <1>1, <1>t DEF Begin, Look, LoadKey, OpenKey, WriteKey, TypeOK
  <2> QED
    BY <2>1, <2>2 DEF MoneyInv, Pays, InFlight, NoLegs
<1>2. CASE ReadBalances(r)
  <2>1. NoLegs(r) /\ UNCHANGED <<leg, req, addr, bal, owner, refunded>>
    BY <1>2, <1>t DEF ReadBalances, RunInv, BeforeIntent, others
  <2>2. ~Pays(r)'
    BY <1>2, <2>1, <1>t DEF ReadBalances, TypeOK, Pays, InFlight, NoLegs
  <2>3. \A a \in Assets : Landed(r, a, req[r][a])' = 0 /\ Landed(r, a, LegFee[a])' = 0
    BY <2>1 DEF Landed, NoLegs
  <2>4. Costs(r)' = 0
    BY <2>3 DEF Costs, Landed, Assets
  <2>5. pc'[r] = "gating" =>
          seen'[r].owner["sol"] = owner["sol"] /\ \A a \in Assets : seen'[r].sub[a] = bal[addr[r]][a]
    BY <1>2, <1>t DEF ReadBalances, TypeOK
  <2>6. /\ owner["sol"] \in Nat
        /\ \A a \in Assets : bal[addr[r]][a] \in Nat /\ refunded[a] \in Nat
    BY <1>t DEF TypeOK, Amounts, Assets
  <2>7. "sol" \in Assets
    BY DEF Assets
  <2> QED
    BY <2>1, <2>2, <2>3, <2>4, <2>5, <2>6, <2>7 DEF MoneyInv
<1>3. CASE RecordIntent(r)
  <2>1. /\ UNCHANGED <<leg, req, addr, seen, bal, owner, refunded>>
        /\ pc[r] = "gating" /\ Gate(req[r], seen[r])
    BY <1>3 DEF RecordIntent, others
  <2> QED
    BY <2>1 DEF MoneyInv, Landed, Costs
<1>4. CASE SendLeg(r)
  <2>1. PICK a \in Assets : leg[r][a] = "none" /\ leg' = [leg EXCEPT ![r][a] = "flight"]
    BY <1>4 DEF SendLeg, IsNext, Pending
  <2>2. UNCHANGED <<req, addr, seen, bal, owner, refunded>> /\ pc[r] = "legs"
    BY <1>4 DEF SendLeg, others
  <2>3. \A b \in Assets : leg'[r][b] = "landed" <=> leg[r][b] = "landed"
    BY <2>1, <1>t DEF TypeOK
  <2>4. Costs(r)' = Costs(r) /\ \A b \in Assets : Landed(r, b, req[r][b])' = Landed(r, b, req[r][b])
    BY <2>2, <2>3 DEF Costs, Landed, Assets
  <2>5. "sol" \in Assets
    BY DEF Assets
  <2> QED
    BY <2>2, <2>4, <2>5 DEF MoneyInv, Pays, Landed
<1>5. CASE Stop(r) \/ ConfirmLeg(r) \/ LegThrows(r) \/ Settle(r) \/ Crash(r)
  <2>1. UNCHANGED <<leg, req, addr, seen, bal, owner, refunded>>
    BY <1>5 DEF Stop, ConfirmLeg, LegThrows, Settle, Crash, others
  <2>2. (Pays(r)' => Pays(r)) /\ pc'[r] # "gating"
    BY <1>5, <2>1, <1>t DEF Stop, ConfirmLeg, LegThrows, Settle, Crash, Pays, InFlight, TypeOK
  <2> QED
    BY <2>1, <2>2 DEF MoneyInv, Landed, Costs
<1> QED
  BY <1>1, <1>2, <1>3, <1>4, <1>5 DEF Proceed

\* What a landing takes from the treasury and gives to the capped wallet.
LEMMA LandPays ==
  ASSUME TypeOK, NEW r \in Runs, NEW a \in Assets, Land(r, a)
  PROVE  /\ owner["sol"] \in Nat /\ owner'["sol"] \in Nat
         /\ owner'["sol"] >= owner["sol"] - (IF a = "sol" THEN req[r]["sol"] ELSE 0) - LegFee[a]
         /\ bal'[addr[r]][a] = bal[addr[r]][a] + req[r][a]
         /\ \A b \in Assets \ {a} : bal'[addr[r]][b] = bal[addr[r]][b]
<1>1. PICK f \in 0 .. LegFee[a] :
        LET paid == [[owner EXCEPT ![a] = @ - req[r][a]] EXCEPT !["sol"] = @ - f]
        IN  paid["sol"] >= 0 /\ owner' = paid
  BY DEF Land
<1>2. LegFee[a] \in Nat /\ owner["sol"] \in Nat /\ req[r][a] \in Nat /\ addr[r] \in Wallets
  BY ParametersAssumption DEF TypeOK, Amounts, Assets
<1>3. owner'["sol"] = owner["sol"] - (IF a = "sol" THEN req[r]["sol"] ELSE 0) - f
  <2>1. owner' = [[owner EXCEPT ![a] = @ - req[r][a]] EXCEPT !["sol"] = @ - f]
    BY <1>1
  <2>2. DOMAIN owner = Assets /\ "sol" \in Assets
    BY DEF TypeOK, Amounts, Assets
  <2>3. CASE a = "sol"
    BY <2>1, <2>2, <2>3
  <2>4. CASE a # "sol"
    BY <1>1, <1>2, <2>1, <2>2, <2>4
  <2> QED
    BY <2>3, <2>4
<1>4. owner'["sol"] \in Nat
  BY LandTyped DEF TypeOK, Amounts, Assets
<1>5. /\ bal'[addr[r]][a] = bal[addr[r]][a] + req[r][a]
      /\ \A b \in Assets \ {a} : bal'[addr[r]][b] = bal[addr[r]][b]
  BY <1>2 DEF Land, TypeOK, Amounts
<1>6. owner'["sol"] >= owner["sol"] - (IF a = "sol" THEN req[r]["sol"] ELSE 0) - LegFee[a]
  <2>1. f \in Nat /\ f <= LegFee[a]
    BY <1>1, <1>2
  <2>2. (IF a = "sol" THEN req[r]["sol"] ELSE 0) \in Nat
    BY <1>2
  <2> QED
    BY <1>2, <1>3, <2>1, <2>2
<1> QED
  BY <1>2, <1>4, <1>5, <1>6

LEMMA ChainMoneyStep ==
  ASSUME IInv, NEW r \in Runs, MoneyInv(r), Solana(r)
  PROVE  MoneyInv(r)'
<1> USE DEF memory, disk
<1>t. TypeOK /\ RunInv(r)
  BY DEF IInv
<1>1. PICK a \in Assets : Land(r, a) \/ FailOrExpire(r, a)
  BY DEF Solana
<1>2. /\ leg[r][a] = "flight" /\ Pays(r)
      /\ UNCHANGED <<pc, req, addr, seen, refunded>>
  BY <1>1 DEF Land, FailOrExpire, Pays, InFlight, others
<1>3. \A b \in Assets \ {a} : leg'[r][b] = leg[r][b]
  BY <1>1, <1>t DEF Land, FailOrExpire, TypeOK
<1>n. /\ \A b \in Assets : bal[addr[r]][b] \in Nat /\ refunded[b] \in Nat /\ seen[r].sub[b] \in Nat
                           /\ req[r][b] \in Nat /\ LegFee[b] \in Nat
      /\ owner["sol"] \in Nat /\ seen[r].owner["sol"] \in Nat
  BY <1>t, ParametersAssumption DEF TypeOK, Amounts, Assets
<1>m. /\ Gate(req[r], seen[r])
      /\ \A b \in Assets :
           bal[addr[r]][b] <= seen[r].sub[b] + refunded[b] + Landed(r, b, req[r][b])
      /\ owner["sol"] + Landed(r, "sol", req[r]["sol"]) + Costs(r) >= seen[r].owner["sol"]
  BY <1>2 DEF MoneyInv
<1>4. CASE Land(r, a)
  <2>1. leg'[r][a] = "landed"
    BY <1>4, <1>t DEF Land, TypeOK
  <2>2. /\ Landed(r, a, req[r][a]) = 0 /\ Landed(r, a, req[r][a])' = req[r][a]
        /\ Landed(r, a, LegFee[a]) = 0 /\ Landed(r, a, LegFee[a])' = LegFee[a]
    BY <1>2, <2>1 DEF Landed
  <2>3. \A b \in Assets \ {a} : /\ Landed(r, b, req[r][b])' = Landed(r, b, req[r][b])
                                /\ Landed(r, b, LegFee[b])' = Landed(r, b, LegFee[b])
    BY <1>2, <1>3 DEF Landed
  <2>4. \A b \in Assets :
          bal'[addr[r]][b] <= seen[r].sub[b] + refunded[b] + Landed(r, b, req[r][b])'
    BY <1>4, <1>t, <1>n, <1>m, <2>2, <2>3, LandPays
  <2>5. Costs(r)' = Costs(r) + LegFee[a]
    BY <2>2, <2>3, <1>n, <1>t, LandedTyped DEF Costs, Assets
  <2>6. Landed(r, "sol", req[r]["sol"])' =
          Landed(r, "sol", req[r]["sol"]) + (IF a = "sol" THEN req[r]["sol"] ELSE 0)
    BY <2>2, <2>3, <1>n, <1>t, LandedTyped DEF Assets
  <2>7. owner'["sol"] + Landed(r, "sol", req[r]["sol"])' + Costs(r)' >= seen[r].owner["sol"]
    <3>1. /\ Costs(r) \in Nat /\ Landed(r, "sol", req[r]["sol"]) \in Nat
          /\ (IF a = "sol" THEN req[r]["sol"] ELSE 0) \in Nat /\ LegFee[a] \in Nat
      BY <1>n, <1>t, LandedTyped DEF Assets
    <3>2. /\ owner'["sol"] \in Nat
          /\ owner'["sol"] >= owner["sol"] - (IF a = "sol" THEN req[r]["sol"] ELSE 0) - LegFee[a]
      BY <1>4, <1>t, LandPays
    <3> QED
      BY <1>m, <1>n, <2>5, <2>6, <3>1, <3>2
  <2> QED
    BY <1>2, <1>m, <2>4, <2>7 DEF MoneyInv
<1>5. CASE FailOrExpire(r, a)
  <2>1. leg'[r][a] # "landed" /\ UNCHANGED <<bal, owner>>
    BY <1>5, <1>t DEF FailOrExpire, TypeOK
  <2>2. \A b \in Assets : leg'[r][b] = "landed" <=> leg[r][b] = "landed"
    BY <1>2, <1>3, <2>1
  <2>3. Costs(r)' = Costs(r) /\ \A b \in Assets : Landed(r, b, req[r][b])' = Landed(r, b, req[r][b])
    BY <1>2, <2>2 DEF Costs, Landed, Assets
  <2>4. "sol" \in Assets
    BY DEF Assets
  <2> QED
    BY <1>2, <1>m, <2>1, <2>3, <2>4 DEF MoneyInv, Landed
<1> QED
  BY <1>1, <1>4, <1>5

LEMMA TickStep ==
  ASSUME Tick, IInv, TickInv, [Next]_vars
  PROVE  TickInv'
<1>1. Solo'
  BY SoloKept DEF TickInv
<1>2. ASSUME NEW r \in Runs PROVE MoneyInv(r)'
  <2>n. /\ \A b \in Assets : bal[addr[r]][b] \in Nat /\ refunded[b] \in Nat /\ seen[r].sub[b] \in Nat
        /\ addr[r] \in Wallets
    BY DEF IInv, TypeOK, Amounts
  <2>1. ASSUME NEW q \in Runs, Begin(q) \/ Proceed(q) \/ Crash(q) \/ Solana(q)
        PROVE  MoneyInv(r)'
    <3>1. CASE q = r
      BY <2>1, <3>1, OwnMoneyStep, ChainMoneyStep DEF TickInv
    <3>2. CASE q # r
      <4>1. /\ pc'[r] = pc[r] /\ req'[r] = req[r] /\ addr'[r] = addr[r]
            /\ seen'[r] = seen[r] /\ leg'[r] = leg[r]
        BY <2>1, <3>2, OthersUntouched DEF IInv
      <4>2. CASE Pays(r) \/ pc[r] = "gating"
        <5>1. Busy(r)
          BY <4>2 DEF Pays, Busy, Active, Working
        <5>2. ~Busy(q)
          BY <3>2, <5>1 DEF TickInv, Solo
        <5>3. ~Solana(q)
          BY <5>2 DEF Busy, InFlight, Solana, Land, FailOrExpire
        <5>4. UNCHANGED <<bal, owner, refunded>>
          BY <2>1, <5>3 DEF Begin, Proceed, Crash, chain, others, Look, LoadKey, OpenKey,
             WriteKey, ReadBalances, Stop, RecordIntent, SendLeg, ConfirmLeg, LegThrows, Settle
        <5>5. Landed(r, "sol", req[r]["sol"])' = Landed(r, "sol", req[r]["sol"]) /\ Costs(r)' = Costs(r)
          BY <4>1 DEF Landed, Costs
        <5>6. \A b \in Assets : Landed(r, b, req[r][b])' = Landed(r, b, req[r][b])
          BY <4>1 DEF Landed
        <5> QED
          BY <4>1, <5>4, <5>5, <5>6 DEF TickInv, MoneyInv, Pays, InFlight
      <4>3. CASE ~(Pays(r) \/ pc[r] = "gating")
        BY <4>1, <4>3 DEF MoneyInv, Pays, InFlight
      <4> QED
        BY <4>2, <4>3
    <3> QED
      BY <3>1, <3>2
  <2>2. CASE SpendRent
    <3>1. UNCHANGED <<pc, req, addr, seen, leg, owner, refunded>>
      BY <2>2 DEF SpendRent, memory
    <3>2. \A b \in Assets : bal'[addr[r]][b] <= bal[addr[r]][b]
      <4>1. PICK w \in Wallets, d \in Rents :
              bal' = [bal EXCEPT ![w] = [a \in Assets |-> @[a] - d[a]]]
        BY <2>2 DEF SpendRent
      <4>2. \A a \in Assets : d[a] \in Nat
        BY ParametersAssumption DEF Amounts
      <4>3. \A a \in Assets : bal'[addr[r]][a] = bal[addr[r]][a] - (IF w = addr[r] THEN d[a] ELSE 0)
        BY <4>1, <2>n DEF IInv, TypeOK
      <4> QED
        BY <2>n, <4>2, <4>3
    <3>3. \A b \in Assets : bal'[addr[r]][b] \in Nat /\ Landed(r, b, req[r][b]) \in Nat
      BY <2>2, <2>n, MovesTyped, LandedTyped DEF IInv, TypeOK, Amounts
    <3>4. Landed(r, "sol", req[r]["sol"])' = Landed(r, "sol", req[r]["sol"]) /\ Costs(r)' = Costs(r)
      BY <3>1 DEF Landed, Costs
    <3>5. \A b \in Assets : Landed(r, b, req[r][b])' = Landed(r, b, req[r][b])
      BY <3>1 DEF Landed
    <3>6. ASSUME Pays(r) \/ pc[r] = "gating", NEW b \in Assets
          PROVE  bal'[addr[r]][b] <= seen[r].sub[b] + refunded[b] + Landed(r, b, req[r][b])
      <4>1. bal[addr[r]][b] <= seen[r].sub[b] + refunded[b] + Landed(r, b, req[r][b])
        BY <3>6 DEF TickInv, MoneyInv
      <4> QED
        BY <2>n, <3>2, <3>3, <4>1
    <3> QED
      BY <3>1, <3>4, <3>5, <3>6 DEF TickInv, MoneyInv, Pays, InFlight
  <2>3. CASE Refund
    <3>1. UNCHANGED <<pc, req, addr, seen, leg, owner>>
      BY <2>3 DEF Refund, memory
    <3>2. PICK w \in Wallets, d \in Refunds :
              /\ bal' = [bal EXCEPT ![w] = [a \in Assets |-> @[a] + d[a]]]
              /\ refunded' = [a \in Assets |-> refunded[a] + d[a]]
      BY <2>3 DEF Refund
    <3>3. \A a \in Assets : d[a] \in Nat /\ Landed(r, a, req[r][a]) \in Nat
      BY ParametersAssumption, LandedTyped DEF Amounts, IInv
    <3>4. \A a \in Assets : /\ bal'[addr[r]][a] = bal[addr[r]][a] + (IF w = addr[r] THEN d[a] ELSE 0)
                            /\ refunded'[a] = refunded[a] + d[a]
      BY <3>2, <2>n DEF IInv, TypeOK
    <3>5. Landed(r, "sol", req[r]["sol"])' = Landed(r, "sol", req[r]["sol"]) /\ Costs(r)' = Costs(r)
      BY <3>1 DEF Landed, Costs
    <3>6. \A b \in Assets : Landed(r, b, req[r][b])' = Landed(r, b, req[r][b])
      BY <3>1 DEF Landed
    <3>7. ASSUME Pays(r) \/ pc[r] = "gating", NEW b \in Assets
          PROVE  bal'[addr[r]][b] <= seen[r].sub[b] + refunded'[b] + Landed(r, b, req[r][b])
      <4>1. bal[addr[r]][b] <= seen[r].sub[b] + refunded[b] + Landed(r, b, req[r][b])
        BY <3>7 DEF TickInv, MoneyInv
      <4> QED
        BY <2>n, <3>3, <3>4, <4>1
    <3> QED
      BY <3>1, <3>5, <3>6, <3>7 DEF TickInv, MoneyInv, Pays, InFlight
  <2>4. CASE UNCHANGED vars
    BY <2>4 DEF vars, memory, chain, others, TickInv, MoneyInv, Pays, InFlight, Landed, Costs
  <2> QED
    BY <2>1, <2>2, <2>3, <2>4 DEF Next
<1> QED
  BY <1>1, <1>2 DEF TickInv

LEMMA TickInvariant ==
  ASSUME Tick
  PROVE  Spec => [](IInv /\ TickInv)
<1>1. Init => TickInv
  <2>1. ASSUME Init, NEW r \in Runs PROVE ~Busy(r) /\ ~Pays(r) /\ pc[r] = "idle"
    BY <2>1 DEF Init, Busy, Active, Working, Pays, InFlight
  <2> QED
    BY <2>1 DEF TickInv, Solo, MoneyInv
<1>2. IInv /\ TickInv /\ [Next]_vars => TickInv'
  BY TickStep
<1> QED
  BY <1>1, <1>2, SubWalletInductive, PTL DEF Spec

\* Only its own landing takes a leg from in flight to landed.
LEMMA WhoLands ==
  ASSUME TypeOK, NEW r \in Runs, NEW a \in Assets, [Next]_vars,
         leg[r][a] = "flight", leg'[r][a] = "landed"
  PROVE  Land(r, a)
<1> USE DEF TypeOK, Goto, memory, disk, chain
<1>1. ASSUME NEW q \in Runs, Begin(q) \/ Proceed(q) \/ Crash(q) \/ Solana(q)
      PROVE  Land(r, a)
  <2>1. q = r
    BY <1>1, OthersUntouched
  <2>2. CASE SendLeg(q)
    BY <2>1, <2>2 DEF SendLeg
  <2>3. CASE Solana(q)
    <3>1. PICK b \in Assets : Land(r, b) \/ FailOrExpire(r, b)
      BY <2>1, <2>3 DEF Solana
    <3>2. b = a
      BY <3>1 DEF Land, FailOrExpire
    <3> QED
      BY <3>1, <3>2 DEF FailOrExpire
  <2>4. CASE Begin(q) \/ Crash(q) \/ (Proceed(q) /\ ~SendLeg(q))
    BY <2>4 DEF Begin, Crash, Proceed, Look, LoadKey, OpenKey, WriteKey, ReadBalances, Stop,
       RecordIntent, ConfirmLeg, LegThrows, Settle
  <2> QED
    BY <1>1, <2>2, <2>3, <2>4
<1>2. CASE SpendRent \/ Refund \/ UNCHANGED vars
  BY <1>2 DEF SpendRent, Refund, vars
<1> QED
  BY <1>1, <1>2 DEF Next

\* Under the launchd schedule no transfer that lands takes the capped wallet over
\* the cap of its asset, escrow refunds aside (sub-wallet.mjs:7, :67-71).
THEOREM CapIsKept ==
  ASSUME Tick
  PROVE  Spec => CapKept
<1>1. ASSUME IInv, TickInv, [Next]_vars
      PROVE  [\A r \in Runs, a \in Assets :
                leg[r][a] = "flight" /\ leg'[r][a] = "landed" =>
                  bal'[addr[r]][a] <= Caps[a] + refunded[a]]_vars
  <2>1. ASSUME NEW r \in Runs, NEW a \in Assets, leg[r][a] = "flight", leg'[r][a] = "landed"
        PROVE  bal'[addr[r]][a] <= Caps[a] + refunded[a]
    <3>1. bal'[addr[r]][a] = bal[addr[r]][a] + req[r][a]
      BY <1>1, <2>1, WhoLands, LandPays DEF IInv
    <3>2. Pays(r) /\ Landed(r, a, req[r][a]) = 0
      BY <2>1 DEF Pays, InFlight, Landed
    <3>3. bal[addr[r]][a] <= seen[r].sub[a] + refunded[a] + 0 /\ Gate(req[r], seen[r])
      BY <1>1, <3>2 DEF TickInv, MoneyInv
    <3>4. a \in Legs(r)
      BY <1>1, <2>1 DEF IInv, RunInv
    <3>5. seen[r].sub[a] + req[r][a] <= Caps[a]
      BY <3>3, <3>4 DEF Gate, Cap, Legs
    <3>6. /\ bal[addr[r]][a] \in Nat /\ req[r][a] \in Nat /\ seen[r].sub[a] \in Nat
          /\ refunded[a] \in Nat /\ Caps[a] \in Nat
      BY <1>1, ParametersAssumption DEF IInv, TypeOK, Amounts
    <3> QED
      BY <3>1, <3>3, <3>5, <3>6
  <2> QED
    BY <2>1
<1> QED
  BY <1>1, TickInvariant, PTL DEF Spec, CapKept

\* What the legs that landed cost is what the legs up to this one may cost.
LEMMA CostsUnpriced ==
  ASSUME IInv, NEW r \in Runs, NEW a \in Assets, leg[r][a] = "flight"
  PROVE  Costs(r) + LegFee[a] <= Unpriced(r, a)
<1>1. \A b \in Assets : LegFee[b] \in Nat /\ Landed(r, b, LegFee[b]) \in {0, LegFee[b]}
  BY ParametersAssumption DEF Amounts, Landed
<1>2. Landed(r, a, LegFee[a]) = 0 /\ a \in Legs(r)
  BY DEF Landed, IInv, RunInv
<1>3. ASSUME NEW b \in Assets, Landed(r, b, LegFee[b]) # 0
      PROVE  b \in Legs(r) /\ Rank[b] <= Rank[a]
  <2>1. leg[r][b] = "landed"
    BY <1>3 DEF Landed
  <2>2. b \in Legs(r) /\ (Rank[a] < Rank[b] => leg[r][a] = "landed")
    BY <1>2, <2>1 DEF IInv, RunInv
  <2> QED
    BY <2>2, RankOrders
<1> DEFINE cost(b) == IF b \in Legs(r) /\ Rank[b] <= Rank[a] THEN LegFee[b] ELSE 0
<1>4. \A b \in Assets : cost(b) \in Nat /\ Landed(r, b, LegFee[b]) <= cost(b)
  BY <1>1, <1>3
<1>5. cost(a) = LegFee[a]
  BY <1>2, RankOrders
<1>6. Unpriced(r, a) = cost("sol") + cost("nos") + cost("usdc")
  BY DEF Unpriced
<1> HIDE DEF cost
<1>7. /\ \A b \in {"sol", "nos", "usdc"} : /\ cost(b) \in Nat /\ Landed(r, b, LegFee[b]) \in Nat
                                           /\ Landed(r, b, LegFee[b]) <= cost(b)
      /\ a \in {"sol", "nos", "usdc"} /\ LegFee[a] \in Nat
  BY <1>1, <1>4 DEF Assets
<1>8. CASE a = "sol"
  BY <1>2, <1>5, <1>6, <1>7, <1>8 DEF Costs
<1>9. CASE a = "nos"
  BY <1>2, <1>5, <1>6, <1>7, <1>9 DEF Costs
<1>10. CASE a = "usdc"
  BY <1>2, <1>5, <1>6, <1>7, <1>10 DEF Costs
<1> QED
  BY <1>7, <1>8, <1>9, <1>10

\* Under the same schedule no leg that lands takes the treasury under its SOL
\* floor by more than the fees and rents the gate does not price
\* (sub-wallet.mjs:110).
THEOREM TreasuryFloorIsKept ==
  ASSUME Tick
  PROVE  Spec => FloorKept
<1>1. ASSUME IInv, TickInv, [Next]_vars
      PROVE  [\A r \in Runs, a \in Assets :
                leg[r][a] = "flight" /\ leg'[r][a] = "landed" =>
                  owner'["sol"] >= Floor - Unpriced(r, a)]_vars
  <2>1. ASSUME NEW r \in Runs, NEW a \in Assets, leg[r][a] = "flight", leg'[r][a] = "landed"
        PROVE  owner'["sol"] >= Floor - Unpriced(r, a)
    <3>t. TypeOK /\ RunInv(r)
      BY <1>1 DEF IInv
    <3>1. /\ owner["sol"] \in Nat /\ owner'["sol"] \in Nat
          /\ owner'["sol"] >= owner["sol"] - (IF a = "sol" THEN req[r]["sol"] ELSE 0) - LegFee[a]
      BY <1>1, <2>1, <3>t, WhoLands, LandPays
    <3>2. Pays(r)
      BY <2>1 DEF Pays, InFlight
    <3>3. /\ owner["sol"] + Landed(r, "sol", req[r]["sol"]) + Costs(r) >= seen[r].owner["sol"]
          /\ seen[r].owner["sol"] - req[r]["sol"] >= Floor
      BY <1>1, <3>2 DEF TickInv, MoneyInv, Gate, OwnerKeeps
    <3>4. /\ seen[r].owner["sol"] \in Nat /\ req[r]["sol"] \in Nat /\ LegFee[a] \in Nat
          /\ Floor \in Nat /\ Costs(r) \in Nat /\ Landed(r, "sol", req[r]["sol"]) \in Nat
      BY <3>t, ParametersAssumption, LandedTyped DEF TypeOK, Amounts, Assets
    <3>5. Landed(r, "sol", req[r]["sol"]) + (IF a = "sol" THEN req[r]["sol"] ELSE 0) <= req[r]["sol"]
      BY <2>1, <3>4 DEF Landed
    <3>6. Costs(r) + LegFee[a] <= Unpriced(r, a)
      BY <1>1, <2>1, CostsUnpriced
    <3>7. Unpriced(r, a) \in Nat
      BY ParametersAssumption DEF Unpriced, Amounts, Assets
    <3>8. (IF a = "sol" THEN req[r]["sol"] ELSE 0) \in Nat
      BY <3>4
    <3> QED
      BY <3>1, <3>3, <3>4, <3>5, <3>6, <3>7, <3>8
  <2> QED
    BY <2>1
<1> QED
  BY <1>1, TickInvariant, PTL DEF Spec, FloorKept

----------------------------------------------------------------------------
(***************************************************************************)
(* What EveryRunEnds leaves to fairness: every step of a started run takes *)
(* at least one from a number that bounds how many it has left, and        *)
(* neither the chain nor the other runs add to it.                         *)
(***************************************************************************)
Before == [looking |-> 12, loading |-> 10, creating |-> 11, writing |-> 10,
           reading |-> 9, gating |-> 8]
ToSend(r, a) == IF a \in Pending(r) THEN 1 ELSE 0
LegsLeft(r) == ToSend(r, "sol") + ToSend(r, "nos") + ToSend(r, "usdc")
StepsLeft(r) ==
  CASE pc[r] \in DOMAIN Before -> Before[pc[r]]
    [] pc[r] = "legs" -> 2 * LegsLeft(r) + 1
    [] pc[r] = "confirming" -> 2 * LegsLeft(r) + 2
    [] OTHER -> 0

LEMMA LegsBound == ASSUME NEW r \in Runs PROVE LegsLeft(r) \in 0 .. 3
  BY DEF LegsLeft, ToSend

LEMMA PendingStays ==
  ASSUME NEW r \in Runs, req'[r] = req[r],
         \A a \in Assets : leg'[r][a] = "none" <=> leg[r][a] = "none"
  PROVE  LegsLeft(r)' = LegsLeft(r)
<1>1. Legs(r)' = Legs(r)
  BY DEF Legs
<1>2. Pending(r)' = Pending(r)
  BY <1>1 DEF Pending, Legs
<1> QED
  BY <1>2 DEF LegsLeft, ToSend

\* A leg is sent once.
LEMMA LegIsSpent ==
  ASSUME TypeOK, NEW r \in Runs, SendLeg(r)
  PROVE  LegsLeft(r)' = LegsLeft(r) - 1
<1>1. PICK a \in Assets : IsNext(r, a) /\ leg' = [leg EXCEPT ![r][a] = "flight"]
  BY DEF SendLeg
<1>2. a \in Pending(r)
  BY <1>1 DEF IsNext
<1>3. a \notin Pending(r)'
  BY <1>1 DEF Pending, TypeOK
<1>4. ASSUME NEW b \in Assets, b # a PROVE b \in Pending(r)' <=> b \in Pending(r)
  BY <1>1, <1>4 DEF Pending, Legs, SendLeg, memory, TypeOK
<1>5. ToSend(r, a) = 1 /\ ToSend(r, a)' = 0
  BY <1>2, <1>3 DEF ToSend
<1>6. ASSUME NEW b \in Assets, b # a PROVE ToSend(r, b)' = ToSend(r, b) /\ ToSend(r, b) \in Nat
  BY <1>4, <1>6 DEF ToSend
<1>7. CASE a = "sol"
  BY <1>5, <1>6, <1>7 DEF LegsLeft, Assets
<1>8. CASE a = "nos"
  BY <1>5, <1>6, <1>8 DEF LegsLeft, Assets
<1>9. CASE a = "usdc"
  BY <1>5, <1>6, <1>9 DEF LegsLeft, Assets
<1> QED
  BY <1>7, <1>8, <1>9 DEF Assets

LEMMA ProceedCounts ==
  ASSUME TypeOK, NEW r \in Runs, Proceed(r)
  PROVE  StepsLeft(r)' < StepsLeft(r) /\ StepsLeft(r)' <= StepsLeft(r)
<1>1. CASE SendLeg(r)
  <2>1. pc[r] = "legs" /\ pc'[r] = "confirming"
    BY <1>1 DEF SendLeg, Goto, TypeOK
  <2> QED
    BY <1>1, <2>1, LegIsSpent, LegsBound DEF StepsLeft, Before
<1>2. CASE ~SendLeg(r)
  <2>1. LegsLeft(r)' = LegsLeft(r)
    BY <1>2, PendingStays DEF Proceed, Look, LoadKey, OpenKey, WriteKey, ReadBalances, Stop,
         RecordIntent, ConfirmLeg, LegThrows, Settle, memory, chain
  <2>2. LegsLeft(r) \in 0 .. 3
    BY LegsBound
  <2>3. \/ pc[r] = "looking" /\ pc'[r] \in {"threw", "creating", "loading"}
        \/ pc[r] = "loading" /\ pc'[r] \in {"threw", "reading"}
        \/ pc[r] = "creating" /\ pc'[r] = "writing"
        \/ pc[r] = "writing" /\ pc'[r] = "reading"
        \/ pc[r] = "reading" /\ pc'[r] \in {"threw", "gating"}
        \/ pc[r] = "gating" /\ pc'[r] \in {"returned", "legs"}
        \/ pc[r] = "confirming" /\ pc'[r] \in {"legs", "threw"}
        \/ pc[r] = "legs" /\ pc'[r] \in {"threw", "sent"}
    BY <1>2 DEF Proceed, Look, LoadKey, OpenKey, WriteKey, ReadBalances, Stop, RecordIntent,
         ConfirmLeg, LegThrows, Settle, Goto, TypeOK
  <2> QED
    BY <2>1, <2>2, <2>3 DEF StepsLeft, Before
<1> QED
  BY <1>1, <1>2

\* A step that is not the process's own leaves its count, starts it, or ends it.
LEMMA OthersCount ==
  ASSUME TypeOK, NEW r \in Runs, Active(r), [Next]_vars, ~Proceed(r)
  PROVE  StepsLeft(r)' <= StepsLeft(r)
<1>1. \/ pc'[r] = pc[r] /\ LegsLeft(r)' = LegsLeft(r)
      \/ pc'[r] = "crashed"
  <2>1. ASSUME NEW q \in Runs, Begin(q)
        PROVE  pc'[r] = pc[r] /\ LegsLeft(r)' = LegsLeft(r)
    <3>1. q # r
      BY <2>1 DEF Begin, Active, Working
    <3> QED
      BY <2>1, <3>1, PendingStays DEF Begin, Goto, chain, TypeOK
  <2>2. ASSUME NEW q \in Runs, Proceed(q), q # r
        PROVE  pc'[r] = pc[r] /\ LegsLeft(r)' = LegsLeft(r)
    BY <2>2, PendingStays DEF Proceed, Look, LoadKey, OpenKey, WriteKey, ReadBalances, Stop,
         RecordIntent, SendLeg, ConfirmLeg, LegThrows, Settle, Goto, memory, chain, TypeOK
  <2>3. ASSUME NEW q \in Runs, Crash(q)
        PROVE  \/ pc'[r] = pc[r] /\ LegsLeft(r)' = LegsLeft(r)
               \/ pc'[r] = "crashed"
    <3>1. LegsLeft(r)' = LegsLeft(r)
      BY <2>3, PendingStays DEF Crash, memory, chain
    <3> QED
      BY <2>3, <3>1 DEF Crash, Goto, TypeOK
  <2>4. ASSUME NEW q \in Runs, Solana(q)
        PROVE  pc'[r] = pc[r] /\ LegsLeft(r)' = LegsLeft(r)
    <3>1. PICK a \in Assets, s \in {"landed", "failed", "dropped"} :
            leg[q][a] = "flight" /\ leg' = [leg EXCEPT ![q][a] = s]
      BY <2>4 DEF Solana, Land, FailOrExpire
    <3>2. pc' = pc /\ req' = req
      BY <2>4 DEF Solana, Land, FailOrExpire, memory
    <3> QED
      BY <3>1, <3>2, PendingStays DEF TypeOK
  <2>5. CASE SpendRent \/ Refund
    BY <2>5, PendingStays DEF SpendRent, Refund, memory
  <2>6. CASE UNCHANGED vars
    BY <2>6, PendingStays DEF vars, memory, chain
  <2> QED
    BY <2>1, <2>2, <2>3, <2>4, <2>5, <2>6 DEF Next
<1>2. LegsLeft(r) \in 0 .. 3
  BY LegsBound
<1>3. CASE pc'[r] = pc[r] /\ LegsLeft(r)' = LegsLeft(r)
  <2>1. StepsLeft(r)' = StepsLeft(r)
    BY <1>3 DEF StepsLeft
  <2>2. StepsLeft(r) \in Nat
    BY <1>2 DEF StepsLeft, Before
  <2> QED
    BY <2>1, <2>2
<1>4. CASE pc'[r] = "crashed"
  BY <1>2, <1>4 DEF StepsLeft, Before
<1> QED
  BY <1>1, <1>3, <1>4

\* Every step of a started run takes at least one from the number of steps it may
\* still take, which starts at twelve: five for the key, the balances and the gate,
\* two for each leg and one for the settled row.  Nothing else adds to it, whatever
\* becomes of the legs on chain (sub-wallet.mjs:158-193, :195-308).
THEOREM TopUpsComeToAnEnd ==
  Spec => [][\A r \in Runs : /\ StepsLeft(r) \in 0 .. 12
                             /\ Active(r) => StepsLeft(r) > 0
                             /\ Active(r) => StepsLeft(r)' <= StepsLeft(r)
                             /\ Proceed(r) => StepsLeft(r)' < StepsLeft(r)]_vars
<1> DEFINE Countdown == \A r \in Runs : /\ StepsLeft(r) \in 0 .. 12
                                        /\ Active(r) => StepsLeft(r) > 0
                                        /\ Active(r) => StepsLeft(r)' <= StepsLeft(r)
                                        /\ Proceed(r) => StepsLeft(r)' < StepsLeft(r)
<1>1. ASSUME TypeOK, [Next]_vars PROVE Countdown
  <2> SUFFICES ASSUME NEW r \in Runs
               PROVE  /\ StepsLeft(r) \in 0 .. 12
                      /\ Active(r) => StepsLeft(r) > 0
                      /\ Active(r) => StepsLeft(r)' <= StepsLeft(r)
                      /\ Proceed(r) => StepsLeft(r)' < StepsLeft(r)
    OBVIOUS
  <2>1. StepsLeft(r) \in 0 .. 12 /\ (Active(r) => StepsLeft(r) > 0)
    BY LegsBound DEF StepsLeft, Before, Active, Working
  <2> QED
    BY <1>1, <2>1, ProceedCounts, OthersCount
<1>2. TypeOK /\ [Next]_vars => [Countdown]_vars
  BY <1>1
<1> QED
  BY <1>2, SubWalletTyped, PTL DEF Spec
=============================================================================
