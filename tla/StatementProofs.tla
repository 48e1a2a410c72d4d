-------------------------- MODULE StatementProofs --------------------------
(***************************************************************************)
(* Theorems of Statement, for every number of bounded reads and every pace *)
(* of the purse and of the market: a proof that gives up for a difference  *)
(* was disturbed once in each of its reads, and one that succeeds is of    *)
(* one round.                                                              *)
(***************************************************************************)
EXTENDS Statement, TLAPS

Typed ==
  /\ usdc \in Nat /\ market \in Nat
  /\ before \in [usdc : Nat, market : Nat]
  /\ \A a \in signed : a.amount \in Nat
  /\ pages \in [Routes -> Seq(Nat)] /\ \A r \in Routes : Len(pages[r]) \in 0 .. 2
  /\ own \in Seq(Nat) /\ Len(own) \in 0 .. 2
  /\ reads \in Nat /\ moves \in 0 .. MaxReads
  /\ proof \in {"creating", "executing", "asking", "fetching", "comparing", "ok", "failed", "threw"}

\* More disturbances than comparisons: this round is disturbed too.
Disturbed == reads < moves

\* Within a round: what the page or the comparison has read and its source no
\* longer answers, or does not answer alike, is due to a disturbance.
JsonAsTrue ==
  /\ Len(pages["json"]) >= 1 => pages["json"][1] = usdc \/ Disturbed
  /\ Len(pages["json"]) >= 2 => pages["json"][2] = market \/ Disturbed

OwnAsJson ==
  /\ Len(own) >= 1 => own[1] = pages["json"][1] \/ Disturbed
  /\ Len(own) >= 2 => own[2] = pages["json"][2] \/ Disturbed

Rounds ==
  /\ Open => reads < MaxReads /\ reads <= moves
  /\ proof \in {"fetching", "comparing"} => JsonAsTrue
  /\ proof = "fetching" => own = <<>>
  /\ proof = "comparing" => Len(pages["json"]) = 2 /\ OwnAsJson

Inv == Typed /\ Rounds /\ EachReadDisturbed

----------------------------------------------------------------------------
LEMMA SourcesAre == Len(Sources) = 2 /\ Sources[1] = "usdc" /\ Sources[2] = "market"
  BY DEF Sources

\* Counting once more makes a round disturbed.
LEMMA SpoiltDisturbs ==
  ASSUME Typed, reads < MaxReads, reads <= moves
  PROVE  SpoiltOnceMore \in 0 .. MaxReads /\ reads < SpoiltOnceMore /\ moves <= SpoiltOnceMore
  BY StatementAssumption DEF Typed, SpoiltOnceMore

LEMMA AppendOne ==
  ASSUME NEW list \in Seq(Nat), NEW value \in Nat
  PROVE  /\ Append(list, value) \in Seq(Nat)
         /\ Len(Append(list, value)) = Len(list) + 1
         /\ \A n \in 1 .. Len(list) : Append(list, value)[n] = list[n]
         /\ Append(list, value)[Len(list) + 1] = value
  OBVIOUS

\* What a source answers is a number, and its present value or a disturbance.
LEMMA AnswerIs ==
  ASSUME Typed, reads < MaxReads, reads <= moves,
         NEW list, Len(list) \in {0, 1}, NEW value \in Answers(list)
  PROVE  /\ value \in Nat
         /\ Counted(list, value) \in 0 .. MaxReads /\ moves <= Counted(list, value)
         /\ \/ value = IF Len(list) = 0 THEN usdc ELSE market
            \/ reads < Counted(list, value)
<1>1. Truth.usdc = usdc /\ Truth.market = market
  BY DEF Truth
<1>2. /\ usdc \in Nat /\ market \in Nat
      /\ before.usdc \in Nat /\ before.market \in Nat /\ moves \in 0 .. MaxReads
  BY DEF Typed
<1>3. \/ Len(list) = 0 /\ Sources[Len(list) + 1] = "usdc"
      \/ Len(list) = 1 /\ Sources[Len(list) + 1] = "market"
  <2>1. Len(list) = 0 => Len(list) + 1 = 1
    OBVIOUS
  <2>2. Len(list) = 1 => Len(list) + 1 = 2
    OBVIOUS
  <2>3. Len(list) = 0 \/ Len(list) = 1
    OBVIOUS
  <2> QED BY <2>1, <2>2, <2>3, SourcesAre, Zenon
<1>4. value \in Nat
  <2>1. value = Truth[Sources[Len(list) + 1]] \/ value = before[Sources[Len(list) + 1]]
    BY DEF Answers
  <2> QED BY <1>1, <1>2, <1>3, <2>1
<1>5. CASE value = Truth[Sources[Len(list) + 1]]
  <2>1. Counted(list, value) = moves
    BY <1>5, Zenon DEF Counted
  <2>2. CASE Len(list) = 0
    BY <1>1, <1>2, <1>3, <1>4, <1>5, <2>1, <2>2
  <2>3. CASE Len(list) = 1
    BY <1>1, <1>2, <1>3, <1>4, <1>5, <2>1, <2>3
  <2> QED BY <2>2, <2>3
<1>6. CASE value # Truth[Sources[Len(list) + 1]]
  <2>1. Counted(list, value) = SpoiltOnceMore
    BY <1>6, Zenon DEF Counted
  <2> QED BY <1>4, <2>1, SpoiltDisturbs
<1> QED BY <1>5, <1>6

LEMMA InitInv == ASSUME Init PROVE Inv
<1>1. /\ usdc \in Nat /\ market \in Nat /\ before \in [usdc : Nat, market : Nat]
      /\ signed = {} /\ reads = 0 /\ moves = 0 /\ proof = "creating" /\ own = <<>>
  BY HouseAssumption, StatementAssumption DEF Init, HouseInit, Truth
<1>2. pages = Blank
  BY DEF Init
<1>3. pages \in [Routes -> Seq(Nat)] /\ \A r \in Routes : Len(pages[r]) = 0
  BY <1>2 DEF Blank
<1> QED
  BY <1>1, <1>3, StatementAssumption DEF Inv, Typed, Rounds, EachReadDisturbed, Open

----------------------------------------------------------------------------
\* A step that fails the proof for another reason than a difference.
LEMMA FailedKeeps ==
  ASSUME Inv, NEW why, why # "differs", Failed(why),
         UNCHANGED <<usdc, market, before, reads, moves>>,
         \A a \in signed' : a.amount \in Nat
  PROVE  Inv'
<1>1. /\ pages' \in [Routes -> Seq(Nat)] /\ \A r \in Routes : Len(pages'[r]) = 0
      /\ own' = <<>>
  BY DEF Failed, Blank
<1>2. Typed'
  BY <1>1 DEF Inv, Typed, Failed
<1> QED
  BY <1>2 DEF Inv, Rounds, EachReadDisturbed, Open, Failed

\* What is signed are amounts.
LEMMA AuthorizeTyped ==
  ASSUME \A a \in signed : a.amount \in Nat,
         NEW what, NEW amount \in Nat, Authorize(what, amount)
  PROVE  \A a \in signed' : a.amount \in Nat
  BY DEF Authorize

\* moveIn and the opening of a round.
LEMMA MoveInKeeps ==
  ASSUME Inv, Create \/ Exec \/ ExecRefused
  PROVE  Inv'
<1>1. /\ UNCHANGED <<usdc, market, before, reads, moves>>
      /\ \A a \in signed' : a.amount \in Nat
  <2>1. \A a \in signed : a.amount \in Nat
    BY DEF Inv, Typed
  <2>2. \/ UNCHANGED signed
        \/ \E what : Authorize(what, Rent) \/ Authorize(what, ExecFee)
    BY DEF Create, Exec, ExecRefused
  <2>3. \A a \in signed' : a.amount \in Nat
    BY <2>1, <2>2, AuthorizeTyped, HouseAssumption, StatementAssumption
  <2> QED BY <2>3 DEF Create, Exec, ExecRefused, Elsewhere
<1>2. CASE Failed("no box") \/ Failed("nothing ran inside")
  BY <1>1, <1>2, FailedKeeps
<1>3. CASE Open /\ (Goto("executing") \/ Goto("asking") \/ Rejected)
  BY <1>1, <1>3 DEF Inv, Typed, Rounds, EachReadDisturbed, Open, Goto, Rejected
<1> QED
  BY <1>2, <1>3 DEF Create, Exec, ExecRefused, Open

LEMMA AskKeeps == ASSUME Inv, Ask PROVE Inv'
  BY DEF Inv, Typed, Rounds, EachReadDisturbed, Open, Ask, Round, Elsewhere, Blank, Routes,
     JsonAsTrue

LEMMA BuildKeeps ==
  ASSUME Inv, NEW r \in Routes, Build(r)
  PROVE  Inv'
<1> DEFINE list == pages[r]
<1>1. PICK value \in Answers(list) :
        /\ pages' = [pages EXCEPT ![r] = Append(list, value)]
        /\ moves' = Counted(list, value)
  BY DEF Build
<1>2. /\ UNCHANGED <<usdc, signed, market, before, own, proof, reason, reads>>
      /\ proof = "fetching" /\ ~Full(list)
  BY DEF Build, Elsewhere
<1>3. /\ reads < MaxReads /\ reads <= moves /\ list \in Seq(Nat) /\ own = <<>>
      /\ Len(list) \in {0, 1} /\ pages \in [Routes -> Seq(Nat)]
  BY <1>2, SourcesAre DEF Inv, Typed, Rounds, Open, Full
<1>4. /\ value \in Nat /\ moves' \in 0 .. MaxReads /\ moves <= moves'
      /\ value = (IF Len(list) = 0 THEN usdc ELSE market) \/ reads < moves'
  <2> HIDE DEF list
  <2> QED BY <1>1, <1>3, AnswerIs DEF Inv
<1>5. /\ pages' \in [Routes -> Seq(Nat)] /\ pages'[r] = Append(list, value)
      /\ \A q \in Routes \ {r} : pages'[q] = pages[q]
  <2> HIDE DEF list
  <2>1. Append(list, value) \in Seq(Nat)
    BY <1>3, <1>4, AppendOne
  <2> QED BY <1>1, <1>3, <2>1
<1>6. Typed' /\ EachReadDisturbed'
  <2> HIDE DEF list
  <2>1. Len(Append(list, value)) = Len(list) + 1
    BY <1>3, <1>4, AppendOne
  <2>2. Len(list) = 0 \/ Len(list) = 1
    BY <1>3
  <2>3. Len(pages'[r]) \in 0 .. 2
    BY <1>5, <2>1, <2>2
  <2>4. \A q \in Routes \ {r} : Len(pages'[q]) \in 0 .. 2
    BY <1>5 DEF Inv, Typed
  <2> QED BY <1>2, <1>4, <1>5, <2>3, <2>4 DEF Inv, Typed, EachReadDisturbed
<1>7. CASE r = "html"
  <2>1. pages'["json"] = pages["json"]
    BY <1>5, <1>7 DEF Routes
  <2>2. JsonAsTrue'
    BY <1>2, <1>4, <2>1 DEF Inv, Typed, Rounds, JsonAsTrue, Disturbed
  <2> QED
    BY <1>2, <1>3, <1>4, <1>6, <2>2 DEF Inv, Typed, Rounds, Open
<1>8. CASE r = "json"
  <2>1. JsonAsTrue'
    <3>1. /\ \A n \in 1 .. Len(list) : pages'["json"][n] = list[n]
          /\ pages'["json"][Len(list) + 1] = value /\ Len(pages'["json"]) = Len(list) + 1
      <4>1. pages'["json"] = Append(list, value) /\ list \in Seq(Nat) /\ value \in Nat
        BY <1>3, <1>4, <1>5, <1>8
      <4> HIDE DEF list
      <4> QED BY <4>1, AppendOne
    <3>2. /\ Len(list) >= 1 => list[1] = usdc \/ reads < moves
          /\ moves \in Nat /\ moves' \in Nat /\ reads \in Nat
      BY <1>2, <1>4, <1>8 DEF Inv, Typed, Rounds, JsonAsTrue, Disturbed
    <3> HIDE DEF list
    <3>3. CASE Len(list) = 0
      BY <1>2, <1>4, <3>1, <3>3 DEF JsonAsTrue, Disturbed
    <3>4. CASE Len(list) = 1
      BY <1>2, <1>4, <3>1, <3>2, <3>4 DEF JsonAsTrue, Disturbed
    <3> QED BY <1>3, <3>3, <3>4
  <2> QED
    BY <1>2, <1>3, <1>4, <1>6, <2>1 DEF Inv, Typed, Rounds, Open
<1> QED BY <1>7, <1>8 DEF Routes

\* The other steps of a round but its end.
LEMMA NextAddressKeeps ==
  ASSUME Inv, NEW r \in Routes, NextAddress(r)
  PROVE  Inv'
<1>1. /\ UNCHANGED <<usdc, signed, market, before, own, proof, reason, reads, moves>>
      /\ proof = "fetching" /\ pages' = [pages EXCEPT ![r] = <<>>]
  BY DEF NextAddress, Elsewhere, history
<1>2. /\ pages' \in [Routes -> Seq(Nat)] /\ pages'[r] = <<>>
      /\ \A q \in Routes \ {r} : pages'[q] = pages[q]
  BY <1>1 DEF Inv, Typed
<1>3. \A q \in Routes : Len(pages'[q]) \in 0 .. 2
  <2>1. \A q \in Routes \ {r} : Len(pages'[q]) \in 0 .. 2
    BY <1>2 DEF Inv, Typed
  <2>2. Len(pages'[r]) = 0
    BY <1>2
  <2> QED BY <2>1, <2>2
<1>4. Typed' /\ EachReadDisturbed'
  BY <1>1, <1>2, <1>3 DEF Inv, Typed, EachReadDisturbed
<1>5. JsonAsTrue'
  <2>1. CASE r = "html"
    BY <1>1, <1>2, <2>1 DEF Inv, Rounds, JsonAsTrue, Disturbed, Routes
  <2>2. CASE r = "json"
    BY <1>2, <2>2 DEF JsonAsTrue
  <2> QED BY <2>1, <2>2 DEF Routes
<1> QED
  BY <1>1, <1>4, <1>5 DEF Inv, Rounds, Open

LEMMA FetchedKeeps == ASSUME Inv, Fetched PROVE Inv'
<1>1. /\ UNCHANGED <<usdc, signed, market, before, pages, own, reason, reads, moves>>
      /\ proof = "fetching" /\ proof' = "comparing" /\ Len(pages["json"]) = 2
  BY SourcesAre DEF Fetched, Goto, Elsewhere, Full, Routes
<1>2. Len(own) = 0
  BY <1>1 DEF Inv, Rounds
<1>3. JsonAsTrue' /\ OwnAsJson'
  BY <1>1, <1>2 DEF Inv, Rounds, JsonAsTrue, OwnAsJson, Disturbed
<1> QED
  BY <1>1, <1>3 DEF Inv, Typed, Rounds, EachReadDisturbed, Open

LEMMA ReadSourceKeeps == ASSUME Inv, ReadSource PROVE Inv'
<1>1. PICK value \in Answers(own) :
        own' = Append(own, value) /\ moves' = Counted(own, value)
  BY DEF ReadSource
<1>2. /\ UNCHANGED <<usdc, signed, market, before, pages, proof, reason, reads>>
      /\ proof = "comparing" /\ ~Full(own)
  BY DEF ReadSource, Elsewhere
<1>3. /\ reads < MaxReads /\ reads <= moves /\ own \in Seq(Nat) /\ Len(own) \in {0, 1}
      /\ reads \in Nat /\ moves \in Nat
  BY <1>2, SourcesAre DEF Inv, Typed, Rounds, Open, Full
<1>4. /\ value \in Nat /\ moves' \in 0 .. MaxReads /\ moves <= moves'
      /\ value = (IF Len(own) = 0 THEN usdc ELSE market) \/ reads < moves'
  BY <1>1, <1>3, AnswerIs DEF Inv
<1>5. /\ own' \in Seq(Nat) /\ Len(own') = Len(own) + 1
      /\ \A n \in 1 .. Len(own) : own'[n] = own[n]
      /\ own'[Len(own) + 1] = value
  BY <1>1, <1>3, <1>4, AppendOne
<1>6. Len(own) = 0 \/ Len(own) = 1
  BY <1>3
<1>7. Len(own') \in 0 .. 2
  BY <1>5, <1>6
<1>8. /\ pages["json"][1] = usdc \/ reads < moves
      /\ pages["json"][2] = market \/ reads < moves
      /\ Len(own) = 1 => own[1] = pages["json"][1] \/ reads < moves
  BY <1>2 DEF Inv, Rounds, JsonAsTrue, OwnAsJson, Disturbed
<1>9. JsonAsTrue'
  BY <1>2, <1>3, <1>4, <1>8 DEF JsonAsTrue, Disturbed
<1>10. OwnAsJson'
  <2>1. CASE Len(own) = 0
    BY <1>2, <1>3, <1>4, <1>5, <1>8, <2>1 DEF OwnAsJson, Disturbed
  <2>2. CASE Len(own) = 1
    BY <1>2, <1>3, <1>4, <1>5, <1>8, <2>2 DEF OwnAsJson, Disturbed
  <2> QED BY <1>6, <2>1, <2>2
<1>11. Typed' /\ EachReadDisturbed'
  BY <1>2, <1>4, <1>5, <1>7 DEF Inv, Typed, EachReadDisturbed
<1> QED
  BY <1>2, <1>3, <1>4, <1>9, <1>10, <1>11 DEF Inv, Rounds, Open

----------------------------------------------------------------------------
\* A round whose values differ was disturbed.
LEMMA ConcludeKeeps == ASSUME Inv, Conclude PROVE Inv'
<1>1. /\ UNCHANGED <<usdc, signed, market, before, moves>>
      /\ proof = "comparing" /\ Full(own) /\ reads' = reads + 1
  BY DEF Conclude, Elsewhere
<1>2. /\ reads \in Nat /\ moves \in 0 .. MaxReads /\ reads < MaxReads /\ reads <= moves
      /\ Len(own) = 2 /\ Len(pages["json"]) = 2
      /\ own \in Seq(Nat) /\ pages["json"] \in Seq(Nat)
  BY <1>1, SourcesAre DEF Inv, Typed, Rounds, Open, Full, Routes
<1>3. CASE Compare(pages["json"], own)
  BY <1>1, <1>2, <1>3 DEF Conclude, Goto, Inv, Typed, Rounds, EachReadDisturbed, Open
<1>4. CASE ~Compare(pages["json"], own)
  <2>1. own[1] # pages["json"][1] \/ own[2] # pages["json"][2]
    BY <1>2, <1>4, StatementAssumption DEF Compare
  <2>2. reads < moves
    BY <1>1, <1>2, <2>1 DEF Inv, Rounds, OwnAsJson, Disturbed
  <2>3. CASE reads' = MaxReads
    <3>1. Failed("differs")
      BY <1>4, <2>3 DEF Conclude
    <3>2. /\ pages' \in [Routes -> Seq(Nat)] /\ \A r \in Routes : Len(pages'[r]) = 0
          /\ own' = <<>>
      BY <3>1 DEF Failed, Blank
    <3> QED
      BY <1>1, <1>2, <2>2, <2>3, <3>1, <3>2
      DEF Failed, Inv, Typed, Rounds, EachReadDisturbed, Open
  <2>4. CASE reads' # MaxReads
    <3>1. Goto("asking")
      BY <1>4, <2>4 DEF Conclude
    <3>2. UNCHANGED <<pages, own, reason>> /\ proof' = "asking"
      BY <3>1 DEF Goto
    <3>3. reads' \in Nat /\ reads' < MaxReads /\ reads' <= moves'
      BY <1>1, <1>2, <2>2, <2>4, StatementAssumption
    <3>4. Typed'
      BY <1>1, <3>2, <3>3 DEF Inv, Typed
    <3> QED
      BY <3>2, <3>3, <3>4 DEF Inv, Rounds, EachReadDisturbed
  <2> QED BY <2>3, <2>4
<1> QED BY <1>3, <1>4

LEMMA FailsKeeps == ASSUME Inv, Fails PROVE Inv'
<1>1. Failed("no answer") /\ UNCHANGED <<usdc, signed, market, before, reads, moves>>
  BY DEF Fails, Elsewhere
<1>2. \A a \in signed' : a.amount \in Nat
  BY <1>1 DEF Inv, Typed
<1> QED BY <1>1, <1>2, FailedKeeps

----------------------------------------------------------------------------
\* The world.

\* A move within a round is counted, and excuses whatever was read before it.
LEMMA MovedKeeps ==
  ASSUME Inv, NEW s \in {"usdc", "market"}, Moved(s), usdc' \in Nat, market' \in Nat,
         \A a \in signed' : a.amount \in Nat
  PROVE  Inv'
<1>1. /\ UNCHANGED <<pages, own, proof, reason, reads>>
      /\ before' \in [usdc : Nat, market : Nat]
  <2>1. Truth[s] \in Nat
    BY DEF Inv, Typed, Truth
  <2> QED BY <2>1 DEF Moved, record, Inv, Typed
<1>2. CASE proof \in {"fetching", "comparing"}
  <2>1. reads < MaxReads /\ reads <= moves /\ moves' = SpoiltOnceMore
    BY <1>2 DEF Inv, Rounds, Open, Moved
  <2>2. moves' \in 0 .. MaxReads /\ reads < moves'
    BY <2>1, SpoiltDisturbs DEF Inv
  <2>3. Typed' /\ EachReadDisturbed'
    BY <1>1, <1>2, <2>2 DEF Inv, Typed, EachReadDisturbed
  <2>4. Disturbed' /\ JsonAsTrue' /\ OwnAsJson'
    BY <1>1, <2>2 DEF Disturbed, JsonAsTrue, OwnAsJson
  <2> QED BY <1>1, <2>1, <2>2, <2>3, <2>4 DEF Inv, Typed, Rounds, Open
<1>3. CASE proof \notin {"fetching", "comparing"}
  <2>1. UNCHANGED moves
    BY <1>3 DEF Moved, history
  <2> QED
    BY <1>1, <1>3, <2>1 DEF Inv, Typed, Rounds, EachReadDisturbed, Open
<1> QED BY <1>2, <1>3

LEMMA WorldKeeps == ASSUME Inv, World PROVE Inv'
<1>1. CASE SettleOne
  <2>1. PICK a \in signed : Settle(a) /\ UNCHANGED market /\ Moved("usdc")
    BY <1>1 DEF SettleOne
  <2>2. usdc' \in Nat /\ market' \in Nat /\ \A b \in signed' : b.amount \in Nat
    BY <2>1 DEF Settle, Inv, Typed
  <2> QED BY <2>1, <2>2, MovedKeeps
<1>2. CASE MarketMoves
  <2>1. usdc' \in Nat /\ market' \in Nat /\ \A b \in signed' : b.amount \in Nat
    BY <1>2, StatementAssumption DEF MarketMoves, purse, Inv, Typed
  <2> QED BY <1>2, <2>1, MovedKeeps DEF MarketMoves
<1>3. CASE CatchUp
  <2>1. /\ UNCHANGED <<usdc, signed, market, pages, own, proof, reason, reads, moves>>
        /\ \E s \in DOMAIN Truth : before' = [before EXCEPT ![s] = Truth[s]]
    BY <1>3 DEF CatchUp, purse, record, history
  <2>2. before' \in [usdc : Nat, market : Nat]
    BY <2>1 DEF Inv, Typed, Truth
  <2> QED
    BY <2>1, <2>2
    DEF Inv, Typed, Rounds, EachReadDisturbed, Open, JsonAsTrue, OwnAsJson, Disturbed
<1>4. CASE BoxEnds
  BY <1>4 DEF BoxEnds, Elsewhere, record, history,
     Inv, Typed, Rounds, EachReadDisturbed, Open, JsonAsTrue, OwnAsJson, Disturbed
<1> QED BY <1>1, <1>2, <1>3, <1>4 DEF World

LEMMA SearchKeeps == ASSUME Inv, Search PROVE Inv'
<1>1. UNCHANGED <<usdc, market, before, box, record, history>>
  BY DEF Search, Hunt, Refused, PayerThrows, GatewayFails, GatewayUnreadable, GatewayOpens,
     MarketFails, MarketOpens, Homeless, purse
<1>2. \A a \in signed' : a.amount \in Nat
  <2>1. \A a \in signed : a.amount \in Nat
    BY DEF Inv, Typed
  <2>2. UNCHANGED signed \/ \E what : Authorize(what, Rent)
    BY DEF Search, Hunt, Refused, PayerThrows, GatewayFails, GatewayUnreadable, GatewayOpens,
       MarketFails, MarketOpens, Homeless, purse
  <2> QED BY <2>1, <2>2, AuthorizeTyped, HouseAssumption
<1> QED
  BY <1>1, <1>2 DEF record, history,
     Inv, Typed, Rounds, EachReadDisturbed, Open, JsonAsTrue, OwnAsJson, Disturbed

----------------------------------------------------------------------------
LEMMA NextInv == ASSUME Inv, [Next]_vars PROVE Inv'
<1>1. CASE Prove
  BY <1>1, MoveInKeeps, AskKeeps, BuildKeeps, NextAddressKeeps, FetchedKeeps,
     ReadSourceKeeps, ConcludeKeeps, FailsKeeps DEF Prove
<1>2. CASE Search
  BY <1>2, SearchKeeps
<1>3. CASE World
  BY <1>3, WorldKeeps
<1>4. CASE UNCHANGED vars
  BY <1>4 DEF vars, purse, record, history,
     Inv, Typed, Rounds, EachReadDisturbed, Open, JsonAsTrue, OwnAsJson, Disturbed
<1> QED BY <1>1, <1>2, <1>3, <1>4 DEF Next

\* proveModalStatement gives a proof up for a difference only when each of its
\* bounded reads was disturbed anew.
THEOREM ReadsAreDisturbed == Spec => []EachReadDisturbed
<1>1. Inv => EachReadDisturbed
  BY DEF Inv
<1> QED BY <1>1, InitInv, NextInv, PTL DEF Spec

----------------------------------------------------------------------------
(***************************************************************************)
(* A proof is about one round: what a round has read was among the values  *)
(* its sources could answer with since the routes were last asked for.     *)
(***************************************************************************)
Kinds == {"usdc", "market"}

Drawn(list) ==
  /\ Len(list) >= 1 => list[1] \in seen["usdc"]
  /\ Len(list) >= 2 => list[2] \in seen["market"]

OneRound ==
  /\ seen \in [usdc : SUBSET Nat, market : SUBSET Nat]
  /\ proof \in {"fetching", "comparing"} => \A s \in Kinds : {Truth[s], before[s]} \subseteq seen[s]
  /\ proof \in {"fetching", "comparing", "ok"} =>
       Drawn(pages["html"]) /\ Drawn(pages["json"]) /\ Drawn(own)
  /\ proof \in {"comparing", "ok"} => \A r \in Routes : Len(pages[r]) = 2
  /\ proof = "ok" => Len(own) = 2

\* An answer to a list is an answer of the source whose turn it is.
LEMMA AnswerIsSeen ==
  ASSUME OneRound, proof \in {"fetching", "comparing"},
         NEW list, Len(list) \in {0, 1}, NEW value \in Answers(list)
  PROVE  value \in seen[IF Len(list) = 0 THEN "usdc" ELSE "market"]
<1>1. Sources[Len(list) + 1] = IF Len(list) = 0 THEN "usdc" ELSE "market"
  <2>1. Len(list) = 0 => Len(list) + 1 = 1
    OBVIOUS
  <2>2. Len(list) = 1 => Len(list) + 1 = 2
    OBVIOUS
  <2>3. Len(list) = 0 \/ (Len(list) = 1 /\ Len(list) # 0)
    OBVIOUS
  <2> QED BY <2>1, <2>2, <2>3, SourcesAre, Zenon
<1> DEFINE s == IF Len(list) = 0 THEN "usdc" ELSE "market"
<1>2. value = Truth[s] \/ value = before[s]
  BY <1>1 DEF Answers
<1>3. s \in Kinds
  BY DEF Kinds
<1> HIDE DEF s
<1>4. {Truth[s], before[s]} \subseteq seen[s]
  BY <1>3 DEF OneRound
<1>5. value \in seen[s]
  BY <1>2, <1>4
<1> QED BY <1>5 DEF s

LEMMA AppendDrawn ==
  ASSUME NEW list \in Seq(Nat), NEW value \in Nat, Len(list) \in {0, 1}, Drawn(list),
         value \in seen[IF Len(list) = 0 THEN "usdc" ELSE "market"]
  PROVE  Drawn(Append(list, value))
<1>1. /\ Len(Append(list, value)) = Len(list) + 1
      /\ \A n \in 1 .. Len(list) : Append(list, value)[n] = list[n]
      /\ Append(list, value)[Len(list) + 1] = value
  BY AppendOne
<1>2. CASE Len(list) = 0
  BY <1>1, <1>2 DEF Drawn
<1>3. CASE Len(list) = 1
  BY <1>1, <1>3 DEF Drawn
<1> QED BY <1>2, <1>3

\* Every source answers from what is seen when the routes are asked for.
LEMMA AskOneRound == ASSUME Inv, OneRound, Ask PROVE OneRound'
<1>1. /\ UNCHANGED <<usdc, market, before>> /\ proof' = "fetching"
      /\ seen' = [s \in DOMAIN Truth |-> {Truth[s], before[s]}]
      /\ pages' = Blank /\ own' = <<>>
  BY DEF Ask, Round, Elsewhere
<1>2. /\ DOMAIN Truth = Kinds /\ Truth' = Truth
      /\ \A s \in Kinds : Truth[s] \in Nat /\ before[s] \in Nat
  BY <1>1 DEF Truth, Inv, Typed, Kinds
<1>3. seen' \in [usdc : SUBSET Nat, market : SUBSET Nat]
  BY <1>1, <1>2 DEF Kinds
<1>4. Len(pages'["html"]) = 0 /\ Len(pages'["json"]) = 0 /\ Len(own') = 0
  BY <1>1 DEF Blank, Routes
<1> QED BY <1>1, <1>2, <1>3, <1>4 DEF OneRound, Drawn

LEMMA BuildOneRound ==
  ASSUME Inv, OneRound, NEW r \in Routes, Build(r)
  PROVE  OneRound'
<1> DEFINE list == pages[r]
<1>1. PICK value \in Answers(list) :
        /\ pages' = [pages EXCEPT ![r] = Append(list, value)]
        /\ moves' = Counted(list, value)
  BY DEF Build
<1>2. /\ UNCHANGED <<usdc, market, before, own, proof, seen>>
      /\ proof = "fetching" /\ ~Full(list)
  BY DEF Build, Elsewhere
<1>3. /\ reads < MaxReads /\ reads <= moves /\ list \in Seq(Nat)
      /\ Len(list) \in {0, 1} /\ pages \in [Routes -> Seq(Nat)]
  BY <1>2, SourcesAre DEF Inv, Typed, Rounds, Open, Full
<1>4. Drawn(list) /\ Drawn(own) /\ \A q \in Routes : Drawn(pages[q])
  BY <1>2 DEF OneRound, Routes
<1> HIDE DEF list
<1>5. value \in Nat /\ value \in seen[IF Len(list) = 0 THEN "usdc" ELSE "market"]
  BY <1>2, <1>3, AnswerIs, AnswerIsSeen DEF Inv
<1>6. Drawn(Append(list, value))
  BY <1>3, <1>4, <1>5, AppendDrawn
<1>7. \A q \in Routes : pages'[q] = IF q = r THEN Append(list, value) ELSE pages[q]
  BY <1>1, <1>3
<1>8. \A q \in Routes : Drawn(pages[q])'
  BY <1>2, <1>4, <1>6, <1>7 DEF Drawn
<1> QED BY <1>2, <1>4, <1>8 DEF OneRound, Drawn, Truth, Routes

LEMMA ReadSourceOneRound == ASSUME Inv, OneRound, ReadSource PROVE OneRound'
<1>1. PICK value \in Answers(own) :
        own' = Append(own, value) /\ moves' = Counted(own, value)
  BY DEF ReadSource
<1>2. /\ UNCHANGED <<usdc, market, before, pages, proof, seen>>
      /\ proof = "comparing" /\ ~Full(own)
  BY DEF ReadSource, Elsewhere
<1>3. reads < MaxReads /\ reads <= moves /\ own \in Seq(Nat) /\ Len(own) \in {0, 1}
  BY <1>2, SourcesAre DEF Inv, Typed, Rounds, Open, Full
<1>4. value \in Nat /\ value \in seen[IF Len(own) = 0 THEN "usdc" ELSE "market"]
  BY <1>2, <1>3, AnswerIs, AnswerIsSeen DEF Inv
<1>5. Drawn(own)'
  <2>1. Drawn(Append(own, value))
    BY <1>2, <1>3, <1>4, AppendDrawn DEF OneRound
  <2> QED BY <1>1, <1>2, <2>1 DEF Drawn
<1> QED BY <1>2, <1>5 DEF OneRound, Drawn, Truth

\* The steps that read nothing.
LEMMA OtherOneRound ==
  ASSUME Inv, OneRound,
         \/ Create \/ Exec \/ ExecRefused \/ Fetched \/ Conclude \/ Fails
         \/ \E r \in Routes : NextAddress(r)
  PROVE  OneRound'
<1>1. CASE \E why : Failed(why)
  BY <1>1 DEF Failed, Unseen, OneRound
<1>2. CASE Create \/ Exec \/ ExecRefused
  <2>1. (\E why : Failed(why)) \/ (UNCHANGED seen /\ proof' \in {"executing", "asking", "threw"})
    BY <1>2 DEF Create, Exec, ExecRefused, Goto, Rejected
  <2> QED BY <1>1, <2>1 DEF OneRound
<1>3. CASE Fetched
  <2>1. /\ UNCHANGED <<usdc, market, before, pages, own, seen>>
        /\ proof = "fetching" /\ proof' = "comparing" /\ \A r \in Routes : Len(pages[r]) = 2
    BY <1>3, SourcesAre DEF Fetched, Goto, Elsewhere, Full
  <2> QED BY <2>1 DEF OneRound, Drawn, Truth
<1>4. CASE Conclude
  <2>1. \/ \E why : Failed(why)
        \/ /\ UNCHANGED <<pages, own, seen>> /\ proof = "comparing" /\ Len(own) = 2
           /\ proof' \in {"ok", "asking"}
    BY <1>4, SourcesAre DEF Conclude, Goto, Full
  <2> QED BY <1>1, <2>1 DEF OneRound, Drawn
<1>5. CASE Fails
  BY <1>1, <1>5 DEF Fails
<1>6. ASSUME NEW r \in Routes, NextAddress(r) PROVE OneRound'
  <2>1. /\ UNCHANGED <<usdc, market, before, own, proof, seen>>
        /\ proof = "fetching" /\ pages' = [pages EXCEPT ![r] = <<>>]
    BY <1>6 DEF NextAddress, Elsewhere, history
  <2>2. \A q \in Routes : pages'[q] = IF q = r THEN <<>> ELSE pages[q]
    BY <2>1 DEF Inv, Typed
  <2>3. Drawn(own) /\ \A q \in Routes : Drawn(pages[q])
    BY <2>1 DEF OneRound, Routes
  <2>4. \A q \in Routes : Drawn(pages[q])'
    BY <2>1, <2>2, <2>3 DEF Drawn
  <2> QED BY <2>1, <2>3, <2>4 DEF OneRound, Drawn, Truth, Routes
<1> QED BY <1>2, <1>3, <1>4, <1>5, <1>6

\* A source that moves adds its new value to what is seen.
LEMMA MovedOneRound ==
  ASSUME Inv, OneRound, NEW s \in Kinds, Moved(s), usdc' \in Nat, market' \in Nat,
         \A t \in Kinds \ {s} : Truth[t]' = Truth[t]
  PROVE  OneRound'
<1>1. /\ UNCHANGED <<pages, own, proof>>
      /\ before' = [before EXCEPT ![s] = Truth[s]] /\ before \in [usdc : Nat, market : Nat]
  BY DEF Moved, record, Inv, Typed
<1>2. CASE proof \in {"fetching", "comparing"}
  <2>1. seen' = [seen EXCEPT ![s] = @ \cup {Truth[s]'}]
    BY <1>2 DEF Moved
  <2>2. Truth[s]' \in Nat
    BY DEF Truth, Kinds
  <2>3. seen' \in [usdc : SUBSET Nat, market : SUBSET Nat]
    BY <2>1, <2>2 DEF OneRound, Kinds
  <2>4. \A t \in Kinds : seen[t] \subseteq seen'[t]
    BY <2>1 DEF OneRound, Kinds
  <2>5. Truth[s]' \in seen'[s]
    BY <2>1 DEF OneRound, Kinds
  <2>6. \A t \in Kinds : Truth[t] \in seen[t] /\ before[t] \in seen[t]
    BY <1>2 DEF OneRound
  <2>7. \A t \in Kinds : before'[t] = IF t = s THEN Truth[t] ELSE before[t]
    BY <1>1 DEF Kinds
  <2>8. \A t \in Kinds : {Truth[t]', before'[t]} \subseteq seen'[t]
    <3> SUFFICES ASSUME NEW t \in Kinds PROVE Truth[t]' \in seen'[t] /\ before'[t] \in seen'[t]
      OBVIOUS
    <3>1. before'[t] \in seen[t]
      BY <2>6, <2>7
    <3>2. CASE t = s
      BY <2>4, <2>5, <3>1, <3>2
    <3>3. CASE t # s
      BY <2>4, <2>6, <3>1, <3>3
    <3> QED BY <3>2, <3>3
  <2>9. (Drawn(pages["html"]) /\ Drawn(pages["json"]) /\ Drawn(own))'
    <3>1. Drawn(pages["html"]) /\ Drawn(pages["json"]) /\ Drawn(own)
      BY <1>2 DEF OneRound
    <3> QED BY <1>1, <2>4, <3>1 DEF Drawn, Kinds
  <2> QED BY <1>1, <1>2, <2>3, <2>8, <2>9 DEF OneRound
<1>3. CASE proof \notin {"fetching", "comparing"}
  <2>1. UNCHANGED seen
    BY <1>3 DEF Moved, history
  <2> QED BY <1>1, <1>3, <2>1 DEF OneRound, Drawn
<1> QED BY <1>2, <1>3

LEMMA WorldOneRound == ASSUME Inv, OneRound, World PROVE OneRound'
<1>1. CASE SettleOne
  <2>1. PICK a \in signed : Settle(a) /\ UNCHANGED market /\ Moved("usdc")
    BY <1>1 DEF SettleOne
  <2>2. usdc' \in Nat /\ market' \in Nat /\ Truth["market"]' = Truth["market"]
    BY <2>1 DEF Settle, Inv, Typed, Truth
  <2> QED BY <2>1, <2>2, MovedOneRound DEF Kinds
<1>2. CASE MarketMoves
  <2>1. usdc' \in Nat /\ market' \in Nat /\ Truth["usdc"]' = Truth["usdc"]
    BY <1>2, StatementAssumption DEF MarketMoves, purse, Inv, Typed, Truth
  <2> QED BY <1>2, <2>1, MovedOneRound DEF MarketMoves, Kinds
<1>3. CASE CatchUp
  <2>1. UNCHANGED <<usdc, market, pages, own, proof, seen>>
    BY <1>3 DEF CatchUp, purse, record, history
  <2>2. PICK s \in DOMAIN Truth : before' = [before EXCEPT ![s] = Truth[s]]
    BY <1>3 DEF CatchUp
  <2>3. \A t \in Kinds : before'[t] \in {Truth[t], before[t]}
    BY <2>2 DEF Inv, Typed, Kinds
  <2>4. \A t \in Kinds : Truth[t]' = Truth[t]
    BY <2>1 DEF Truth
  <2> QED BY <2>1, <2>3, <2>4 DEF OneRound, Drawn
<1>4. CASE BoxEnds
  BY <1>4 DEF BoxEnds, Elsewhere, record, history, OneRound, Drawn, Truth
<1> QED BY <1>1, <1>2, <1>3, <1>4 DEF World

LEMMA NextOneRound == ASSUME Inv, OneRound, [Next]_vars PROVE OneRound'
<1>1. CASE Prove
  BY <1>1, AskOneRound, BuildOneRound, ReadSourceOneRound, OtherOneRound DEF Prove
<1>2. CASE Search \/ UNCHANGED vars
  <2>1. UNCHANGED <<usdc, market, before, pages, own, proof, seen>>
    BY <1>2 DEF Search, Hunt, Refused, PayerThrows, GatewayFails, GatewayUnreadable, GatewayOpens,
       MarketFails, MarketOpens, Homeless, vars, purse, record, history
  <2> QED BY <2>1 DEF OneRound, Drawn, Truth
<1>3. CASE World
  BY <1>3, WorldOneRound
<1> QED BY <1>1, <1>2, <1>3 DEF Next

\* However many rounds a proof took, what it succeeds on was read in the last one
\* of them, page, JSON and comparison alike (modal-statement.mjs).
THEOREM ProofIsOfOneRound == Spec => []ProofOfOneRound
<1>1. Init => OneRound
  <2>1. Unseen \in [usdc : SUBSET Nat, market : SUBSET Nat]
    BY DEF Unseen
  <2> QED BY <2>1 DEF Init, OneRound
<1>2. OneRound => ProofOfOneRound
  <2> SUFFICES ASSUME OneRound, proof = "ok", NEW n \in DOMAIN Sources
               PROVE  {pages["html"][n], pages["json"][n], own[n]} \subseteq seen[Sources[n]]
    BY DEF ProofOfOneRound
  <2>1. n = 1 \/ n = 2
    BY DEF Sources
  <2>2. Len(pages["html"]) = 2 /\ Len(pages["json"]) = 2 /\ Len(own) = 2
    BY DEF OneRound, Routes
  <2>3. Drawn(pages["html"]) /\ Drawn(pages["json"]) /\ Drawn(own)
    BY DEF OneRound
  <2> QED BY <2>1, <2>2, <2>3, SourcesAre DEF Drawn
<1> QED BY <1>1, <1>2, InitInv, NextInv, NextOneRound, PTL DEF Spec

=============================================================================
