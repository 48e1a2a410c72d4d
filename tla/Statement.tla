----------------------------- MODULE Statement -----------------------------
(***************************************************************************)
(* A house is moved into and proved to be lived in (modal-statement.mjs,   *)
(* move-in.mjs): a sandbox is bought, one command starts a public page in  *)
(* it (statement.py), and the proof reads the page back through its tunnel *)
(* and compares its numbers with the same numbers read from the chains and *)
(* the market.  The page is built anew for every request, source by        *)
(* source, and so is the comparison; meanwhile the numbers move: the       *)
(* gateway settles the payments of this very proof, the agent's other      *)
(* search spends from the same purse, and the market goes on.              *)
(*                                                                         *)
(* A source answers with the present value or, while it lags, with the     *)
(* one before.  The page and the comparison read USDC from the purse and   *)
(* one value from the market; SOL and NOS are read like USDC.              *)
(***************************************************************************)
EXTENDS House

CONSTANTS
  ExecFee,    \* what the gateway takes for one exec
  MaxReads,   \* the bounded reads of the comparison
  Worth,      \* the value of the positions at the start
  Values,     \* the values the market moves in
  Tolerance   \* polymarketToleranceUsd

ASSUME StatementAssumption ==
  /\ ExecFee \in Nat /\ Tolerance \in Nat
  /\ MaxReads \in Nat \ {0}
  /\ Worth \in Nat /\ Values \subseteq Nat

VARIABLES
  market,   \* the value of the positions
  before,   \* what a lagging source still answers
  box,      \* the sandbox: "none", "empty", "serving" or "gone"
  pages,    \* what each request has read so far: the page and its JSON
  own,      \* what the comparison has read so far
  proof,    \* where the proof is
  reason,   \* why it failed
  reads,    \* the comparisons made
  moves,    \* history: moves and lagging answers within the rounds so far
  seen      \* history: the values of each source in this round

record == <<pages, own, proof, reason, reads>>
history == <<moves, seen>>
vars == <<purse, hunt, market, before, box, record, history>>

----------------------------------------------------------------------------
Sources == <<"usdc", "market">>
Truth == [usdc |-> usdc, market |-> market]
Routes == {"html", "json"}
Blank == [r \in Routes |-> <<>>]
Unseen == [usdc |-> {}, market |-> {}]
Full(list) == Len(list) = Len(Sources)

Init ==
  /\ HouseInit
  /\ market = Worth
  /\ before = Truth
  /\ box = "none" /\ pages = Blank /\ own = <<>>
  /\ proof = "creating" /\ reason = "" /\ reads = 0
  /\ moves = 0 /\ seen = Unseen

\* The history counts no further than the property needs.
SpoiltOnceMore == IF moves < MaxReads THEN moves + 1 ELSE moves

\* compareFinancialSnapshots: balances exactly, the market within a tolerance.
Compare(published, independent) ==
  /\ published[1] = independent[1]
  /\ published[2] - independent[2] \in -Tolerance .. Tolerance

----------------------------------------------------------------------------
\* A proof that fails returns its reason and none of what it has read.
Failed(why) ==
  /\ proof' = "failed" /\ reason' = why
  /\ pages' = Blank /\ own' = <<>> /\ seen' = Unseen
Goto(step) == proof' = step /\ UNCHANGED <<pages, own, reason, seen>>

\* A request of moveIn that throws is caught nowhere: the proof is rejected,
\* and gives neither a reason nor the name of the sandbox.
Rejected == Goto("threw")

Elsewhere == UNCHANGED <<hunt, usdc, market, before>>

\* moveIn: the box.
Create ==
  /\ proof = "creating"
  /\ \/ box' = "empty" /\ Authorize(<<"create", 1>>, Rent) /\ Goto("executing")
     \/ /\ box' \in {"none", "empty"} /\ Authorize(<<"create", 1>>, Rent)
        /\ Failed("no box") \/ Rejected
     \/ UNCHANGED <<box, signed>> /\ (Failed("no box") \/ Rejected)
  /\ Elsewhere /\ UNCHANGED <<reads, moves>>

\* moveIn: the one command, launch_public_statement.  It returns when its beats
\* are signed, its control statement is built and its page is public, or fails
\* anywhere on the way.
Exec ==
  /\ proof = "executing" /\ box = "empty"
  /\ Authorize(<<"exec", 1>>, ExecFee)
  /\ \/ box' = "serving" /\ Goto("asking")
     \/ box' \in {"empty", "serving"} /\ (Failed("nothing ran inside") \/ Rejected)
  /\ Elsewhere /\ UNCHANGED <<reads, moves>>

ExecRefused ==
  /\ proof = "executing"
  /\ Authorize(<<"exec", 1>>, ExecFee) \/ UNCHANGED signed
  /\ Failed("nothing ran inside") \/ Rejected
  /\ Elsewhere /\ UNCHANGED <<box, reads, moves>>

----------------------------------------------------------------------------
\* The rounds.

Round ==
  /\ proof = "asking" /\ proof' = "fetching"
  /\ own' = <<>>
  /\ seen' = [s \in DOMAIN Truth |-> {Truth[s], before[s]}]
  /\ Elsewhere /\ UNCHANGED <<signed, box, reason, reads, moves>>

\* A page that has been read is not asked for again.
AskPageBug == Round /\ pages' = [pages EXCEPT !["json"] = <<>>]
AskJsonBug == Round /\ pages' = [pages EXCEPT !["html"] = <<>>]

\* Both routes are asked for, in parallel.
Ask == Round /\ pages' = Blank

\* The next source of a list answers, with the value of now or the one before.
Answers(list) == {Truth[Sources[Len(list) + 1]], before[Sources[Len(list) + 1]]}
Counted(list, value) ==
  IF value = Truth[Sources[Len(list) + 1]] THEN moves ELSE SpoiltOnceMore

\* build_public_statement, for one request: source after source.
Build(r) ==
  /\ proof = "fetching" /\ box = "serving" /\ ~Full(pages[r])
  /\ \E value \in Answers(pages[r]) :
       /\ pages' = [pages EXCEPT ![r] = Append(@, value)]
       /\ moves' = Counted(pages[r], value)
  /\ Elsewhere /\ UNCHANGED <<signed, box, own, proof, reason, reads, seen>>

\* fetchTunnelRouteDirect: this address did not answer, the next one is asked.
NextAddress(r) ==
  /\ proof = "fetching" /\ pages[r] # <<>>
  /\ pages' = [pages EXCEPT ![r] = <<>>]
  /\ Elsewhere /\ UNCHANGED <<signed, box, own, proof, reason, reads, history>>

\* The beats verify, the page names the sandbox, and what may not change since
\* the control statement has not.
Fetched ==
  /\ proof = "fetching" /\ \A r \in Routes : Full(pages[r])
  /\ Goto("comparing")
  /\ Elsewhere /\ UNCHANGED <<signed, box, reads, moves>>

\* fetchIndependentFinancialSnapshot: source after source.
ReadSource ==
  /\ proof = "comparing" /\ ~Full(own)
  /\ \E value \in Answers(own) :
       /\ own' = Append(own, value)
       /\ moves' = Counted(own, value)
  /\ Elsewhere /\ UNCHANGED <<signed, box, pages, proof, reason, reads, seen>>

Conclude ==
  /\ proof = "comparing" /\ Full(own)
  /\ reads' = reads + 1
  /\ IF Compare(pages["json"], own) THEN Goto("ok")
     ELSE IF reads' = MaxReads THEN Failed("differs") ELSE Goto("asking")
  /\ Elsewhere /\ UNCHANGED <<signed, box, moves>>

\* No address, no answer, or one that does not validate.
Fails ==
  /\ proof \in {"fetching", "comparing"}
  /\ Failed("no answer")
  /\ Elsewhere /\ UNCHANGED <<signed, box, reads, moves>>

Prove ==
  \/ Create \/ Exec \/ ExecRefused \/ Ask \/ Fetched \/ ReadSource \/ Conclude \/ Fails
  \/ \E r \in Routes : Build(r) \/ NextAddress(r)

----------------------------------------------------------------------------
\* The world around the proof.

\* What moves is followed while the proof goes on.
Open == proof \notin {"ok", "failed", "threw"}

\* A source moves: it may answer with the old value for a while.
Moved(s) ==
  /\ before' = [before EXCEPT ![s] = Truth[s]]
  /\ IF proof \in {"fetching", "comparing"}
     THEN /\ moves' = SpoiltOnceMore
          /\ seen' = [seen EXCEPT ![s] = @ \cup {Truth[s]'}]
     ELSE UNCHANGED history
  /\ UNCHANGED <<box, record>>

Search == Hunt /\ UNCHANGED <<market, before, box, record, history>>

SettleOne == Open /\ \E a \in signed : Settle(a) /\ UNCHANGED market /\ Moved("usdc")

MarketMoves ==
  /\ proof \in {"asking", "fetching", "comparing"}
  /\ market' \in Values \ {market}
  /\ UNCHANGED <<purse, hunt>>
  /\ Moved("market")

CatchUp ==
  /\ Open /\ before # Truth
  /\ \E s \in DOMAIN Truth : before' = [before EXCEPT ![s] = Truth[s]]
  /\ UNCHANGED <<purse, hunt, market, box, record, history>>

\* The lease of the sandbox ends.
BoxEnds ==
  /\ Open /\ box \in {"empty", "serving"}
  /\ box' = "gone"
  /\ Elsewhere /\ UNCHANGED <<signed, record, history>>

World == SettleOne \/ MarketMoves \/ CatchUp \/ BoxEnds

Next == Prove \/ Search \/ World

Spec == Init /\ [][Next]_vars

----------------------------------------------------------------------------
(***************************************************************************)
(* A proof that succeeds is about one round: every number of the page, of  *)
(* its JSON and of the comparison was an answer its source could give      *)
(* since the routes were last asked for, however many rounds there were.   *)
(***************************************************************************)
ProofOfOneRound ==
  proof = "ok" =>
    \A n \in DOMAIN Sources :
      {pages["html"][n], pages["json"][n], own[n]} \subseteq seen[Sources[n]]

(***************************************************************************)
(* The comparison is given up for a difference only when every one of its  *)
(* rounds was disturbed anew, by a move or a lagging answer within it: no  *)
(* disturbance costs a proof more than one of its bounded reads.           *)
(***************************************************************************)
EachReadDisturbed ==
  proof = "failed" /\ reason = "differs" => moves >= MaxReads

=============================================================================
