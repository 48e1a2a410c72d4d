---------------------------- MODULE DeployProofs ----------------------------
(***************************************************************************)
(* Theorems of Deploy, whatever the jobs API shows and whenever a run      *)
(* dies: it implements IntentLedger, for any number of deployments at any  *)
(* distance; and for any finite number of them at a distance corrections   *)
(* stand and no paid lease is missing from the books.                      *)
(***************************************************************************)
EXTENDS Deploy, FiniteSetTheorems, SequenceTheorems, TLAPS

(***************************************************************************)
(* That a job is posted once and never after a failed validation is not    *)
(* inductive: it takes which rows a run has at each of its places, and     *)
(* that only a run past its intent has a job.                              *)
(***************************************************************************)
Unwritten(r) == \A s \in Statuses : ~Has(r, s)
OnlyIntent(r) == Has(r, "intent") /\ \A s \in Statuses \ {"intent"} : ~Has(r, s)

RunInv(r) ==
  /\ pc[r] \in {"idle", "pricing"} => Unwritten(r)
  /\ pc[r] \in {"validating", "posting", "asking"} => OnlyIntent(r)
  /\ pc[r] \in {"idle", "pricing", "validating", "posting"} => r \notin flying \cup landed
  /\ r \in flying \cup landed => Has(r, "intent") /\ ~Has(r, "validate-failed")

IInv ==
  /\ TypeOK
  /\ flying \cap landed = {}
  /\ \A r \in Runs : RunInv(r)

----------------------------------------------------------------------------
LEMMA AppendRow ==
  ASSUME NEW q \in Runs, NEW t \in Statuses, NEW j, intents' = intents \cup {Row(q, t, j)}
  PROVE  \A r \in Runs, s \in Statuses : Has(r, s)' <=> Has(r, s) \/ (r = q /\ s = t)
<1>1. Row(q, t, j).run = q /\ Row(q, t, j).status = t
  BY DEF Row
<1> QED
  BY <1>1 DEF Has

LEMMA SameRows ==
  ASSUME UNCHANGED intents
  PROVE  \A r \in Runs, s \in Statuses : Has(r, s)' <=> Has(r, s)
BY DEF Has

LEMMA GotoTyped ==
  ASSUME TypeOK, NEW r \in Runs, NEW to \in Working \cup Ended, Goto(r, to)
  PROVE  /\ pc' \in [Runs -> Working \cup Ended \cup {"idle"}]
         /\ ended' \in Nat
         /\ pc'[r] = to
         /\ \A q \in Runs \ {r} : pc'[q] = pc[q]
BY DEF TypeOK, Goto

\* The job a run takes for its own is one that was posted.
LEMMA ReconcileNamesAJob ==
  ASSUME TypeOK, NEW r \in Runs, NEW seen \in SUBSET Claimed, NEW j \in Newest(Eligible(r, seen))
  PROVE  j \in Runs
BY DEF TypeOK, Newest, Eligible, Claimed

LEMMA InitIInv == Init => IInv
BY ParametersAssumption
   DEF Init, IInv, TypeOK, RunInv, Unwritten, OnlyIntent, Has, Statuses, Working

LEMMA TypeNext == TypeOK /\ [Next]_vars => TypeOK'
<1> SUFFICES ASSUME TypeOK, [Next]_vars PROVE TypeOK'
  OBVIOUS
<1> USE ParametersAssumption DEF run, files, chain
<1>1. CASE UNCHANGED vars
  BY <1>1 DEF TypeOK, vars
<1>2. CASE Tick
  BY <1>2 DEF Tick, TypeOK
<1>3. ASSUME NEW j \in Runs, Land(j) \/ Claim(j) PROVE TypeOK'
  BY <1>3 DEF Land, Claim, TypeOK
<1>4. ASSUME NEW r \in Runs, NEW j \in landed, Correct(r, j) PROVE TypeOK'
  BY <1>4 DEF Correct, TypeOK
<1>5. ASSUME NEW r \in Runs, Step(r) PROVE TypeOK'
  <2>1. CASE Begin(r) \/ Throw(r) \/ Die(r)
    BY <2>1, GotoTyped DEF Begin, Throw, Die, TypeOK, Working, Ended
  <2>2. CASE GateAndRecord(r)
    <3>1. PICK usd \in Costs, to \in {"validating", "refused"} :
            /\ cost' = [cost EXCEPT ![r] = usd]
            /\ at' = [at EXCEPT ![r] = now]
            /\ Goto(r, to)
            /\ intents' \in {intents, intents \cup {Row(r, "intent", NoJob)}}
      BY <2>2 DEF GateAndRecord
    <3> QED
      BY <2>2, <3>1, GotoTyped DEF GateAndRecord, TypeOK, Row, Statuses, Working, Ended
  <2>3. CASE Validate(r)
    BY <2>3, GotoTyped DEF Validate, TypeOK, Row, Statuses, Working, Ended
  <2>4. CASE Post(r)
    BY <2>4, GotoTyped DEF Post, TypeOK, Working, Ended
  <2>5. CASE Reconcile(r)
    <3>1. PICK j \in Runs \cup {NoJob}, to \in {"unknown", "charging"}, s \in {"posted", "post-unknown"} :
            /\ intents' = intents \cup {Row(r, s, j)}
            /\ Goto(r, to)
            /\ s = "posted" <=> j # NoJob
      BY <2>5, ReconcileNamesAJob DEF Reconcile
    <3> QED
      BY <2>5, <3>1, GotoTyped DEF Reconcile, TypeOK, Row, Statuses, Working, Ended
  <2>6. CASE Charge(r)
    <3>1. PICK row \in intents : row.status = "posted" /\ meant' = [meant EXCEPT ![r] = row.job]
      BY <2>6 DEF Charge
    <3> QED
      BY <2>6, <3>1, GotoTyped DEF Charge, TypeOK, Working, Ended
  <2> QED
    BY <1>5, <2>1, <2>2, <2>3, <2>4, <2>5, <2>6 DEF Step
<1> QED
  BY <1>1, <1>2, <1>3, <1>4, <1>5 DEF Next

LEMMA NextIInv == IInv /\ [Next]_vars => IInv'
<1> SUFFICES ASSUME IInv, [Next]_vars PROVE IInv'
  OBVIOUS
<1> USE DEF run, files, chain
<1>0. TypeOK /\ TypeOK'
  BY TypeNext DEF IInv
<1>1. CASE UNCHANGED vars \/ Tick \/ \E r \in Runs, j \in landed : Correct(r, j)
  <2>1. UNCHANGED <<pc, intents, flying, landed>>
    BY <1>1 DEF vars, Tick, Correct
  <2>2. ASSUME NEW r \in Runs PROVE RunInv(r)'
    BY <2>1, <2>2, SameRows DEF IInv, RunInv, Unwritten, OnlyIntent, Statuses
  <2> QED
    BY <1>0, <2>1, <2>2 DEF IInv
<1>2. ASSUME NEW j \in Runs, Land(j) \/ Claim(j) PROVE IInv'
  BY <1>0, <1>2 DEF Land, Claim, IInv, RunInv, Unwritten, OnlyIntent, Has
<1>3. ASSUME NEW r \in Runs, Step(r) PROVE IInv'
  <2>1. ASSUME NEW t \in Statuses, NEW j, NEW to \in Working \cup Ended,
               Goto(r, to), intents' = intents \cup {Row(r, t, j)}, UNCHANGED <<flying, landed>>,
               to \notin {"idle", "pricing", "posting", "asking"},
               to = "validating" => t = "intent" /\ pc[r] = "pricing",
               t = "validate-failed" => pc[r] = "validating"
        PROVE  IInv'
    <3>1. ASSUME NEW q \in Runs PROVE RunInv(q)'
      BY <1>0, <2>1, <3>1, AppendRow, GotoTyped
         DEF IInv, RunInv, Unwritten, OnlyIntent, Statuses
    <3> QED
      BY <1>0, <2>1, <3>1 DEF IInv
  <2>2. ASSUME NEW to \in Working \cup Ended, Goto(r, to), UNCHANGED <<intents, flying, landed>>,
               to = "pricing" => pc[r] = "idle",
               to = "posting" => pc[r] = "validating",
               to \notin {"validating", "asking"}
        PROVE  IInv'
    <3>1. ASSUME NEW q \in Runs PROVE RunInv(q)'
      BY <1>0, <2>2, <3>1, SameRows, GotoTyped
         DEF IInv, RunInv, Unwritten, OnlyIntent, Statuses, Working, Ended
    <3> QED
      BY <1>0, <2>2, <3>1 DEF IInv
  <2>3. CASE Begin(r) \/ Throw(r) \/ Die(r) \/ Charge(r)
    BY <2>2, <2>3 DEF Begin, Throw, Die, Charge, Working, Ended
  <2>4. CASE GateAndRecord(r)
    <3>1. \/ Goto(r, "refused") /\ UNCHANGED intents
          \/ Goto(r, "validating") /\ intents' = intents \cup {Row(r, "intent", NoJob)}
      BY <2>4 DEF GateAndRecord
    <3> QED
      BY <2>1, <2>2, <2>4, <3>1 DEF GateAndRecord, Working, Ended, Statuses
  <2>5. CASE Validate(r)
    BY <2>1, <2>2, <2>5 DEF Validate, Working, Ended, Statuses
  <2>6. CASE Post(r)
    <3>1. ASSUME NEW q \in Runs PROVE RunInv(q)'
      BY <1>0, <2>6, <3>1, SameRows, GotoTyped
         DEF Post, IInv, RunInv, Unwritten, OnlyIntent, Statuses, Working
    <3>2. (flying \cap landed = {})'
      BY <2>6 DEF Post, IInv, RunInv
    <3> QED
      BY <1>0, <3>1, <3>2 DEF IInv
  <2>7. CASE Reconcile(r)
    <3>1. \E j \in Runs \cup {NoJob}, t \in {"posted", "post-unknown"}, to \in {"unknown", "charging"} :
            Goto(r, to) /\ intents' = intents \cup {Row(r, t, j)}
      BY <1>0, <2>7, ReconcileNamesAJob DEF Reconcile
    <3> QED
      BY <2>1, <2>7, <3>1 DEF Reconcile, Working, Ended, Statuses
  <2> QED
    BY <1>3, <2>3, <2>4, <2>5, <2>6, <2>7 DEF Step
<1> QED
  BY <1>1, <1>2, <1>3 DEF Next

\* Types hold in every reachable state, and with them that a run records a job
\* address exactly when it records a job as posted: never the address that the
\* CLI printed.
THEOREM DeployTyped == Spec => []TypeOK
<1>1. Spec => []IInv
  BY InitIInv, NextIInv, PTL DEF Spec
<1> QED
  BY <1>1, PTL DEF IInv

----------------------------------------------------------------------------
Recorded == {r \in Runs : Has(r, "intent")}
Verdicts == [r \in Runs |-> Verdict(r)]

LEMMA QuietStep ==
  ASSUME UNCHANGED <<intents, landed>>
  PROVE  UNCHANGED Ledger!vars
BY DEF Ledger!vars, Verdict, Has

LEMMA RowStep ==
  ASSUME TypeOK, NEW r \in Runs, NEW t \in Statuses, NEW j,
         intents' = intents \cup {Row(r, t, j)}, UNCHANGED landed,
         IF t = "intent" THEN Unwritten(r) ELSE OnlyIntent(r),
         t = "validate-failed" => r \notin landed
  PROVE  Ledger!Next
<1>1. \A q \in Runs, s \in Statuses : Has(q, s)' <=> Has(q, s) \/ (q = r /\ s = t)
  BY AppendRow
<1>2. \A q \in Runs \ {r} : Verdict(q)' = Verdict(q)
  BY <1>1 DEF Verdict, Statuses
<1>3. CASE t = "intent"
  <2>1. Verdicts' = Verdicts
    BY <1>1, <1>2, <1>3 DEF Verdicts, Verdict, Statuses
  <2>2. r \notin Recorded /\ Recorded' = Recorded \cup {r}
    BY <1>1, <1>3 DEF Recorded, Unwritten, Statuses
  <2>3. Ledger!Record(r)
    BY <2>1, <2>2 DEF Ledger!Record, Recorded, Verdicts
  <2> QED
    BY <2>3 DEF Ledger!Next
<1>4. CASE t # "intent"
  <2>1. Recorded' = Recorded /\ r \in Recorded /\ Verdict(r) = "open"
    BY <1>1, <1>4 DEF Recorded, OnlyIntent, Verdict, Statuses
  <2>2. Verdict(r)' = (IF t = "posted" THEN "settled"
                       ELSE IF t = "validate-failed" THEN "failed" ELSE "unknown")
    BY <1>1, <1>4 DEF OnlyIntent, Verdict, Statuses
  <2>3. Verdicts' = [Verdicts EXCEPT ![r] = Verdict(r)']
    BY <1>2 DEF Verdicts
  <2>4. Ledger!Settle(r) \/ Ledger!Fail(r) \/ Ledger!GiveUp(r)
    BY <1>4, <2>1, <2>2, <2>3
       DEF Ledger!Settle, Ledger!Fail, Ledger!GiveUp, Ledger!Close, Recorded, Verdicts, Statuses
  <2> QED
    BY <2>4 DEF Ledger!Next
<1> QED
  BY <1>3, <1>4

\* A job lands: it was recorded, did not fail its validation and is new.
LEMMA EffectStep ==
  ASSUME IInv, NEW r \in Runs, UNCHANGED intents, landed' = landed \cup {r},
         r \notin landed, Has(r, "intent"), ~Has(r, "validate-failed")
  PROVE  Ledger!Next
<1>1. Recorded' = Recorded /\ Verdicts' = Verdicts
  BY DEF Recorded, Verdicts, Verdict, Has
<1>2. Verdict(r) # "failed"
  BY DEF Verdict
<1>3. Ledger!Effect(r)
  BY <1>1, <1>2 DEF Ledger!Effect, Recorded, Verdicts
<1> QED
  BY <1>3 DEF Ledger!Next

LEMMA InitImplements == Init => Ledger!Init
BY DEF Init, Ledger!Init, Verdict, Has

LEMMA NextImplements == IInv /\ [Next]_vars => [Ledger!Next]_(Ledger!vars)
<1> SUFFICES ASSUME IInv, [Next]_vars PROVE Ledger!Next \/ UNCHANGED Ledger!vars
  OBVIOUS
<1> USE DEF run, files, chain
<1>0. TypeOK /\ \A r \in Runs : RunInv(r)
  BY DEF IInv
<1>1. CASE UNCHANGED vars \/ Tick \/ \E r \in Runs, j \in landed : Correct(r, j)
  BY <1>1, QuietStep DEF vars, Tick, Correct
<1>2. ASSUME NEW j \in Runs, Claim(j) PROVE UNCHANGED Ledger!vars
  BY <1>2, QuietStep DEF Claim
<1>3. ASSUME NEW j \in Runs, Land(j) PROVE Ledger!Next
  BY <1>0, <1>3, EffectStep DEF Land, IInv, RunInv
<1>4. ASSUME NEW r \in Runs, Begin(r) \/ Throw(r) \/ Die(r) \/ Charge(r)
      PROVE  UNCHANGED Ledger!vars
  BY <1>4, QuietStep DEF Begin, Throw, Die, Charge
<1>5. ASSUME NEW r \in Runs, GateAndRecord(r) PROVE Ledger!Next \/ UNCHANGED Ledger!vars
  <2>1. intents' \in {intents, intents \cup {Row(r, "intent", NoJob)}} /\ UNCHANGED landed
    BY <1>5 DEF GateAndRecord
  <2>2. Unwritten(r)
    BY <1>0, <1>5 DEF GateAndRecord, RunInv
  <2> QED
    BY <1>0, <2>1, <2>2, QuietStep, RowStep DEF Statuses
<1>6. ASSUME NEW r \in Runs, Validate(r) PROVE Ledger!Next \/ UNCHANGED Ledger!vars
  <2>1. intents' \in {intents, intents \cup {Row(r, "validate-failed", NoJob)}} /\ UNCHANGED landed
    BY <1>6 DEF Validate
  <2>2. OnlyIntent(r) /\ r \notin landed
    BY <1>0, <1>6 DEF Validate, RunInv
  <2> QED
    BY <1>0, <2>1, <2>2, QuietStep, RowStep DEF Statuses
<1>7. ASSUME NEW r \in Runs, Post(r) PROVE Ledger!Next \/ UNCHANGED Ledger!vars
  <2>1. /\ UNCHANGED intents /\ landed' \in {landed, landed \cup {r}}
        /\ r \notin landed /\ OnlyIntent(r)
    BY <1>0, <1>7 DEF Post, RunInv
  <2> QED
    BY <2>1, QuietStep, EffectStep DEF OnlyIntent, Statuses
<1>8. ASSUME NEW r \in Runs, Reconcile(r) PROVE Ledger!Next
  <2>1. \E j \in Runs \cup {NoJob}, t \in {"posted", "post-unknown"} : intents' = intents \cup {Row(r, t, j)}
    BY <1>0, <1>8, ReconcileNamesAJob DEF Reconcile
  <2>2. OnlyIntent(r) /\ UNCHANGED landed
    BY <1>0, <1>8 DEF Reconcile, RunInv
  <2> QED
    BY <1>0, <2>1, <2>2, RowStep DEF Statuses
<1> QED
  BY <1>1, <1>2, <1>3, <1>4, <1>5, <1>6, <1>7, <1>8 DEF Next, Step

\* Every behaviour of the deployments is a behaviour of the intent ledger of
\* README.md: an intent before the post, one lease per intent, none after a
\* failed validation, and no verdict rewritten.
THEOREM DeployImplementsLedger == Spec => ImplementsLedger
<1>1. Spec => []IInv
  BY InitIInv, NextIInv, PTL DEF Spec
<1> QED
  BY <1>1, InitImplements, NextImplements, PTL DEF Spec, ImplementsLedger, Ledger!Spec

----------------------------------------------------------------------------
(***************************************************************************)
(* The books.  That corrections stand and that no lease is lost both need  *)
(* runs at a distance: the time stamp of a cost row then tells its run,    *)
(* and the job a row names was claimed after every earlier row was         *)
(* written, so that no two rows name the same one.                         *)
(***************************************************************************)
CostRows == [ts : Nat, usd : Nat, job : Runs, by : Runs]
Corrections == [corrects : Nat, job : Runs]
FileTyped == costs \in Seq(CostRows \cup Corrections)

Paid == {i \in DOMAIN costs : ~IsCorrection(costs[i])}
Hits(i) == AimedAt(costs, costs[i].ts)

Gated == {"validating", "posting", "asking", "charging"}

Clock ==
  /\ now > 0 /\ ended <= now
  /\ \A j \in Runs : start[j] <= now
  /\ \A q, r \in Runs : Active(q) /\ Active(r) => q = r
  /\ \A r \in Runs : Active(r) /\ ended > 0 => now > ended + Slack
  /\ \A r \in Runs : pc[r] \in Gated /\ ended > 0 => at[r] > ended + Slack

Apart ==
  /\ \A i \in Paid : 0 < costs[i].ts /\ costs[i].ts <= ended /\ pc[costs[i].by] = "posted"
  /\ \A i \in DOMAIN costs \ Paid : 0 < costs[i].corrects /\ costs[i].corrects <= ended
  /\ \A i, k \in Paid : i # k => costs[i].ts # costs[k].ts /\ costs[i].by # costs[k].by

Stand ==
  \A i \in Paid :
    \/ Hits(i) = {} /\ costs[i].job = meant[costs[i].by]
    \/ \E m \in Hits(i) :
         (\A h \in Hits(i) : h <= m) /\ costs[m].job = meant[costs[i].by]

Windows ==
  /\ \A row \in intents : row.status = "posted" =>
       start[row.job] > 0 /\ start[row.job] + Slack >= at[row.run]
  /\ \A i \in Paid : 0 < start[costs[i].job] /\ start[costs[i].job] <= costs[i].ts
  /\ \A i, k \in Paid : costs[i].ts < costs[k].ts => start[costs[k].job] > costs[i].ts

Books == spaced => Clock /\ Apart /\ Stand /\ Windows

LEMMA Kinds ==
  /\ \A row \in CostRows : ~IsCorrection(row)
  /\ \A row \in Corrections : IsCorrection(row)
BY DEF CostRows, Corrections, IsCorrection

LEMMA PaidRows ==
  ASSUME FileTyped
  PROVE  /\ DOMAIN costs = 1 .. Len(costs) /\ Len(costs) \in Nat
         /\ \A i \in Paid : i \in DOMAIN costs /\ costs[i] \in CostRows
         /\ \A i \in DOMAIN costs \ Paid : costs[i] \in Corrections
         /\ \A i \in Paid : Hits(i) \subseteq DOMAIN costs \ Paid
BY Kinds, ElementOfSeq, LenProperties DEF FileTyped, Paid, Hits, AimedAt

LEMMA Appended ==
  ASSUME FileTyped, NEW row \in CostRows \cup Corrections, costs' = Append(costs, row)
  PROVE  /\ FileTyped'
         /\ DOMAIN costs' = DOMAIN costs \cup {Len(costs) + 1}
         /\ Len(costs) + 1 \notin DOMAIN costs
         /\ \A i \in DOMAIN costs : costs'[i] = costs[i]
         /\ costs'[Len(costs) + 1] = row
<1>1. /\ Append(costs, row) \in Seq(CostRows \cup Corrections)
      /\ Len(Append(costs, row)) = Len(costs) + 1
      /\ \A i \in 1 .. Len(costs) : Append(costs, row)[i] = costs[i]
      /\ Append(costs, row)[Len(costs) + 1] = row
  BY AppendProperties DEF FileTyped
<1>2. DOMAIN costs = 1 .. Len(costs) /\ Len(costs) \in Nat
  BY LenProperties DEF FileTyped
<1>3. DOMAIN costs' = 1 .. (Len(costs) + 1)
  BY <1>1, LenProperties
<1> QED
  BY <1>1, <1>2, <1>3 DEF FileTyped

\* What a cost row changes: it is the last one paid, and no correction is aimed
\* elsewhere because of it.
LEMMA CostAppended ==
  ASSUME FileTyped, NEW row \in CostRows, costs' = Append(costs, row)
  PROVE  /\ Paid' = Paid \cup {Len(costs) + 1}
         /\ DOMAIN costs' \ Paid' = DOMAIN costs \ Paid
         /\ \A ts : AimedAt(costs', ts) = AimedAt(costs, ts)
<1>1. ~IsCorrection(row)
  BY Kinds
<1> QED
  BY <1>1, Appended DEF Paid, AimedAt

LEMMA CorrectionAppended ==
  ASSUME FileTyped, NEW row \in Corrections, costs' = Append(costs, row)
  PROVE  /\ Paid' = Paid
         /\ DOMAIN costs' \ Paid' = (DOMAIN costs \ Paid) \cup {Len(costs) + 1}
         /\ \A ts : AimedAt(costs', ts) =
              IF ts = row.corrects THEN AimedAt(costs, ts) \cup {Len(costs) + 1}
              ELSE AimedAt(costs, ts)
<1>1. IsCorrection(row)
  BY Kinds
<1>2. Paid' = Paid /\ DOMAIN costs' \ Paid' = (DOMAIN costs \ Paid) \cup {Len(costs) + 1}
  BY <1>1, Appended DEF Paid
<1>3. ASSUME NEW ts
      PROVE  AimedAt(costs', ts) = IF ts = row.corrects THEN AimedAt(costs, ts) \cup {Len(costs) + 1}
                                   ELSE AimedAt(costs, ts)
  BY <1>1, Appended DEF AimedAt
<1> QED
  BY <1>2, <1>3

----------------------------------------------------------------------------
\* A charge, with the row it writes.
LEMMA ChargedRow ==
  ASSUME IInv, NEW r \in Runs, Charge(r)
  PROVE  \E row \in intents :
           /\ row.run = r /\ row.status = "posted" /\ row.job \in Runs
           /\ CostRow(now, cost[r], row.job, r) \in CostRows
           /\ costs' = Append(costs, CostRow(now, cost[r], row.job, r))
           /\ meant' = [meant EXCEPT ![r] = row.job]
<1>1. PICK row \in intents :
        /\ row.run = r /\ row.status = "posted"
        /\ costs' = Append(costs, CostRow(now, cost[r], row.job, r))
        /\ meant' = [meant EXCEPT ![r] = row.job]
  BY DEF Charge
<1>2. row.job \in Runs
  BY <1>1 DEF IInv, TypeOK
<1>3. CostRow(now, cost[r], row.job, r) \in CostRows
  BY <1>2 DEF CostRow, CostRows, IInv, TypeOK
<1> QED
  BY <1>1, <1>2, <1>3

LEMMA CorrectedRow ==
  ASSUME IInv, FileTyped, NEW r \in Runs, NEW j \in landed, Correct(r, j)
  PROVE  \E i \in Paid :
           /\ costs[i].by = r /\ j \in Runs
           /\ Correction(costs[i].ts, j) \in Corrections
           /\ Correction(costs[i].ts, j).corrects = costs[i].ts
           /\ Correction(costs[i].ts, j).job = j
           /\ costs' = Append(costs, Correction(costs[i].ts, j))
<1>1. PICK i \in Paid : costs[i].by = r /\ costs' = Append(costs, Correction(costs[i].ts, j))
  BY DEF Correct, Paid
<1>2. j \in Runs /\ costs[i].ts \in Nat
  BY PaidRows DEF IInv, TypeOK, CostRows
<1> QED
  BY <1>1, <1>2 DEF Correction, Corrections

LEMMA FileNext == ASSUME IInv, FileTyped, [Next]_vars PROVE FileTyped'
<1>1. ASSUME NEW r \in Runs, Charge(r) PROVE FileTyped'
  BY <1>1, ChargedRow, Appended
<1>2. ASSUME NEW r \in Runs, NEW j \in landed, Correct(r, j) PROVE FileTyped'
  BY <1>2, CorrectedRow, Appended
<1>3. CASE UNCHANGED costs
  BY <1>3 DEF FileTyped
<1>4. ASSUME NEW r \in Runs, Step(r), ~Charge(r) PROVE UNCHANGED costs
  BY <1>4 DEF Step, Begin, Throw, GateAndRecord, Validate, Post, Reconcile, Die, files
<1>5. ASSUME NEW j \in Runs, Land(j) \/ Claim(j) PROVE UNCHANGED costs
  BY <1>5 DEF Land, Claim, files
<1> QED
  BY <1>1, <1>2, <1>3, <1>4, <1>5 DEF Next, Tick, vars, files

\* What a step of a run does to the clocks: it begins, or it was under way.
LEMMA StepShape ==
  ASSUME TypeOK, NEW r \in Runs, Step(r)
  PROVE  \E to \in Working \cup Ended :
           /\ Goto(r, to) /\ UNCHANGED <<now, spaced, start>>
           /\ (Begin(r) /\ pc[r] = "idle") \/ Active(r)
           /\ at' \in [Runs -> Nat] /\ \A q \in Runs \ {r} : at'[q] = at[q]
           /\ to \in Gated => at'[r] = now \/ (at'[r] = at[r] /\ pc[r] \in Gated)
           /\ at'[r] = at[r] \/ pc[r] = "pricing"
<1> USE DEF Active, Working, Ended, Gated, chain, TypeOK
<1>1. CASE Begin(r)
  BY <1>1 DEF Begin
<1>2. CASE Throw(r) \/ Die(r) \/ Validate(r) \/ Post(r) \/ Charge(r)
  BY <1>2 DEF Throw, Die, Validate, Post, Charge
<1>3. CASE GateAndRecord(r)
  <2>1. /\ pc[r] = "pricing" /\ UNCHANGED <<now, spaced, start>>
        /\ at' = [at EXCEPT ![r] = now]
        /\ \E to \in {"validating", "refused"} : Goto(r, to)
    BY <1>3 DEF GateAndRecord
  <2> QED
    BY <2>1
<1>4. CASE Reconcile(r)
  <2>1. /\ pc[r] = "asking" /\ UNCHANGED <<now, spaced, start, at>>
        /\ \E to \in {"unknown", "charging"} : Goto(r, to)
    BY <1>4 DEF Reconcile
  <2> QED
    BY <2>1
<1> QED
  BY <1>1, <1>2, <1>3, <1>4 DEF Step

LEMMA ClockStep ==
  ASSUME TypeOK, TypeOK', Clock, spaced, NEW r \in Runs, Step(r)
  PROVE  Clock' /\ ended <= ended' /\ pc[r] # "posted"
<1>1. PICK to \in Working \cup Ended :
           /\ Goto(r, to) /\ UNCHANGED <<now, spaced, start>>
           /\ (Begin(r) /\ pc[r] = "idle") \/ Active(r)
           /\ at' \in [Runs -> Nat] /\ \A q \in Runs \ {r} : at'[q] = at[q]
           /\ to \in Gated => at'[r] = now \/ (at'[r] = at[r] /\ pc[r] \in Gated)
  BY StepShape
<1>2. pc'[r] = to /\ \A q \in Runs \ {r} : pc'[q] = pc[q]
  BY <1>1, GotoTyped
<1>3. /\ now \in Nat /\ ended \in Nat /\ Slack \in Nat /\ ended' \in {ended, now}
      /\ to \in Ended => ended' = now
      /\ to \notin Ended => ended' = ended
  BY <1>1, ParametersAssumption DEF Goto, TypeOK
<1>4. \A q \in Runs \ {r} : ~Active(q)
  BY <1>1 DEF Begin, Clock
<1>5. \A q \in Runs \ {r} : ~Active(q)' /\ pc'[q] \notin Gated
  BY <1>2, <1>4 DEF Active, Working, Gated
<1>6. ended > 0 => now > ended + Slack
  BY <1>1 DEF Begin, Clock
<1>7. to \in Ended => ~Active(r)' /\ to \notin Gated
  BY <1>2 DEF Ended, Active, Working, Gated
<1>8. /\ (\A q, s \in Runs : Active(q) /\ Active(s) => q = s)'
      /\ (\A q \in Runs : Active(q) /\ ended > 0 => now > ended + Slack)'
  BY <1>1, <1>3, <1>5, <1>6, <1>7
<1>9. (\A q \in Runs : pc[q] \in Gated /\ ended > 0 => at[q] > ended + Slack)'
  BY <1>1, <1>2, <1>3, <1>5, <1>6, <1>7 DEF Clock
<1>10. now' > 0 /\ ended' <= now' /\ \A j \in Runs : start'[j] <= now'
  BY <1>1, <1>3 DEF Clock
<1>11. pc[r] # "posted"
  BY <1>1 DEF Active, Working
<1>12. ended <= ended'
  BY <1>1, <1>3 DEF Clock
<1>13. Clock'
  BY <1>8, <1>9, <1>10 DEF Clock
<1> QED
  BY <1>11, <1>12, <1>13

\* Where no row is charged or corrected the rows stay apart and keep their jobs.
LEMMA RowsRest ==
  ASSUME TypeOK, TypeOK', FileTyped, Apart, Stand, UNCHANGED <<costs, meant>>, ended <= ended',
         \A r \in Runs : pc[r] = "posted" => pc'[r] = "posted"
  PROVE  Apart' /\ Stand'
<1>1. /\ \A i \in Paid : costs[i].by \in Runs /\ costs[i].ts \in Nat
      /\ \A i \in DOMAIN costs \ Paid : costs[i].corrects \in Nat
  BY PaidRows DEF CostRows, Corrections
<1>2. Paid' = Paid /\ \A i : Hits(i)' = Hits(i)
  BY DEF Paid, Hits
<1>3. ended \in Nat /\ ended' \in Nat
  BY DEF TypeOK
<1>4. Apart'
  BY <1>1, <1>2, <1>3 DEF Apart
<1> QED
  BY <1>2, <1>4 DEF Stand

LEMMA WindowsRest ==
  ASSUME TypeOK, FileTyped, Windows, UNCHANGED costs,
         \A j \in Runs : start[j] > 0 => start'[j] = start[j],
         \A row \in intents' : row.status = "posted" =>
           \/ row \in intents /\ at'[row.run] = at[row.run]
           \/ row.job \in Runs /\ start'[row.job] > 0 /\ start'[row.job] + Slack >= at'[row.run]
  PROVE  Windows'
<1>1. \A i \in Paid : costs[i].job \in Runs
  BY PaidRows DEF CostRows
<1>2. \A row \in intents : row.status = "posted" => row.job \in Runs
  BY DEF TypeOK
<1>3. Paid' = Paid
  BY DEF Paid
<1>4. \A i \in Paid : start'[costs[i].job] = start[costs[i].job]
  BY <1>1 DEF Windows
<1>5. (\A row \in intents : row.status = "posted" =>
         start[row.job] > 0 /\ start[row.job] + Slack >= at[row.run])'
  BY <1>2 DEF Windows
<1> QED
  BY <1>3, <1>4, <1>5 DEF Windows

\* A new cost row is later than every row and every correction before it, and
\* names a job claimed after all of them.
LEMMA ChargeBooks ==
  ASSUME IInv, IInv', FileTyped, Books, spaced, NEW r \in Runs, Charge(r)
  PROVE  Apart' /\ Stand' /\ Windows'
<1>1. PICK row \in intents :
           /\ row.run = r /\ row.status = "posted" /\ row.job \in Runs
           /\ CostRow(now, cost[r], row.job, r) \in CostRows
           /\ costs' = Append(costs, CostRow(now, cost[r], row.job, r))
           /\ meant' = [meant EXCEPT ![r] = row.job]
  BY ChargedRow
<1> DEFINE new == CostRow(now, cost[r], row.job, r)
<1>2. new.ts = now /\ new.job = row.job /\ new.by = r
  BY DEF CostRow
<1> HIDE DEF new
<1>n. PICK n : n = Len(costs) + 1
  OBVIOUS
<1>3. /\ Paid' = Paid \cup {n} /\ n \notin DOMAIN costs
      /\ DOMAIN costs' \ Paid' = DOMAIN costs \ Paid
      /\ \A i \in DOMAIN costs : costs'[i] = costs[i]
      /\ costs'[n] = new
      /\ \A ts : AimedAt(costs', ts) = AimedAt(costs, ts)
  BY <1>1, <1>n, Appended, CostAppended DEF new
<1>4. /\ \A i \in Paid : i \in DOMAIN costs /\ costs[i] \in CostRows
      /\ \A i \in DOMAIN costs \ Paid : costs[i] \in Corrections
      /\ \A i \in Paid : Hits(i) \subseteq DOMAIN costs \ Paid
  BY PaidRows
<1>5. pc[r] = "charging" /\ pc'[r] = "posted" /\ \A q \in Runs \ {r} : pc'[q] = pc[q]
  BY GotoTyped DEF Charge, IInv, Ended
<1>6. Clock /\ Apart /\ Stand /\ Windows
  BY DEF Books
<1>7. ended' = now /\ UNCHANGED <<now, intents, start, at>>
  BY DEF Charge, Goto, Ended, chain
<1>8. now \in Nat /\ ended \in Nat /\ Slack \in Nat
  BY ParametersAssumption DEF IInv, TypeOK
<1>9. /\ ended <= now /\ now > 0 /\ (ended > 0 => now > ended /\ at[r] > ended + Slack)
  BY <1>5, <1>6, <1>8 DEF Clock, Active, Working, Gated
<1>10. \A i \in Paid : /\ costs[i].ts \in Nat /\ costs[i].ts < now /\ costs[i].by \in Runs \ {r}
                       /\ costs[i].ts <= ended /\ ended > 0
  BY <1>4, <1>5, <1>6, <1>8, <1>9 DEF Apart, CostRows
<1>11. \A i \in DOMAIN costs \ Paid : costs[i].corrects \in Nat /\ costs[i].corrects < now
                                      /\ 0 < costs[i].corrects
  BY <1>4, <1>6, <1>8, <1>9 DEF Apart, Corrections
<1>12. Apart'
  <2>1. ASSUME NEW i \in Paid'
        PROVE  0 < costs'[i].ts /\ costs'[i].ts <= ended' /\ pc'[costs'[i].by] = "posted"
    BY <1>2, <1>3, <1>4, <1>5, <1>6, <1>7, <1>8, <1>9, <1>10, <2>1 DEF Apart
  <2>2. ASSUME NEW i \in DOMAIN costs \ Paid
        PROVE  0 < costs'[i].corrects /\ costs'[i].corrects <= ended'
    BY <1>3, <1>7, <1>8, <1>11
  <2>3. ASSUME NEW i \in Paid', NEW k \in Paid', i # k
        PROVE  costs'[i].ts # costs'[k].ts /\ costs'[i].by # costs'[k].by
    BY <1>2, <1>3, <1>4, <1>6, <1>8, <1>10, <2>3 DEF Apart
  <2> QED
    BY <1>3, <2>1, <2>2, <2>3 DEF Apart
<1>13. Stand'
  <2>1. ASSUME NEW i \in Paid
        PROVE  \/ Hits(i)' = {} /\ costs'[i].job = meant'[costs'[i].by]
               \/ \E m \in Hits(i)' :
                    (\A h \in Hits(i)' : h <= m) /\ costs'[m].job = meant'[costs'[i].by]
    <3>1. Hits(i)' = Hits(i) /\ costs'[i] = costs[i]
      BY <1>3, <1>4 DEF Hits
    <3>2. meant'[costs[i].by] = meant[costs[i].by]
      BY <1>1, <1>10 DEF IInv, TypeOK
    <3>3. \A m \in Hits(i) : costs'[m] = costs[m]
      BY <1>3, <1>4
    <3> QED
      BY <1>6, <3>1, <3>2, <3>3 DEF Stand
  <2>2. Hits(n)' = {} /\ costs'[n].job = meant'[costs'[n].by]
    <3>1. AimedAt(costs, now) = {}
      <4>1. SUFFICES ASSUME NEW i \in DOMAIN costs, IsCorrection(costs[i]), costs[i].corrects = now
                     PROVE  FALSE
        BY DEF AimedAt
      <4>2. i \in DOMAIN costs \ Paid
        BY <4>1 DEF Paid
      <4> QED
        BY <1>8, <1>11, <4>1, <4>2
    <3> QED
      BY <1>1, <1>2, <1>3, <3>1 DEF Hits, IInv, TypeOK
  <2> QED
    BY <1>3, <2>1, <2>2 DEF Stand
<1>14. Windows'
  <2>1. /\ 0 < start[row.job] /\ start[row.job] <= now /\ start[row.job] + Slack >= at[r]
        /\ start[row.job] \in Nat /\ at[r] \in Nat
    BY <1>1, <1>6 DEF Windows, Clock, IInv, TypeOK
  <2>2. ASSUME NEW i \in Paid PROVE start[row.job] > costs[i].ts
    BY <1>8, <1>9, <1>10, <2>1
  <2>3. ASSUME NEW i \in Paid', NEW k \in Paid', costs'[i].ts < costs'[k].ts
        PROVE  start'[costs'[k].job] > costs'[i].ts
    <3>1. CASE i \in Paid /\ k \in Paid
      BY <1>3, <1>4, <1>6, <1>7, <2>3, <3>1 DEF Windows
    <3>2. CASE i \in Paid /\ k = n
      BY <1>2, <1>3, <1>4, <1>7, <2>2, <3>2
    <3>3. CASE i = n
      BY <1>2, <1>3, <1>4, <1>8, <1>10, <2>3, <3>3
    <3> QED
      BY <1>3, <3>1, <3>2, <3>3
  <2>4. ASSUME NEW i \in Paid'
        PROVE  0 < start'[costs'[i].job] /\ start'[costs'[i].job] <= costs'[i].ts
    BY <1>2, <1>3, <1>4, <1>6, <1>7, <2>1, <2>4 DEF Windows
  <2>5. (\A x \in intents : x.status = "posted" =>
           start[x.job] > 0 /\ start[x.job] + Slack >= at[x.run])'
    BY <1>6, <1>7 DEF Windows
  <2> QED
    BY <2>3, <2>4, <2>5 DEF Windows
<1> QED
  BY <1>12, <1>13, <1>14

\* A correction is the last word about its row and says nothing of the others.
LEMMA CorrectBooks ==
  ASSUME IInv, FileTyped, Books, spaced, NEW r \in Runs, NEW j \in landed, Correct(r, j)
  PROVE  Apart' /\ Stand' /\ Windows'
<1>1. PICK c \in Paid :
           /\ costs[c].by = r /\ j \in Runs
           /\ Correction(costs[c].ts, j) \in Corrections
           /\ Correction(costs[c].ts, j).corrects = costs[c].ts
           /\ Correction(costs[c].ts, j).job = j
           /\ costs' = Append(costs, Correction(costs[c].ts, j))
  BY CorrectedRow
<1> DEFINE n == Len(costs) + 1
           new == Correction(costs[c].ts, j)
<1>2. new.corrects = costs[c].ts /\ new.job = j
  BY <1>1
<1> HIDE DEF new
<1>3. /\ Paid' = Paid /\ n \notin DOMAIN costs
      /\ DOMAIN costs' \ Paid' = (DOMAIN costs \ Paid) \cup {n}
      /\ \A i \in DOMAIN costs : costs'[i] = costs[i]
      /\ costs'[n] = new
      /\ \A ts : AimedAt(costs', ts) =
           IF ts = costs[c].ts THEN AimedAt(costs, ts) \cup {n} ELSE AimedAt(costs, ts)
  BY <1>1, <1>2, Appended, CorrectionAppended DEF new
<1>4. \A i \in DOMAIN costs : i \in Nat /\ i <= n
  BY PaidRows
<1>n. n \in Nat
  BY PaidRows
<1> HIDE DEF n
<1>5. /\ \A i \in Paid : i \in DOMAIN costs /\ costs[i] \in CostRows
      /\ \A i \in Paid : Hits(i) \subseteq DOMAIN costs \ Paid
  BY PaidRows
<1>6. Clock /\ Apart /\ Stand /\ Windows
  BY DEF Books
<1>7. /\ UNCHANGED <<pc, ended, at, start, intents, now>>
      /\ meant' = [meant EXCEPT ![r] = j]
  BY DEF Correct, run, chain
<1>8. Apart'
  BY <1>2, <1>3, <1>5, <1>6, <1>7 DEF Apart
<1>9. Windows'
  BY <1>3, <1>5, <1>6, <1>7 DEF Windows
<1>10. Stand'
  <2>1. ASSUME NEW i \in Paid, i # c
        PROVE  \/ Hits(i)' = {} /\ costs'[i].job = meant'[costs'[i].by]
               \/ \E m \in Hits(i)' :
                    (\A h \in Hits(i)' : h <= m) /\ costs'[m].job = meant'[costs'[i].by]
    <3>1. costs[i].ts # costs[c].ts /\ costs[i].by # r /\ costs[i].by \in Runs
      BY <1>1, <1>5, <1>6, <2>1 DEF Apart, CostRows
    <3>2. Hits(i)' = Hits(i) /\ costs'[i] = costs[i]
      BY <1>3, <1>5, <3>1 DEF Hits
    <3>3. meant'[costs[i].by] = meant[costs[i].by]
      BY <1>7, <3>1 DEF IInv, TypeOK
    <3>4. \A m \in Hits(i) : costs'[m] = costs[m]
      BY <1>3, <1>5
    <3> QED
      BY <1>6, <3>2, <3>3, <3>4 DEF Stand
  <2>2. \E m \in Hits(c)' : (\A h \in Hits(c)' : h <= m) /\ costs'[m].job = meant'[costs'[c].by]
    <3>1. Hits(c)' = Hits(c) \cup {n} /\ costs'[c] = costs[c]
      BY <1>1, <1>3, <1>5 DEF Hits
    <3>2. \A h \in Hits(c)' : h <= n
      BY <1>4, <1>5, <1>n, <3>1
    <3>3. meant'[costs'[c].by] = j
      BY <1>1, <1>7, <3>1 DEF IInv, TypeOK
    <3> QED
      BY <1>2, <1>3, <3>1, <3>2, <3>3
  <2> QED
    BY <1>3, <2>1, <2>2 DEF Stand
<1> QED
  BY <1>8, <1>9, <1>10

LEMMA BooksNext ==
  ASSUME IInv, IInv', FileTyped, Books, [Next]_vars
  PROVE  Books'
<1> USE DEF run, files, chain
<1>0. spaced' = spaced
  BY DEF Next, Step, Begin, Throw, GateAndRecord, Validate, Post, Reconcile, Charge, Die,
     Correct, Land, Claim, Tick, vars
<1> SUFFICES ASSUME spaced PROVE Clock' /\ Apart' /\ Stand' /\ Windows'
  BY <1>0 DEF Books
<1>1. Clock /\ Apart /\ Stand /\ Windows
  BY DEF Books
<1>t. TypeOK /\ TypeOK'
  BY DEF IInv
<1>2. ASSUME NEW r \in Runs, Step(r) PROVE Clock' /\ Apart' /\ Stand' /\ Windows'
  <2>1. Clock' /\ ended <= ended' /\ pc[r] # "posted"
    BY <1>1, <1>2, <1>t, ClockStep
  <2>2. CASE Charge(r)
    BY <2>1, <2>2, ChargeBooks
  <2>3. CASE ~Charge(r)
    <3>1. PICK to \in Working \cup Ended :
             /\ Goto(r, to) /\ UNCHANGED <<now, spaced, start>>
             /\ \A q \in Runs \ {r} : at'[q] = at[q]
             /\ at'[r] = at[r] \/ pc[r] = "pricing"
      BY <1>2, <1>t, StepShape
    <3>2. UNCHANGED <<costs, meant>>
      BY <1>2, <2>3 DEF Step, Begin, Throw, GateAndRecord, Validate, Post, Reconcile, Die
    <3>3. \A q \in Runs : pc[q] = "posted" => pc'[q] = "posted"
      BY <1>t, <2>1, <3>1, GotoTyped
    <3>4. Apart' /\ Stand'
      BY <1>1, <1>t, <2>1, <3>2, <3>3, RowsRest
    <3>5. ASSUME NEW row \in intents', row.status = "posted"
          PROVE  \/ row \in intents /\ at'[row.run] = at[row.run]
                 \/ row.job \in Runs /\ start'[row.job] > 0 /\ start'[row.job] + Slack >= at'[row.run]
      <4>1. CASE row \in intents
        <5>1. row.run \in Runs /\ Has(row.run, "posted")
          BY <1>t, <3>5, <4>1 DEF TypeOK, Has
        <5>2. pc[row.run] # "pricing"
          BY <5>1 DEF IInv, RunInv, Unwritten, Statuses
        <5> QED
          BY <3>1, <4>1, <5>1, <5>2
      <4>2. CASE row \notin intents
        <5>1. Reconcile(r)
          <6>1. CASE Begin(r) \/ Throw(r) \/ Post(r) \/ Die(r)
            BY <3>5, <4>2, <6>1 DEF Begin, Throw, Post, Die
          <6>2. CASE GateAndRecord(r) \/ Validate(r)
            <7>1. intents' \subseteq intents \cup {Row(r, "intent", NoJob), Row(r, "validate-failed", NoJob)}
              BY <6>2 DEF GateAndRecord, Validate
            <7>2. /\ Row(r, "intent", NoJob).status = "intent"
                  /\ Row(r, "validate-failed", NoJob).status = "validate-failed"
              BY DEF Row
            <7> QED
              BY <3>5, <4>2, <7>1, <7>2
          <6> QED
            BY <1>2, <2>3, <6>1, <6>2 DEF Step
        <5>2. PICK j : \E seen \in SUBSET Claimed :
                        j \in Newest(Eligible(r, seen)) /\ row = Row(r, "posted", j)
          BY <3>5, <4>2, <5>1 DEF Reconcile, Row
        <5>3. j \in Runs /\ start[j] > 0 /\ start[j] + Slack >= at[r]
          BY <1>t, <5>2 DEF Newest, Eligible, Claimed, TypeOK
        <5>4. row.job = j /\ row.run = r /\ UNCHANGED <<at, start>>
          BY <5>1, <5>2 DEF Row, Reconcile
        <5> QED
          BY <5>3, <5>4
      <4> QED
        BY <4>1, <4>2
    <3>6. Windows'
      BY <1>1, <1>t, <3>1, <3>2, <3>5, WindowsRest
    <3> QED
      BY <2>1, <3>4, <3>6
  <2> QED
    BY <2>2, <2>3
<1>3. ASSUME NEW r \in Runs, NEW j \in landed, Correct(r, j)
      PROVE  Clock' /\ Apart' /\ Stand' /\ Windows'
  <2>1. Clock'
    BY <1>1, <1>3 DEF Correct, Clock, Active
  <2> QED
    BY <1>3, <2>1, CorrectBooks
<1>4. CASE Tick
  <2>1. UNCHANGED <<pc, at, cost, intents, costs, meant, start, ended>> /\ now' = now + 1
    BY <1>4 DEF Tick
  <2>2. Clock'
    BY <1>1, <1>t, <2>1, ParametersAssumption DEF Clock, Active, TypeOK
  <2>3. Apart' /\ Stand' /\ Windows'
    BY <1>1, <2>1 DEF Apart, Stand, Windows, Paid, Hits
  <2> QED
    BY <2>2, <2>3
<1>5. ASSUME NEW j \in Runs, Land(j) PROVE Clock' /\ Apart' /\ Stand' /\ Windows'
  BY <1>1, <1>5 DEF Land, Clock, Active, Apart, Stand, Windows, Paid, Hits
<1>6. ASSUME NEW j \in Runs, Claim(j) PROVE Clock' /\ Apart' /\ Stand' /\ Windows'
  <2>1. /\ UNCHANGED <<now, pc, at, cost, intents, costs, meant, ended>>
        /\ start[j] = 0 /\ start' = [start EXCEPT ![j] = now]
    BY <1>6 DEF Claim
  <2>2. Clock'
    BY <1>1, <1>t, <2>1 DEF Clock, Active, TypeOK
  <2>3. Apart' /\ Stand'
    BY <1>1, <2>1 DEF Apart, Stand, Paid, Hits
  <2>4. \A k \in Runs : start[k] > 0 => start'[k] = start[k]
    BY <1>t, <2>1 DEF TypeOK
  <2>5. Windows'
    BY <1>1, <1>t, <2>1, <2>4, WindowsRest
  <2> QED
    BY <2>2, <2>3, <2>5
<1>7. CASE UNCHANGED vars
  BY <1>1, <1>7 DEF vars, Clock, Active, Apart, Stand, Windows, Paid, Hits
<1> QED
  BY <1>2, <1>3, <1>4, <1>5, <1>6, <1>7 DEF Next

LEMMA BooksInvariant == Spec => [](IInv /\ FileTyped /\ Books)
<1>1. Init => FileTyped
  BY EmptySeq DEF Init, FileTyped
<1>2. Init => Books
  BY DEF Init, Books, Clock, Apart, Stand, Windows, Paid, Active, Working, Gated
<1> QED
  BY <1>1, <1>2, InitIInv, NextIInv, FileNext, BooksNext, PTL DEF Spec

----------------------------------------------------------------------------
\* The resolved file keeps the rows and changes at most their jobs.
LEMMA ResolvedRows ==
  ASSUME FileTyped
  PROVE  /\ DOMAIN Resolved(costs) = Paid
         /\ \A i \in Paid : /\ Resolved(costs)[i].by = costs[i].by
                            /\ Resolved(costs)[i].ts = costs[i].ts
                            /\ Hits(i) = {} => Resolved(costs)[i] = costs[i]
                            /\ Hits(i) # {} => Resolved(costs)[i].job = costs[Max(Hits(i))].job
<1>1. \A i \in Paid : costs[i] \in CostRows
  BY PaidRows
<1> QED
  BY <1>1 DEF Resolved, ResolveRow, Paid, Hits, CostRows

\* Where runs keep their distance the resolved file says of every row what was
\* last said of it, for any number of runs and of corrections in any order
\* (shelter-cost-ledger.js:57-72).
THEOREM CorrectionsDoStand == Spec => []CorrectionsStand
<1>1. ASSUME IInv, FileTyped, Books PROVE CorrectionsStand
  <2>1. ASSUME spaced, NEW i \in Paid PROVE Resolved(costs)[i].job = meant[Resolved(costs)[i].by]
    <3>1. Resolved(costs)[i].by = costs[i].by
      BY <1>1, ResolvedRows
    <3>2. CASE Hits(i) = {}
      BY <1>1, <2>1, <3>1, <3>2, ResolvedRows DEF Books, Stand
    <3>3. CASE Hits(i) # {}
      <4>1. PICK m \in Hits(i) : (\A h \in Hits(i) : h <= m) /\ costs[m].job = meant[costs[i].by]
        BY <1>1, <2>1, <3>3 DEF Books, Stand
      <4>2. \A h \in Hits(i) : h \in Nat
        BY <1>1, PaidRows
      <4>3. Max(Hits(i)) \in Hits(i) /\ \A h \in Hits(i) : Max(Hits(i)) >= h
        BY <4>1, <4>2 DEF Max
      <4>4. Max(Hits(i)) = m
        BY <4>1, <4>2, <4>3
      <4> QED
        BY <1>1, <3>1, <3>3, <4>1, <4>4, ResolvedRows
    <3> QED
      BY <3>2, <3>3
  <2> QED
    BY <1>1, <2>1, ResolvedRows DEF CorrectionsStand
<1> QED
  BY <1>1, BooksInvariant, PTL

\* No two rows name the same job: the later one names a job claimed after the
\* earlier was written.
LEMMA NamesDiffer ==
  ASSUME IInv, FileTyped, Books, spaced, Uncorrected \/ Truthful,
         NEW i \in Paid, NEW k \in Paid, i # k
  PROVE  Resolved(costs)[i].job # Resolved(costs)[k].job
<1>1. Apart /\ Windows /\ costs[i] \in CostRows /\ costs[k] \in CostRows
  BY PaidRows DEF Books
<1>2. costs[i].ts # costs[k].ts /\ costs[i].by # costs[k].by
  BY <1>1 DEF Apart
<1>3. CASE Truthful
  BY <1>2, <1>3, ResolvedRows DEF Truthful
<1>4. CASE Uncorrected
  <2>1. Hits(i) = {} /\ Hits(k) = {}
    BY <1>4 DEF Uncorrected, Hits, AimedAt
  <2>2. /\ start[costs[i].job] \in Nat /\ start[costs[k].job] \in Nat
        /\ costs[i].ts \in Nat /\ costs[k].ts \in Nat
    BY <1>1 DEF CostRows, IInv, TypeOK
  <2>3. costs[i].job # costs[k].job
    <3>1. CASE costs[i].ts < costs[k].ts
      BY <1>1, <2>2, <3>1 DEF Windows
    <3>2. CASE costs[k].ts < costs[i].ts
      BY <1>1, <2>2, <3>2 DEF Windows
    <3> QED
      BY <1>2, <2>2, <3>1, <3>2
  <2> QED
    BY <2>1, <2>3, ResolvedRows
<1> QED
  BY <1>3, <1>4

\* So every row counts in the history the gate is given.
LEMMA EveryRowCounts ==
  ASSUME IInv, FileTyped, Books, spaced, Uncorrected \/ Truthful
  PROVE  OutflowRows(History) = Paid
<1>1. DOMAIN History = Paid
  BY ResolvedRows DEF History
<1>2. \A i \in Paid : /\ History[i].status = "sent"
                      /\ History[i].hash = Resolved(costs)[i].job
  BY ResolvedRows DEF History
<1>3. Candidates(History) = Paid
  BY <1>1, <1>2 DEF Candidates, Priority
<1>4. \A i, k \in Paid : History[i].hash = History[k].hash => i = k
  BY <1>2, NamesDiffer
<1>5. \A i \in Paid : Outranks(History, i, i)
  BY PaidRows DEF Outranks
<1> QED
  BY <1>3, <1>4, <1>5 DEF OutflowRows

\* No paid lease disappears from the books, for any finite number of deployments
\* at a distance: crashes between two rows, posts that land late, jobs that stay
\* queued and rows that name an earlier job included (deploy.mjs:353-443).
THEOREM NoLeaseIsLost ==
  ASSUME IsFiniteSet(Runs)
  PROVE  Spec => []NoLeaseLost
<1>1. ASSUME IInv, FileTyped, Books PROVE NoLeaseLost
  <2>1. SUFFICES ASSUME spaced, Uncorrected \/ Truthful
                 PROVE  Cardinality(landed) <=
                          Cardinality(OutflowRows(History)) + Cardinality(Unexplained)
    BY DEF NoLeaseLost
  <2> DEFINE Known == {r \in Runs : Charged(r)}
  <2>2. landed \subseteq Known \cup Unexplained
    BY <1>1 DEF IInv, TypeOK, RunInv, Unexplained
  <2>3. IsFiniteSet(Known) /\ IsFiniteSet(Unexplained)
    BY FS_Subset DEF Unexplained
  <2>4. /\ IsFiniteSet(Known \cup Unexplained)
        /\ Cardinality(Known \cup Unexplained) =
             Cardinality(Known) + Cardinality(Unexplained) - Cardinality(Known \cap Unexplained)
    BY <2>3, FS_Union
  <2>5. IsFiniteSet(Known \cap Unexplained)
    BY <2>3, FS_Subset
  <2>6. IsFiniteSet(landed) /\ Cardinality(landed) <= Cardinality(Known \cup Unexplained)
    BY <2>2, <2>4, FS_Subset
  <2>7. IsFiniteSet(Paid)
    <3>1. IsFiniteSet(1 .. Len(costs)) /\ Paid \subseteq 1 .. Len(costs)
      BY <1>1, PaidRows, FS_Interval
    <3> QED
      BY <3>1, FS_Subset
  <2>8. Cardinality(Known) <= Cardinality(Paid)
    <3> DEFINE writer == [i \in Paid |-> costs[i].by]
    <3>1. \A i \in Paid : costs[i].by \in Known
      BY <1>1, PaidRows DEF CostRows, Charged, Paid
    <3>2. \A r \in Known : \E i \in Paid : costs[i].by = r
      BY DEF Charged, Paid
    <3>3. writer \in Surjection(Paid, Known)
      BY <3>1, <3>2 DEF Surjection
    <3> QED
      BY <2>7, <3>3, FS_Surjection
  <2>9. Cardinality(OutflowRows(History)) = Cardinality(Paid)
    BY <1>1, <2>1, EveryRowCounts
  <2>10. /\ Cardinality(Known) \in Nat /\ Cardinality(Unexplained) \in Nat
         /\ Cardinality(Known \cap Unexplained) \in Nat /\ Cardinality(Paid) \in Nat
         /\ Cardinality(landed) \in Nat /\ Cardinality(Known \cup Unexplained) \in Nat
    BY <2>3, <2>4, <2>5, <2>6, <2>7, FS_CardinalityType
  <2> QED
    BY <2>4, <2>6, <2>8, <2>9, <2>10
<1> QED
  BY <1>1, BooksInvariant, PTL

=============================================================================
