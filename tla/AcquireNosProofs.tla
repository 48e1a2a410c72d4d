-------------------------- MODULE AcquireNosProofs --------------------------
(***************************************************************************)
(* Proofs about AcquireNos, for every set of runs, every schedule and      *)
(* every value of the constants that ParametersAssumption allows; what     *)
(* only the hourly schedule gives is proved after it, from assumptions     *)
(* that say so; last, that a run takes a bounded number of steps.          *)
(***************************************************************************)
EXTENDS AcquireNos, TLAPS

----------------------------------------------------------------------------
(***************************************************************************)
(* The inductive invariant: what each place of a run says about its rows,  *)
(* its transaction and its memory.                                         *)
(***************************************************************************)
Unsigned == {"idle", "reading", "building", "gating", "returned"}
Undecided == {"sending", "polling", "reconciling", "receiving"}

\* Nothing is recorded or broadcast before the run signs.
BeforeSigning(r) ==
  pc[r] \in Unsigned => tx[r] = "none" /\ \A s \in Statuses : ~HasRow(r, s)

\* Between the signature and the verdict only the intent row is there.
BeforeVerdict(r) ==
  pc[r] \in Undecided =>
    /\ HasRow(r, "intent")
    /\ \A s \in Statuses \ {"intent"} : ~HasRow(r, s)
    /\ pc[r] = "sending" => tx[r] = "none"

\* A run that went on to book the swap has evidence of it.
Evidence(r) ==
  /\ pc[r] = "receiving" /\ via[r] # "delta" => tx[r] = "landed"
  /\ HasRow(r, "settled") =>
       /\ pc[r] \in {"ledger", "posted", "crashed"}
       /\ via[r] # "delta" => tx[r] = "landed"
  /\ pc[r] \in {"ledger", "posted"} => HasRow(r, "settled")

OneVerdict(r) ==
  /\ \A s \in Statuses : HasRow(r, s) => HasRow(r, "intent")
  /\ HasRow(r, "settled") => ~HasRow(r, "failed-onchain") /\ ~HasRow(r, "unknown")
  /\ HasRow(r, "failed-onchain") => ~HasRow(r, "unknown")

Chain(r) ==
  /\ tx[r] # "none" => HasRow(r, "intent")
  /\ HasRow(r, "failed-onchain") => tx[r] = "failed"
  /\ credited[r] # 0 => tx[r] = "landed"

Booked(r) == (\E f \in funding : f.run = r) <=> pc[r] = "posted"

RunInv(r) ==
  /\ BeforeSigning(r)
  /\ BeforeVerdict(r)
  /\ Evidence(r)
  /\ OneVerdict(r)
  /\ Chain(r)
  /\ Booked(r)

IInv == TypeOK /\ \A r \in Runs : RunInv(r)

----------------------------------------------------------------------------
(***************************************************************************)
(* Lemmas about the operators.                                             *)
(***************************************************************************)

\* resolveSpendLamports never exceeds a quarter of the balance, and is never
\* negative (acquire-nos.mjs:139-159).
LEMMA SpendBound ==
  ASSUME NEW b \in Nat
  PROVE  /\ Spend(b) \in Nat
         /\ 4 * Spend(b) <= b
BY ParametersAssumption DEF Spend

\* A step that appends nothing keeps every row.
LEMMA KeepRows ==
  ASSUME UNCHANGED rows
  PROVE  \A r \in Runs, s \in Statuses : HasRow(r, s)' <=> HasRow(r, s)
BY DEF HasRow, Row

\* Appending a row adds that row and no other.
LEMMA AppendRow ==
  ASSUME NEW q \in Runs, NEW t \in Statuses, rows' = rows \cup {Row(q, t)}
  PROVE  \A r \in Runs, s \in Statuses :
           HasRow(r, s)' <=> (HasRow(r, s) \/ (r = q /\ s = t))
BY DEF HasRow, Row

----------------------------------------------------------------------------
(***************************************************************************)
(* Type correctness.                                                       *)
(***************************************************************************)
LEMMA InitType == Init => TypeOK
BY ParametersAssumption DEF Init, TypeOK, Working, Ended, Sources, Statuses

LEMMA ProceedType ==
  ASSUME TypeOK, NEW r \in Runs, Proceed(r)
  PROVE  TypeOK'
<1> USE ParametersAssumption DEF TypeOK, Goto, memory, files, chain, Working, Ended,
            Sources, Statuses
<1>1. CASE ReadBalances(r)
  <2>1. PICK to \in {"building", "threw"} : Goto(r, to)
    BY <1>1 DEF ReadBalances
  <2>2. seen' \in [Runs -> [sol : Nat, nos : Nat]]
    BY <1>1 DEF ReadBalances
  <2> QED
    BY <1>1, <2>1, <2>2 DEF ReadBalances
<1>2. CASE RungMisses(r)
  BY <1>2 DEF RungMisses
<1>3. CASE RungFits(r)
  BY <1>3 DEF RungFits
<1>4. CASE StopBeforeSigning(r)
  BY <1>4 DEF StopBeforeSigning
<1>5. CASE SignAndRecord(r)
  BY <1>5 DEF SignAndRecord, RecordIntent, Row
<1>6. CASE Send(r)
  BY <1>6 DEF Send
<1>7. CASE PollConfirmed(r)
  BY <1>7 DEF PollConfirmed
<1>8. CASE PollFailed(r)
  BY <1>8 DEF PollFailed, Row
<1>9. CASE PollExpired(r)
  BY <1>9 DEF PollExpired
<1>10. CASE PollAgain(r)
  BY <1>10 DEF PollAgain
<1>11. CASE PollTimeout(r)
  BY <1>11 DEF PollTimeout
<1>12. CASE ReconcileBySignature(r)
  BY <1>12 DEF ReconcileBySignature
<1>13. CASE ReconcileByDelta(r)
  BY <1>13 DEF ReconcileByDelta
<1>14. CASE ReconcileUnknown(r)
  BY <1>14 DEF ReconcileUnknown, Row
<1>15. CASE ReceiveFails(r)
  BY <1>15 DEF ReceiveFails
<1>16. CASE Receive(r)
  BY <1>16 DEF Receive, Row
<1>17. CASE AppendFunding(r)
  BY <1>17 DEF AppendFunding
<1> QED
  BY <1>1, <1>2, <1>3, <1>4, <1>5, <1>6, <1>7, <1>8, <1>9, <1>10, <1>11, <1>12, <1>13, <1>14, <1>15, <1>16, <1>17 DEF Proceed

LEMMA NextType ==
  ASSUME TypeOK, [Next]_vars
  PROVE  TypeOK'
<1> USE ParametersAssumption DEF Goto, memory, files, chain
<1>1. ASSUME NEW r \in Runs, Begin(r) PROVE TypeOK'
  BY <1>1 DEF Begin, TypeOK, Working
<1>2. ASSUME NEW r \in Runs, Proceed(r) PROVE TypeOK'
  BY <1>2, ProceedType
<1>3. ASSUME NEW r \in Runs, Crash(r) PROVE TypeOK'
  BY <1>3 DEF Crash, TypeOK, Ended
<1>4. ASSUME NEW r \in Runs, Land(r) PROVE TypeOK'
  <2>1. Spend(seen[r].sol) \in Nat
    BY SpendBound DEF TypeOK
  <2>2. Debit(r) \in Nat
    BY <2>1 DEF Debit
  <2> QED
    BY <1>4, <2>2 DEF Land, TypeOK
<1>5. ASSUME NEW r \in Runs, Revert(r) PROVE TypeOK'
  BY <1>5 DEF Revert, FailedDebit, TypeOK
<1>6. ASSUME NEW r \in Runs, BlockhashExpires(r) PROVE TypeOK'
  BY <1>6 DEF BlockhashExpires, TypeOK
<1>7. CASE MoveSol
  BY <1>7 DEF MoveSol, TypeOK
<1>8. CASE MoveNos
  BY <1>8 DEF MoveNos, TypeOK
<1>9. CASE UNCHANGED vars
  BY <1>9 DEF vars, TypeOK
<1> QED
  BY <1>1, <1>2, <1>3, <1>4, <1>5, <1>6, <1>7, <1>8, <1>9 DEF Next, Solana

\* Every variable keeps its type in every behaviour.
THEOREM TypeCorrect == Spec => []TypeOK
<1>1. TypeOK /\ [Next]_vars => TypeOK'
  BY NextType
<1> QED
  BY InitType, <1>1, PTL DEF Spec

----------------------------------------------------------------------------
(***************************************************************************)
(* The inductive invariant.                                                *)
(***************************************************************************)
LEMMA InitRunInv ==
  ASSUME Init, NEW r \in Runs
  PROVE  RunInv(r)
BY DEF Init, RunInv, BeforeSigning, BeforeVerdict, Evidence, OneVerdict, Chain, Booked,
       HasRow, Statuses, Unsigned, Undecided

\* A step of another run that leaves this one's place, rows, evidence and
\* transaction alone keeps its part of the invariant.
LEMMA Unconcerned ==
  ASSUME NEW r \in Runs, RunInv(r),
         pc'[r] = pc[r], via'[r] = via[r], tx'[r] = tx[r], credited'[r] = credited[r],
         \A s \in Statuses : HasRow(r, s)' <=> HasRow(r, s),
         (\E f \in funding' : f.run = r) <=> (\E f \in funding : f.run = r)
  PROVE  RunInv(r)'
BY DEF RunInv, BeforeSigning, BeforeVerdict, Evidence, OneVerdict, Chain, Booked, Statuses,
       Unsigned, Undecided

\* A step of run q, or of its transaction, touches no other run.
LEMMA OthersUntouched ==
  ASSUME TypeOK, NEW q \in Runs,
         Begin(q) \/ Proceed(q) \/ Crash(q) \/ Solana(q),
         NEW r \in Runs \ {q}
  PROVE  /\ pc'[r] = pc[r] /\ via'[r] = via[r]
         /\ tx'[r] = tx[r] /\ credited'[r] = credited[r]
         /\ \A s \in Statuses : HasRow(r, s)' <=> HasRow(r, s)
         /\ (\E f \in funding' : f.run = r) <=> (\E f \in funding : f.run = r)
<1> DEFINE Same == /\ pc'[r] = pc[r] /\ via'[r] = via[r]
                   /\ tx'[r] = tx[r] /\ credited'[r] = credited[r]
           SameRows == \A s \in Statuses : HasRow(r, s)' <=> HasRow(r, s)
           SameFunding == (\E f \in funding' : f.run = r) <=> (\E f \in funding : f.run = r)
<1> USE DEF Goto, memory, files, chain
<1>1. CASE Begin(q)
  <2>1. Same
    BY <1>1 DEF Begin, TypeOK
  <2>2. UNCHANGED rows
    BY <1>1 DEF Begin
  <2>3. SameRows
    BY <2>2, KeepRows
  <2>4. SameFunding
    BY <1>1 DEF Begin
  <2> QED
    BY <2>1, <2>3, <2>4
<1>2. CASE ReadBalances(q)
  <2>1. Same
    BY <1>2 DEF ReadBalances, TypeOK
  <2>2. UNCHANGED rows
    BY <1>2 DEF ReadBalances
  <2>3. SameRows
    BY <2>2, KeepRows
  <2>4. SameFunding
    BY <1>2 DEF ReadBalances
  <2> QED
    BY <2>1, <2>3, <2>4
<1>3. CASE RungMisses(q)
  <2>1. Same
    BY <1>3 DEF RungMisses, TypeOK
  <2>2. UNCHANGED rows
    BY <1>3 DEF RungMisses
  <2>3. SameRows
    BY <2>2, KeepRows
  <2>4. SameFunding
    BY <1>3 DEF RungMisses
  <2> QED
    BY <2>1, <2>3, <2>4
<1>4. CASE RungFits(q)
  <2>1. Same
    BY <1>4 DEF RungFits, TypeOK
  <2>2. UNCHANGED rows
    BY <1>4 DEF RungFits
  <2>3. SameRows
    BY <2>2, KeepRows
  <2>4. SameFunding
    BY <1>4 DEF RungFits
  <2> QED
    BY <2>1, <2>3, <2>4
<1>5. CASE StopBeforeSigning(q)
  <2>1. Same
    BY <1>5 DEF StopBeforeSigning, TypeOK
  <2>2. UNCHANGED rows
    BY <1>5 DEF StopBeforeSigning
  <2>3. SameRows
    BY <2>2, KeepRows
  <2>4. SameFunding
    BY <1>5 DEF StopBeforeSigning
  <2> QED
    BY <2>1, <2>3, <2>4
<1>6. CASE SignAndRecord(q)
  <2>1. Same
    BY <1>6 DEF SignAndRecord, TypeOK
  <2>2. rows' = rows \cup {Row(q, "intent")}
    BY <1>6 DEF SignAndRecord, RecordIntent
  <2>3. SameRows
    BY <2>2, AppendRow DEF Statuses
  <2>4. SameFunding
    BY <1>6 DEF SignAndRecord
  <2> QED
    BY <2>1, <2>3, <2>4
<1>7. CASE Send(q)
  <2>1. Same
    BY <1>7 DEF Send, TypeOK
  <2>2. UNCHANGED rows
    BY <1>7 DEF Send
  <2>3. SameRows
    BY <2>2, KeepRows
  <2>4. SameFunding
    BY <1>7 DEF Send
  <2> QED
    BY <2>1, <2>3, <2>4
<1>8. CASE PollConfirmed(q)
  <2>1. Same
    BY <1>8 DEF PollConfirmed, TypeOK
  <2>2. UNCHANGED rows
    BY <1>8 DEF PollConfirmed
  <2>3. SameRows
    BY <2>2, KeepRows
  <2>4. SameFunding
    BY <1>8 DEF PollConfirmed
  <2> QED
    BY <2>1, <2>3, <2>4
<1>9. CASE PollFailed(q)
  <2>1. Same
    BY <1>9 DEF PollFailed, TypeOK
  <2>2. rows' = rows \cup {Row(q, "failed-onchain")}
    BY <1>9 DEF PollFailed
  <2>3. SameRows
    BY <2>2, AppendRow DEF Statuses
  <2>4. SameFunding
    BY <1>9 DEF PollFailed
  <2> QED
    BY <2>1, <2>3, <2>4
<1>10. CASE PollExpired(q)
  <2>1. Same
    BY <1>10 DEF PollExpired, TypeOK
  <2>2. UNCHANGED rows
    BY <1>10 DEF PollExpired
  <2>3. SameRows
    BY <2>2, KeepRows
  <2>4. SameFunding
    BY <1>10 DEF PollExpired
  <2> QED
    BY <2>1, <2>3, <2>4
<1>11. CASE PollAgain(q)
  <2>1. Same
    BY <1>11 DEF PollAgain, TypeOK
  <2>2. UNCHANGED rows
    BY <1>11 DEF PollAgain
  <2>3. SameRows
    BY <2>2, KeepRows
  <2>4. SameFunding
    BY <1>11 DEF PollAgain
  <2> QED
    BY <2>1, <2>3, <2>4
<1>12. CASE PollTimeout(q)
  <2>1. Same
    BY <1>12 DEF PollTimeout, TypeOK
  <2>2. UNCHANGED rows
    BY <1>12 DEF PollTimeout
  <2>3. SameRows
    BY <2>2, KeepRows
  <2>4. SameFunding
    BY <1>12 DEF PollTimeout
  <2> QED
    BY <2>1, <2>3, <2>4
<1>13. CASE ReconcileBySignature(q)
  <2>1. Same
    BY <1>13 DEF ReconcileBySignature, TypeOK
  <2>2. UNCHANGED rows
    BY <1>13 DEF ReconcileBySignature
  <2>3. SameRows
    BY <2>2, KeepRows
  <2>4. SameFunding
    BY <1>13 DEF ReconcileBySignature
  <2> QED
    BY <2>1, <2>3, <2>4
<1>14. CASE ReconcileByDelta(q)
  <2>1. Same
    BY <1>14 DEF ReconcileByDelta, TypeOK
  <2>2. UNCHANGED rows
    BY <1>14 DEF ReconcileByDelta
  <2>3. SameRows
    BY <2>2, KeepRows
  <2>4. SameFunding
    BY <1>14 DEF ReconcileByDelta
  <2> QED
    BY <2>1, <2>3, <2>4
<1>15. CASE ReconcileUnknown(q)
  <2>1. Same
    BY <1>15 DEF ReconcileUnknown, TypeOK
  <2>2. rows' = rows \cup {Row(q, "unknown")}
    BY <1>15 DEF ReconcileUnknown
  <2>3. SameRows
    BY <2>2, AppendRow DEF Statuses
  <2>4. SameFunding
    BY <1>15 DEF ReconcileUnknown
  <2> QED
    BY <2>1, <2>3, <2>4
<1>16. CASE ReceiveFails(q)
  <2>1. Same
    BY <1>16 DEF ReceiveFails, TypeOK
  <2>2. UNCHANGED rows
    BY <1>16 DEF ReceiveFails
  <2>3. SameRows
    BY <2>2, KeepRows
  <2>4. SameFunding
    BY <1>16 DEF ReceiveFails
  <2> QED
    BY <2>1, <2>3, <2>4
<1>17. CASE Receive(q)
  <2>1. Same
    BY <1>17 DEF Receive, TypeOK
  <2>2. rows' = rows \cup {Row(q, "settled")}
    BY <1>17 DEF Receive
  <2>3. SameRows
    BY <2>2, AppendRow DEF Statuses
  <2>4. SameFunding
    BY <1>17 DEF Receive
  <2> QED
    BY <2>1, <2>3, <2>4
<1>18. CASE AppendFunding(q)
  <2>1. Same
    BY <1>18 DEF AppendFunding, TypeOK
  <2>2. UNCHANGED rows
    BY <1>18 DEF AppendFunding
  <2>3. SameRows
    BY <2>2, KeepRows
  <2>4. SameFunding
    BY <1>18 DEF AppendFunding
  <2> QED
    BY <2>1, <2>3, <2>4
<1>19. CASE Crash(q)
  <2>1. Same
    BY <1>19 DEF Crash, TypeOK
  <2>2. UNCHANGED rows
    BY <1>19 DEF Crash
  <2>3. SameRows
    BY <2>2, KeepRows
  <2>4. SameFunding
    BY <1>19 DEF Crash
  <2> QED
    BY <2>1, <2>3, <2>4
<1>20. CASE Land(q)
  <2>1. Same
    BY <1>20 DEF Land, TypeOK
  <2>2. UNCHANGED rows
    BY <1>20 DEF Land
  <2>3. SameRows
    BY <2>2, KeepRows
  <2>4. SameFunding
    BY <1>20 DEF Land
  <2> QED
    BY <2>1, <2>3, <2>4
<1>21. CASE Revert(q)
  <2>1. Same
    BY <1>21 DEF Revert, TypeOK
  <2>2. UNCHANGED rows
    BY <1>21 DEF Revert
  <2>3. SameRows
    BY <2>2, KeepRows
  <2>4. SameFunding
    BY <1>21 DEF Revert
  <2> QED
    BY <2>1, <2>3, <2>4
<1>22. CASE BlockhashExpires(q)
  <2>1. Same
    BY <1>22 DEF BlockhashExpires, TypeOK
  <2>2. UNCHANGED rows
    BY <1>22 DEF BlockhashExpires
  <2>3. SameRows
    BY <2>2, KeepRows
  <2>4. SameFunding
    BY <1>22 DEF BlockhashExpires
  <2> QED
    BY <2>1, <2>3, <2>4
<1> QED
  BY <1>1, <1>2, <1>3, <1>4, <1>5, <1>6, <1>7, <1>8, <1>9, <1>10, <1>11, <1>12, <1>13, <1>14, <1>15, <1>16, <1>17, <1>18, <1>19, <1>20, <1>21, <1>22 DEF Proceed, Solana

\* A step of the run itself, or of its own transaction, keeps its invariant.
LEMMA OwnStep ==
  ASSUME TypeOK, NEW r \in Runs, RunInv(r),
         Begin(r) \/ Proceed(r) \/ Crash(r) \/ Solana(r)
  PROVE  RunInv(r)'
<1> USE DEF Goto, memory, files, chain, Unsigned, Undecided, RunInv
<1> DEFINE SameRows == \A s \in Statuses : HasRow(r, s)' <=> HasRow(r, s)
<1>1. CASE Begin(r)
  <2>1. SameRows
    <3>1. UNCHANGED rows
      BY <1>1 DEF Begin
    <3> QED
      BY <3>1, KeepRows
  <2>2. BeforeSigning(r)' /\ BeforeVerdict(r)'
    BY <1>1, <2>1 DEF Begin, Working, Active, TypeOK, Statuses, BeforeSigning, BeforeVerdict, Chain
  <2>3. Evidence(r)' /\ OneVerdict(r)' /\ Chain(r)'
    BY <1>1, <2>1 DEF Begin, Working, Active, TypeOK, Statuses, BeforeSigning, BeforeVerdict, Evidence, OneVerdict, Chain
  <2>4. Booked(r)'
    BY <1>1 DEF Begin, Working, Active, TypeOK, Booked
  <2> QED
    BY <2>2, <2>3, <2>4
<1>2. CASE ReadBalances(r)
  <2>1. SameRows
    <3>1. UNCHANGED rows
      BY <1>2 DEF ReadBalances
    <3> QED
      BY <3>1, KeepRows
  <2>2. BeforeSigning(r)' /\ BeforeVerdict(r)'
    BY <1>2, <2>1 DEF ReadBalances, TypeOK, Statuses, BeforeSigning, BeforeVerdict, Chain
  <2>3. Evidence(r)' /\ OneVerdict(r)' /\ Chain(r)'
    BY <1>2, <2>1 DEF ReadBalances, TypeOK, Statuses, BeforeSigning, BeforeVerdict, Evidence, OneVerdict, Chain
  <2>4. Booked(r)'
    BY <1>2 DEF ReadBalances, TypeOK, Booked
  <2> QED
    BY <2>2, <2>3, <2>4
<1>3. CASE RungMisses(r)
  <2>1. SameRows
    <3>1. UNCHANGED rows
      BY <1>3 DEF RungMisses
    <3> QED
      BY <3>1, KeepRows
  <2>2. BeforeSigning(r)' /\ BeforeVerdict(r)'
    BY <1>3, <2>1 DEF RungMisses, TypeOK, Statuses, BeforeSigning, BeforeVerdict, Chain
  <2>3. Evidence(r)' /\ OneVerdict(r)' /\ Chain(r)'
    BY <1>3, <2>1 DEF RungMisses, TypeOK, Statuses, BeforeSigning, BeforeVerdict, Evidence, OneVerdict, Chain
  <2>4. Booked(r)'
    BY <1>3 DEF RungMisses, TypeOK, Booked
  <2> QED
    BY <2>2, <2>3, <2>4
<1>4. CASE RungFits(r)
  <2>1. SameRows
    <3>1. UNCHANGED rows
      BY <1>4 DEF RungFits
    <3> QED
      BY <3>1, KeepRows
  <2>2. BeforeSigning(r)' /\ BeforeVerdict(r)'
    BY <1>4, <2>1 DEF RungFits, TypeOK, Statuses, BeforeSigning, BeforeVerdict, Chain
  <2>3. Evidence(r)' /\ OneVerdict(r)' /\ Chain(r)'
    BY <1>4, <2>1 DEF RungFits, TypeOK, Statuses, BeforeSigning, BeforeVerdict, Evidence, OneVerdict, Chain
  <2>4. Booked(r)'
    BY <1>4 DEF RungFits, TypeOK, Booked
  <2> QED
    BY <2>2, <2>3, <2>4
<1>5. CASE StopBeforeSigning(r)
  <2>1. SameRows
    <3>1. UNCHANGED rows
      BY <1>5 DEF StopBeforeSigning
    <3> QED
      BY <3>1, KeepRows
  <2>2. BeforeSigning(r)' /\ BeforeVerdict(r)'
    BY <1>5, <2>1 DEF StopBeforeSigning, TypeOK, Statuses, BeforeSigning, BeforeVerdict, Chain
  <2>3. Evidence(r)' /\ OneVerdict(r)' /\ Chain(r)'
    BY <1>5, <2>1 DEF StopBeforeSigning, TypeOK, Statuses, BeforeSigning, BeforeVerdict, Evidence, OneVerdict, Chain
  <2>4. Booked(r)'
    BY <1>5 DEF StopBeforeSigning, TypeOK, Booked
  <2> QED
    BY <2>2, <2>3, <2>4
<1>6. CASE SignAndRecord(r)
  <2>1. \A s \in Statuses : HasRow(r, s)' <=> (HasRow(r, s) \/ s = "intent")
    <3>1. rows' = rows \cup {Row(r, "intent")}
      BY <1>6 DEF SignAndRecord, RecordIntent
    <3> QED
      BY <3>1, AppendRow DEF Statuses
  <2>2. BeforeSigning(r)' /\ BeforeVerdict(r)'
    BY <1>6, <2>1 DEF SignAndRecord, TypeOK, Statuses, BeforeSigning, BeforeVerdict, Chain
  <2>3. Evidence(r)' /\ OneVerdict(r)' /\ Chain(r)'
    BY <1>6, <2>1 DEF SignAndRecord, TypeOK, Statuses, BeforeSigning, BeforeVerdict, Evidence, OneVerdict, Chain
  <2>4. Booked(r)'
    BY <1>6 DEF SignAndRecord, TypeOK, Booked
  <2> QED
    BY <2>2, <2>3, <2>4
<1>7. CASE Send(r)
  <2>1. SameRows
    <3>1. UNCHANGED rows
      BY <1>7 DEF Send
    <3> QED
      BY <3>1, KeepRows
  <2>2. BeforeSigning(r)' /\ BeforeVerdict(r)'
    BY <1>7, <2>1 DEF Send, TypeOK, Statuses, BeforeSigning, BeforeVerdict, Chain
  <2>3. Evidence(r)' /\ OneVerdict(r)' /\ Chain(r)'
    BY <1>7, <2>1 DEF Send, TypeOK, Statuses, BeforeSigning, BeforeVerdict, Evidence, OneVerdict, Chain
  <2>4. Booked(r)'
    BY <1>7 DEF Send, TypeOK, Booked
  <2> QED
    BY <2>2, <2>3, <2>4
<1>8. CASE PollConfirmed(r)
  <2>1. SameRows
    <3>1. UNCHANGED rows
      BY <1>8 DEF PollConfirmed
    <3> QED
      BY <3>1, KeepRows
  <2>2. BeforeSigning(r)' /\ BeforeVerdict(r)'
    BY <1>8, <2>1 DEF PollConfirmed, TypeOK, Statuses, BeforeSigning, BeforeVerdict, Chain
  <2>3. Evidence(r)' /\ OneVerdict(r)' /\ Chain(r)'
    BY <1>8, <2>1 DEF PollConfirmed, TypeOK, Statuses, BeforeSigning, BeforeVerdict, Evidence, OneVerdict, Chain
  <2>4. Booked(r)'
    BY <1>8 DEF PollConfirmed, TypeOK, Booked
  <2> QED
    BY <2>2, <2>3, <2>4
<1>9. CASE PollFailed(r)
  <2>1. \A s \in Statuses : HasRow(r, s)' <=> (HasRow(r, s) \/ s = "failed-onchain")
    <3>1. rows' = rows \cup {Row(r, "failed-onchain")}
      BY <1>9 DEF PollFailed
    <3> QED
      BY <3>1, AppendRow DEF Statuses
  <2>2. BeforeSigning(r)' /\ BeforeVerdict(r)'
    BY <1>9, <2>1 DEF PollFailed, TypeOK, Statuses, BeforeSigning, BeforeVerdict, Chain
  <2>3. Evidence(r)' /\ OneVerdict(r)' /\ Chain(r)'
    BY <1>9, <2>1 DEF PollFailed, TypeOK, Statuses, BeforeSigning, BeforeVerdict, Evidence, OneVerdict, Chain
  <2>4. Booked(r)'
    BY <1>9 DEF PollFailed, TypeOK, Booked
  <2> QED
    BY <2>2, <2>3, <2>4
<1>10. CASE PollExpired(r)
  <2>1. SameRows
    <3>1. UNCHANGED rows
      BY <1>10 DEF PollExpired
    <3> QED
      BY <3>1, KeepRows
  <2>2. BeforeSigning(r)' /\ BeforeVerdict(r)'
    BY <1>10, <2>1 DEF PollExpired, TypeOK, Statuses, BeforeSigning, BeforeVerdict, Chain
  <2>3. Evidence(r)' /\ OneVerdict(r)' /\ Chain(r)'
    BY <1>10, <2>1 DEF PollExpired, TypeOK, Statuses, BeforeSigning, BeforeVerdict, Evidence, OneVerdict, Chain
  <2>4. Booked(r)'
    BY <1>10 DEF PollExpired, TypeOK, Booked
  <2> QED
    BY <2>2, <2>3, <2>4
<1>11. CASE PollAgain(r)
  <2>1. SameRows
    <3>1. UNCHANGED rows
      BY <1>11 DEF PollAgain
    <3> QED
      BY <3>1, KeepRows
  <2>2. BeforeSigning(r)' /\ BeforeVerdict(r)'
    BY <1>11, <2>1 DEF PollAgain, TypeOK, Statuses, BeforeSigning, BeforeVerdict, Chain
  <2>3. Evidence(r)' /\ OneVerdict(r)' /\ Chain(r)'
    BY <1>11, <2>1 DEF PollAgain, TypeOK, Statuses, BeforeSigning, BeforeVerdict, Evidence, OneVerdict, Chain
  <2>4. Booked(r)'
    BY <1>11 DEF PollAgain, TypeOK, Booked
  <2> QED
    BY <2>2, <2>3, <2>4
<1>12. CASE PollTimeout(r)
  <2>1. SameRows
    <3>1. UNCHANGED rows
      BY <1>12 DEF PollTimeout
    <3> QED
      BY <3>1, KeepRows
  <2>2. BeforeSigning(r)' /\ BeforeVerdict(r)'
    BY <1>12, <2>1 DEF PollTimeout, TypeOK, Statuses, BeforeSigning, BeforeVerdict, Chain
  <2>3. Evidence(r)' /\ OneVerdict(r)' /\ Chain(r)'
    BY <1>12, <2>1 DEF PollTimeout, TypeOK, Statuses, BeforeSigning, BeforeVerdict, Evidence, OneVerdict, Chain
  <2>4. Booked(r)'
    BY <1>12 DEF PollTimeout, TypeOK, Booked
  <2> QED
    BY <2>2, <2>3, <2>4
<1>13. CASE ReconcileBySignature(r)
  <2>1. SameRows
    <3>1. UNCHANGED rows
      BY <1>13 DEF ReconcileBySignature
    <3> QED
      BY <3>1, KeepRows
  <2>2. BeforeSigning(r)' /\ BeforeVerdict(r)'
    BY <1>13, <2>1 DEF ReconcileBySignature, TypeOK, Statuses, BeforeSigning, BeforeVerdict, Chain
  <2>3. Evidence(r)' /\ OneVerdict(r)' /\ Chain(r)'
    BY <1>13, <2>1 DEF ReconcileBySignature, TypeOK, Statuses, BeforeSigning, BeforeVerdict, Evidence, OneVerdict, Chain
  <2>4. Booked(r)'
    BY <1>13 DEF ReconcileBySignature, TypeOK, Booked
  <2> QED
    BY <2>2, <2>3, <2>4
<1>14. CASE ReconcileByDelta(r)
  <2>1. SameRows
    <3>1. UNCHANGED rows
      BY <1>14 DEF ReconcileByDelta
    <3> QED
      BY <3>1, KeepRows
  <2>2. BeforeSigning(r)' /\ BeforeVerdict(r)'
    BY <1>14, <2>1 DEF ReconcileByDelta, TypeOK, Statuses, BeforeSigning, BeforeVerdict, Chain
  <2>3. Evidence(r)' /\ OneVerdict(r)' /\ Chain(r)'
    BY <1>14, <2>1 DEF ReconcileByDelta, TypeOK, Statuses, BeforeSigning, BeforeVerdict, Evidence, OneVerdict, Chain
  <2>4. Booked(r)'
    BY <1>14 DEF ReconcileByDelta, TypeOK, Booked
  <2> QED
    BY <2>2, <2>3, <2>4
<1>15. CASE ReconcileUnknown(r)
  <2>1. \A s \in Statuses : HasRow(r, s)' <=> (HasRow(r, s) \/ s = "unknown")
    <3>1. rows' = rows \cup {Row(r, "unknown")}
      BY <1>15 DEF ReconcileUnknown
    <3> QED
      BY <3>1, AppendRow DEF Statuses
  <2>2. BeforeSigning(r)' /\ BeforeVerdict(r)'
    BY <1>15, <2>1 DEF ReconcileUnknown, TypeOK, Statuses, BeforeSigning, BeforeVerdict, Chain
  <2>3. Evidence(r)' /\ OneVerdict(r)' /\ Chain(r)'
    BY <1>15, <2>1 DEF ReconcileUnknown, TypeOK, Statuses, BeforeSigning, BeforeVerdict, Evidence, OneVerdict, Chain
  <2>4. Booked(r)'
    BY <1>15 DEF ReconcileUnknown, TypeOK, Booked
  <2> QED
    BY <2>2, <2>3, <2>4
<1>16. CASE ReceiveFails(r)
  <2>1. SameRows
    <3>1. UNCHANGED rows
      BY <1>16 DEF ReceiveFails
    <3> QED
      BY <3>1, KeepRows
  <2>2. BeforeSigning(r)' /\ BeforeVerdict(r)'
    BY <1>16, <2>1 DEF ReceiveFails, TypeOK, Statuses, BeforeSigning, BeforeVerdict, Chain
  <2>3. Evidence(r)' /\ OneVerdict(r)' /\ Chain(r)'
    BY <1>16, <2>1 DEF ReceiveFails, TypeOK, Statuses, BeforeSigning, BeforeVerdict, Evidence, OneVerdict, Chain
  <2>4. Booked(r)'
    BY <1>16 DEF ReceiveFails, TypeOK, Booked
  <2> QED
    BY <2>2, <2>3, <2>4
<1>17. CASE Receive(r)
  <2>1. \A s \in Statuses : HasRow(r, s)' <=> (HasRow(r, s) \/ s = "settled")
    <3>1. rows' = rows \cup {Row(r, "settled")}
      BY <1>17 DEF Receive
    <3> QED
      BY <3>1, AppendRow DEF Statuses
  <2>2. BeforeSigning(r)' /\ BeforeVerdict(r)'
    BY <1>17, <2>1 DEF Receive, TypeOK, Statuses, BeforeSigning, BeforeVerdict, Chain
  <2>3. Evidence(r)' /\ OneVerdict(r)' /\ Chain(r)'
    BY <1>17, <2>1 DEF Receive, TypeOK, Statuses, BeforeSigning, BeforeVerdict, Evidence, OneVerdict, Chain
  <2>4. Booked(r)'
    BY <1>17 DEF Receive, TypeOK, Booked
  <2> QED
    BY <2>2, <2>3, <2>4
<1>18. CASE AppendFunding(r)
  <2>1. SameRows
    <3>1. UNCHANGED rows
      BY <1>18 DEF AppendFunding
    <3> QED
      BY <3>1, KeepRows
  <2>2. BeforeSigning(r)' /\ BeforeVerdict(r)'
    BY <1>18, <2>1 DEF AppendFunding, TypeOK, Statuses, BeforeSigning, BeforeVerdict, Chain
  <2>3. Evidence(r)' /\ OneVerdict(r)' /\ Chain(r)'
    BY <1>18, <2>1 DEF AppendFunding, TypeOK, Statuses, BeforeSigning, BeforeVerdict, Evidence, OneVerdict, Chain
  <2>4. Booked(r)'
    <3>1. [run |-> r, nos |-> got[r]] \in funding' /\ pc'[r] = "posted"
      BY <1>18 DEF AppendFunding, TypeOK
    <3> QED
      BY <3>1 DEF Booked
  <2> QED
    BY <2>2, <2>3, <2>4
<1>19. CASE Crash(r)
  <2>1. SameRows
    <3>1. UNCHANGED rows
      BY <1>19 DEF Crash
    <3> QED
      BY <3>1, KeepRows
  <2>2. BeforeSigning(r)' /\ BeforeVerdict(r)'
    BY <1>19, <2>1 DEF Crash, Working, Active, TypeOK, Statuses, BeforeSigning, BeforeVerdict, Chain
  <2>3. Evidence(r)' /\ OneVerdict(r)' /\ Chain(r)'
    BY <1>19, <2>1 DEF Crash, Working, Active, TypeOK, Statuses, BeforeSigning, BeforeVerdict, Evidence, OneVerdict, Chain
  <2>4. Booked(r)'
    BY <1>19 DEF Crash, Working, Active, TypeOK, Booked
  <2> QED
    BY <2>2, <2>3, <2>4
<1>20. CASE Land(r)
  <2>1. SameRows
    <3>1. UNCHANGED rows
      BY <1>20 DEF Land
    <3> QED
      BY <3>1, KeepRows
  <2>2. BeforeSigning(r)' /\ BeforeVerdict(r)'
    BY <1>20, <2>1 DEF Land, TypeOK, Statuses, BeforeSigning, BeforeVerdict, Chain
  <2>3. Evidence(r)' /\ OneVerdict(r)' /\ Chain(r)'
    BY <1>20, <2>1 DEF Land, TypeOK, Statuses, BeforeSigning, BeforeVerdict, Evidence, OneVerdict, Chain
  <2>4. Booked(r)'
    BY <1>20 DEF Land, TypeOK, Booked
  <2> QED
    BY <2>2, <2>3, <2>4
<1>21. CASE Revert(r)
  <2>1. SameRows
    <3>1. UNCHANGED rows
      BY <1>21 DEF Revert
    <3> QED
      BY <3>1, KeepRows
  <2>2. BeforeSigning(r)' /\ BeforeVerdict(r)'
    BY <1>21, <2>1 DEF Revert, TypeOK, Statuses, BeforeSigning, BeforeVerdict, Chain
  <2>3. Evidence(r)' /\ OneVerdict(r)' /\ Chain(r)'
    BY <1>21, <2>1 DEF Revert, TypeOK, Statuses, BeforeSigning, BeforeVerdict, Evidence, OneVerdict, Chain
  <2>4. Booked(r)'
    BY <1>21 DEF Revert, TypeOK, Booked
  <2> QED
    BY <2>2, <2>3, <2>4
<1>22. CASE BlockhashExpires(r)
  <2>1. SameRows
    <3>1. UNCHANGED rows
      BY <1>22 DEF BlockhashExpires
    <3> QED
      BY <3>1, KeepRows
  <2>2. BeforeSigning(r)' /\ BeforeVerdict(r)'
    BY <1>22, <2>1 DEF BlockhashExpires, TypeOK, Statuses, BeforeSigning, BeforeVerdict, Chain
  <2>3. Evidence(r)' /\ OneVerdict(r)' /\ Chain(r)'
    BY <1>22, <2>1 DEF BlockhashExpires, TypeOK, Statuses, BeforeSigning, BeforeVerdict, Evidence, OneVerdict, Chain
  <2>4. Booked(r)'
    BY <1>22 DEF BlockhashExpires, TypeOK, Booked
  <2> QED
    BY <2>2, <2>3, <2>4
<1> QED
  BY <1>1, <1>2, <1>3, <1>4, <1>5, <1>6, <1>7, <1>8, <1>9, <1>10, <1>11, <1>12, <1>13, <1>14, <1>15, <1>16, <1>17, <1>18, <1>19, <1>20, <1>21, <1>22 DEF Proceed, Solana

LEMMA NextInv ==
  ASSUME IInv, [Next]_vars
  PROVE  IInv'
<1>1. TypeOK'
  BY NextType DEF IInv
<1>2. ASSUME NEW r \in Runs PROVE RunInv(r)'
  <2>1. ASSUME NEW q \in Runs, Begin(q) \/ Proceed(q) \/ Crash(q) \/ Solana(q)
        PROVE  RunInv(r)'
    <3>1. CASE q = r
      BY <2>1, <3>1, OwnStep DEF IInv
    <3>2. CASE q # r
      BY <2>1, <3>2, OthersUntouched, Unconcerned DEF IInv
    <3> QED
      BY <3>1, <3>2
  <2>2. CASE MoveSol \/ MoveNos \/ UNCHANGED vars
    <3>1. UNCHANGED <<pc, via, tx, credited, rows, funding>>
      BY <2>2 DEF MoveSol, MoveNos, vars, memory, files, chain
    <3> QED
      BY <3>1, KeepRows, Unconcerned DEF IInv
  <2> QED
    BY <2>1, <2>2 DEF Next
<1> QED
  BY <1>1, <1>2 DEF IInv

\* The inductive invariant holds in every behaviour.
THEOREM Inductive == Spec => []IInv
<1>1. Init => IInv
  BY InitType, InitRunInv DEF IInv
<1>2. IInv /\ [Next]_vars => IInv'
  BY NextInv
<1> QED
  BY <1>1, <1>2, PTL DEF Spec

----------------------------------------------------------------------------
\* Whatever the schedule, the failures and the crashes, no transaction reaches
\* the network before its intent row is on disk (acquire-nos.mjs:983-1011).
THEOREM BroadcastIsRecorded == Spec => []BroadcastRecorded
<1>1. IInv => BroadcastRecorded
  BY DEF IInv, RunInv, Chain, BroadcastRecorded
<1> QED
  BY <1>1, Inductive, PTL

\* A verdict drawn from the signature is true: a failure row is about a swap
\* that cannot land any more, a settled row about one that landed
\* (acquire-nos.mjs:1025-1052).
THEOREM SignatureVerdictIsTrue == Spec => []SignatureVerdictTrue
<1>1. IInv => SignatureVerdictTrue
  BY DEF IInv, RunInv, Chain, Evidence, SignatureVerdictTrue
<1> QED
  BY <1>1, Inductive, PTL

\* The intent file and the funding ledger never contradict each other, and no
\* intent is closed twice (acquire-nos.mjs:1041-1069).
THEOREM FilesAlwaysAgree == Spec => []FilesAgree
<1>1. IInv => FilesAgree
  BY DEF IInv, RunInv, Evidence, OneVerdict, Booked, FilesAgree, Active, Working
<1> QED
  BY <1>1, Inductive, PTL

----------------------------------------------------------------------------
(***************************************************************************)
(* AcquireNos implements IntentLedger, for every schedule and every        *)
(* movement of the wallet: each step of the runs or of the chain is one    *)
(* step of the ledger or leaves it alone.                                  *)
(***************************************************************************)
\* Rows that stay the same leave the recorded intents and the verdicts alone.
LEMMA SameRowsSameLedger ==
  ASSUME UNCHANGED rows
  PROVE  /\ RecordedIntents' = RecordedIntents
         /\ [r \in Runs |-> VerdictOf(r)]' = [r \in Runs |-> VerdictOf(r)]
BY DEF RecordedIntents, VerdictOf, HasRow, Row

\* What an intent row changes: its run becomes recorded.
LEMMA IntentRowRecords ==
  ASSUME NEW q \in Runs, rows' = rows \cup {Row(q, "intent")}
  PROVE  /\ RecordedIntents' = RecordedIntents \cup {q}
         /\ [r \in Runs |-> VerdictOf(r)]' = [r \in Runs |-> VerdictOf(r)]
<1>1. \A r \in Runs, s \in Statuses : HasRow(r, s)' <=> (HasRow(r, s) \/ (r = q /\ s = "intent"))
  BY AppendRow DEF Statuses
<1>2. RecordedIntents' = RecordedIntents \cup {q}
  BY <1>1 DEF RecordedIntents, Statuses
<1>3. ASSUME NEW r \in Runs PROVE VerdictOf(r)' = VerdictOf(r)
  BY <1>1 DEF VerdictOf, Statuses
<1> QED
  BY <1>2, <1>3

\* The verdict a terminal row stands for.
Meaning(t) ==
  CASE t = "settled" -> "settled"
    [] t = "failed-onchain" -> "failed"
    [] OTHER -> "unknown"

\* What a terminal row changes: the verdict of an intent that was still open.
LEMMA TerminalRowCloses ==
  ASSUME NEW q \in Runs, NEW t \in Statuses \ {"intent"},
         \A s \in Statuses \ {"intent"} : ~HasRow(q, s),
         rows' = rows \cup {Row(q, t)}
  PROVE  /\ RecordedIntents' = RecordedIntents
         /\ VerdictOf(q) = "open"
         /\ [r \in Runs |-> VerdictOf(r)]' =
              [[r \in Runs |-> VerdictOf(r)] EXCEPT ![q] = Meaning(t)]
<1>1. \A r \in Runs, s \in Statuses : HasRow(r, s)' <=> (HasRow(r, s) \/ (r = q /\ s = t))
  BY AppendRow
<1>2. RecordedIntents' = RecordedIntents
  BY <1>1 DEF RecordedIntents, Statuses
<1>3. VerdictOf(q) = "open"
  BY DEF VerdictOf, Statuses
<1>4. VerdictOf(q)' = Meaning(t)
  BY <1>1 DEF VerdictOf, Meaning, Statuses
<1>5. ASSUME NEW r \in Runs \ {q} PROVE VerdictOf(r)' = VerdictOf(r)
  BY <1>1, <1>5 DEF VerdictOf, Statuses
<1> QED
  BY <1>2, <1>3, <1>4, <1>5

----------------------------------------------------------------------------
LEMMA InitImplements ==
  ASSUME Init
  PROVE  LooseLedger!Init
BY DEF Init, LooseLedger!Init, RecordedIntents, LandedSwaps, VerdictOf, HasRow

\* A step that writes no row and lands no swap is a stutter of the ledger.
LEMMA QuietStep ==
  ASSUME UNCHANGED rows, LandedSwaps' = LandedSwaps
  PROVE  UNCHANGED LooseLedger!vars
BY SameRowsSameLedger DEF LooseLedger!vars

LEMMA ProceedImplements ==
  ASSUME IInv, NEW r \in Runs, Proceed(r)
  PROVE  [LooseLedger!Next]_(LooseLedger!vars)
<1> USE DEF Goto, memory, files, chain
<1>1. CASE SignAndRecord(r)
  <2>1. rows' = rows \cup {Row(r, "intent")} /\ UNCHANGED tx
    BY <1>1 DEF SignAndRecord, RecordIntent
  <2>2. r \notin RecordedIntents
    BY <1>1 DEF SignAndRecord, IInv, RunInv, BeforeSigning, Unsigned, RecordedIntents, Statuses
  <2>3. LandedSwaps' = LandedSwaps
    BY <2>1 DEF LandedSwaps
  <2>4. LooseLedger!Record(r)
    BY <2>1, <2>2, <2>3, IntentRowRecords DEF LooseLedger!Record
  <2> QED
    BY <2>4 DEF LooseLedger!Next
<1>2. CASE PollFailed(r)
  <2>1. rows' = rows \cup {Row(r, "failed-onchain")} /\ UNCHANGED tx
    BY <1>2 DEF PollFailed
  <2>2. /\ \A s \in Statuses \ {"intent"} : ~HasRow(r, s)
        /\ r \in RecordedIntents
    BY <1>2 DEF PollFailed, IInv, RunInv, BeforeVerdict, Undecided, RecordedIntents
  <2>3. LandedSwaps' = LandedSwaps /\ r \notin LandedSwaps
    BY <1>2, <2>1 DEF LandedSwaps, PollFailed
  <2>4. LooseLedger!Fail(r)
    BY <2>1, <2>2, <2>3, TerminalRowCloses
       DEF LooseLedger!Fail, LooseLedger!Close, Meaning, Statuses
  <2> QED
    BY <2>4 DEF LooseLedger!Next
<1>3. CASE ReconcileUnknown(r)
  <2>1. rows' = rows \cup {Row(r, "unknown")} /\ UNCHANGED tx
    BY <1>3 DEF ReconcileUnknown
  <2>2. /\ \A s \in Statuses \ {"intent"} : ~HasRow(r, s)
        /\ r \in RecordedIntents
    BY <1>3 DEF ReconcileUnknown, IInv, RunInv, BeforeVerdict, Undecided, RecordedIntents
  <2>3. LandedSwaps' = LandedSwaps
    BY <2>1 DEF LandedSwaps
  <2>4. LooseLedger!GiveUp(r)
    BY <2>1, <2>2, <2>3, TerminalRowCloses
       DEF LooseLedger!GiveUp, LooseLedger!Close, Meaning, Statuses
  <2> QED
    BY <2>4 DEF LooseLedger!Next
<1>4. CASE Receive(r)
  <2>1. rows' = rows \cup {Row(r, "settled")} /\ UNCHANGED tx
    BY <1>4 DEF Receive
  <2>2. /\ \A s \in Statuses \ {"intent"} : ~HasRow(r, s)
        /\ r \in RecordedIntents
    BY <1>4 DEF Receive, IInv, RunInv, BeforeVerdict, Undecided, RecordedIntents
  <2>3. LandedSwaps' = LandedSwaps
    BY <2>1 DEF LandedSwaps
  <2>4. LooseLedger!Settle(r)
    BY <2>1, <2>2, <2>3, TerminalRowCloses
       DEF LooseLedger!Settle, LooseLedger!Close, Meaning, Statuses
  <2> QED
    BY <2>4 DEF LooseLedger!Next
<1>5. CASE Send(r)
  <2>1. UNCHANGED rows
    BY <1>5 DEF Send
  <2>2. tx[r] # "landed" /\ tx'[r] # "landed" /\ \A q \in Runs \ {r} : tx'[q] = tx[q]
    BY <1>5 DEF Send, IInv, TypeOK, RunInv, BeforeVerdict, Undecided
  <2>3. LandedSwaps' = LandedSwaps
    BY <2>2 DEF LandedSwaps
  <2> QED
    BY <2>1, <2>3, QuietStep
<1>6. CASE \/ ReadBalances(r) \/ RungMisses(r) \/ RungFits(r) \/ StopBeforeSigning(r)
           \/ PollConfirmed(r) \/ PollExpired(r) \/ PollAgain(r) \/ PollTimeout(r)
           \/ ReconcileBySignature(r) \/ ReconcileByDelta(r) \/ ReceiveFails(r)
           \/ AppendFunding(r)
  <2>1. UNCHANGED <<rows, tx>>
    BY <1>6 DEF ReadBalances, RungMisses, RungFits, StopBeforeSigning, PollConfirmed,
         PollExpired, PollAgain, PollTimeout, ReconcileBySignature, ReconcileByDelta,
         ReceiveFails, AppendFunding
  <2>2. LandedSwaps' = LandedSwaps
    BY <2>1 DEF LandedSwaps
  <2> QED
    BY <2>1, <2>2, QuietStep
<1> QED
  BY <1>1, <1>2, <1>3, <1>4, <1>5, <1>6 DEF Proceed

LEMMA NextImplements ==
  ASSUME IInv, [Next]_vars
  PROVE  [LooseLedger!Next]_(LooseLedger!vars)
<1> USE DEF Goto, memory, files, chain
<1>1. ASSUME NEW r \in Runs, Proceed(r) PROVE [LooseLedger!Next]_(LooseLedger!vars)
  BY <1>1, ProceedImplements
<1>2. ASSUME NEW r \in Runs, Land(r) PROVE [LooseLedger!Next]_(LooseLedger!vars)
  <2>1. UNCHANGED rows
    BY <1>2 DEF Land
  <2>2. /\ r \in RecordedIntents \ LandedSwaps
        /\ LandedSwaps' = LandedSwaps \cup {r}
    BY <1>2 DEF Land, IInv, TypeOK, RunInv, Chain, RecordedIntents, LandedSwaps
  <2>3. VerdictOf(r) # "failed"
    BY <1>2 DEF Land, IInv, RunInv, Chain, VerdictOf
  <2>4. LooseLedger!Effect(r)
    BY <2>1, <2>2, <2>3, SameRowsSameLedger DEF LooseLedger!Effect
  <2> QED
    BY <2>4 DEF LooseLedger!Next
<1>3. ASSUME NEW r \in Runs, Revert(r) \/ BlockhashExpires(r)
      PROVE  [LooseLedger!Next]_(LooseLedger!vars)
  <2>1. UNCHANGED rows
    BY <1>3 DEF Revert, BlockhashExpires
  <2>2. LandedSwaps' = LandedSwaps
    BY <1>3 DEF Revert, BlockhashExpires, LandedSwaps, IInv, TypeOK
  <2> QED
    BY <2>1, <2>2, QuietStep
<1>4. CASE (\E r \in Runs : Begin(r) \/ Crash(r)) \/ MoveSol \/ MoveNos \/ UNCHANGED vars
  <2>1. UNCHANGED <<rows, tx>>
    BY <1>4 DEF Begin, Crash, MoveSol, MoveNos, vars
  <2>2. LandedSwaps' = LandedSwaps
    BY <2>1 DEF LandedSwaps
  <2> QED
    BY <2>1, <2>2, QuietStep
<1> QED
  BY <1>1, <1>2, <1>3, <1>4 DEF Next, Solana

\* Every behaviour of acquireNos is a behaviour of the intent ledger README.md
\* promises: recorded before the effect, one effect per intent, none after a
\* failure row, and no verdict rewritten.
THEOREM SwapImplementsLedger == Spec => ImplementsLooseLedger
<1>1. Init => LooseLedger!Init
  BY InitImplements
<1>2. IInv /\ [Next]_vars => [LooseLedger!Next]_(LooseLedger!vars)
  BY NextImplements
<1> QED
  BY <1>1, <1>2, Inductive, PTL DEF Spec, ImplementsLooseLedger, LooseLedger!Spec

----------------------------------------------------------------------------
(***************************************************************************)
(* The launchd schedule: one run per tick.  The money a run read stays the *)
(* money the wallet has until its transaction lands, because no other run  *)
(* and no other swap is under way.                                         *)
(***************************************************************************)
\* The launchd schedule, and other programs only add SOL to the wallet.
DepositsOnly == ~HandRuns /\ SolMoves \subseteq Nat

----------------------------------------------------------------------------
Busy(r) == Active(r) \/ tx[r] = "flight"

\* One run is under way at a time, its transaction included.
Solo == \A q, r \in Runs : Busy(q) /\ Busy(r) => q = r

\* The run may still spend what it read.
Pending(r) == pc[r] \in {"building", "gating", "sending"} \/ tx[r] = "flight"

SolInv(r) ==
  /\ Pending(r) => seen[r].sol <= sol
  /\ pc[r] = "sending" \/ tx[r] = "flight" =>
       seen[r].sol - Spend(seen[r].sol) - fee[r] >= Floor

TickInv == Solo /\ \A r \in Runs : SolInv(r)

----------------------------------------------------------------------------
\* What a started run does keeps runs apart.
LEMMA SoloKept ==
  ASSUME ~HandRuns, IInv, Solo, [Next]_vars
  PROVE  Solo'
<1> USE DEF Goto, memory, files, chain, Solo
<1>1. ASSUME NEW r \in Runs, Begin(r) PROVE Solo'
  <2>1. \A q \in Runs : ~Busy(q)
    BY <1>1 DEF Begin, Busy
  <2>2. \A q \in Runs \ {r} : ~Busy(q)'
    BY <1>1, <2>1 DEF Begin, Busy, Active, IInv, TypeOK
  <2> QED
    BY <2>2
<1>2. ASSUME NEW r \in Runs, Proceed(r) \/ Crash(r) \/ Solana(r) PROVE Solo'
  <2>1. Busy(r)
    BY <1>2 DEF Proceed, Crash, Solana, Busy, Active, Working, ReadBalances, RungMisses,
         RungFits, StopBeforeSigning, SignAndRecord, Send, PollConfirmed, PollFailed,
         PollExpired, PollAgain, PollTimeout, ReconcileBySignature, ReconcileByDelta,
         ReconcileUnknown, ReceiveFails, Receive, AppendFunding, Land, Revert,
         BlockhashExpires
  <2>2. \A q \in Runs \ {r} : ~Busy(q)
    BY <2>1
  <2>3. \A q \in Runs \ {r} : pc'[q] = pc[q] /\ tx'[q] = tx[q]
    BY <1>2, OthersUntouched DEF IInv
  <2>4. \A q \in Runs \ {r} : ~Busy(q)'
    BY <2>2, <2>3 DEF Busy, Active
  <2> QED
    BY <2>4
<1>3. CASE MoveSol \/ MoveNos \/ UNCHANGED vars
  BY <1>3 DEF MoveSol, MoveNos, vars, Busy, Active
<1> QED
  BY <1>1, <1>2, <1>3 DEF Next

\* A step of q cannot change what another run read or estimated.
LEMMA MemoryUntouched ==
  ASSUME TypeOK, NEW q \in Runs,
         Begin(q) \/ Proceed(q) \/ Crash(q) \/ Solana(q),
         NEW r \in Runs \ {q}
  PROVE  seen'[r] = seen[r] /\ fee'[r] = fee[r] /\ got'[r] = got[r]
<1> USE DEF memory, TypeOK
<1>1. CASE Proceed(q)
  BY <1>1 DEF Proceed, ReadBalances, RungMisses, RungFits, StopBeforeSigning, SignAndRecord,
       Send, PollConfirmed, PollFailed, PollExpired, PollAgain, PollTimeout,
       ReconcileBySignature, ReconcileByDelta, ReconcileUnknown, ReceiveFails, Receive,
       AppendFunding
<1>2. CASE Begin(q) \/ Crash(q) \/ Solana(q)
  BY <1>2 DEF Begin, Crash, Solana, Land, Revert, BlockhashExpires
<1> QED
  BY <1>1, <1>2

\* A run's own step keeps its reading good: nothing but its own landing takes
\* SOL away, and the gate is what opens the way to the send.
LEMMA OwnSolStep ==
  ASSUME IInv, NEW r \in Runs, SolInv(r),
         Begin(r) \/ Proceed(r) \/ Crash(r) \/ Solana(r)
  PROVE  SolInv(r)'
<1> USE DEF Goto, memory, files, chain, SolInv, Pending
<1>t. TypeOK /\ RunInv(r)
  BY DEF IInv
<1>1. CASE Begin(r)
  BY <1>1, <1>t DEF Begin, TypeOK
<1>2. CASE ReadBalances(r)
  <2>1. tx[r] = "none" /\ UNCHANGED <<tx, sol>>
    BY <1>2, <1>t DEF ReadBalances, RunInv, BeforeSigning, Unsigned
  <2>2. pc'[r] \in {"building", "threw"}
    BY <1>2, <1>t DEF ReadBalances, TypeOK
  <2>3. pc'[r] = "building" => seen'[r].sol = sol
    BY <1>2, <1>t DEF ReadBalances, TypeOK
  <2> QED
    BY <2>1, <2>2, <2>3, <1>t DEF TypeOK
<1>3. CASE RungMisses(r) \/ RungFits(r) \/ StopBeforeSigning(r)
  <2>1. tx[r] = "none" /\ UNCHANGED <<tx, sol, seen>>
    BY <1>3, <1>t DEF RungMisses, RungFits, StopBeforeSigning, RunInv, BeforeSigning, Unsigned
  <2>2. pc[r] \in {"building", "gating"} /\ pc'[r] \in {"building", "gating", "threw", "returned"}
    BY <1>3, <1>t DEF RungMisses, RungFits, StopBeforeSigning, TypeOK
  <2> QED
    BY <2>1, <2>2
<1>4. CASE SignAndRecord(r)
  BY <1>4, <1>t DEF SignAndRecord, Gate, TypeOK
<1>5. CASE Send(r)
  BY <1>5, <1>t DEF Send, TypeOK
<1>6. CASE \/ PollConfirmed(r) \/ PollFailed(r) \/ PollExpired(r) \/ PollAgain(r)
           \/ PollTimeout(r) \/ ReconcileBySignature(r) \/ ReconcileByDelta(r)
           \/ ReconcileUnknown(r) \/ ReceiveFails(r) \/ Receive(r) \/ AppendFunding(r)
           \/ Crash(r)
  <2>1. UNCHANGED <<tx, sol, seen, fee>>
    BY <1>6 DEF PollConfirmed, PollFailed, PollExpired, PollAgain, PollTimeout,
         ReconcileBySignature, ReconcileByDelta, ReconcileUnknown, ReceiveFails, Receive,
         AppendFunding, Crash
  <2>2. pc'[r] \notin {"building", "gating", "sending"}
    BY <1>6, <1>t DEF PollConfirmed, PollFailed, PollExpired, PollAgain, PollTimeout,
         ReconcileBySignature, ReconcileByDelta, ReconcileUnknown, ReceiveFails, Receive,
         AppendFunding, Crash, TypeOK
  <2> QED
    BY <2>1, <2>2
<1>7. CASE Solana(r)
  <2>1. pc[r] \notin {"building", "gating", "sending"}
    BY <1>7, <1>t DEF Solana, Land, Revert, BlockhashExpires, RunInv, BeforeSigning,
         BeforeVerdict, Unsigned, Undecided
  <2>2. tx'[r] # "flight" /\ UNCHANGED pc
    BY <1>7, <1>t DEF Solana, Land, Revert, BlockhashExpires, TypeOK
  <2> QED
    BY <2>1, <2>2
<1> QED
  BY <1>1, <1>2, <1>3, <1>4, <1>5, <1>6, <1>7 DEF Proceed

\* Another run's step takes no SOL away while this one is pending.
LEMMA OtherSolStep ==
  ASSUME ~HandRuns, IInv, Solo, NEW q \in Runs, NEW r \in Runs \ {q}, SolInv(r),
         Begin(q) \/ Proceed(q) \/ Crash(q) \/ Solana(q)
  PROVE  SolInv(r)'
<1>1. pc'[r] = pc[r] /\ tx'[r] = tx[r] /\ seen'[r] = seen[r] /\ fee'[r] = fee[r]
  BY OthersUntouched, MemoryUntouched DEF IInv
<1>2. CASE Pending(r)
  <2>1. Busy(r)
    BY <1>2 DEF Pending, Busy, Active, Working
  <2>2. ~Busy(q)
    BY <2>1 DEF Solo
  <2>3. ~Solana(q)
    BY <2>2 DEF Busy, Solana, Land, Revert, BlockhashExpires
  <2>4. sol' = sol
    BY <2>3 DEF Begin, Crash, Proceed, chain, ReadBalances, RungMisses, RungFits,
         StopBeforeSigning, SignAndRecord, Send, PollConfirmed, PollFailed, PollExpired,
         PollAgain, PollTimeout, ReconcileBySignature, ReconcileByDelta, ReconcileUnknown,
         ReceiveFails, Receive, AppendFunding
  <2> QED
    BY <1>1, <2>4 DEF SolInv, Pending
<1>3. CASE ~Pending(r)
  BY <1>1, <1>3 DEF SolInv, Pending
<1> QED
  BY <1>2, <1>3

LEMMA TickStep ==
  ASSUME DepositsOnly, IInv, TickInv, [Next]_vars
  PROVE  TickInv'
<1>1. Solo'
  BY SoloKept DEF DepositsOnly, TickInv
<1>2. ASSUME NEW r \in Runs PROVE SolInv(r)'
  <2>1. ASSUME NEW q \in Runs, Begin(q) \/ Proceed(q) \/ Crash(q) \/ Solana(q)
        PROVE  SolInv(r)'
    <3>1. CASE q = r
      BY <2>1, <3>1, OwnSolStep DEF TickInv
    <3>2. CASE q # r
      BY <2>1, <3>2, OtherSolStep DEF DepositsOnly, TickInv
    <3> QED
      BY <3>1, <3>2
  <2>2. CASE MoveSol
    <3>1. UNCHANGED <<pc, tx, seen, fee>>
      BY <2>2 DEF MoveSol, memory
    <3>2. sol' \in Nat /\ sol <= sol'
      BY <2>2 DEF MoveSol, DepositsOnly, IInv, TypeOK
    <3> QED
      BY <3>1, <3>2 DEF TickInv, SolInv, Pending, IInv, TypeOK
  <2>3. CASE MoveNos \/ UNCHANGED vars
    <3>1. UNCHANGED <<pc, tx, seen, fee, sol>>
      BY <2>3 DEF MoveNos, vars, memory, chain
    <3> QED
      BY <3>1 DEF TickInv, SolInv, Pending
  <2> QED
    BY <2>1, <2>2, <2>3 DEF Next
<1> QED
  BY <1>1, <1>2 DEF TickInv

LEMMA TickInvariant ==
  ASSUME DepositsOnly
  PROVE  Spec => [](IInv /\ TickInv)
<1>1. Init => TickInv
  BY DEF Init, TickInv, Solo, Busy, Active, Working, SolInv, Pending
<1>2. IInv /\ TickInv /\ [Next]_vars => TickInv'
  BY TickStep
<1> QED
  BY <1>1, <1>2, Inductive, PTL DEF Spec

----------------------------------------------------------------------------
\* Only its own chain action takes a transaction out of flight.
LEMMA WhoLands ==
  ASSUME IInv, NEW r \in Runs, [Next]_vars,
         tx[r] = "flight", tx'[r] \in {"landed", "failed"}
  PROVE  (Land(r) /\ tx'[r] = "landed") \/ (Revert(r) /\ tx'[r] = "failed")
<1> USE DEF IInv, TypeOK
<1>1. ASSUME NEW q \in Runs, Begin(q) \/ Proceed(q) \/ Crash(q) \/ Solana(q)
      PROVE  (Land(r) /\ tx'[r] = "landed") \/ (Revert(r) /\ tx'[r] = "failed")
  <2>1. q = r
    BY <1>1, OthersUntouched
  <2>2. CASE Begin(q) \/ Proceed(q) \/ Crash(q)
    BY <2>1, <2>2 DEF Begin, Crash, Proceed, chain, ReadBalances, RungMisses, RungFits,
         StopBeforeSigning, SignAndRecord, Send, PollConfirmed, PollFailed, PollExpired,
         PollAgain, PollTimeout, ReconcileBySignature, ReconcileByDelta, ReconcileUnknown,
         ReceiveFails, Receive, AppendFunding
  <2>3. CASE Solana(q)
    BY <2>1, <2>3 DEF Solana, Land, Revert, BlockhashExpires
  <2> QED
    BY <1>1, <2>2, <2>3
<1>2. CASE MoveSol \/ MoveNos \/ UNCHANGED vars
  BY <1>2 DEF MoveSol, MoveNos, vars, chain
<1> QED
  BY <1>1, <1>2 DEF Next

\* Under the launchd schedule and deposits, no swap leaves the treasury under
\* its fee floor by more than the fees the gate was not told of, when it lands
\* (acquire-nos.mjs:250-259).
THEOREM FloorIsKept ==
  ASSUME DepositsOnly
  PROVE  Spec => FloorKept
<1>1. ASSUME IInv, TickInv, [Next]_vars
      PROVE  [\A r \in Runs : tx[r] = "flight" /\ tx'[r] \in {"landed", "failed"} =>
                sol' >= Floor - Unpriced(r)]_vars
  <2>1. ASSUME NEW r \in Runs, tx[r] = "flight", tx'[r] \in {"landed", "failed"}
        PROVE  sol' >= Floor - Unpriced(r)
    <3>1. Land(r) \/ Revert(r)
      BY <1>1, <2>1, WhoLands
    <3>2. /\ sol \in Nat /\ seen[r].sol \in Nat /\ Spend(seen[r].sol) \in Nat
          /\ fee[r] \in Int
      BY <1>1, SpendBound, ParametersAssumption DEF IInv, TypeOK
    <3>3. /\ seen[r].sol <= sol
          /\ seen[r].sol - Spend(seen[r].sol) - fee[r] >= Floor
      BY <1>1, <2>1 DEF TickInv, SolInv, Pending
    <3>4. sol' >= sol - Spend(seen[r].sol) - PriorityFee - SigFee
      BY <3>1, <3>2, ParametersAssumption DEF Land, Revert, Debit, FailedDebit
    <3>5. sol' \in Int
      BY <3>1, <3>2, ParametersAssumption DEF Land, Revert, Debit, FailedDebit
    <3> QED
      BY <3>2, <3>3, <3>4, <3>5, ParametersAssumption DEF Unpriced
  <2> QED
    BY <2>1
<1> QED
  BY <1>1, TickInvariant, PTL DEF Spec, FloorKept

\* Under the same schedule a swap that lands spends at most a quarter of what
\* the treasury holds at that moment (acquire-nos.mjs:139-159).
THEOREM QuarterIsKept ==
  ASSUME DepositsOnly
  PROVE  Spec => QuarterKept
<1>1. ASSUME IInv, TickInv, [Next]_vars
      PROVE  [\A r \in Runs : tx[r] = "flight" /\ tx'[r] = "landed" =>
                4 * Spend(seen[r].sol) <= sol]_vars
  <2>1. ASSUME NEW r \in Runs, tx[r] = "flight"
        PROVE  4 * Spend(seen[r].sol) <= sol
    <3>1. sol \in Nat /\ seen[r].sol \in Nat /\ seen[r].sol <= sol
      BY <1>1, <2>1 DEF IInv, TypeOK, TickInv, SolInv, Pending
    <3>2. Spend(seen[r].sol) \in Nat /\ 4 * Spend(seen[r].sol) <= seen[r].sol
      BY <3>1, SpendBound
    <3> QED
      BY <3>1, <3>2
  <2> QED
    BY <2>1
<1> QED
  BY <1>1, TickInvariant, PTL DEF Spec, QuarterKept

----------------------------------------------------------------------------
(***************************************************************************)
(* The same for NOS, where nobody but the swaps moves any: from its first  *)
(* reading to its settled row a run finds what it read plus what its own   *)
(* transaction has delivered.                                              *)
(***************************************************************************)
SwapsOnly == ~HandRuns /\ NosMoves = {}

Measuring == {"building", "gating", "sending", "polling", "reconciling", "receiving"}

NosInv(r) ==
  /\ pc[r] \in Measuring => nos = seen[r].nos + credited[r]
  /\ pc[r] = "receiving" =>
       tx[r] = "landed" /\ (via[r] = "delta" => got[r] = credited[r])
  /\ pc[r] = "ledger" => got[r] = credited[r]
  /\ HasRow(r, "settled") => tx[r] = "landed"
  /\ \A f \in funding : f.run = r => f.nos = credited[r]

\* A run's own step: what it reads is what it gets.
LEMMA OwnNosStep ==
  ASSUME IInv, NEW r \in Runs, NosInv(r),
         Begin(r) \/ Proceed(r) \/ Crash(r) \/ Solana(r)
  PROVE  NosInv(r)'
<1> USE DEF Goto, memory, files, chain, NosInv, Measuring
<1>t. TypeOK /\ RunInv(r)
  BY DEF IInv
<1>s. Unsigned \cap Measuring = {"building", "gating"} /\ Statuses \cap {"settled"} = {"settled"}
  BY DEF Unsigned, Statuses
<1>1. CASE Begin(r) \/ Crash(r)
  <2>1. UNCHANGED <<memory, files, chain>> /\ pc'[r] \in {"reading", "crashed"}
    BY <1>1, <1>t DEF Begin, Crash, TypeOK
  <2> QED
    BY <2>1, KeepRows DEF Statuses
<1>2. CASE ReadBalances(r)
  <2>1. credited[r] = 0
    BY <1>2, <1>t DEF ReadBalances, RunInv, BeforeSigning, Chain, Unsigned
  <2>2. /\ UNCHANGED <<via, got, files, chain>>
        /\ pc'[r] = "threw" \/ (pc'[r] = "building" /\ seen'[r].nos = nos)
    BY <1>2, <1>t DEF ReadBalances, TypeOK
  <2>3. nos = nos + 0
    BY <1>t DEF TypeOK
  <2> QED
    BY <2>1, <2>2, <2>3, KeepRows DEF Statuses
<1>3. CASE \/ RungMisses(r) \/ RungFits(r) \/ StopBeforeSigning(r) \/ PollExpired(r)
           \/ PollAgain(r) \/ PollTimeout(r) \/ ReceiveFails(r)
  <2>1. UNCHANGED <<seen, via, got, files, chain>>
    BY <1>3 DEF RungMisses, RungFits, StopBeforeSigning, PollExpired, PollAgain, PollTimeout,
       ReceiveFails
  <2>2. /\ pc'[r] \notin {"receiving", "ledger"}
        /\ pc'[r] \in Measuring => pc[r] \in Measuring
    BY <1>3, <1>t DEF RungMisses, RungFits, StopBeforeSigning, PollExpired, PollAgain,
       PollTimeout, ReceiveFails, TypeOK
  <2> QED
    BY <2>1, <2>2, KeepRows DEF Statuses
<1>4. CASE SignAndRecord(r) \/ PollFailed(r) \/ ReconcileUnknown(r)
  <2>1. /\ UNCHANGED <<memory, funding, chain>>
        /\ \E t \in Statuses \ {"settled"} : rows' = rows \cup {Row(r, t)}
    BY <1>4 DEF SignAndRecord, RecordIntent, PollFailed, ReconcileUnknown, Statuses
  <2>2. HasRow(r, "settled")' <=> HasRow(r, "settled")
    BY <2>1, AppendRow DEF Statuses
  <2>3. pc'[r] = "threw" \/ (pc'[r] = "sending" /\ pc[r] = "gating")
    BY <1>4, <1>t DEF SignAndRecord, PollFailed, ReconcileUnknown, TypeOK
  <2> QED
    BY <2>1, <2>2, <2>3
<1>5. CASE Send(r)
  <2>1. UNCHANGED <<memory, files, credited, nos>> /\ pc'[r] = "polling" /\ pc[r] = "sending"
    BY <1>5, <1>t DEF Send, TypeOK
  <2>2. ~HasRow(r, "settled") /\ ~HasRow(r, "settled")'
    BY <2>1, <1>t, KeepRows DEF RunInv, BeforeVerdict, Undecided, Statuses
  <2> QED
    BY <2>1, <2>2
<1>6. CASE PollConfirmed(r) \/ ReconcileBySignature(r)
  <2>1. /\ UNCHANGED <<seen, got, files, chain>> /\ tx[r] = "landed"
        /\ pc[r] \in Measuring /\ pc'[r] = "receiving" /\ via'[r] # "delta"
    BY <1>6, <1>t DEF PollConfirmed, ReconcileBySignature, TypeOK
  <2> QED
    BY <2>1, KeepRows DEF Statuses
<1>7. CASE ReconcileByDelta(r)
  <2>1. /\ UNCHANGED <<seen, files, chain>> /\ pc[r] = "reconciling" /\ nos > seen[r].nos
        /\ pc'[r] = "receiving" /\ got'[r] = nos - seen[r].nos
    BY <1>7, <1>t DEF ReconcileByDelta, TypeOK
  <2>2. /\ nos = seen[r].nos + credited[r]
        /\ nos \in Nat /\ seen[r].nos \in Nat /\ credited[r] \in Nat
    BY <2>1, <1>t DEF TypeOK
  <2>3. credited[r] # 0 /\ got'[r] = credited[r]
    BY <2>1, <2>2
  <2>4. tx[r] = "landed"
    BY <2>3, <1>t DEF RunInv, Chain
  <2> QED
    BY <2>1, <2>2, <2>3, <2>4, KeepRows DEF Statuses
<1>8. CASE Receive(r)
  <2>1. /\ UNCHANGED <<seen, funding, chain>> /\ pc[r] = "receiving" /\ pc'[r] = "ledger"
        /\ got'[r] = IF via[r] = "delta" THEN got[r] ELSE nos - seen[r].nos
    BY <1>8, <1>t DEF Receive, TypeOK
  <2>2. /\ nos = seen[r].nos + credited[r]
        /\ nos \in Nat /\ seen[r].nos \in Nat /\ credited[r] \in Nat
    BY <2>1, <1>t DEF TypeOK
  <2>3. got'[r] = credited[r]
    BY <2>1, <2>2
  <2> QED
    BY <2>1, <2>3
<1>9. CASE AppendFunding(r)
  <2>1. /\ UNCHANGED <<memory, rows, chain>> /\ pc[r] = "ledger" /\ pc'[r] = "posted"
        /\ funding' = funding \cup {[run |-> r, nos |-> got[r]]}
    BY <1>9, <1>t DEF AppendFunding, TypeOK
  <2> QED
    BY <2>1, KeepRows DEF Statuses
<1>10. CASE Land(r)
  <2>1. /\ UNCHANGED <<pc, memory, files>> /\ tx[r] = "flight" /\ tx'[r] = "landed"
    BY <1>10, <1>t DEF Land, TypeOK
  <2>2. nos' = nos + credited'[r] /\ credited'[r] \in Nat
    BY <1>10, <1>t, ParametersAssumption DEF Land, TypeOK
  <2>3. credited[r] = 0
    BY <2>1, <1>t DEF RunInv, Chain
  <2>4. ~HasRow(r, "settled") /\ pc[r] # "ledger"
    BY <2>1, <1>t DEF RunInv, Evidence
  <2>5. \A f \in funding : f.run # r
    BY <2>4, <1>t DEF RunInv, Evidence, Booked
  <2>6. pc[r] \in Measuring => nos' = seen'[r].nos + credited'[r]
    <3>1. pc[r] \in Measuring => nos = seen[r].nos + 0
      BY <2>3
    <3> QED
      BY <3>1, <2>1, <2>2, <1>t DEF TypeOK
  <2>7. pc[r] # "receiving"
    BY <2>1
  <2>8. ~HasRow(r, "settled")'
    BY <2>1, <2>4, KeepRows DEF Statuses
  <2> QED
    BY <2>1, <2>4, <2>5, <2>6, <2>7, <2>8
<1>11. CASE Revert(r) \/ BlockhashExpires(r)
  <2>1. /\ UNCHANGED <<pc, memory, files, credited, nos>> /\ tx[r] = "flight"
    BY <1>11 DEF Revert, BlockhashExpires
  <2>2. pc[r] # "receiving" /\ ~HasRow(r, "settled") /\ ~HasRow(r, "settled")'
    BY <2>1, KeepRows DEF Statuses
  <2> QED
    BY <2>1, <2>2
<1> QED
  BY <1>1, <1>2, <1>3, <1>4, <1>5, <1>6, <1>7, <1>8, <1>9, <1>10, <1>11 DEF Proceed, Solana

\* Another run's step moves no NOS while this one measures.
LEMMA OtherNosStep ==
  ASSUME IInv, Solo, NEW q \in Runs, NEW r \in Runs \ {q}, NosInv(r),
         Begin(q) \/ Proceed(q) \/ Crash(q) \/ Solana(q)
  PROVE  NosInv(r)'
<1>1. /\ pc'[r] = pc[r] /\ tx'[r] = tx[r] /\ seen'[r] = seen[r] /\ got'[r] = got[r]
      /\ via'[r] = via[r] /\ credited'[r] = credited[r]
      /\ HasRow(r, "settled")' <=> HasRow(r, "settled")
  BY OthersUntouched, MemoryUntouched DEF IInv, Statuses
<1>2. \A f \in funding' : f.run = r => f \in funding
  <2>1. CASE AppendFunding(q)
    BY <2>1 DEF AppendFunding
  <2>2. CASE ~AppendFunding(q)
    BY <2>2 DEF Begin, Crash, Solana, Land, Revert, BlockhashExpires, Proceed, files,
       ReadBalances, RungMisses, RungFits, StopBeforeSigning, SignAndRecord, Send,
       PollConfirmed, PollFailed, PollExpired, PollAgain, PollTimeout, ReconcileBySignature,
       ReconcileByDelta, ReconcileUnknown, ReceiveFails, Receive
  <2> QED
    BY <2>1, <2>2
<1>3. pc[r] \in Measuring => nos' = nos
  <2>1. SUFFICES ASSUME pc[r] \in Measuring PROVE nos' = nos
    OBVIOUS
  <2>2. ~Busy(q)
    BY <2>1 DEF Solo, Busy, Active, Working, Measuring
  <2>3. ~Solana(q)
    BY <2>2 DEF Busy, Solana, Land, Revert, BlockhashExpires
  <2> QED
    BY <2>3 DEF Begin, Crash, Proceed, chain, ReadBalances, RungMisses, RungFits,
       StopBeforeSigning, SignAndRecord, Send, PollConfirmed, PollFailed, PollExpired,
       PollAgain, PollTimeout, ReconcileBySignature, ReconcileByDelta, ReconcileUnknown,
       ReceiveFails, Receive, AppendFunding
<1> QED
  BY <1>1, <1>2, <1>3 DEF NosInv

LEMMA NosInvariant ==
  ASSUME SwapsOnly
  PROVE  Spec => [](IInv /\ \A r \in Runs : NosInv(r))
<1>1. Init => Solo /\ \A r \in Runs : NosInv(r)
  BY DEF Init, Solo, Busy, Active, Working, NosInv, Measuring, HasRow
<1>2. ASSUME IInv, Solo, \A r \in Runs : NosInv(r), [Next]_vars
      PROVE  Solo' /\ (\A r \in Runs : NosInv(r))'
  <2>1. Solo'
    BY <1>2, SoloKept DEF SwapsOnly
  <2>2. ASSUME NEW r \in Runs PROVE NosInv(r)'
    <3>1. ASSUME NEW q \in Runs, Begin(q) \/ Proceed(q) \/ Crash(q) \/ Solana(q)
          PROVE  NosInv(r)'
      BY <1>2, <3>1, OwnNosStep, OtherNosStep
    <3>2. CASE MoveSol \/ UNCHANGED vars
      <4>1. UNCHANGED <<pc, memory, files, tx, credited, nos>>
        BY <3>2 DEF MoveSol, vars, chain
      <4> QED
        BY <1>2, <4>1, KeepRows DEF NosInv, memory, files, Statuses
    <3>3. ~MoveNos
      BY DEF MoveNos, SwapsOnly
    <3> QED
      BY <1>2, <3>1, <3>2, <3>3 DEF Next
  <2> QED
    BY <2>1, <2>2
<1> QED
  BY <1>1, <1>2, Inductive, PTL DEF Spec

\* One run per tick and a wallet whose NOS only the swaps move: a settled row
\* means the swap landed, and what the funding ledger books is what it delivered,
\* whatever confirmed it (acquire-nos.mjs:1041-1069).
THEOREM SettledIsLanded ==
  ASSUME SwapsOnly
  PROVE  Spec => []SettledMeansLanded
<1>1. (\A r \in Runs : NosInv(r)) => SettledMeansLanded
  BY DEF NosInv, SettledMeansLanded
<1> QED
  BY <1>1, NosInvariant, PTL

\* The exact ledger differs from the loose one in what a settled verdict needs.
LEMMA LooseStepIsExact ==
  ASSUME [LooseLedger!Next]_(LooseLedger!vars), SettledMeansLanded'
  PROVE  [ExactLedger!Next]_(ExactLedger!vars)
<1>1. CASE UNCHANGED LooseLedger!vars
  BY <1>1 DEF LooseLedger!vars, ExactLedger!vars
<1>2. ASSUME NEW i \in Runs,
             \/ LooseLedger!Record(i) \/ LooseLedger!Effect(i) \/ LooseLedger!Fail(i)
             \/ LooseLedger!GiveUp(i)
      PROVE  ExactLedger!Next
  BY <1>2 DEF LooseLedger!Record, LooseLedger!Effect, LooseLedger!Fail, LooseLedger!GiveUp,
     LooseLedger!Close, ExactLedger!Record, ExactLedger!Effect, ExactLedger!Fail,
     ExactLedger!GiveUp, ExactLedger!Close, ExactLedger!Next
<1>3. ASSUME NEW i \in Runs, LooseLedger!Settle(i) PROVE ExactLedger!Next
  <2>1. LooseLedger!Close(i, "settled")
    BY <1>3 DEF LooseLedger!Settle
  <2>2. VerdictOf(i)' = "settled" /\ LandedSwaps' = LandedSwaps
    BY <2>1 DEF LooseLedger!Close
  <2>3. HasRow(i, "settled")'
    BY <2>2 DEF VerdictOf
  <2>4. i \in LandedSwaps
    BY <2>2, <2>3 DEF SettledMeansLanded, LandedSwaps
  <2>5. ExactLedger!Settle(i)
    BY <2>1, <2>4 DEF LooseLedger!Close, ExactLedger!Close, ExactLedger!Settle
  <2> QED
    BY <2>5 DEF ExactLedger!Next
<1> QED
  BY <1>1, <1>2, <1>3 DEF LooseLedger!Next

\* Under the same schedule the runs implement the ledger README.md:136 promises
\* with settled verdicts that the swap always backs.
THEOREM SwapImplementsExactLedger ==
  ASSUME SwapsOnly
  PROVE  Spec => ImplementsExactLedger
<1>1. Init => ExactLedger!Init
  BY InitImplements DEF LooseLedger!Init, ExactLedger!Init
<1>2. IInv /\ [Next]_vars /\ SettledMeansLanded' => [ExactLedger!Next]_(ExactLedger!vars)
  BY NextImplements, LooseStepIsExact
<1> QED
  BY <1>1, <1>2, Inductive, SettledIsLanded, PTL
     DEF Spec, ImplementsExactLedger, ExactLedger!Spec

----------------------------------------------------------------------------
(***************************************************************************)
(* What EveryRunEnds leaves to fairness.  Every step of a started run      *)
(* takes at least one from a number that bounds how many it has left, and  *)
(* neither the chain nor the other runs add to it: a run can only fail to  *)
(* end by not being continued.                                             *)
(***************************************************************************)
Stage == [reading |-> 8, building |-> 7, gating |-> 6, sending |-> 5, polling |-> 4,
          reconciling |-> 3, receiving |-> 2, ledger |-> 1]
RungsLeft(r) == CASE pc[r] = "reading" -> Rungs
                  [] pc[r] = "building" -> Rungs - tries[r]
                  [] OTHER -> 0
PollsLeft(r) == CASE pc[r] \in {"reading", "building", "gating", "sending"} -> PollBudget
                  [] pc[r] = "polling" -> PollBudget - tries[r]
                  [] OTHER -> 0
StepsLeft(r) == IF Active(r) THEN Stage[pc[r]] + RungsLeft(r) + PollsLeft(r) ELSE 0

\* The ladder and the poll count from nothing and stay within their bounds.
Counted(r) ==
  /\ pc[r] \in {"idle", "reading", "gating", "sending"} => tries[r] = 0
  /\ pc[r] = "building" => tries[r] < Rungs
  /\ pc[r] = "polling" => tries[r] <= PollBudget

CountInv == \A r \in Runs : Counted(r)

LEMMA StepsBound ==
  ASSUME TypeOK, NEW r \in Runs, Counted(r)
  PROVE  /\ StepsLeft(r) \in 0 .. Rungs + PollBudget + 8
         /\ Active(r) => StepsLeft(r) > 0
<1> USE ParametersAssumption DEF TypeOK, Counted, StepsLeft, Stage, RungsLeft, PollsLeft, Active,
       Working
<1>1. CASE ~Active(r)
  BY <1>1
<1>2. CASE pc[r] = "reading"
  BY <1>2
<1>3. CASE pc[r] = "building"
  BY <1>3
<1>4. CASE pc[r] \in {"gating", "sending"}
  BY <1>4
<1>5. CASE pc[r] = "polling"
  BY <1>5
<1>6. CASE pc[r] \in {"reconciling", "receiving", "ledger"}
  BY <1>6
<1> QED
  BY <1>1, <1>2, <1>3, <1>4, <1>5, <1>6

\* Where a step of the process may take it, and what it does to the count.
LEMMA ProceedMoves ==
  ASSUME TypeOK, NEW r \in Runs, Proceed(r)
  PROVE  \/ pc[r] = "reading" /\ pc'[r] \in {"building", "threw"} /\ tries' = tries
         \/ pc[r] = "building" /\ pc'[r] = "building" /\ tries'[r] = tries[r] + 1 /\ tries[r] + 1 < Rungs
         \/ pc[r] = "building" /\ pc'[r] = "threw"
         \/ pc[r] = "building" /\ pc'[r] = "gating" /\ tries'[r] = 0
         \/ pc[r] = "gating" /\ pc'[r] \in {"threw", "returned", "sending"} /\ tries' = tries
         \/ pc[r] = "sending" /\ pc'[r] = "polling" /\ tries' = tries
         \/ pc[r] = "polling" /\ pc'[r] = "polling" /\ tries[r] < PollBudget /\ tries'[r] = tries[r] + 1
         \/ pc[r] = "polling" /\ pc'[r] \in {"receiving", "reconciling", "threw"}
         \/ pc[r] = "reconciling" /\ pc'[r] \in {"receiving", "threw"}
         \/ pc[r] = "receiving" /\ pc'[r] \in {"ledger", "threw"}
         \/ pc[r] = "ledger" /\ pc'[r] = "posted"
<1> USE ParametersAssumption DEF TypeOK, Goto, memory
<1>1. CASE ReadBalances(r) \/ RungMisses(r) \/ RungFits(r)
  BY <1>1 DEF ReadBalances, RungMisses, RungFits
<1>2. CASE StopBeforeSigning(r) \/ SignAndRecord(r) \/ Send(r)
  BY <1>2 DEF StopBeforeSigning, SignAndRecord, Send
<1>3. CASE PollConfirmed(r) \/ PollFailed(r) \/ PollExpired(r) \/ PollAgain(r) \/ PollTimeout(r)
  BY <1>3 DEF PollConfirmed, PollFailed, PollExpired, PollAgain, PollTimeout
<1>4. CASE ReconcileBySignature(r) \/ ReconcileByDelta(r) \/ ReconcileUnknown(r)
  BY <1>4 DEF ReconcileBySignature, ReconcileByDelta, ReconcileUnknown
<1>5. CASE ReceiveFails(r) \/ Receive(r) \/ AppendFunding(r)
  BY <1>5 DEF ReceiveFails, Receive, AppendFunding
<1> QED
  BY <1>1, <1>2, <1>3, <1>4, <1>5 DEF Proceed

LEMMA ProceedCounts ==
  ASSUME TypeOK, NEW r \in Runs, Counted(r), Proceed(r)
  PROVE  Counted(r)' /\ StepsLeft(r)' < StepsLeft(r) /\ StepsLeft(r)' <= StepsLeft(r)
<1> USE ParametersAssumption DEF TypeOK, Counted, StepsLeft, Stage, RungsLeft, PollsLeft, Active,
       Working
<1>1. CASE pc[r] = "reading"
  BY <1>1, ProceedMoves
<1>2. CASE pc[r] = "building"
  BY <1>2, ProceedMoves
<1>3. CASE pc[r] = "gating"
  BY <1>3, ProceedMoves
<1>4. CASE pc[r] = "sending"
  BY <1>4, ProceedMoves
<1>5. CASE pc[r] = "polling"
  BY <1>5, ProceedMoves
<1>6. CASE pc[r] \in {"reconciling", "receiving", "ledger"}
  BY <1>6, ProceedMoves
<1> QED
  BY <1>1, <1>2, <1>3, <1>4, <1>5, <1>6, ProceedMoves

\* A step that is not the process's own leaves its place and its count, starts it,
\* or ends it.
LEMMA OthersWait ==
  ASSUME TypeOK, NEW r \in Runs, [Next]_vars, ~Proceed(r)
  PROVE  \/ pc'[r] = pc[r] /\ tries'[r] = tries[r]
         \/ pc[r] = "idle" /\ pc'[r] = "reading" /\ tries'[r] = tries[r]
         \/ Active(r) /\ pc'[r] = "crashed"
<1> USE DEF TypeOK, Goto, memory, files, chain
<1>1. ASSUME NEW q \in Runs, Begin(q) \/ Crash(q)
      PROVE  \/ pc'[r] = pc[r] /\ tries'[r] = tries[r]
             \/ pc[r] = "idle" /\ pc'[r] = "reading" /\ tries'[r] = tries[r]
             \/ Active(r) /\ pc'[r] = "crashed"
  BY <1>1 DEF Begin, Crash
<1>2. ASSUME NEW q \in Runs, Proceed(q) PROVE pc'[r] = pc[r] /\ tries'[r] = tries[r]
  BY <1>2 DEF Proceed, ReadBalances, RungMisses, RungFits, StopBeforeSigning, SignAndRecord,
       Send, PollConfirmed, PollFailed, PollExpired, PollAgain, PollTimeout,
       ReconcileBySignature, ReconcileByDelta, ReconcileUnknown, ReceiveFails, Receive,
       AppendFunding
<1>3. ASSUME NEW q \in Runs, Solana(q) PROVE pc'[r] = pc[r] /\ tries'[r] = tries[r]
  BY <1>3 DEF Solana, Land, Revert, BlockhashExpires
<1>4. CASE MoveSol \/ MoveNos
  BY <1>4 DEF MoveSol, MoveNos
<1>5. CASE UNCHANGED vars
  BY <1>5 DEF vars
<1> QED
  BY <1>1, <1>2, <1>3, <1>4, <1>5 DEF Next

LEMMA NextCounts ==
  ASSUME TypeOK, NEW r \in Runs, Counted(r), [Next]_vars
  PROVE  /\ Counted(r)'
         /\ Active(r) => StepsLeft(r)' <= StepsLeft(r)
         /\ Proceed(r) => StepsLeft(r)' < StepsLeft(r)
<1>1. CASE Proceed(r)
  BY <1>1, ProceedCounts
<1>2. CASE ~Proceed(r)
  <2>1. StepsLeft(r) \in Nat
    BY StepsBound, ParametersAssumption
  <2>2. CASE pc'[r] = pc[r] /\ tries'[r] = tries[r]
    BY <1>2, <2>1, <2>2 DEF Counted, StepsLeft, RungsLeft, PollsLeft, Active
  <2>3. CASE pc[r] = "idle" /\ pc'[r] = "reading" /\ tries'[r] = tries[r]
    BY <1>2, <2>3 DEF Counted, Active, Working
  <2>4. CASE Active(r) /\ pc'[r] = "crashed"
    BY <1>2, <2>1, <2>4 DEF Counted, StepsLeft, Active, Working
  <2> QED
    BY <1>2, <2>2, <2>3, <2>4, OthersWait
<1> QED
  BY <1>1, <1>2

LEMMA CountInvariant == Spec => [](TypeOK /\ CountInv)
<1>1. Init => TypeOK /\ CountInv
  BY InitType DEF Init, CountInv, Counted
<1>2. TypeOK /\ CountInv /\ [Next]_vars => (TypeOK /\ CountInv)'
  BY NextType, NextCounts DEF CountInv
<1> QED
  BY <1>1, <1>2, PTL DEF Spec

\* Every started run is a bounded number of its own steps away from its end: the
\* rungs of the ladder, the polls that fit in the deadline, and eight
\* (acquire-nos.mjs:815-1073).
Bounds == \A r \in Runs : /\ StepsLeft(r) \in 0 .. Rungs + PollBudget + 8
                          /\ Active(r) => StepsLeft(r) > 0
THEOREM RunsAreBounded == Spec => []Bounds
<1>1. TypeOK /\ CountInv => Bounds
  BY StepsBound DEF CountInv, Bounds
<1> QED
  BY <1>1, CountInvariant, PTL

\* Each of its steps takes one from that number, and nothing else in the world adds
\* to it: no failure, retry, crash, movement of the wallet or other run.
THEOREM RunsComeToAnEnd ==
  Spec => [][\A r \in Runs : /\ Active(r) => StepsLeft(r)' <= StepsLeft(r)
                             /\ Proceed(r) => StepsLeft(r)' < StepsLeft(r)]_vars
<1> DEFINE Countdown == \A r \in Runs : /\ Active(r) => StepsLeft(r)' <= StepsLeft(r)
                                        /\ Proceed(r) => StepsLeft(r)' < StepsLeft(r)
<1>1. TypeOK /\ CountInv /\ [Next]_vars => [Countdown]_vars
  BY NextCounts DEF CountInv
<1> QED
  BY <1>1, CountInvariant, PTL DEF Spec
=============================================================================
