----------------------------- MODULE CostLedger -----------------------------
(***************************************************************************)
(* shelter-cost.jsonl as skills/self/spawn/lib/shelter-cost-ledger.js      *)
(* reads it: a file of cost rows [ts, usd, job] to which corrections       *)
(* [corrects, job] are appended; nothing is ever rewritten.  A cost row    *)
(* also carries `by', the deployment that wrote it, which no code reads.   *)
(***************************************************************************)
EXTENDS Naturals, Sequences, FiniteSetsExt

IsCorrection(row) == "corrects" \in DOMAIN row

CostRow(ts, usd, job, by) == [ts |-> ts, usd |-> usd, job |-> job, by |-> by]

Correction(ts, job) == [corrects |-> ts, job |-> job]

\* The positions of the corrections aimed at a time stamp.
AimedAt(file, ts) ==
  {i \in DOMAIN file : IsCorrection(file[i]) /\ file[i].corrects = ts}

\* The first correction stands.
ResolveRowBug(file, row) ==
  LET hits == AimedAt(file, row.ts)
  IN  IF hits = {} THEN row ELSE [row EXCEPT !.job = file[Min(hits)].job]

\* The last one does; it replaces the address and nothing else.
ResolveRow(file, row) ==
  LET hits == AimedAt(file, row.ts)
  IN  IF hits = {} THEN row ELSE [row EXCEPT !.job = file[Max(hits)].job]

\* resolveShelterCostEntries: a row per cost row, at its place in the file, and
\* none per correction.
Resolved(file) ==
  [i \in {k \in DOMAIN file : ~IsCorrection(file[k])} |-> ResolveRow(file, file[i])]

=============================================================================
