----------------------------- MODULE SpendGate -----------------------------
(***************************************************************************)
(* The money gate in front of a deployment: outflowRows, checkSpendCaps    *)
(* and evaluateSpendGate of spend-gate.mjs, which restate _outflow_rows    *)
(* and check_caps of skills/earn/funding/lib/caps.py.                      *)
(*                                                                         *)
(* A history gives the rows [ts, usd, status, hash] by their places in the *)
(* file.  A cap is a set with at most one element, empty for "no cap".     *)
(* Amounts and times are naturals: the finiteness tests of the code have   *)
(* nothing to refuse.                                                      *)
(***************************************************************************)
EXTENDS Naturals, Sequences, FiniteSetsExt

CONSTANTS
  NoHash,   \* the hash of a row that has none
  Day       \* the length of the daily window

\* SPEND_STATUS_PRIORITY: the statuses that may have moved money, the most
\* final one last.  A row of any other status never counts.
Priority == [pending |-> 1, sent |-> 2, settled |-> 2]

Candidates(h) == {i \in DOMAIN h : h[i].status \in DOMAIN Priority}

\* Of two rows of one transaction the more final one stands, else the earlier.
Outranks(h, i, k) ==
  \/ Priority[h[i].status] > Priority[h[k].status]
  \/ Priority[h[i].status] = Priority[h[k].status] /\ i <= k

\* The rows that count, as positions: each transaction once, each row without
\* a hash on its own.
OutflowRows(h) ==
  {i \in Candidates(h) :
     \/ h[i].hash = NoHash
     \/ \A k \in Candidates(h) : h[k].hash = h[i].hash => Outranks(h, i, k)}

Spent(h, from) ==
  MapThenSumSet(LAMBDA i : h[i].usd, {i \in OutflowRows(h) : h[i].ts >= from})

Since(now) == IF now > Day THEN now - Day ELSE 0

CheckSpendCaps(usd, h, config, now) ==
  /\ usd > 0
  /\ \A cap \in config.perJob : usd <= cap
  /\ \A cap \in config.daily : Spent(h, Since(now)) + usd <= cap
  /\ \A cap \in config.cumulative : Spent(h, 0) + usd <= cap

\* `funded': NOS for the job and SOL above the fee floor, in the balances read.
EvaluateSpendGate(usd, funded, h, config, now) ==
  CheckSpendCaps(usd, h, config, now) /\ funded

=============================================================================
