---------------------------- MODULE IntentLedger ----------------------------
(***************************************************************************)
(* What the repository promises of every payment path (README.md,          *)
(* "Money safety"): an intent record is durable before its side effect     *)
(* can happen, the side effect happens at most once per intent, and the    *)
(* verdict appended for an intent is never rewritten.                      *)
(*                                                                         *)
(* The executors append three kinds of terminal row to their intent file:  *)
(* "settled", a failure row and an "unknown" row.  A failure row promises  *)
(* that the effect did not and will not happen; an unknown row promises    *)
(* nothing; a settled row promises the effect when Exact is TRUE.          *)
(***************************************************************************)

CONSTANTS
  Intents,     \* the identities of the intents (intentId in the code)
  Exact        \* (a Boolean) whether a settled verdict must be backed by the effect

VARIABLES
  recorded,    \* intents whose intent record is durable
  effected,    \* intents whose side effect happened
  verdict      \* the terminal row of each intent, "open" before one is written

vars == <<recorded, effected, verdict>>

Verdicts == {"open", "settled", "failed", "unknown"}

TypeOK ==
  /\ recorded \subseteq Intents
  /\ effected \subseteq recorded
  /\ verdict \in [Intents -> Verdicts]

Init ==
  /\ recorded = {}
  /\ effected = {}
  /\ verdict = [i \in Intents |-> "open"]

Record(i) ==
  /\ i \notin recorded
  /\ recorded' = recorded \cup {i}
  /\ UNCHANGED <<effected, verdict>>

\* The side effect: only a recorded intent, once, and never after a failure row.
Effect(i) ==
  /\ i \in recorded \ effected
  /\ verdict[i] # "failed"
  /\ effected' = effected \cup {i}
  /\ UNCHANGED <<recorded, verdict>>

Close(i, v) ==
  /\ i \in recorded
  /\ verdict[i] = "open"
  /\ verdict' = [verdict EXCEPT ![i] = v]
  /\ UNCHANGED <<recorded, effected>>

Settle(i) == (Exact => i \in effected) /\ Close(i, "settled")

Fail(i) == i \notin effected /\ Close(i, "failed")

GiveUp(i) == Close(i, "unknown")

Next ==
  \E i \in Intents : Record(i) \/ Effect(i) \/ Settle(i) \/ Fail(i) \/ GiveUp(i)

Spec == Init /\ [][Next]_vars

=============================================================================
