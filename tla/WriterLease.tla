----------------------------- MODULE WriterLease -----------------------------
(***************************************************************************)
(* The writer lease of skills/self/shelter/python/modal-nosana-bootstrap   *)
(* .mjs: a lock file which at most one bootstrap on the machine should     *)
(* hold.  It is created exclusively; a lock older than fifteen minutes is  *)
(* unlinked and created anew, in two system calls; it is released by       *)
(* reading it and unlinking it when it carries the own token.              *)
(*                                                                         *)
(* A run is one invocation of bootstrapNosanaFromModal and its own token.  *)
(* Nothing keeps two runs from meeting the same old lock, or a run from    *)
(* outliving its own: its requests have no time limit and a machine may    *)
(* sleep.  What came of that is kept in two history variables.             *)
(*                                                                         *)
(* A definition whose name ends in Bug is a faulty variant of the one that *)
(* follows it; no other definition uses it.                                *)
(***************************************************************************)
EXTENDS Naturals, FiniteSets

CONSTANTS
  Runs,
  NoRun,
  Earlier, \* the token of a bootstrap that died before these runs
  Worlds   \* the sets of perils a behaviour may be exposed to

(***************************************************************************)
(* "death": a run may die at any step.  The others concern the job, see    *)
(* Bootstrap.                                                              *)
(***************************************************************************)
Perils == {"death", "index", "search", "traffic", "queue", "outage", "parting"}

ASSUME LeaseAssumption ==
  /\ NoRun \notin Runs /\ Earlier \notin Runs \cup {NoRun}
  /\ Worlds \subseteq SUBSET Perils

VARIABLES
  stage,    \* where each run is
  lock,     \* whose token the lock file carries, NoRun when there is no file
  stale,    \* the file is older than WRITER_LEASE_MAX_AGE_MS
  judged,   \* history: whose lock each run has judged old
  outlived, \* history: a run's lock got old while it held it
  perils

leaseVars == <<stage, lock, stale, judged, outlived, perils>>
history == <<judged, outlived, perils>>

Taking(r) == stage[r] \in {"exists", "old", "unlinked"}
Inside(r) == stage[r] \in {"inside", "releasing", "unlinking"}
Under(peril) == peril \in perils

Move(r, to) == stage' = [stage EXCEPT ![r] = to]

LeaseInit ==
  /\ stage = [r \in Runs |-> "new"]
  /\ lock \in {NoRun, Earlier}
  /\ stale = FALSE
  /\ judged = [r \in Runs |-> NoRun]
  /\ outlived = FALSE
  /\ perils \in Worlds

----------------------------------------------------------------------------
\* openSync with the flag w.
CreateBug(r) ==
  /\ stage[r] = "new"
  /\ lock' = r /\ stale' = FALSE
  /\ Move(r, "inside")
  /\ UNCHANGED history

\* openSync with the flag wx, and the token written into the file.
Create(r) ==
  /\ stage[r] = "new"
  /\ lock = NoRun
  /\ lock' = r /\ stale' = FALSE
  /\ Move(r, "inside")
  /\ UNCHANGED history

FindLock(r) ==
  /\ stage[r] = "new"
  /\ lock # NoRun
  /\ Move(r, "exists")
  /\ UNCHANGED <<lock, stale, history>>

JudgeOld(r) ==
  /\ Move(r, "old")
  /\ judged' = [judged EXCEPT ![r] = lock]

\* Any lock passes for an old one.
JudgeBug(r) ==
  /\ stage[r] = "exists"
  /\ IF lock # NoRun THEN JudgeOld(r) ELSE Move(r, "over") /\ UNCHANGED judged
  /\ UNCHANGED <<lock, stale, outlived, perils>>

\* A lock that is gone again makes statSync throw, a young one is respected.
Judge(r) ==
  /\ stage[r] = "exists"
  /\ IF lock # NoRun /\ stale THEN JudgeOld(r)
                              ELSE Move(r, "over") /\ UNCHANGED judged
  /\ UNCHANGED <<lock, stale, outlived, perils>>

\* Unlinks whatever the path names by now; a missing file is an exception.
Unlink(r) ==
  /\ stage[r] = "old"
  /\ Move(r, IF lock = NoRun THEN "over" ELSE "unlinked")
  /\ lock' = NoRun /\ stale' = FALSE
  /\ UNCHANGED history

Recreate(r) ==
  /\ stage[r] = "unlinked"
  /\ IF lock = NoRun
     THEN lock' = r /\ stale' = FALSE /\ Move(r, "inside")
     ELSE Move(r, "over") /\ UNCHANGED <<lock, stale>>
  /\ UNCHANGED history

\* The finally clause, reached by a return or by an exception.
Leave(r) ==
  /\ stage[r] = "inside"
  /\ Move(r, "releasing")
  /\ UNCHANGED <<lock, stale, history>>

\* Takes a lock that carries the own token for another's.
ReadTokenBug(r) ==
  /\ stage[r] = "releasing"
  /\ Move(r, IF lock # r THEN "unlinking" ELSE "over")
  /\ UNCHANGED <<lock, stale, history>>

ReadToken(r) ==
  /\ stage[r] = "releasing"
  /\ Move(r, IF lock = r THEN "unlinking" ELSE "over")
  /\ UNCHANGED <<lock, stale, history>>

\* Unlinks whatever the path names by now; a missing file is caught.
UnlinkOwn(r) ==
  /\ stage[r] = "unlinking"
  /\ lock' = NoRun /\ stale' = FALSE
  /\ Move(r, "over")
  /\ UNCHANGED history

Die(r) ==
  /\ Under("death")
  /\ Taking(r) \/ Inside(r)
  /\ Move(r, "dead")
  /\ UNCHANGED <<lock, stale, history>>

\* Fifteen minutes pass, whatever the holder is doing.
LockAges ==
  /\ lock # NoRun /\ ~stale
  /\ stale' = TRUE
  /\ outlived' = (outlived \/ \E r \in Runs : r = lock /\ Inside(r))
  /\ UNCHANGED <<stage, lock, judged, perils>>

Acquire(r) ==
  Create(r) \/ FindLock(r) \/ Judge(r) \/ Unlink(r) \/ Recreate(r)

Release(r) == ReadToken(r) \/ UnlinkOwn(r)

LeaseNext ==
  \/ \E r \in Runs : Acquire(r) \/ Leave(r) \/ Release(r) \/ Die(r)
  \/ LockAges

LeaseSpec == LeaseInit /\ [][LeaseNext]_leaseVars

----------------------------------------------------------------------------
Stages == {"new", "exists", "old", "unlinked", "inside", "releasing", "unlinking",
           "over", "dead"}

LeaseTypeOK ==
  /\ stage \in [Runs -> Stages]
  /\ lock \in Runs \cup {NoRun, Earlier}
  /\ stale \in BOOLEAN
  /\ judged \in [Runs -> Runs \cup {NoRun, Earlier}]
  /\ outlived \in BOOLEAN
  /\ perils \in Worlds

\* Two runs went on to replace the same old lock.
Raced == \E r, s \in Runs : r # s /\ judged[r] # NoRun /\ judged[r] = judged[s]

\* "writer lease admits one bootstrap process" (test_modal_nosana_bootstrap.mjs:39)
\* in every behaviour but two kinds, which the code does not prevent: that of a run
\* that outlived its lock, and that of two runs that judged the same lock old, of
\* which the second unlinks what the first has created since
\* (modal-nosana-bootstrap.mjs:61-72, :76-84).
OneWriter ==
  (\E r, s \in Runs : r # s /\ Inside(r) /\ Inside(s)) => outlived \/ Raced

=============================================================================
