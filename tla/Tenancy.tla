------------------------------ MODULE Tenancy ------------------------------
(***************************************************************************)
(* One Nosana lease of the Franklin container and the two loops that keep  *)
(* it: the renewer inside the container (franklin-job.mjs), which looks up *)
(* the running job, buys more time when little is left and signs a         *)
(* heartbeat, and the steward outside (steward.mjs, citizen-steward),      *)
(* which re-reads the job, signs a heartbeat and stops when the job is     *)
(* terminal or five reads in a row have failed.  Both learn the state of   *)
(* the job from the indexer behind the public jobs API, which lags.        *)
(*                                                                         *)
(* Either loop may be late without bound; the indexer and the node may be  *)
(* late too, the node by at most Linger.  Amounts of NOS are counted in    *)
(* extensions.                                                             *)
(*                                                                         *)
(* A definition whose name ends in Bug is a faulty variant of the one that *)
(* follows it; no other definition uses it.                                *)
(***************************************************************************)
EXTENDS Integers

CONSTANTS
  Interval,   \* intervalMs of the steward
  Nap,        \* the 45 seconds of the renewer
  Grace,      \* graceSeconds
  MaxFail,    \* maxConsecutiveFailures
  Length,     \* the timeout the job was posted with
  Margin,     \* MARGIN: renew when less than this is left
  Add,        \* ADD: what one extension adds
  Ceiling,    \* CEIL: a lease this long is not extended
  Reserve,    \* RES: the NOS kept to move house
  Funds,      \* the NOS of the wallet at the start
  Linger,     \* how long a job may outlive its timeout
  MaxTime     \* bound on the clock

ASSUME ConstantsAssumption ==
  /\ {Interval, Nap, Grace, Margin, Add, Ceiling, Reserve, Funds, Linger, MaxTime} \subseteq Nat
  /\ {MaxFail, Length} \subseteq Nat \ {0}

VARIABLES
  now,       \* the clock
  job,       \* the job on chain: [state, start, timeout]
  nos,       \* the NOS of the wallet
  late,      \* whether an extension reported as failed may still land
  idx,       \* the indexer's copy of the job, with the time `at' of the copy
  box,       \* where the renewer is
  woke,      \* when the renewer may go on
  pc,        \* where the steward is
  fails,     \* consecutiveFailures
  lastJob,   \* the copy the steward last read
  due,       \* when the steward may go on
  verdict    \* the clock and the job when the steward called it terminal

chain == <<job, nos, late>>
renewer == <<box, woke>>
steward == <<pc, fails, lastJob, due, verdict>>
vars == <<now, chain, idx, renewer, steward>>

----------------------------------------------------------------------------
Leases == [state : {"queued", "running", "over"}, start : Nat, timeout : Nat]
CopyOf(j) == [state |-> j.state, start |-> j.start, timeout |-> j.timeout, at |-> now]
Copies == [state : {"queued", "running", "over"}, start : Nat, timeout : Nat, at : Nat]
Unread == [state |-> "unread", start |-> 0, timeout |-> 0, at |-> 0]
End(j) == j.start + j.timeout

\* The grace is taken off the end of the lease.
IsTerminalBug(copy) ==
  \/ copy.state = "over"
  \/ copy.start > 0 /\ now + Grace > End(copy)

\* isTerminal: a terminal state, or a known lease end long past.
IsTerminal(copy) ==
  \/ copy.state = "over"
  \/ copy.start > 0 /\ now > End(copy) + Grace

\* The rule of the container.  Unlike evaluateRenewal it takes the end of a
\* job that was not claimed yet, start 0, for a time long past.
ShouldExtend(copy) ==
  /\ copy.timeout < Ceiling
  /\ copy.start = 0 \/ End(copy) - now < Margin

Affordable == nos - 1 >= Reserve

----------------------------------------------------------------------------
Init ==
  /\ now = 1
  /\ job = [state |-> "queued", start |-> 0, timeout |-> Length]
  /\ nos = Funds /\ late = FALSE
  /\ idx = CopyOf(job)
  /\ box = "off" /\ woke = 0
  /\ pc = "reading" /\ fails = 0 /\ lastJob = Unread /\ due = 0
  /\ verdict = [at |-> 0, job |-> job]

\* The renewer.

\* jobs.all or the API names the job, the API returns its copy and the rule is
\* applied to it; or nothing is found and the heartbeat is left out; or the
\* copy cannot be read.
BoxFind ==
  /\ box = "finding"
  /\ \/ box' = (IF ShouldExtend(idx) THEN "paying" ELSE "beating") /\ UNCHANGED woke
     \/ box' = "asleep" /\ woke' = now + Nap
     \/ box' = "beating" /\ UNCHANGED woke
  /\ UNCHANGED <<now, chain, idx, steward>>

\* money: too little, or unreadable, starts the next round at once, without the
\* heartbeat and without the pause.
BoxPay ==
  /\ box = "paying"
  /\ \/ Affordable /\ box' = "extending"
     \/ box' = "finding"
  /\ UNCHANGED <<now, chain, idx, woke, steward>>

Extended == /\ job' = [job EXCEPT !.timeout = @ + Add]
            /\ nos' = nos - 1

\* jobs.extend lands, fails, or fails and may land later.
BoxExtend ==
  /\ box = "extending"
  /\ box' = "beating"
  /\ \/ job.state = "running" /\ nos > 0 /\ Extended /\ UNCHANGED late
     \/ UNCHANGED chain
     \/ late' = TRUE /\ UNCHANGED <<job, nos>>
  /\ UNCHANGED <<now, idx, woke, steward>>

\* beat, which swallows every error.
BoxBeat ==
  /\ box = "beating"
  /\ box' = "asleep" /\ woke' = now + Nap
  /\ UNCHANGED <<now, chain, idx, steward>>

BoxWake ==
  /\ box = "asleep" /\ now >= woke
  /\ box' = "finding" /\ woke' = 0
  /\ UNCHANGED <<now, chain, idx, steward>>

Renewer == BoxFind \/ BoxPay \/ BoxExtend \/ BoxBeat \/ BoxWake

----------------------------------------------------------------------------
\* The steward.

Read ==
  /\ pc = "reading"
  /\ lastJob' = idx
  /\ fails' = 0
  /\ pc' = "beating"
  /\ UNCHANGED <<now, chain, idx, renewer, due, verdict>>

\* A failure after a good read is not counted.
ReadFailsBug ==
  /\ pc = "reading"
  /\ fails' = IF lastJob = Unread THEN fails + 1 ELSE fails
  /\ pc' = IF fails' >= MaxFail THEN "threw" ELSE "beating"
  /\ UNCHANGED <<now, chain, idx, renewer, lastJob, due, verdict>>

ReadFails ==
  /\ pc = "reading"
  /\ fails' = fails + 1
  /\ pc' = IF fails' >= MaxFail THEN "threw" ELSE "beating"
  /\ UNCHANGED <<now, chain, idx, renewer, lastJob, due, verdict>>

\* The blockhash is the one thing a heartbeat cannot do without.
Beat ==
  /\ pc = "beating"
  /\ pc' \in {"judging", "threw"}
  /\ UNCHANGED <<now, chain, idx, renewer, fails, lastJob, due, verdict>>

\* The check is on the last copy read, however many rounds ago that was.
Judge ==
  /\ pc = "judging"
  /\ IF IsTerminal(lastJob)
     THEN /\ pc' = "ended"
          /\ verdict' = [at |-> now, job |-> job]
          /\ UNCHANGED due
     ELSE /\ pc' = "sleeping"
          /\ due' = now + Interval
          /\ UNCHANGED verdict
  /\ UNCHANGED <<now, chain, idx, renewer, fails, lastJob>>

\* At the bound of the clock a sleep ends at once.
Wake ==
  /\ pc = "sleeping" /\ (now >= due \/ now = MaxTime)
  /\ pc' = "reading" /\ due' = 0
  /\ UNCHANGED <<now, chain, idx, renewer, fails, lastJob, verdict>>

Steward == Read \/ ReadFails \/ Beat \/ Judge \/ Wake

----------------------------------------------------------------------------
\* The market, the node, the indexer and the clock.

\* A node claims the job and starts the container.
Claim ==
  /\ job.state = "queued"
  /\ job' = [job EXCEPT !.state = "running", !.start = now]
  /\ box' = "finding"
  /\ UNCHANGED <<now, nos, late, idx, woke, steward>>

\* The job ends at its timeout, or earlier with its node, and takes the
\* container with it.
Finish ==
  /\ job.state = "running"
  /\ job' = [job EXCEPT !.state = "over"]
  /\ box' = "off" /\ woke' = 0
  /\ UNCHANGED <<now, nos, late, idx, steward>>

LateExtension ==
  /\ late /\ job.state = "running" /\ nos > 0
  /\ late' = FALSE
  /\ Extended
  /\ UNCHANGED <<now, idx, renewer, steward>>

Index ==
  /\ idx # CopyOf(job)
  /\ idx' = CopyOf(job)
  /\ UNCHANGED <<now, chain, renewer, steward>>

Tick ==
  /\ now < MaxTime
  /\ job.state = "running" => now < End(job) + Linger
  /\ now' = now + 1
  /\ UNCHANGED <<chain, idx, renewer, steward>>

Next == Renewer \/ Steward \/ Claim \/ Finish \/ LateExtension \/ Index \/ Tick

\* The steward is a running process, its sleep and its requests come back, and
\* the indexer catches up with the chain.
Fairness == WF_vars(Steward) /\ WF_vars(Tick) /\ WF_vars(Index)

Spec == Init /\ [][Next]_vars /\ Fairness

----------------------------------------------------------------------------
TypeOK ==
  /\ now \in Nat /\ nos \in Nat /\ late \in BOOLEAN
  /\ job \in Leases /\ (job.state = "queued" <=> job.start = 0)
  /\ idx \in Copies
  /\ box \in {"off", "finding", "paying", "extending", "beating", "asleep"}
  /\ woke \in Nat /\ due \in Nat /\ fails \in Nat
  /\ pc \in {"reading", "beating", "judging", "sleeping", "ended", "threw"}
  /\ fails < MaxFail \/ pc = "threw"
  /\ lastJob \in Copies \cup {Unread}
  /\ verdict.at \in Nat /\ verdict.job \in Leases

(***************************************************************************)
(* The steward stays for the whole lease: when it calls the job terminal   *)
(* the job is over or its time is up, although the end it judged by may    *)
(* have been moved since by an extension it did not read.  The grace is    *)
(* what makes this so, for a copy of the chain no older than the grace,    *)
(* less what a job may outlive its timeout.  Failed reads in a row, three  *)
(* with the default interval and grace, or an indexer that lags longer,    *)
(* make the copy older than that, and then the steward may leave a lease   *)
(* that was extended.                                                      *)
(***************************************************************************)
StopIsRight ==
  pc = "ended" /\ verdict.at - lastJob.at + Linger <= Grace =>
    verdict.job.state = "over" \/ verdict.at > End(verdict.job)

\* When the job is over the steward stops, in one way or the other.
EndsAfterJob == job.state = "over" ~> pc \in {"ended", "threw"}

=============================================================================
