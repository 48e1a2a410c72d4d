--------------------------- MODULE TenancyProofs ---------------------------
(***************************************************************************)
(* The steward's grace does what it is for, whatever the intervals, the    *)
(* margins and the length of the lease; and it does not stay for ever.     *)
(***************************************************************************)
EXTENDS Tenancy, TLAPS

\* What a copy of the job still says of it.  A copy that misses an extension
\* was made no later than the lease it shows could be extended.
Holds(copy) ==
  /\ copy.at <= now
  /\ copy.state = "over" => job.state = "over"
  /\ copy.start > 0 => copy.start = job.start
  /\ copy.timeout <= job.timeout
  /\ copy.start > 0 /\ copy.timeout < job.timeout => copy.at <= End(copy) + Linger

Inv ==
  /\ TypeOK /\ StopIsRight
  /\ now >= 1
  /\ job.state = "running" => now <= End(job) + Linger
  /\ Holds(idx)
  /\ lastJob # Unread => Holds(lastJob)

----------------------------------------------------------------------------
LEMMA InitInv == ASSUME Init PROVE Inv
<1>1. /\ job = [state |-> "queued", start |-> 0, timeout |-> Length] /\ job \in Leases
      /\ idx = [state |-> "queued", start |-> 0, timeout |-> Length, at |-> 1]
      /\ idx \in Copies /\ now = 1 /\ lastJob = Unread /\ pc = "reading"
  BY ConstantsAssumption DEF Init, CopyOf, Leases, Copies
<1>2. TypeOK
  <2>1. /\ nos \in Nat /\ late \in BOOLEAN /\ box = "off" /\ woke = 0 /\ due = 0 /\ fails = 0
    BY ConstantsAssumption DEF Init
  <2>2. job.state = "queued" /\ job.start = 0 /\ 0 < MaxFail
    BY <1>1, ConstantsAssumption
  <2>3. verdict.at = 0 /\ verdict.job = job
    BY DEF Init
  <2> QED BY <1>1, <2>1, <2>2, <2>3 DEF TypeOK
<1>3. Holds(idx)
  BY <1>1, ConstantsAssumption DEF Holds
<1> QED
  BY <1>1, <1>2, <1>3 DEF Inv, StopIsRight

\* Every step that leaves the job and the copies alone.
LEMMA IdleKeeps ==
  ASSUME Inv, TypeOK', UNCHANGED <<now, job, idx, lastJob, verdict>>,
         pc' = "ended" => pc = "ended"
  PROVE  Inv'
  BY DEF Inv, Holds, End, StopIsRight

\* A step that reads nothing and judges nothing: the job and the clock go on.
LEMMA JobKeeps ==
  ASSUME Inv, TypeOK', UNCHANGED <<idx, pc, lastJob, verdict>>,
         now' >= now, job'.timeout >= job.timeout,
         job.state = "over" => job'.state = "over",
         job.start > 0 => job'.start = job.start,
         job'.state = "running" => now' <= End(job)' + Linger,
         job'.timeout = job.timeout \/ (job.state = "running" /\ now' = now)
  PROVE  Inv'
<1>1. /\ now \in Nat /\ now' \in Nat /\ job \in Leases /\ job' \in Leases
      /\ idx \in Copies /\ lastJob \in Copies \cup {Unread}
  BY DEF Inv, TypeOK
<1>2. ASSUME NEW copy \in Copies, Holds(copy)
      PROVE  Holds(copy)'
  BY <1>1, <1>2, ConstantsAssumption DEF Inv, Holds, End, Leases, Copies
<1> QED
  BY <1>1, <1>2, ConstantsAssumption DEF Inv, StopIsRight, Holds

\* An extension, in time or late.
LEMMA ExtensionKeeps ==
  ASSUME Inv, job.state = "running", nos > 0, Extended, late' \in BOOLEAN,
         UNCHANGED <<now, idx, woke, steward>>,
         box' \in {"off", "finding", "paying", "extending", "beating", "asleep"}
  PROVE  Inv'
<1>1. now \in Nat /\ job \in Leases /\ {Add, Linger} \subseteq Nat /\ nos \in Nat
  BY ConstantsAssumption DEF Inv, TypeOK
<1>2. /\ job'.state = job.state /\ job'.start = job.start /\ job'.timeout = job.timeout + Add
      /\ job' \in Leases /\ nos' \in Nat
  BY <1>1 DEF Extended, Leases
<1>3. TypeOK'
  BY <1>2 DEF steward, Inv, TypeOK
<1>4. job'.timeout >= job.timeout /\ now' <= End(job)' + Linger
  BY <1>1, <1>2 DEF Inv, End, Leases
<1> QED BY <1>1, <1>2, <1>3, <1>4, JobKeeps DEF steward

----------------------------------------------------------------------------
\* The renewer changes nothing but its own place, except when it extends.
LEMMA RenewerKeeps == ASSUME Inv, Renewer PROVE Inv'
<1>1. CASE BoxFind \/ BoxPay \/ BoxBeat \/ BoxWake
  <2>1. UNCHANGED <<now, chain, idx, steward>>
    BY <1>1 DEF BoxFind, BoxPay, BoxBeat, BoxWake
  <2>2. TypeOK'
    BY <1>1, <2>1, ConstantsAssumption
    DEF BoxFind, BoxPay, BoxBeat, BoxWake, chain, steward, Inv, TypeOK
  <2> QED BY <2>1, <2>2, IdleKeeps DEF chain, steward
<1>2. CASE BoxExtend
  <2>1. CASE UNCHANGED <<job, nos>> /\ late' \in {late, TRUE}
    <3>1. TypeOK'
      BY <1>2, <2>1 DEF BoxExtend, steward, Inv, TypeOK
    <3> QED BY <1>2, <2>1, <3>1, IdleKeeps DEF BoxExtend, steward
  <2>2. CASE job.state = "running" /\ nos > 0 /\ Extended /\ UNCHANGED late
    <3>1. late' \in BOOLEAN
      BY <2>2 DEF Inv, TypeOK
    <3> QED BY <1>2, <2>2, <3>1, ExtensionKeeps DEF BoxExtend
  <2> QED BY <1>2, <2>1, <2>2 DEF BoxExtend, chain
<1> QED BY <1>1, <1>2 DEF Renewer

LEMMA StewardKeeps == ASSUME Inv, Steward PROVE Inv'
<1>1. CASE Read
  <2>1. /\ UNCHANGED <<now, job, idx, verdict>> /\ lastJob' = idx /\ pc' = "beating"
        /\ TypeOK'
    BY <1>1, ConstantsAssumption DEF Read, chain, renewer, Inv, TypeOK
  <2> QED BY <2>1 DEF Inv, Holds, End, StopIsRight
<1>2. CASE ReadFails \/ Beat \/ Wake
  <2>1. /\ UNCHANGED <<now, chain, idx, renewer, lastJob, verdict>>
        /\ pc' # "ended"
    BY <1>2 DEF ReadFails, Beat, Wake
  <2>2. TypeOK'
    BY <1>2, <2>1, ConstantsAssumption
    DEF ReadFails, Beat, Wake, chain, renewer, Inv, TypeOK
  <2> QED BY <2>1, <2>2, IdleKeeps DEF chain
<1>3. CASE Judge
  <2>1. TypeOK' /\ UNCHANGED <<now, job, idx, lastJob>>
    BY <1>3, ConstantsAssumption DEF Judge, chain, renewer, Inv, TypeOK
  <2>2. CASE ~IsTerminal(lastJob)
    BY <1>3, <2>1, <2>2, IdleKeeps DEF Judge
  <2>3. CASE IsTerminal(lastJob)
    <3>1. pc' = "ended" /\ verdict' = [at |-> now, job |-> job]
      BY <1>3, <2>3 DEF Judge
    <3>2. lastJob \in Copies /\ Holds(lastJob)
      BY <2>3 DEF Inv, TypeOK, IsTerminal, Unread
    <3>3. /\ now \in Nat /\ job \in Leases
          /\ {Linger, Grace} \subseteq Nat
      BY ConstantsAssumption DEF Inv, TypeOK
    <3>4. job.state = "over" \/ now > End(job) \/ now - lastJob.at + Linger > Grace
      BY <2>3, <3>2, <3>3 DEF IsTerminal, Holds, End, Leases, Copies
    <3>5. StopIsRight'
      BY <2>1, <3>1, <3>2, <3>3, <3>4 DEF StopIsRight, End, Copies
    <3> QED BY <2>1, <3>5 DEF Inv, Holds, End
  <2> QED BY <2>2, <2>3
<1> QED BY <1>1, <1>2, <1>3 DEF Steward

LEMMA OthersKeep ==
  ASSUME Inv, Claim \/ Finish \/ LateExtension \/ Index \/ Tick
  PROVE  Inv'
<1>0. now \in Nat /\ job \in Leases /\ Linger \in Nat
  BY ConstantsAssumption DEF Inv, TypeOK
<1>1. CASE Claim
  <2>1. /\ job'.state = "running" /\ job'.start = now /\ job'.timeout = job.timeout
        /\ job' \in Leases /\ job.start = 0 /\ job.state = "queued" /\ now >= 1
        /\ UNCHANGED <<now, nos, late, idx, woke, steward>> /\ box' = "finding"
    BY <1>0, <1>1 DEF Claim, Leases, Inv, TypeOK
  <2>2. TypeOK'
    BY <1>0, <2>1 DEF steward, Inv, TypeOK
  <2> QED BY <1>0, <2>1, <2>2, JobKeeps DEF steward, End, Leases
<1>2. CASE Finish
  <2>1. /\ job'.state = "over" /\ job'.start = job.start /\ job'.timeout = job.timeout
        /\ job' \in Leases /\ job.state = "running"
        /\ UNCHANGED <<now, nos, late, idx, steward>> /\ box' = "off" /\ woke' = 0
    BY <1>0, <1>2 DEF Finish, Leases
  <2>2. TypeOK'
    BY <1>0, <2>1 DEF steward, Inv, TypeOK
  <2> QED BY <1>0, <2>1, <2>2, JobKeeps DEF steward, Leases
<1>3. CASE LateExtension
  <2>1. box' \in {"off", "finding", "paying", "extending", "beating", "asleep"}
    BY <1>3 DEF LateExtension, renewer, Inv, TypeOK
  <2> QED BY <1>3, <2>1, ExtensionKeeps DEF LateExtension, renewer
<1>4. CASE Index
  <2>1. /\ idx' = [state |-> job.state, start |-> job.start, timeout |-> job.timeout, at |-> now]
        /\ UNCHANGED <<now, chain, renewer, steward>>
    BY <1>4 DEF Index, CopyOf
  <2>2. idx' \in Copies /\ Holds(idx)'
    BY <1>0, <2>1 DEF chain, Holds, Leases, Copies
  <2>3. TypeOK'
    BY <2>1, <2>2 DEF chain, renewer, steward, Inv, TypeOK
  <2>4. UNCHANGED <<now, job, lastJob, verdict, pc>>
    BY <2>1 DEF chain, steward
  <2> QED
    BY <2>2, <2>3, <2>4 DEF Inv, StopIsRight, Holds, End
<1>5. CASE Tick
  <2>1. UNCHANGED <<chain, idx, renewer, steward>> /\ now' = now + 1
    BY <1>5 DEF Tick
  <2>2. TypeOK'
    BY <1>0, <2>1 DEF chain, renewer, steward, Inv, TypeOK
  <2>3. job'.state = "running" => now' <= End(job)' + Linger
    BY <1>0, <1>5, <2>1 DEF Tick, chain, End, Leases
  <2>4. /\ UNCHANGED <<idx, pc, lastJob, verdict>> /\ now' >= now
        /\ job'.timeout >= job.timeout /\ job'.timeout = job.timeout
        /\ (job.state = "over" => job'.state = "over")
        /\ (job.start > 0 => job'.start = job.start)
    BY <1>0, <2>1 DEF Leases, chain, steward
  <2> QED BY <2>2, <2>3, <2>4, JobKeeps
<1> QED BY <1>1, <1>2, <1>3, <1>4, <1>5

LEMMA NextInv == ASSUME Inv, [Next]_vars PROVE Inv'
<1>1. CASE UNCHANGED vars
  BY <1>1 DEF vars, chain, renewer, steward, Inv, TypeOK, StopIsRight, Holds, End
<1> QED BY <1>1, RenewerKeeps, StewardKeeps, OthersKeep DEF Next

\* Types of every reachable state; a steward that goes on has read the job
\* within its bound of failures.
THEOREM TenancyTyped == Spec => []TypeOK
<1>1. Inv => TypeOK
  BY DEF Inv
<1> QED BY <1>1, InitInv, NextInv, PTL DEF Spec

\* stewardLoop calls a job terminal too early only on a copy older than its
\* grace allows.
THEOREM StewardStays == Spec => []StopIsRight
<1>1. Inv => StopIsRight
  BY DEF Inv
<1> QED BY <1>1, InitInv, NextInv, PTL DEF Spec

----------------------------------------------------------------------------
(***************************************************************************)
(* What EndsAfterJob leaves to fairness.  Once the indexer knows that the  *)
(* job is over the steward has a bounded number of steps left: a read that *)
(* succeeds is its last one, and one that fails uses up its failures.      *)
(***************************************************************************)
Known == idx.state = "over"
RoundsLeft == 4 * (MaxFail - fails)
StepsLeft ==
  CASE pc \in {"ended", "threw"} -> 0
    [] pc = "judging" /\ lastJob.state = "over" -> 1
    [] pc = "beating" /\ lastJob.state = "over" -> 2
    [] pc = "reading" -> RoundsLeft + 2
    [] pc = "sleeping" -> RoundsLeft + 3
    [] pc = "judging" /\ lastJob.state # "over" -> RoundsLeft + 4
    [] pc = "beating" /\ lastJob.state # "over" -> RoundsLeft + 5

LEMMA StepsBound ==
  ASSUME TypeOK
  PROVE  /\ StepsLeft \in 0 .. 4 * MaxFail + 5
         /\ pc \notin {"ended", "threw"} => StepsLeft > 0
<1> USE ConstantsAssumption DEF TypeOK, StepsLeft, RoundsLeft
<1>1. CASE pc \in {"ended", "threw"}
  BY <1>1
<1>2. CASE pc \in {"reading", "sleeping"}
  BY <1>2
<1>3. CASE pc \in {"judging", "beating"}
  BY <1>3
<1> QED
  BY <1>1, <1>2, <1>3

LEMMA StewardCounts ==
  ASSUME TypeOK, TypeOK', Known, Steward
  PROVE  StepsLeft' < StepsLeft
<1> USE ConstantsAssumption DEF TypeOK, StepsLeft, RoundsLeft
<1>1. CASE Read
  BY <1>1 DEF Read, Known
<1>2. CASE ReadFails
  BY <1>2 DEF ReadFails
<1>3. CASE Beat
  <2>1. pc = "beating" /\ pc' \in {"judging", "threw"} /\ lastJob' = lastJob /\ fails' = fails
    BY <1>3 DEF Beat
  <2>2. CASE pc' = "threw"
    BY <2>1, <2>2
  <2>3. CASE pc' = "judging"
    BY <2>1, <2>3
  <2> QED
    BY <2>1, <2>2, <2>3
<1>4. CASE Judge
  <2>1. pc = "judging" /\ lastJob' = lastJob /\ fails' = fails
    BY <1>4 DEF Judge
  <2>2. \/ pc' = "ended"
        \/ pc' = "sleeping" /\ lastJob.state # "over"
    BY <1>4 DEF Judge, IsTerminal
  <2> QED
    BY <2>1, <2>2
<1>5. CASE Wake
  BY <1>5 DEF Wake
<1> QED
  BY <1>1, <1>2, <1>3, <1>4, <1>5 DEF Steward

\* Nobody but the steward changes where it is, what it read and how often it failed.
LEMMA OnlySteward ==
  ASSUME [Next]_vars, ~Steward
  PROVE  pc' = pc /\ fails' = fails /\ lastJob' = lastJob
<1> USE DEF steward
<1>1. CASE Renewer
  BY <1>1 DEF Renewer, BoxFind, BoxPay, BoxExtend, BoxBeat, BoxWake
<1>2. CASE Claim \/ Finish \/ LateExtension \/ Index \/ Tick
  BY <1>2 DEF Claim, Finish, LateExtension, Index, Tick
<1>3. CASE UNCHANGED vars
  BY <1>3 DEF vars
<1> QED
  BY <1>1, <1>2, <1>3 DEF Next

\* What the indexer knows it does not forget: nothing happens to a job that is over.
LEMMA KnownStays ==
  ASSUME Inv, Known, [Next]_vars
  PROVE  Known'
<1>1. job.state = "over"
  BY DEF Inv, Holds, Known
<1>2. CASE Index
  BY <1>1, <1>2 DEF Index, CopyOf, Known
<1>3. CASE ~Index
  <2>1. idx' = idx
    BY <1>3 DEF Next, Renewer, Steward, BoxFind, BoxPay, BoxExtend, BoxBeat, BoxWake, Read,
         ReadFails, Beat, Judge, Wake, Claim, Finish, LateExtension, Tick, vars
  <2> QED
    BY <2>1 DEF Known
<1> QED
  BY <1>2, <1>3

\* From the moment the indexer shows the job as over the steward ends within
\* 4 * MaxFail + 5 of its own steps, however its reads and its heartbeats fail, and
\* nothing in the world adds to that number (steward.mjs:127-193).
THEOREM StewardComesToAnEnd ==
  Spec => [][Known => /\ Known'
                      /\ StepsLeft \in 0 .. 4 * MaxFail + 5
                      /\ pc \notin {"ended", "threw"} => StepsLeft > 0
                      /\ StepsLeft' <= StepsLeft
                      /\ Steward => StepsLeft' < StepsLeft]_vars
<1> DEFINE Countdown == Known => /\ Known'
                                 /\ StepsLeft \in 0 .. 4 * MaxFail + 5
                                 /\ pc \notin {"ended", "threw"} => StepsLeft > 0
                                 /\ StepsLeft' <= StepsLeft
                                 /\ Steward => StepsLeft' < StepsLeft
<1>1. ASSUME Inv, [Next]_vars PROVE Countdown
  <2> SUFFICES ASSUME Known
               PROVE  /\ Known'
                      /\ StepsLeft \in 0 .. 4 * MaxFail + 5
                      /\ pc \notin {"ended", "threw"} => StepsLeft > 0
                      /\ StepsLeft' <= StepsLeft
                      /\ Steward => StepsLeft' < StepsLeft
    OBVIOUS
  <2>1. Known' /\ TypeOK /\ TypeOK'
    BY <1>1, KnownStays, NextInv DEF Inv
  <2>2. StepsLeft \in 0 .. 4 * MaxFail + 5 /\ (pc \notin {"ended", "threw"} => StepsLeft > 0)
    BY <2>1, StepsBound
  <2>3. StepsLeft \in Int /\ StepsLeft' \in Int
    BY <2>1, ConstantsAssumption DEF StepsLeft, RoundsLeft, TypeOK
  <2>4. CASE Steward
    BY <2>1, <2>2, <2>3, <2>4, StewardCounts
  <2>5. CASE ~Steward
    <3>1. StepsLeft' = StepsLeft
      BY <1>1, <2>5, OnlySteward DEF StepsLeft, RoundsLeft
    <3> QED
      BY <2>1, <2>2, <2>3, <2>5, <3>1
  <2> QED
    BY <2>4, <2>5
<1>2. Inv /\ [Next]_vars => [Countdown]_vars
  BY <1>1
<1> QED
  BY <1>2, InitInv, NextInv, PTL DEF Spec

=============================================================================
