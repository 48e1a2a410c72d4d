------------------------ MODULE ShelterRuntimeProofs ------------------------
(***************************************************************************)
(* Theorems of ShelterRuntime, for any number of job slots, any ceiling,   *)
(* margin, reserve and caps: the types, that no lease grows past the       *)
(* ceiling and the cap of two jobs, in every weather; the reserve and the  *)
(* fee floor where the outcome of a list transaction is learnt; and, when  *)
(* nothing fails, that there is always a shelter as long as the loops can  *)
(* pay for what they have to do.                                           *)
(*                                                                         *)
(* The ceiling is not inductive: an extension may land long after the turn *)
(* that sent it, so every timeout in flight has to be within the ceiling,  *)
(* and for that the timeout a loop read must still be below it when it     *)
(* signs.  That a loop reads a timeout at all, and not the 0 of a job that *)
(* is over, takes that a container runs only while its job does.           *)
(***************************************************************************)
EXTENDS ShelterRuntime, FiniteSetTheorems, TLAPS

Bounded(j) ==
  /\ Alive(j) => state[j] = "running"
  /\ state[j] = "running" => length[j] > 0
  /\ length[j] <= Ceiling
  /\ \A t \in ext[j] : t <= Ceiling
  /\ pc[j] \in {"affording", "extending"} => seen[j] < Ceiling

Inv == TypeOK /\ \A j \in Jobs : Bounded(j)

----------------------------------------------------------------------------
LEMMA InitInv == ASSUME Init PROVE Inv
<1>1. PICK first \in Jobs :
        /\ pc = [j \in Jobs |-> IF j = first THEN "asleep" ELSE "off"]
        /\ state = [j \in Jobs |-> IF j = first THEN "running" ELSE "none"]
        /\ length = [j \in Jobs |-> IF j = first THEN 1 ELSE 0]
  BY DEF Init
<1>2. nos \in Nat /\ sol \in Nat /\ due \in 1 .. RefillPeriod
  BY ParametersAssumption DEF Init
<1>4. TypeOK
  BY <1>1, <1>2, ParametersAssumption DEF Init, TypeOK
<1>3. \A j \in Jobs : Bounded(j)
  BY <1>1, ParametersAssumption DEF Init, Bounded, Alive
<1> QED BY <1>3, <1>4 DEF Inv

\* A loop that goes on to a step which signs nothing, or to sleep, keeps what it
\* and the others are bound to, as long as the chain stays as it is.
LEMMA LoopKeeps ==
  ASSUME Inv, NEW j \in Jobs, NEW to \in {"asleep"} \cup Turning, Alive(j),
         Goto(j, to), to \in {"affording", "extending"} => seen'[j] < Ceiling,
         seen' \in [Jobs -> Nat], \A k \in Jobs \ {j} : seen'[k] = seen[k],
         target' \in [Jobs -> Jobs \cup {NoJob}], done' \in [Jobs -> BOOLEAN],
         short' = short, orphans' \subseteq {s \in Jobs : state[s] # "none"},
         UNCHANGED <<leases, wallet, due, weather>>
  PROVE  Inv'
<1>1. TypeOK'
  BY DEF Inv, TypeOK, Goto, leases, wallet
<1>2. ASSUME NEW k \in Jobs PROVE Bounded(k)'
  <2>1. Bounded(k) BY DEF Inv
  <2>2. pc'[k] = IF k = j THEN to ELSE pc[k]
    BY DEF Goto, Inv, TypeOK
  <2> QED BY <2>1, <2>2 DEF Bounded, Alive, leases
<1> QED BY <1>1, <1>2 DEF Inv

LEMMA SleepKeeps ==
  ASSUME Inv, NEW j \in Jobs, Alive(j), Sleep(j), done' \in [Jobs -> BOOLEAN],
         short' = short, orphans' \subseteq {s \in Jobs : state[s] # "none"},
         UNCHANGED <<leases, wallet, due, weather>>
  PROVE  Inv'
<1>1. /\ seen' \in [Jobs -> Nat] /\ \A k \in Jobs \ {j} : seen'[k] = seen[k]
      /\ target' \in [Jobs -> Jobs \cup {NoJob}]
      /\ Goto(j, "asleep")
  BY DEF Sleep, Inv, TypeOK
<1> QED BY <1>1, LoopKeeps

----------------------------------------------------------------------------
\* The first half of a turn: the own lease.
LEMMA ExtendKeeps ==
  ASSUME Inv, NEW j \in Jobs,
         ReadOwnJob(j) \/ ReadWallet(j) \/ SendExtension(j)
           \/ ExtensionConfirmed(j) \/ ExtensionRefused(j) \/ SkipReplacement(j)
  PROVE  Inv'
<1>0. TypeOK /\ Bounded(j) BY DEF Inv
<1>1. CASE ReadOwnJob(j)
  <2>1. PICK t \in Shown(j) : seen' = [seen EXCEPT ![j] = t]
    BY <1>1 DEF ReadOwnJob
  <2>2. t \in Nat
    BY <1>0, <1>1, <2>1 DEF ReadOwnJob, Shown, Bounded, Alive, TypeOK
  <2>3. seen' \in [Jobs -> Nat] /\ seen'[j] = t /\ \A k \in Jobs \ {j} : seen'[k] = seen[k]
    BY <1>0, <2>1, <2>2 DEF TypeOK
  <2>4. CASE ShouldExtend(j, seen'[j])
    BY <1>0, <1>1, <2>3, <2>4, LoopKeeps
       DEF past, ReadOwnJob, ShouldExtend, Turning, Alive, TypeOK, Inv
  <2>5. CASE ~ShouldExtend(j, seen'[j])
    BY <1>0, <1>1, <2>3, <2>5, LoopKeeps DEF past, ReadOwnJob, Turning, Alive, TypeOK, Inv
  <2> QED BY <2>4, <2>5
<1>2. CASE ReadWallet(j)
  BY <1>0, <1>2, LoopKeeps DEF past, ReadWallet, Turning, Alive, TypeOK, Bounded
<1>3. CASE SendExtension(j)
  <2>1. seen[j] + 1 \in Nat /\ seen[j] + 1 <= Ceiling
    BY <1>0, <1>3, ParametersAssumption DEF SendExtension, Bounded, TypeOK
  <2>2. TypeOK'
    BY <1>0, <1>3, <2>1
       DEF SendExtension, Extension, Goto, Turning, TypeOK, wallet, past
  <2>3. ASSUME NEW k \in Jobs PROVE Bounded(k)'
    BY <1>0, <1>3, <2>1 DEF SendExtension, Extension, Goto, Bounded, Alive, Inv, TypeOK
  <2> QED BY <2>2, <2>3 DEF Inv
<1>4. CASE ExtensionConfirmed(j)
  BY <1>0, <1>4, LoopKeeps DEF past, ExtensionConfirmed, Turning, Alive, TypeOK
<1>5. CASE ExtensionRefused(j)
  BY <1>0, <1>5, SleepKeeps DEF past, ExtensionRefused, Alive, TypeOK
<1>6. CASE SkipReplacement(j)
  BY <1>0, <1>6, SleepKeeps DEF past, SkipReplacement, Alive, TypeOK
<1> QED BY <1>1, <1>2, <1>3, <1>4, <1>5, <1>6

\* The second half: a successor.
LEMMA ReplaceKeeps ==
  ASSUME Inv, NEW j \in Jobs,
         ReadIndex(j) \/ GateSuccessor(j) \/ ListConfirmed(j) \/ ListRefused(j)
           \/ Claimed(j) \/ ClaimLost(j) \/ CheckRecovered(j) \/ HandOver(j)
           \/ SuccessorGone(j) \/ TurnFails(j)
  PROVE  Inv'
<1>0. TypeOK BY DEF Inv
<1>1. CASE ReadIndex(j)
  BY <1>0, <1>1, LoopKeeps, SleepKeeps
     DEF past, ReadIndex, Successors, Indexed, Turning, Alive, TypeOK
<1>2. CASE GateSuccessor(j)
  BY <1>0, <1>2, LoopKeeps, SleepKeeps DEF past, GateSuccessor, Turning, Alive, TypeOK
<1>3. CASE ListConfirmed(j)
  BY <1>0, <1>3, LoopKeeps DEF past, ListConfirmed, Turning, Alive, TypeOK
<1>4. CASE ListRefused(j)
  BY <1>0, <1>4, SleepKeeps DEF past, ListRefused, Alive, TypeOK
<1>5. CASE Claimed(j)
  BY <1>0, <1>5, LoopKeeps DEF past, Claimed, Turning, Alive, TypeOK
<1>6. CASE ClaimLost(j)
  BY <1>0, <1>6, SleepKeeps DEF past, ClaimLost, Alive, TypeOK
<1>7. CASE CheckRecovered(j)
  BY <1>0, <1>7, LoopKeeps, SleepKeeps DEF past, CheckRecovered, Turning, Alive, TypeOK
<1>8. CASE HandOver(j)
  BY <1>0, <1>8, SleepKeeps DEF past, HandOver, Alive, TypeOK
<1>9. CASE SuccessorGone(j)
  BY <1>0, <1>9, SleepKeeps DEF past, SuccessorGone, Alive, TypeOK
<1>10. CASE TurnFails(j)
  BY <1>0, <1>10, SleepKeeps DEF past, TurnFails, Turning, Alive, TypeOK
<1> QED BY <1>1, <1>2, <1>3, <1>4, <1>5, <1>6, <1>7, <1>8, <1>9, <1>10

\* The slot a successor is listed in runs no container.
LEMMA SendListKeeps == ASSUME Inv, NEW j \in Jobs, SendList(j) PROVE Inv'
<1>1. PICK s \in Jobs : /\ Free(s)
                        /\ state' = [state EXCEPT ![s] = "sent"]
                        /\ target' = [target EXCEPT ![j] = s]
  BY DEF SendList
<1>2. TypeOK'
  BY <1>1 DEF SendList, Goto, Inv, TypeOK, Turning, wallet, past
<1>3. ASSUME NEW k \in Jobs PROVE Bounded(k)'
  <2>1. Bounded(k) /\ TypeOK BY DEF Inv
  <2>2. k = s => pc[k] = "off"
    BY <1>1 DEF Free
  <2>3. pc'[k] = IF k = j THEN "posting" ELSE pc[k]
    BY <2>1 DEF SendList, Goto, TypeOK
  <2>4. pc[j] = "listing" /\ UNCHANGED <<seen, length, ext>>
    BY DEF SendList
  <2>5. state'[k] = IF k = s THEN "sent" ELSE state[k]
    BY <1>1, <2>1 DEF TypeOK
  <2> QED BY <2>1, <2>2, <2>3, <2>4, <2>5 DEF Bounded, Alive
<1> QED BY <1>2, <1>3 DEF Inv

\* A container is started only in a running job.
LEMMA DeliverKeeps == ASSUME Inv, NEW j \in Jobs, Deliver(j) PROVE Inv'
<1> DEFINE s == target[j]
<1>1. /\ pc[j] = "delivering" /\ state[s] = "running"
      /\ pc' = [pc EXCEPT ![s] = IF Alive(s) THEN @ ELSE "asleep", ![j] = "verifying"]
      /\ UNCHANGED <<seen, target, done, leases, wallet, due, past, weather>>
  BY DEF Deliver
<1>2. TypeOK'
  BY <1>1 DEF Inv, TypeOK, Turning, leases, wallet, past
<1>3. ASSUME NEW k \in Jobs PROVE Bounded(k)'
  <2>1. Bounded(k) /\ TypeOK BY DEF Inv
  <2>2. pc'[k] \in {pc[k], "verifying"} \/ (k = s /\ pc'[k] = "asleep")
    BY <1>1, <2>1 DEF TypeOK
  <2>3. k = j => Alive(k)
    BY <1>1 DEF Alive
  <2>4. pc'[k] # "off" => state[k] = "running"
    BY <1>1, <2>1, <2>2, <2>3 DEF Bounded, Alive, TypeOK
  <2> QED BY <1>1, <2>1, <2>2, <2>4 DEF Bounded, Alive, leases
<1> QED BY <1>2, <1>3 DEF Inv

----------------------------------------------------------------------------
\* The chain.
LEMMA ChainKeeps == ASSUME Inv, NEW j \in Jobs, Chain(j) PROVE Inv'
<1>0. TypeOK /\ \A k \in Jobs : Bounded(k) BY DEF Inv
<1>1. ASSUME NEW t \in ext[j], ExtensionLands(j, t) PROVE Inv'
  <2>1. t \in Nat /\ t <= Ceiling /\ t > length[j]
    BY <1>0, <1>1 DEF ExtensionLands, Bounded, TypeOK
  <2>2. nos - (t - length[j]) \in Nat /\ sol - 1 \in Nat
    BY <1>0, <1>1, <2>1 DEF ExtensionLands, TypeOK
  <2>3. TypeOK'
    BY <1>0, <1>1, <2>1, <2>2 DEF ExtensionLands, TypeOK, loop, past
  <2>4. ASSUME NEW k \in Jobs PROVE Bounded(k)'
    BY <1>0, <1>1, <2>1 DEF ExtensionLands, Bounded, Alive, TypeOK, loop
  <2> QED BY <2>3, <2>4 DEF Inv
<1>2. ASSUME NEW t \in ext[j], ExtensionDrops(j, t) PROVE Inv'
  <2>1. TypeOK'
    BY <1>0, <1>2 DEF ExtensionDrops, TypeOK, loop, wallet, past
  <2>2. ASSUME NEW k \in Jobs PROVE Bounded(k)'
    BY <1>0, <1>2 DEF ExtensionDrops, Bounded, Alive, TypeOK, loop
  <2> QED BY <2>1, <2>2 DEF Inv
<1>3. CASE ListLands(j)
  <2>1. TypeOK'
    BY <1>0, <1>3 DEF ListLands, TypeOK, loop, past
  <2>2. ASSUME NEW k \in Jobs PROVE Bounded(k)'
    BY <1>0, <1>3 DEF ListLands, Bounded, Alive, TypeOK, loop
  <2> QED BY <2>1, <2>2 DEF Inv
<1>4. CASE ListDrops(j)
  <2>1. TypeOK'
    BY <1>0, <1>4 DEF ListDrops, TypeOK, loop, wallet
  <2>2. ASSUME NEW k \in Jobs PROVE Bounded(k)'
    BY <1>0, <1>4 DEF ListDrops, Bounded, Alive, TypeOK, loop
  <2> QED BY <2>1, <2>2 DEF Inv
<1>5. CASE Claim(j)
  <2>1. TypeOK'
    BY <1>0, <1>5 DEF Claim, TypeOK, loop, wallet, past
  <2>2. ASSUME NEW k \in Jobs PROVE Bounded(k)'
    BY <1>0, <1>5, ParametersAssumption DEF Claim, Bounded, Alive, TypeOK, loop
  <2> QED BY <2>1, <2>2 DEF Inv
<1> QED BY <1>1, <1>2, <1>3, <1>4, <1>5 DEF Chain

\* Jobs that end take their containers with them and leave the rest alone.
LEMMA StoppedKeeps ==
  ASSUME Inv, NEW js \in SUBSET Jobs, Stopped(js), age' \in [Jobs -> Nat],
         nos' \in Nat, sol' \in Nat, due' \in 1 .. RefillPeriod, short' \in BOOLEAN, UNCHANGED <<ext, weather>>
  PROVE  Inv'
<1>1. TypeOK'
  BY DEF Inv, TypeOK, Stopped, Turning
<1>2. ASSUME NEW k \in Jobs PROVE Bounded(k)'
  BY <1>2, ParametersAssumption DEF Inv, Stopped, Bounded, Alive, TypeOK
<1> QED BY <1>1, <1>2 DEF Inv

LEMMA ExitKeeps == ASSUME Inv, NEW j \in Jobs, ContainerExits(j) PROVE Inv'
<1>1. /\ age' \in [Jobs -> Nat] /\ nos' \in Nat /\ sol' \in Nat
      /\ due' \in 1 .. RefillPeriod /\ short' \in BOOLEAN
  BY DEF ContainerExits, Inv, TypeOK, wallet
<1> QED BY <1>1, StoppedKeeps DEF ContainerExits

LEMMA TickKeeps == ASSUME Inv, Tick PROVE Inv'
<1> DEFINE over == {j \in Jobs : state[j] = "running" /\ age[j] + 1 >= length[j]}
<1>1. age' \in [Jobs -> Nat]
  BY DEF Tick, Inv, TypeOK
<1>2. nos' \in Nat /\ sol' \in Nat /\ due' \in 1 .. RefillPeriod /\ short' \in BOOLEAN
  BY ParametersAssumption DEF Tick, Inv, TypeOK, wallet
<1>3. Stopped(over) /\ UNCHANGED <<ext, weather>>
  BY DEF Tick
<1> QED BY <1>1, <1>2, <1>3, StoppedKeeps

----------------------------------------------------------------------------
LEMMA NextInv == ASSUME Inv, [Next]_vars PROVE Inv'
<1>1. ASSUME NEW j \in Jobs, Turn(j) PROVE Inv'
  BY <1>1, ExtendKeeps, ReplaceKeeps, SendListKeeps, DeliverKeeps DEF Turn
<1>2. CASE UNCHANGED vars
  <2>1. TypeOK'
    BY <1>2 DEF Inv, TypeOK, vars, loop, leases, wallet, past
  <2>2. ASSUME NEW k \in Jobs PROVE Bounded(k)'
    BY <1>2 DEF Inv, Bounded, Alive, vars, loop, leases
  <2> QED BY <2>1, <2>2 DEF Inv
<1> QED BY <1>1, <1>2, ChainKeeps, ExitKeeps, TickKeeps DEF Next

\* Every variable keeps its type, whatever fails and for any number of slots:
\* in particular the wallet never goes below nothing, and a loop never works with
\* the timeout of a job that is over (nosana_runtime.py:360-430).
THEOREM RuntimeTyped == Spec => []TypeOK
<1>1. Inv => TypeOK BY DEF Inv
<1> QED BY <1>1, InitInv, NextInv, PTL DEF Spec

\* No lease grows past the ceiling, for any number of shelters, in every weather:
\* stale reads, extensions sent again and late landings included
\* (nosana_runtime.py:71, :380, :396).
THEOREM CeilingIsKept == Spec => []CeilingKept
<1>1. Inv => CeilingKept BY DEF Inv, Bounded, CeilingKept
<1> QED BY <1>1, InitInv, NextInv, PTL DEF Spec

----------------------------------------------------------------------------
(***************************************************************************)
(* Two jobs, in every weather.  A loop that is about to list, or waits for *)
(* the job it has listed, is the only one that runs: it lists only when    *)
(* the index shows no other running job.  What the index may hide is a job *)
(* nobody waits for any more.                                              *)
(***************************************************************************)
Held(j) == state[j] # "none"
Counted(j) == Held(j) /\ j \notin orphans
Listing == {"gating", "listing", "posting", "claiming"}

Line ==
  /\ \A j, k \in Jobs : pc[j] \in Listing /\ k # j => pc[k] = "off"
  /\ \A s, k \in Jobs : state[s] \in {"sent", "queued"} /\ s \notin orphans /\ Alive(k) => Awaits(k, s)
  /\ \A i, j, k \in Jobs : Counted(i) /\ Counted(j) /\ Counted(k) => i = j \/ j = k \/ i = k
  /\ \A j, k \in Jobs : pc[j] \in {"gating", "listing"} /\ k # j => ~Counted(k)

LEMMA InitLine == ASSUME Init PROVE Line
<1>1. PICK first \in Jobs :
        /\ pc = [j \in Jobs |-> IF j = first THEN "asleep" ELSE "off"]
        /\ state = [j \in Jobs |-> IF j = first THEN "running" ELSE "none"]
  BY DEF Init
<1> QED
  BY <1>1 DEF Line, Listing, Counted, Held, Awaits, Alive

\* A step of one loop keeps the line, if it turns to listing only when it is alone
\* and only an orphan is held besides its own job, and if the job it waits for is
\* claimed or gone, or an orphan, when it no longer waits.
LEMMA LoopLines ==
  ASSUME Inv, Line, NEW j \in Jobs, NEW to, Alive(j), Goto(j, to), to # "off",
         state' = state, orphans \subseteq orphans',
         \A k \in Jobs \ {j} : target'[k] = target[k],
         to \in Listing => \A k \in Jobs \ {j} : pc[k] = "off",
         to \in {"gating", "listing"} => \A k \in Jobs \ {j} : ~Counted(k),
         \/ to \in {"posting", "claiming"} /\ target'[j] = target[j]
         \/ \A s \in Jobs : Awaits(j, s) => state[s] \notin {"sent", "queued"} \/ s \in orphans'
  PROVE  Line'
<1>0. pc'[j] = to /\ \A k \in Jobs \ {j} : pc'[k] = pc[k]
  BY DEF Goto, Inv, TypeOK
<1>1. \A k \in Jobs : (Alive(k)' => Alive(k)) /\ (Counted(k)' => Counted(k))
  BY <1>0 DEF Alive, Counted, Held
<1>2. \A k, l \in Jobs : pc'[k] \in Listing /\ l # k => pc'[l] = "off"
  BY <1>0 DEF Line, Alive
<1>3. ASSUME NEW s \in Jobs, NEW k \in Jobs,
             state'[s] \in {"sent", "queued"}, s \notin orphans', Alive(k)'
      PROVE  Awaits(k, s)'
  <2>1. Awaits(k, s)
    BY <1>1, <1>3 DEF Line
  <2> QED
    BY <1>0, <1>3, <2>1 DEF Awaits
<1>4. \A k, l \in Jobs : pc'[k] \in {"gating", "listing"} /\ l # k => ~Counted(l)'
  BY <1>0, <1>1 DEF Line, Listing, Alive
<1> QED
  BY <1>1, <1>2, <1>3, <1>4 DEF Line

LEMMA SleepLines ==
  ASSUME Inv, Line, NEW j \in Jobs, Alive(j), Sleep(j),
         state' = state, orphans \subseteq orphans',
         \A s \in Jobs : Awaits(j, s) => state[s] \notin {"sent", "queued"} \/ s \in orphans'
  PROVE  Line'
<1>1. Goto(j, "asleep") /\ \A k \in Jobs \ {j} : target'[k] = target[k]
  BY DEF Sleep, Inv, TypeOK
<1> QED
  BY <1>1, LoopLines DEF Listing

\* A loop that reads the payer's index while it has to replace itself finds every
\* job that counts: a queued one is waited for by its lister.
LEMMA FoundOrphans ==
  ASSUME Inv, Line, NEW j \in Jobs, pc[j] = "replacing", NEW queued,
         Successors(j, Indexed(queued)) = {}
  PROVE  \A k \in Jobs \ {j} : pc[k] = "off" /\ ~Counted(k)
<1>1. TAKE k \in Jobs \ {j}
<1>2. state[k] # "running"
  BY DEF Successors, Indexed
<1>3. pc[k] = "off"
  BY <1>2 DEF Inv, Bounded, Alive
<1>4. ASSUME Counted(k) PROVE FALSE
  <2>1. state[k] \in {"sent", "queued"} /\ k \notin orphans
    BY <1>2, <1>4 DEF Counted, Held, Inv, TypeOK
  <2>2. Awaits(j, k)
    BY <2>1 DEF Line, Alive
  <2> QED
    BY <2>2 DEF Awaits
<1> QED
  BY <1>3, <1>4

LEMMA ExtendLines ==
  ASSUME Inv, Line, NEW j \in Jobs,
         ReadOwnJob(j) \/ ReadWallet(j) \/ SendExtension(j)
           \/ ExtensionConfirmed(j) \/ ExtensionRefused(j) \/ SkipReplacement(j)
  PROVE  Line'
<1>1. /\ Alive(j) /\ state' = state /\ orphans' = orphans
      /\ \A s \in Jobs : ~Awaits(j, s)
  BY DEF ReadOwnJob, ReadWallet, SendExtension, ExtensionConfirmed, ExtensionRefused,
     SkipReplacement, Alive, Awaits, leases, past
<1>2. CASE Sleep(j)
  BY <1>1, <1>2, SleepLines
<1>3. ASSUME NEW to \in {"affording", "extending", "confirming", "replacing"},
             Goto(j, to), target' = target
      PROVE  Line'
  BY <1>1, <1>3, LoopLines DEF Listing
<1> QED
  BY <1>2, <1>3 DEF ReadOwnJob, ReadWallet, SendExtension, ExtensionConfirmed,
     ExtensionRefused, SkipReplacement

LEMMA ReplaceLines ==
  ASSUME Inv, Line, NEW j \in Jobs,
         ReadIndex(j) \/ GateSuccessor(j) \/ ListConfirmed(j) \/ ListRefused(j)
           \/ Claimed(j) \/ ClaimLost(j) \/ CheckRecovered(j) \/ HandOver(j)
           \/ SuccessorGone(j) \/ TurnFails(j)
  PROVE  Line'
<1>0. TypeOK BY DEF Inv
<1>1. CASE ReadIndex(j)
  <2>1. /\ pc[j] = "replacing" /\ Alive(j) /\ state' = state /\ orphans' = orphans
        /\ \A s \in Jobs : ~Awaits(j, s)
    BY <1>1 DEF ReadIndex, Alive, Awaits, leases, past
  <2>2. PICK queued : \/ Successors(j, Indexed(queued)) = {} /\ Goto(j, "gating") /\ UNCHANGED target
                      \/ \E s \in Jobs : /\ target' = [target EXCEPT ![j] = s]
                                         /\ Goto(j, "checking")
                      \/ Sleep(j)
    BY <1>1 DEF ReadIndex, Successors, Indexed
  <2>3. CASE Successors(j, Indexed(queued)) = {} /\ Goto(j, "gating") /\ UNCHANGED target
    <3>1. \A k \in Jobs \ {j} : pc[k] = "off" /\ ~Counted(k)
      BY <2>1, <2>3, FoundOrphans
    <3> QED
      BY <2>1, <2>3, <3>1, LoopLines
  <2>4. CASE \E s \in Jobs : target' = [target EXCEPT ![j] = s] /\ Goto(j, "checking")
    <3>1. \A k \in Jobs \ {j} : target'[k] = target[k]
      BY <1>0, <2>4 DEF TypeOK
    <3> QED
      BY <2>1, <2>4, <3>1, LoopLines DEF Listing
  <2>5. CASE Sleep(j)
    BY <2>1, <2>5, SleepLines
  <2> QED
    BY <2>2, <2>3, <2>4, <2>5
<1>2. CASE GateSuccessor(j)
  <2>1. /\ Alive(j) /\ state' = state /\ orphans' = orphans
        /\ \A s \in Jobs : ~Awaits(j, s)
        /\ \A k \in Jobs \ {j} : pc[k] = "off" /\ ~Counted(k)
    BY <1>2 DEF GateSuccessor, Alive, Awaits, Line, Listing, leases, past
  <2>2. CASE Goto(j, "listing") /\ UNCHANGED target
    BY <2>1, <2>2, LoopLines
  <2>3. CASE Sleep(j)
    BY <2>1, <2>3, SleepLines
  <2> QED
    BY <1>2, <2>2, <2>3 DEF GateSuccessor
<1>3. CASE ListConfirmed(j)
  <2>1. \A k \in Jobs \ {j} : pc[k] = "off"
    BY <1>3 DEF ListConfirmed, Line, Listing
  <2>2. Alive(j) /\ Goto(j, "claiming") /\ state' = state /\ orphans' = orphans /\ target' = target
    BY <1>3 DEF ListConfirmed, Alive, leases, past
  <2> QED
    BY <2>1, <2>2, LoopLines
<1>4. CASE Claimed(j)
  <2>1. /\ Alive(j) /\ Goto(j, "delivering") /\ state' = state /\ orphans' = orphans
        /\ target' = target /\ state[target[j]] = "running"
    BY <1>4 DEF Claimed, Alive, leases, past
  <2> QED
    BY <2>1, LoopLines DEF Listing, Awaits
<1>5. CASE ListRefused(j) \/ ClaimLost(j)
  <2>1. /\ Alive(j) /\ Sleep(j) /\ state' = state /\ orphans' = orphans
        /\ state[target[j]] = "none"
    BY <1>5 DEF ListRefused, ClaimLost, Alive, leases, past
  <2> QED
    BY <2>1, SleepLines DEF Awaits
<1>6. CASE CheckRecovered(j) \/ HandOver(j) \/ SuccessorGone(j)
  <2>1. /\ Alive(j) /\ state' = state /\ orphans' = orphans
        /\ \A s \in Jobs : ~Awaits(j, s)
    BY <1>6 DEF CheckRecovered, HandOver, SuccessorGone, Alive, Awaits, leases, past
  <2>2. Sleep(j) \/ (Goto(j, "delivering") /\ target' = target)
    BY <1>6 DEF CheckRecovered, HandOver, SuccessorGone
  <2>3. CASE Goto(j, "delivering") /\ target' = target
    BY <2>1, <2>3, LoopLines DEF Listing
  <2> QED
    BY <2>1, <2>2, <2>3, SleepLines
<1>7. CASE TurnFails(j)
  <2>1. /\ Alive(j) /\ Sleep(j) /\ state' = state
        /\ orphans' = orphans \cup {s \in Jobs : Awaits(j, s) /\ state[s] \in {"sent", "queued"}}
    BY <1>7 DEF TurnFails, Turning, Alive, leases
  <2> QED
    BY <2>1, SleepLines
<1> QED
  BY <1>1, <1>2, <1>3, <1>4, <1>5, <1>6, <1>7

\* Whoever lists is alone, and its successor is then the second job that counts.
LEMMA SendListLines == ASSUME Inv, Line, NEW j \in Jobs, SendList(j) PROVE Line'
<1>0. TypeOK BY DEF Inv
<1>1. PICK s \in Jobs : /\ state' = [state EXCEPT ![s] = "sent"]
                        /\ target' = [target EXCEPT ![j] = s]
  BY DEF SendList
<1>2. /\ pc[j] = "listing" /\ pc'[j] = "posting" /\ \A k \in Jobs \ {j} : pc'[k] = pc[k]
      /\ \A k \in Jobs \ {s} : state'[k] = state[k]
      /\ target'[j] = s /\ orphans' = orphans
  BY <1>0, <1>1 DEF SendList, Goto, TypeOK, past
<1>3. \A k \in Jobs \ {j} : pc[k] = "off" /\ ~Counted(k)
  BY <1>2 DEF Line, Listing
<1>4. \A k \in Jobs : Counted(k)' => k \in {j, s}
  BY <1>2, <1>3 DEF Counted, Held
<1>5. \A k \in Jobs : Alive(k)' => k = j
  BY <1>2, <1>3 DEF Alive
<1>6. state[j] = "running"
  BY <1>2 DEF Inv, Bounded, Alive
<1>7. ASSUME NEW r \in Jobs, NEW k \in Jobs,
             state'[r] \in {"sent", "queued"}, r \notin orphans', Alive(k)'
      PROVE  Awaits(k, r)'
  <2>1. k = j
    BY <1>5, <1>7
  <2>2. r = s
    <3>1. Counted(r)'
      BY <1>7 DEF Counted, Held
    <3> QED
      BY <1>2, <1>4, <1>6, <1>7, <3>1
  <2> QED
    BY <1>2, <2>1, <2>2 DEF Awaits
<1>8. \A k \in Jobs : pc'[k] \in Listing => k = j
  BY <1>2, <1>3 DEF Listing
<1>9. \A k \in Jobs \ {j} : pc'[k] = "off"
  BY <1>2, <1>3
<1>10. \A k \in Jobs : pc'[k] \notin {"gating", "listing"}
  BY <1>2, <1>9
<1> QED
  BY <1>4, <1>7, <1>8, <1>9, <1>10 DEF Line

\* While a loop delivers, no other lists and no job that counts waits for a node.
LEMMA DeliverLines == ASSUME Inv, Line, NEW j \in Jobs, Deliver(j) PROVE Line'
<1>1. /\ pc[j] = "delivering" /\ state' = state /\ orphans' = orphans
      /\ \A k \in Jobs : pc'[k] \in {pc[k], "asleep", "verifying"}
      /\ pc'[j] = "verifying"
  BY DEF Deliver, Inv, TypeOK, leases, past
<1>2. \A k \in Jobs : pc[k] \notin Listing
  BY <1>1 DEF Line, Listing
<1>3. \A k \in Jobs : pc'[k] \notin Listing
  BY <1>1, <1>2 DEF Listing
<1>4. \A s \in Jobs : state[s] \in {"sent", "queued"} => s \in orphans
  BY <1>1 DEF Line, Alive, Awaits
<1>5. \A k \in Jobs : Counted(k)' <=> Counted(k)
  BY <1>1 DEF Counted, Held
<1> QED
  BY <1>1, <1>3, <1>4, <1>5 DEF Line, Listing

LEMMA ChainLines == ASSUME Inv, Line, NEW j \in Jobs, Chain(j) PROVE Line'
<1>0. TypeOK BY DEF Inv
<1>1. /\ UNCHANGED <<pc, target>> /\ \A k \in Jobs \ {j} : state'[k] = state[k]
      /\ \/ state'[j] = "none" /\ orphans' = orphans \ {j}
         \/ state'[j] = "running" /\ Held(j) /\ orphans' = orphans
         \/ state'[j] = "queued" /\ state[j] = "sent" /\ orphans' = orphans
         \/ state'[j] = state[j] /\ orphans' = orphans
  BY <1>0 DEF Chain, ExtensionLands, ExtensionDrops, ListLands, ListDrops, Claim, Held,
     TypeOK, loop, past
<1>2. \A k \in Jobs : (Counted(k)' => Counted(k)) /\ (Alive(k)' <=> Alive(k))
  BY <1>1 DEF Counted, Held, Alive
<1>3. ASSUME NEW s \in Jobs, state'[s] \in {"sent", "queued"}, s \notin orphans'
      PROVE  state[s] \in {"sent", "queued"} /\ s \notin orphans
  BY <1>1, <1>3
<1> QED
  BY <1>1, <1>2, <1>3 DEF Line, Awaits

LEMMA StoppedLines ==
  ASSUME Inv, Line, NEW js \in SUBSET Jobs, Stopped(js)
  PROVE  Line'
<1>1. /\ \A j \in js : pc'[j] = "off" /\ state'[j] = "none"
      /\ \A j \in Jobs \ js : /\ pc'[j] = pc[j] /\ target'[j] = target[j]
                              /\ state'[j] = state[j]
      /\ orphans' = orphans \ js
  BY DEF Stopped
<1>2. \A k \in Jobs : (Counted(k)' => Counted(k) /\ k \notin js) /\ (Alive(k)' => Alive(k) /\ k \notin js)
  BY <1>1 DEF Counted, Held, Alive
<1>3. \A k \in Jobs : pc'[k] = pc[k] \/ pc'[k] = "off"
  BY <1>1
<1>4. ASSUME NEW s \in Jobs, NEW k \in Jobs,
             state'[s] \in {"sent", "queued"}, s \notin orphans', Alive(k)'
      PROVE  Awaits(k, s)'
  <2>1. s \notin js /\ s \notin orphans /\ state[s] \in {"sent", "queued"}
    BY <1>1, <1>4
  <2>2. k \notin js /\ Awaits(k, s)
    BY <1>2, <1>4, <2>1 DEF Line
  <2> QED
    BY <1>1, <2>2 DEF Awaits
<1> QED
  BY <1>1, <1>2, <1>3, <1>4 DEF Line, Listing

LEMMA NextLine == ASSUME Inv, Line, [Next]_vars PROVE Line'
<1>1. ASSUME NEW j \in Jobs, Turn(j) PROVE Line'
  BY <1>1, ExtendLines, ReplaceLines, SendListLines, DeliverLines DEF Turn
<1>2. ASSUME NEW j \in Jobs, ContainerExits(j) PROVE Line'
  <2>1. Stopped({j}) /\ {j} \in SUBSET Jobs
    BY <1>2 DEF ContainerExits
  <2> QED
    BY <2>1, StoppedLines
<1>3. CASE Tick
  <2>1. PICK js \in SUBSET Jobs : Stopped(js)
    BY <1>3 DEF Tick
  <2> QED
    BY <2>1, StoppedLines
<1>4. CASE UNCHANGED vars
  BY <1>4 DEF Line, Counted, Held, Awaits, Alive, vars, loop, leases, past
<1> QED
  BY <1>1, <1>2, <1>3, <1>4, ChainLines DEF Next

\* At most the shelter and one successor hold a lease, for any number of slots, any
\* ceiling, margin and wallet and in every weather: hidden queued jobs, crashed
\* containers, failed turns and late nodes included, and save only the jobs whose
\* lister gave up before they were claimed (nosana_bootstrap.py:233, :573, :740).
THEOREM TwoJobsAtMost == Spec => []TwoJobCap
<1>1. ASSUME Line PROVE TwoJobCap
  <2> DEFINE L == {j \in Jobs : Active(j)} \ orphans
  <2>1. \A i, j, k \in L : i = j \/ j = k \/ i = k
    BY <1>1 DEF Active, Line, Counted, Held
  <2>2. CASE L = {}
    BY <2>2, FS_EmptySet DEF TwoJobCap
  <2>3. CASE \E i \in L : TRUE
    <3>1. PICK i \in L : TRUE
      BY <2>3
    <3>2. PICK j \in Jobs : L \subseteq {i, j}
      BY <2>1, <3>1
    <3>3. {i} \cup {j} = {i, j} /\ IsFiniteSet({i}) /\ Cardinality({i}) = 1
      BY FS_Singleton
    <3>a. /\ IsFiniteSet({i} \cup {j})
          /\ \/ Cardinality({i} \cup {j}) = Cardinality({i})
             \/ Cardinality({i} \cup {j}) = Cardinality({i}) + 1
      BY <3>3, FS_AddElement
    <3>4. IsFiniteSet({i, j}) /\ Cardinality({i, j}) <= 2
      BY <3>3, <3>a
    <3>5. IsFiniteSet(L) /\ Cardinality(L) <= Cardinality({i, j})
      BY <3>2, <3>4, FS_Subset
    <3>6. Cardinality(L) \in Nat /\ Cardinality({i, j}) \in Nat
      BY <3>4, <3>5, FS_CardinalityType
    <3>7. Cardinality(L) <= 2
      BY <3>4, <3>5, <3>6
    <3> QED
      BY <3>7 DEF TwoJobCap
  <2> QED
    BY <2>2, <2>3
<1> QED
  BY <1>1, InitInv, NextInv, InitLine, NextLine, PTL DEF Spec

----------------------------------------------------------------------------
(***************************************************************************)
(* Successors and the price of moving out, as long as a lister waits until *)
(* its job is claimed.  A loop that is about to list is alone on chain     *)
(* with a lease as long as it may get, so that of two jobs one cannot be   *)
(* extended any more, and nobody else spends what a loop has read.         *)
(***************************************************************************)
Succession ==
  /\ \A j, k \in Jobs : pc[j] \in {"gating", "listing"} /\ k # j => ~Held(k)
  /\ \A s, k \in Jobs : state[s] \in {"sent", "queued"} /\ Held(k) /\ k # s => Awaits(k, s)
  /\ \A i, j, k \in Jobs : Held(i) /\ Held(j) /\ Held(k) => i = j \/ j = k \/ i = k

Lengths ==
  /\ \A j \in Jobs : seen[j] <= length[j]
  /\ \A j \in Jobs : state[j] # "running" => length[j] = 0
  /\ \A j \in Jobs : pc[j] \in {"gating", "listing"} => length[j] >= Ceiling
  /\ \A j, k \in Jobs : Held(j) /\ Held(k) /\ j # k =>
       length[j] >= Ceiling \/ length[k] >= Ceiling

Spare == nos > Reserve /\ sol >= SolFloor

Payable ==
  /\ \A j \in Jobs : state[j] \in {"sent", "queued"} => ext[j] = {}
  /\ \A j \in Jobs : state[j] = "running" => \A t \in ext[j] : t <= length[j] + 1
  /\ \A j \in Jobs : state[j] = "running" /\ (\E t \in ext[j] : t > length[j]) => Spare
  /\ \A j \in Jobs : pc[j] = "extending" /\ seen[j] = length[j] => Spare
  /\ \A j \in Jobs : pc[j] = "listing" \/ state[j] = "sent" => AffordsSuccessor

Plan == Succession /\ Lengths /\ Payable

LEMMA InitPlan == ASSUME Init PROVE Plan
<1>1. PICK first \in Jobs :
        /\ pc = [j \in Jobs |-> IF j = first THEN "asleep" ELSE "off"]
        /\ state = [j \in Jobs |-> IF j = first THEN "running" ELSE "none"]
        /\ length = [j \in Jobs |-> IF j = first THEN 1 ELSE 0]
  BY DEF Init
<1>2. seen = [j \in Jobs |-> 0] /\ ext = [j \in Jobs |-> {}]
  BY DEF Init
<1> QED
  BY <1>1, <1>2 DEF Plan, Succession, Lengths, Payable, Held, Awaits

\* A step of one loop that leaves the chain alone keeps the plan, if whoever waits
\* for a job goes on waiting until it is claimed or gone, and whoever is about to
\* list or to extend has looked.
LEMMA LoopPlans ==
  ASSUME Inv, Plan, NEW j \in Jobs, NEW to, Goto(j, to), UNCHANGED <<leases, wallet>>,
         \A k \in Jobs \ {j} : seen'[k] = seen[k] /\ target'[k] = target[k],
         seen'[j] <= length[j],
         to \in {"gating", "listing"} =>
           length[j] >= Ceiling /\ \A k \in Jobs \ {j} : ~Held(k),
         to = "extending" => Spare,
         to = "listing" => AffordsSuccessor,
         \/ to \in {"posting", "claiming"} /\ target'[j] = target[j]
         \/ \A s \in Jobs : Awaits(j, s) => state[s] \notin {"sent", "queued"}
  PROVE  Plan'
<1>0. /\ pc'[j] = to /\ \A k \in Jobs \ {j} : pc'[k] = pc[k]
      /\ UNCHANGED <<state, length, ext, nos, sol>>
  BY DEF Goto, Inv, TypeOK, leases, wallet
<1>1. Succession'
  <2>1. ASSUME NEW s \in Jobs, NEW k \in Jobs, state[s] \in {"sent", "queued"}, Held(k), k # s
        PROVE  Awaits(k, s)'
    <3>1. Awaits(k, s)
      BY <2>1 DEF Plan, Succession
    <3> QED
      BY <1>0, <2>1, <3>1 DEF Awaits
  <2> QED
    BY <1>0, <2>1 DEF Plan, Succession, Held
<1>2. Lengths'
  BY <1>0 DEF Plan, Lengths, Held
<1>3. Payable'
  BY <1>0 DEF Plan, Payable, Spare, AffordsSuccessor
<1> QED
  BY <1>1, <1>2, <1>3 DEF Plan

LEMMA SleepPlans ==
  ASSUME Inv, Plan, NEW j \in Jobs, Sleep(j), UNCHANGED <<leases, wallet>>,
         \A s \in Jobs : Awaits(j, s) => state[s] \notin {"sent", "queued"}
  PROVE  Plan'
<1>1. /\ Goto(j, "asleep") /\ seen'[j] = 0
      /\ \A k \in Jobs \ {j} : seen'[k] = seen[k] /\ target'[k] = target[k]
  BY DEF Sleep, Inv, TypeOK
<1>2. 0 <= length[j]
  BY DEF Inv, TypeOK
<1> QED
  BY <1>1, <1>2, LoopPlans

\* A loop that reads the payer's index while it has to replace itself finds every
\* other job: a queued one is waited for by its lister, or the only one.
LEMMA FoundAll ==
  ASSUME Inv, Plan, NEW j \in Jobs, pc[j] = "replacing", NEW queued,
         Successors(j, Indexed(queued)) = {}
  PROVE  \A k \in Jobs \ {j} : ~Held(k)
<1>1. SUFFICES ASSUME NEW k \in Jobs \ {j}, Held(k) PROVE FALSE
  OBVIOUS
<1>2. state[k] # "running"
  BY DEF Successors, Indexed
<1>3. state[k] \in {"sent", "queued"}
  BY <1>1, <1>2 DEF Held, Inv, TypeOK
<1>4. Held(j)
  BY DEF Inv, Bounded, Alive, Held
<1>5. Awaits(j, k)
  BY <1>1, <1>3, <1>4 DEF Plan, Succession
<1> QED
  BY <1>5 DEF Awaits

LEMMA ExtendPlans ==
  ASSUME Inv, Plan, NEW j \in Jobs,
         ReadOwnJob(j) \/ ReadWallet(j) \/ SendExtension(j)
           \/ ExtensionConfirmed(j) \/ ExtensionRefused(j) \/ SkipReplacement(j)
  PROVE  Plan'
<1>0. TypeOK /\ Bounded(j) BY DEF Inv
<1>1. seen[j] <= length[j] /\ seen[j] \in Nat /\ length[j] \in Nat
  BY <1>0 DEF Plan, Lengths, TypeOK
<1>2. CASE ReadOwnJob(j)
  <2>1. PICK t \in Shown(j) : seen' = [seen EXCEPT ![j] = t]
    BY <1>2 DEF ReadOwnJob
  <2>2. t <= length[j]
    BY <1>1, <2>1 DEF Shown
  <2>3. seen'[j] = t /\ \A k \in Jobs \ {j} : seen'[k] = seen[k]
    BY <1>0, <2>1 DEF TypeOK
  <2>4. PICK to \in {"affording", "replacing"} : Goto(j, to)
    BY <1>2 DEF ReadOwnJob
  <2> QED
    BY <1>2, <2>2, <2>3, <2>4, LoopPlans DEF ReadOwnJob, Awaits
<1>3. CASE ReadWallet(j)
  <2>1. PICK to \in {"extending", "replacing"} :
          Goto(j, to) /\ (to = "extending" => AffordsExtension)
    BY <1>3 DEF ReadWallet
  <2>2. AffordsExtension => Spare
    BY <1>0, ParametersAssumption DEF AffordsExtension, TypeOK, Spare
  <2> QED
    BY <1>1, <1>3, <2>1, <2>2, LoopPlans DEF ReadWallet, Awaits
<1>4. CASE SendExtension(j)
  <2>1. /\ pc[j] = "extending" /\ pc'[j] = "confirming" /\ \A k \in Jobs \ {j} : pc'[k] = pc[k]
        /\ ext'[j] = ext[j] \cup {seen[j] + 1} /\ \A k \in Jobs \ {j} : ext'[k] = ext[k]
        /\ UNCHANGED <<seen, target, state, length, nos, sol>>
    BY <1>0, <1>4 DEF SendExtension, Extension, Goto, TypeOK, wallet
  <2>2. state[j] = "running"
    BY <1>0, <2>1 DEF Bounded, Alive
  <2>3. Succession'
    BY <2>1 DEF Plan, Succession, Held, Awaits
  <2>4. Lengths'
    BY <2>1 DEF Plan, Lengths, Held
  <2>5. seen[j] + 1 > length[j] => Spare
    BY <1>1, <2>1 DEF Plan, Payable
  <2>6. seen[j] + 1 <= length[j] + 1
    BY <1>1
  <2>7. Payable'
    BY <2>1, <2>2, <2>5, <2>6 DEF Plan, Payable, Spare, AffordsSuccessor
  <2> QED
    BY <2>3, <2>4, <2>7 DEF Plan
<1>5. CASE ExtensionConfirmed(j)
  BY <1>1, <1>5, LoopPlans DEF ExtensionConfirmed, Awaits
<1>6. CASE ExtensionRefused(j)
  BY <1>6, SleepPlans DEF ExtensionRefused, Awaits
<1>7. CASE SkipReplacement(j)
  BY <1>7, SleepPlans DEF SkipReplacement, Awaits
<1> QED
  BY <1>2, <1>3, <1>4, <1>5, <1>6, <1>7

LEMMA ReplacePlans ==
  ASSUME Inv, Plan, ~Harsh, NEW j \in Jobs,
         ReadIndex(j) \/ GateSuccessor(j) \/ ListConfirmed(j) \/ ListRefused(j)
           \/ Claimed(j) \/ ClaimLost(j) \/ CheckRecovered(j) \/ HandOver(j)
           \/ SuccessorGone(j) \/ TurnFails(j)
  PROVE  Plan'
<1>0. TypeOK BY DEF Inv
<1>1. seen[j] <= length[j] /\ seen[j] \in Nat /\ length[j] \in Nat
  BY <1>0 DEF Plan, Lengths, TypeOK
<1>2. CASE ReadIndex(j)
  <2>1. seen[j] >= Ceiling
    BY <1>2 DEF ReadIndex, ShouldReplace
  <2>2. length[j] >= Ceiling
    BY <1>1, <2>1, ParametersAssumption
  <2>3. PICK queued : \/ Successors(j, Indexed(queued)) = {} /\ Goto(j, "gating") /\ UNCHANGED <<seen, target>>
                      \/ \E s \in Jobs : /\ target' = [target EXCEPT ![j] = s]
                                         /\ Goto(j, "checking") /\ UNCHANGED seen
                      \/ Sleep(j)
    BY <1>2 DEF ReadIndex, Successors, Indexed
  <2>4. UNCHANGED <<leases, wallet>> /\ pc[j] = "replacing" /\ \A s \in Jobs : ~Awaits(j, s)
    BY <1>2 DEF ReadIndex, Awaits
  <2>5. CASE Successors(j, Indexed(queued)) = {} /\ Goto(j, "gating") /\ UNCHANGED <<seen, target>>
    <3>1. \A k \in Jobs \ {j} : ~Held(k)
      BY <2>4, <2>5, FoundAll
    <3> QED
      BY <1>1, <2>2, <2>4, <2>5, <3>1, LoopPlans
  <2>6. CASE \E s \in Jobs : /\ target' = [target EXCEPT ![j] = s]
                             /\ Goto(j, "checking") /\ UNCHANGED seen
    <3>1. \A k \in Jobs \ {j} : target'[k] = target[k]
      BY <1>0, <2>6 DEF TypeOK
    <3> QED
      BY <1>1, <2>4, <2>6, <3>1, LoopPlans
  <2> QED
    BY <2>3, <2>4, <2>5, <2>6, SleepPlans
<1>3. CASE GateSuccessor(j)
  <2>1. length[j] >= Ceiling /\ \A k \in Jobs \ {j} : ~Held(k)
    BY <1>3 DEF GateSuccessor, Plan, Succession, Lengths
  <2>2. CASE AffordsSuccessor
    BY <1>1, <1>3, <2>1, <2>2, LoopPlans DEF GateSuccessor, Awaits
  <2>3. CASE ~AffordsSuccessor
    BY <1>3, <2>3, SleepPlans DEF GateSuccessor, Awaits
  <2> QED
    BY <2>2, <2>3
<1>4. CASE ListConfirmed(j)
  BY <1>1, <1>4, LoopPlans DEF ListConfirmed
<1>5. CASE ListRefused(j) \/ ClaimLost(j)
  <2>1. state[target[j]] = "none" /\ Sleep(j) /\ UNCHANGED <<leases, wallet>>
    BY <1>5 DEF ListRefused, ClaimLost
  <2> QED
    BY <2>1, SleepPlans DEF Awaits
<1>6. CASE Claimed(j)
  <2>1. \A s \in Jobs : Awaits(j, s) => state[s] = "running"
    BY <1>6 DEF Claimed, Awaits
  <2> QED
    BY <1>1, <1>6, <2>1, LoopPlans DEF Claimed
<1>7. CASE CheckRecovered(j)
  <2>1. \A s \in Jobs : ~Awaits(j, s)
    BY <1>7 DEF CheckRecovered, Awaits
  <2>2. CASE Sleep(j)
    BY <1>7, <2>1, <2>2, SleepPlans DEF CheckRecovered
  <2>3. CASE Goto(j, "delivering") /\ UNCHANGED <<seen, target>>
    BY <1>1, <1>7, <2>1, <2>3, LoopPlans DEF CheckRecovered
  <2> QED
    BY <1>7, <2>2, <2>3 DEF CheckRecovered
<1>8. CASE HandOver(j) \/ SuccessorGone(j) \/ TurnFails(j)
  <2>1. Sleep(j) /\ UNCHANGED <<leases, wallet>> /\ \A s \in Jobs : ~Awaits(j, s)
    BY <1>8 DEF HandOver, SuccessorGone, TurnFails, Awaits
  <2> QED
    BY <2>1, SleepPlans
<1> QED
  BY <1>2, <1>3, <1>4, <1>5, <1>6, <1>7, <1>8

LEMMA SendListPlans == ASSUME Inv, Plan, NEW j \in Jobs, SendList(j) PROVE Plan'
<1>0. TypeOK /\ Bounded(j) BY DEF Inv
<1>1. PICK s \in Jobs : /\ Free(s)
                        /\ state' = [state EXCEPT ![s] = "sent"]
                        /\ target' = [target EXCEPT ![j] = s]
  BY DEF SendList
<1>2. /\ pc[j] = "listing" /\ pc'[j] = "posting" /\ \A k \in Jobs \ {j} : pc'[k] = pc[k]
      /\ state'[s] = "sent" /\ \A k \in Jobs \ {s} : state'[k] = state[k]
      /\ target'[j] = s /\ UNCHANGED <<seen, length, ext, nos, sol>>
  BY <1>0, <1>1 DEF SendList, Goto, TypeOK, wallet
<1>3. length[j] >= Ceiling /\ (\A k \in Jobs \ {j} : ~Held(k)) /\ s # j
  BY <1>1, <1>2 DEF Plan, Lengths, Succession, Free
<1>4. \A k \in Jobs : Held(k)' => k \in {j, s}
  BY <1>2, <1>3 DEF Held
<1>5. \A k \in Jobs \ {j} : pc[k] \notin {"gating", "listing", "extending"}
  BY <1>3 DEF Inv, Bounded, Alive, Held
<1>6. state[s] = "none" /\ ext[s] = {}
  BY <1>1 DEF Free
<1>7. Succession'
  <2>1. state[j] = "running"
    BY <1>0, <1>2 DEF Bounded, Alive
  <2> QED
    BY <1>2, <1>3, <1>4, <1>5, <2>1 DEF Succession, Awaits, Held
<1>8. Lengths'
  BY <1>2, <1>3, <1>4, <1>5, <1>6 DEF Plan, Lengths
<1>9. Payable'
  BY <1>2, <1>6 DEF Plan, Payable, Spare, AffordsSuccessor
<1> QED
  BY <1>7, <1>8, <1>9 DEF Plan

LEMMA DeliverPlans == ASSUME Inv, Plan, NEW j \in Jobs, Deliver(j) PROVE Plan'
<1>1. /\ pc[j] = "delivering"
      /\ pc' = [pc EXCEPT ![target[j]] = IF Alive(target[j]) THEN @ ELSE "asleep",
                          ![j] = "verifying"]
      /\ UNCHANGED <<seen, target, state, length, ext, nos, sol>>
  BY DEF Deliver, leases, wallet
<1>2. ASSUME NEW k \in Jobs PROVE pc'[k] = pc[k] \/ (pc[k] \in {"off", "delivering"} /\ pc'[k] \in {"asleep", "verifying"})
  BY <1>1 DEF Alive, Inv, TypeOK
<1>3. Succession'
  <2>1. \A k, s \in Jobs : Awaits(k, s) => Awaits(k, s)'
    BY <1>1, <1>2 DEF Awaits
  <2>2. \A k \in Jobs : pc'[k] \in {"gating", "listing"} => pc[k] \in {"gating", "listing"}
    BY <1>2
  <2> QED
    BY <1>1, <2>1, <2>2 DEF Plan, Succession, Held
<1>4. Lengths'
  BY <1>1, <1>2 DEF Plan, Lengths, Held
<1>5. Payable'
  BY <1>1, <1>2 DEF Plan, Payable, Spare, AffordsSuccessor
<1> QED
  BY <1>3, <1>4, <1>5 DEF Plan

\* Of two jobs on chain the one whose lease can still grow is the newer, and the
\* older does not list.
LEMMA ChainPlans == ASSUME Inv, Plan, NEW j \in Jobs, Chain(j) PROVE Plan'
<1>0. TypeOK /\ \A k \in Jobs : Bounded(k) BY DEF Inv
<1>p. Succession /\ Lengths /\ Payable BY DEF Plan
<1>1. ASSUME NEW t \in ext[j], ExtensionLands(j, t) PROVE Plan'
  <2>1. t \in Nat /\ t <= Ceiling /\ t > length[j] /\ state[j] = "running"
    BY <1>0, <1>1 DEF ExtensionLands, Bounded, TypeOK
  <2>2. /\ length'[j] = t /\ \A k \in Jobs \ {j} : length'[k] = length[k]
        /\ ext'[j] = ext[j] \ {t} /\ \A k \in Jobs \ {j} : ext'[k] = ext[k]
        /\ UNCHANGED <<pc, seen, target, state>>
    BY <1>0, <1>1 DEF ExtensionLands, TypeOK, loop
  <2>3. t = length[j] + 1
    BY <1>0, <1>p, <2>1 DEF Payable, TypeOK
  <2>4. ASSUME NEW k \in Jobs \ {j}, Held(k) PROVE length[k] >= Ceiling
    BY <1>0, <1>p, <2>1, <2>4, ParametersAssumption DEF Lengths, Held, TypeOK
  <2>5. Succession'
    BY <1>p, <2>2 DEF Succession, Held, Awaits
  <2>6. Lengths'
    <3>1. \A k \in Jobs : seen[k] \in Nat /\ length[k] \in Nat
      BY <1>0 DEF TypeOK
    <3>2. \A k \in Jobs : seen'[k] <= length'[k]
      BY <1>p, <2>1, <2>2, <3>1 DEF Lengths
    <3>3. \A k \in Jobs : length[k] >= Ceiling => length'[k] >= Ceiling
      BY <2>1, <2>2, <3>1, ParametersAssumption
    <3>4. \A k \in Jobs : pc'[k] \in {"gating", "listing"} => length'[k] >= Ceiling
      BY <1>p, <2>2, <3>3 DEF Lengths
    <3>5. \A k, l \in Jobs : Held(k)' /\ Held(l)' /\ k # l => length'[k] >= Ceiling \/ length'[l] >= Ceiling
      BY <1>p, <2>2, <3>3 DEF Lengths, Held
    <3>6. \A k \in Jobs : state'[k] # "running" => length'[k] = 0
      BY <1>p, <2>1, <2>2 DEF Lengths
    <3> QED
      BY <3>2, <3>4, <3>5, <3>6 DEF Lengths
  <2>7. Payable'
    <3>1. \A k \in Jobs \ {j} : state[k] = "running" => ~ \E u \in ext[k] : u > length[k]
      <4>1. SUFFICES ASSUME NEW k \in Jobs \ {j}, state[k] = "running",
                            NEW u \in ext[k], u > length[k]
                     PROVE  FALSE
        OBVIOUS
      <4>2. length[k] >= Ceiling /\ u <= Ceiling
        BY <1>0, <2>4, <4>1 DEF Held, Bounded
      <4>3. u \in Nat /\ length[k] \in Nat
        BY <1>0 DEF TypeOK
      <4> QED
        BY <4>1, <4>2, <4>3, ParametersAssumption
    <3>2. \A k \in Jobs \ {j} : ~(pc[k] = "extending" /\ seen[k] = length[k])
      <4>1. SUFFICES ASSUME NEW k \in Jobs \ {j}, pc[k] = "extending", seen[k] = length[k]
                     PROVE  FALSE
        OBVIOUS
      <4>2. Held(k) /\ seen[k] < Ceiling
        BY <1>0, <4>1 DEF Bounded, Alive, Held
      <4>3. length[k] >= Ceiling /\ length[k] \in Nat
        BY <1>0, <2>4, <4>2 DEF TypeOK
      <4> QED
        BY <4>1, <4>2, <4>3, ParametersAssumption
    <3>3. \A u \in ext'[j] : u \in Nat /\ u <= t
      BY <1>0, <1>p, <2>1, <2>2, <2>3 DEF Payable, TypeOK
    <3>4. seen[j] < t /\ seen[j] \in Nat
      BY <1>0, <1>p, <2>1 DEF Lengths, TypeOK
    <3>5. \A u \in ext'[j] : u <= t + 1 /\ ~(u > t)
      BY <2>1, <3>3
    <3>6. seen[j] # t
      BY <3>4, <2>1
    <3>7. \A k \in Jobs : ~(pc[k] = "listing" \/ state[k] = "sent")
      <4>1. ASSUME NEW k \in Jobs, state[k] = "sent" PROVE FALSE
        BY <1>p, <2>1, <2>4, <4>1, ParametersAssumption DEF Lengths, Held
      <4>2. ASSUME NEW k \in Jobs, pc[k] = "listing" PROVE FALSE
        <5>1. k = j
          BY <1>p, <2>1, <4>2 DEF Succession, Held
        <5> QED
          BY <1>0, <1>p, <2>1, <4>2, <5>1, ParametersAssumption DEF Lengths, TypeOK
      <4> QED
        BY <4>1, <4>2
    <3> QED
      BY <1>p, <2>1, <2>2, <3>1, <3>2, <3>5, <3>6, <3>7 DEF Payable
  <2> QED
    BY <2>5, <2>6, <2>7 DEF Plan
<1>2. ASSUME NEW t \in ext[j], ExtensionDrops(j, t) PROVE Plan'
  <2>1. /\ \A k \in Jobs : ext'[k] \subseteq ext[k]
        /\ UNCHANGED <<pc, seen, target, state, length, nos, sol>>
    BY <1>0, <1>2 DEF ExtensionDrops, TypeOK, loop, wallet
  <2> QED
    BY <1>p, <2>1 DEF Plan, Succession, Lengths, Payable, Spare, AffordsSuccessor, Held, Awaits
<1>3. CASE ListLands(j)
  <2>1. /\ state[j] = "sent" /\ state'[j] = "queued" /\ \A k \in Jobs \ {j} : state'[k] = state[k]
        /\ UNCHANGED <<pc, seen, target, length, ext>>
    BY <1>0, <1>3 DEF ListLands, TypeOK, loop
  <2>2. Succession'
    BY <1>p, <2>1 DEF Succession, Held, Awaits
  <2>3. Lengths'
    BY <1>p, <2>1 DEF Lengths, Held
  <2>4. ASSUME NEW k \in Jobs \ {j}, Held(k) PROVE length[k] >= Ceiling
    <3>1. length[j] = 0
      BY <1>p, <2>1 DEF Lengths
    <3> QED
      BY <1>p, <2>1, <2>4, <3>1, ParametersAssumption DEF Lengths, Held
  <2>5. \A k \in Jobs : state'[k] = "running" => ~ \E t \in ext'[k] : t > length'[k]
    <3>1. SUFFICES ASSUME NEW k \in Jobs, state'[k] = "running", NEW t \in ext[k], t > length[k]
                   PROVE  FALSE
      BY <2>1
    <3>2. k # j /\ Held(k)
      BY <2>1, <3>1 DEF Held
    <3>3. length[k] >= Ceiling /\ t <= Ceiling /\ t \in Nat /\ length[k] \in Nat
      BY <1>0, <2>4, <3>2 DEF Bounded, TypeOK
    <3> QED
      BY <3>1, <3>3, ParametersAssumption
  <2>6. \A k \in Jobs : pc[k] # "extending"
    <3>1. SUFFICES ASSUME NEW k \in Jobs, pc[k] = "extending" PROVE FALSE
      OBVIOUS
    <3>2. state[k] = "running"
      BY <1>0, <3>1 DEF Bounded, Alive
    <3>3. Awaits(k, j)
      BY <1>p, <2>1, <3>2 DEF Succession, Held
    <3> QED
      BY <3>1, <3>3 DEF Awaits
  <2>8. \A k \in Jobs : ~(pc[k] = "listing" \/ state'[k] = "sent")
    <3>1. ASSUME NEW k \in Jobs, pc[k] = "listing" PROVE FALSE
      <4>1. k # j
        BY <1>0, <2>1, <3>1 DEF Bounded, Alive
      <4> QED
        BY <1>p, <2>1, <3>1, <4>1 DEF Succession, Held
    <3>2. ASSUME NEW k \in Jobs, state'[k] = "sent" PROVE FALSE
      <4>1. k # j /\ state[k] = "sent"
        BY <2>1, <3>2
      <4>2. Awaits(j, k)
        BY <1>p, <2>1, <4>1 DEF Succession, Held
      <4> QED
        BY <1>0, <2>1, <4>2 DEF Awaits, Bounded, Alive
    <3> QED
      BY <3>1, <3>2
  <2>7. Payable'
    BY <1>p, <2>1, <2>5, <2>6, <2>8 DEF Payable
  <2> QED
    BY <2>2, <2>3, <2>7 DEF Plan
<1>4. CASE ListDrops(j)
  <2>1. /\ state[j] = "sent" /\ state'[j] = "none" /\ \A k \in Jobs \ {j} : state'[k] = state[k]
        /\ UNCHANGED <<pc, seen, target, length, ext, nos, sol>>
    BY <1>0, <1>4 DEF ListDrops, TypeOK, loop, wallet
  <2> QED
    BY <1>p, <2>1 DEF Plan, Succession, Lengths, Payable, Spare, AffordsSuccessor, Held, Awaits
<1>5. CASE Claim(j)
  <2>1. /\ state[j] = "queued" /\ state'[j] = "running" /\ \A k \in Jobs \ {j} : state'[k] = state[k]
        /\ length'[j] = 1 /\ \A k \in Jobs \ {j} : length'[k] = length[k]
        /\ UNCHANGED <<pc, seen, target, ext, nos, sol>>
    BY <1>0, <1>5 DEF Claim, TypeOK, loop, wallet
  <2>2. pc[j] = "off" /\ length[j] = 0 /\ ext[j] = {}
    BY <1>0, <1>p, <2>1 DEF Bounded, Alive, Lengths, Payable
  <2>3. \A k \in Jobs \ {j} : state[k] \notin {"sent", "queued"}
    <3>1. SUFFICES ASSUME NEW k \in Jobs \ {j}, state[k] \in {"sent", "queued"} PROVE FALSE
      OBVIOUS
    <3>2. Awaits(j, k)
      BY <1>p, <2>1, <3>1 DEF Succession, Held
    <3> QED
      BY <2>2, <3>2 DEF Awaits
  <2>4. Succession'
    BY <1>p, <2>1, <2>3 DEF Succession, Held, Awaits
  <2>5. Lengths'
    <3>1. \A k, l \in Jobs : Held(k)' /\ Held(l)' /\ k # l => length'[k] >= Ceiling \/ length'[l] >= Ceiling
      <4>1. SUFFICES ASSUME NEW k \in Jobs, NEW l \in Jobs, Held(k), Held(l), k # l
                     PROVE  length'[k] >= Ceiling \/ length'[l] >= Ceiling
        BY <2>1 DEF Held
      <4>2. length[k] >= Ceiling \/ length[l] >= Ceiling
        BY <1>p, <4>1 DEF Lengths
      <4>3. ~(length[j] >= Ceiling)
        BY <2>2, ParametersAssumption
      <4> QED
        BY <2>1, <4>2, <4>3
    <3>2. seen[j] = 0
      BY <1>0, <1>p, <2>2 DEF Lengths, TypeOK
    <3> QED
      BY <1>p, <2>1, <2>2, <3>1, <3>2 DEF Lengths
  <2>6. Payable'
    BY <1>p, <2>1, <2>2 DEF Payable, Spare, AffordsSuccessor
  <2> QED
    BY <2>4, <2>5, <2>6 DEF Plan
<1> QED
  BY <1>1, <1>2, <1>3, <1>4, <1>5 DEF Chain

\* Jobs that end leave the others their places.
LEMMA StoppedPlans ==
  ASSUME Inv, Plan, NEW js \in SUBSET Jobs, Stopped(js), \A j \in js : state[j] = "running",
         nos' >= nos, nos' \in Nat, sol' >= sol, sol' \in Nat, UNCHANGED ext
  PROVE  Plan'
<1>0. TypeOK BY DEF Inv
<1>p. Succession /\ Lengths /\ Payable BY DEF Plan
<1>1. /\ \A j \in js : /\ pc'[j] = "off" /\ seen'[j] = 0 /\ state'[j] = "none" /\ length'[j] = 0
      /\ \A j \in Jobs \ js : /\ pc'[j] = pc[j] /\ seen'[j] = seen[j] /\ target'[j] = target[j]
                              /\ state'[j] = state[j] /\ length'[j] = length[j]
  BY DEF Stopped
<1>2. Succession'
  BY <1>p, <1>1 DEF Succession, Held, Awaits
<1>3. Lengths'
  BY <1>p, <1>1 DEF Lengths, Held
<1>4. (Spare => Spare') /\ (AffordsSuccessor => AffordsSuccessor')
  BY <1>0, ParametersAssumption DEF TypeOK, Spare, AffordsSuccessor
<1>5. Payable'
  BY <1>p, <1>1, <1>4 DEF Payable
<1> QED
  BY <1>2, <1>3, <1>5 DEF Plan

LEMMA ExitPlans == ASSUME Inv, Plan, NEW j \in Jobs, ContainerExits(j) PROVE Plan'
<1>1. state[j] = "running" /\ nos' >= nos /\ nos' \in Nat /\ sol' >= sol /\ sol' \in Nat
  BY DEF ContainerExits, Inv, Bounded, TypeOK, wallet
<1> QED
  BY <1>1, StoppedPlans DEF ContainerExits

LEMMA TickPlans == ASSUME Inv, Plan, Tick PROVE Plan'
<1> DEFINE over == {j \in Jobs : state[j] = "running" /\ age[j] + 1 >= length[j]}
<1>1. nos' >= nos /\ nos' \in Nat /\ sol' >= sol /\ sol' \in Nat
  BY ParametersAssumption DEF Tick, Inv, TypeOK, wallet
<1>2. Stopped(over) /\ UNCHANGED ext
  BY DEF Tick
<1> QED
  BY <1>1, <1>2, StoppedPlans

LEMMA NextPlan == ASSUME Inv, Plan, ~Harsh, [Next]_vars PROVE Plan'
<1>1. ASSUME NEW j \in Jobs, Turn(j) PROVE Plan'
  BY <1>1, ExtendPlans, ReplacePlans, SendListPlans, DeliverPlans DEF Turn
<1>2. CASE UNCHANGED vars
  BY <1>2 DEF Plan, Succession, Lengths, Payable, Spare, AffordsSuccessor, Held, Awaits, vars, loop, leases, wallet
<1> QED
  BY <1>1, <1>2, ChainPlans, ExitPlans, TickPlans DEF Next

\* Nothing turns the weather, and what was short once was short.
LEMMA WeatherStays ==
  ASSUME [Next]_vars
  PROVE  weather' = weather /\ (short => short')
<1>1. ASSUME NEW j \in Jobs, Turn(j) \/ ContainerExits(j)
      PROVE  weather' = weather /\ short' = short
  BY <1>1 DEF Turn, ReadOwnJob, ReadWallet, SendExtension,
     ExtensionConfirmed, ExtensionRefused, SkipReplacement, ReadIndex, GateSuccessor,
     SendList, ListConfirmed, ListRefused, Claimed, ClaimLost, CheckRecovered, Deliver,
     HandOver, SuccessorGone, TurnFails, ContainerExits, past
<1>2. ASSUME NEW j \in Jobs, Chain(j) PROVE weather' = weather /\ short' = short
  BY <1>2 DEF Chain, ExtensionLands, ExtensionDrops, ListLands, ListDrops, Claim, past
<1>3. CASE Tick
  BY <1>3 DEF Tick
<1>4. CASE UNCHANGED vars
  BY <1>4 DEF vars, past
<1> QED
  BY <1>1, <1>2, <1>3, <1>4 DEF Next

Planned == ~Harsh => Plan

LEMMA PlanInvariant == Spec => [](Inv /\ Planned)
<1>1. Init => Planned
  BY InitPlan DEF Planned
<1>2. ASSUME Inv, Planned, [Next]_vars PROVE Planned'
  BY <1>2, NextPlan, WeatherStays DEF Planned, Harsh
<1> QED
  BY <1>1, <1>2, InitInv, NextInv, PTL DEF Spec

\* Only a transaction that lands takes from the wallet, and only a lease that is
\* extended grows.
LEMMA WhoPays ==
  ASSUME TypeOK, TypeOK', [Next]_vars
  PROVE  /\ sol' < sol => \E j \in Jobs : ListLands(j) \/ \E t \in ext[j] : ExtensionLands(j, t)
         /\ \A j \in Jobs : length'[j] > length[j] /\ state[j] = "running" =>
              \E t \in ext[j] : ExtensionLands(j, t)
<1>1. ASSUME NEW k \in Jobs, Turn(k) \/ ListDrops(k) \/ (\E u \in ext[k] : ExtensionDrops(k, u))
      PROVE  UNCHANGED <<length, sol>>
  BY <1>1 DEF Turn, ReadOwnJob, ReadWallet, SendExtension, ExtensionConfirmed,
     ExtensionRefused, SkipReplacement, ReadIndex, GateSuccessor, SendList,
     ListConfirmed, ListRefused, Claimed, ClaimLost, CheckRecovered, Deliver, HandOver,
     SuccessorGone, TurnFails, ListDrops, ExtensionDrops, leases, wallet
<1>2. ASSUME NEW k \in Jobs, Claim(k)
      PROVE  sol' = sol /\ \A j \in Jobs : state[j] = "running" => length'[j] = length[j]
  BY <1>2 DEF Claim, wallet, TypeOK
<1>3. ASSUME Tick \/ \E k \in Jobs : ContainerExits(k)
      PROVE  sol' >= sol /\ \A j \in Jobs : length'[j] <= length[j]
  <2>1. PICK js \in SUBSET Jobs : Stopped(js)
    BY <1>3 DEF Tick, ContainerExits
  <2>2. ASSUME NEW j \in Jobs PROVE length'[j] <= length[j]
    <3>1. length'[j] = 0 \/ length'[j] = length[j]
      BY <2>1 DEF Stopped
    <3> QED
      BY <3>1 DEF TypeOK
  <2>3. sol' = sol \/ (sol' = SolCap /\ sol < SolCap)
    <3>1. CASE Tick
      BY <3>1 DEF Tick, wallet
    <3>2. CASE \E k \in Jobs : ContainerExits(k)
      BY <3>2 DEF ContainerExits, wallet
    <3> QED
      BY <1>3, <3>1, <3>2
  <2>4. sol' >= sol
    BY <2>3, ParametersAssumption DEF TypeOK
  <2> QED
    BY <2>2, <2>4
<1>4. ASSUME NEW k \in Jobs, ListLands(k) PROVE UNCHANGED length
  BY <1>4 DEF ListLands
<1>5. ASSUME NEW k \in Jobs, NEW u \in ext[k], ExtensionLands(k, u)
      PROVE  \A j \in Jobs \ {k} : length'[j] = length[j]
  BY <1>5 DEF ExtensionLands, TypeOK
<1>6. CASE UNCHANGED vars
  BY <1>6 DEF vars, leases, wallet, TypeOK
<1>7. CASE \E k \in Jobs : ListLands(k) \/ \E u \in ext[k] : ExtensionLands(k, u)
  BY <1>4, <1>5, <1>7 DEF TypeOK
<1>8. CASE \E k \in Jobs : \/ Turn(k) \/ ListDrops(k) \/ (\E u \in ext[k] : ExtensionDrops(k, u))
                          \/ Claim(k)
  BY <1>1, <1>2, <1>8 DEF TypeOK
<1>9. CASE Tick \/ \E k \in Jobs : ContainerExits(k)
  BY <1>3, <1>9 DEF TypeOK
<1> QED
  BY <1>6, <1>7, <1>8, <1>9 DEF Next, Chain

\* Where a lister waits until its job is claimed, the wallet still holds what a loop
\* had read there when its transaction lands: an extension leaves the price of moving
\* out, and nothing is paid for under the fee floor (nosana_runtime.py:378-390,
\* renew.mjs:20-23).
THEOREM ReserveIsKept == Spec => ReserveKept
<1>1. ASSUME Inv, Planned, [Next]_vars
      PROVE  [~Harsh => /\ \A j \in Jobs : length'[j] > length[j] /\ state[j] = "running" => nos' >= Reserve
                        /\ sol' < sol => sol >= SolFloor]_vars
  <2> SUFFICES ASSUME ~Harsh
               PROVE  [/\ \A j \in Jobs : length'[j] > length[j] /\ state[j] = "running" => nos' >= Reserve
                       /\ sol' < sol => sol >= SolFloor]_vars
    OBVIOUS
  <2>0. TypeOK /\ TypeOK' /\ Payable
    BY <1>1, NextInv DEF Inv, Plan, Planned
  <2>1. ASSUME NEW j \in Jobs, NEW t \in ext[j], ExtensionLands(j, t)
        PROVE  Spare /\ nos' >= Reserve
    <3>1. t > length[j] /\ state[j] = "running" /\ nos' = nos - (t - length[j])
      BY <2>1 DEF ExtensionLands
    <3>2. Spare /\ t <= length[j] + 1
      BY <2>0, <3>1 DEF Payable
    <3>3. t \in Nat /\ length[j] \in Nat /\ nos \in Nat
      BY <2>0 DEF TypeOK
    <3> QED
      BY <3>1, <3>2, <3>3, ParametersAssumption DEF Spare
  <2>2. ASSUME NEW j \in Jobs, ListLands(j) PROVE sol >= SolFloor
    BY <2>0, <2>2 DEF ListLands, Payable, AffordsSuccessor
  <2> QED
    BY <1>1, <2>0, <2>1, <2>2, WhoPays DEF Spare
<1> QED
  BY <1>1, PlanInvariant, PTL DEF Spec, ReserveKept

Filled == sol <= SolCap

\* With the defaults of the code, which refill the wallet to no more SOL than the
\* loops demand before they sign, a transaction lands only on a wallet as the
\* refill left it: at most one of them between two refills, where a lister waits
\* until its job is claimed (sub-wallet.mjs:33, nosana_bootstrap.py:40,
\* nosana_runtime.py:378).
THEOREM OneTransactionPerRefill ==
  ASSUME SolCap <= SolFloor
  PROVE  Spec => [][~Harsh /\ sol' < sol => sol = SolCap]_vars
<1>1. Init => Filled
  BY ParametersAssumption DEF Init, Filled
<1>2. ASSUME TypeOK, TypeOK', Filled, [Next]_vars PROVE Filled'
  <2> USE DEF Filled
  <2>1. CASE \E j \in Jobs : ListLands(j) \/ \E t \in ext[j] : ExtensionLands(j, t)
    BY <1>2, <2>1, ParametersAssumption DEF ListLands, ExtensionLands, TypeOK
  <2>2. CASE \E j \in Jobs : \/ Turn(j) \/ ListDrops(j) \/ Claim(j) \/ ContainerExits(j)
                            \/ \E t \in ext[j] : ExtensionDrops(j, t)
    <3>1. sol' = sol
      BY <2>2 DEF Turn, ReadOwnJob, ReadWallet, SendExtension, ExtensionConfirmed,
         ExtensionRefused, SkipReplacement, ReadIndex, GateSuccessor, SendList,
         ListConfirmed, ListRefused, Claimed, ClaimLost, CheckRecovered, Deliver, HandOver,
         SuccessorGone, TurnFails, ListDrops, ExtensionDrops, Claim, ContainerExits, wallet
    <3> QED
      BY <1>2, <3>1
  <2>3. CASE Tick \/ UNCHANGED vars
    BY <1>2, <2>3, ParametersAssumption DEF Tick, vars, wallet, TypeOK
  <2> QED
    BY <1>2, <2>1, <2>2, <2>3 DEF Next, Chain
<1>3. Inv => TypeOK
  BY DEF Inv
<1>4. ASSUME Filled, TypeOK,
             [~Harsh => /\ \A j \in Jobs : length'[j] > length[j] /\ state[j] = "running" => nos' >= Reserve
                        /\ sol' < sol => sol >= SolFloor]_vars
      PROVE  [~Harsh /\ sol' < sol => sol = SolCap]_vars
  BY <1>4, ParametersAssumption DEF TypeOK, Filled
<1>5. Spec => [][~Harsh => /\ \A j \in Jobs : length'[j] > length[j] /\ state[j] = "running" => nos' >= Reserve
                           /\ sol' < sol => sol >= SolFloor]_vars
  BY ReserveIsKept DEF ReserveKept
<1> QED
  BY <1>1, <1>2, <1>3, <1>4, <1>5, InitInv, NextInv, PTL DEF Spec

----------------------------------------------------------------------------
(***************************************************************************)
(* Always a shelter, when nothing fails and the loops can pay.  The        *)
(* shelter that matters is the youngest job on chain, the front: the       *)
(* others are as long as they may get and old enough to have been          *)
(* replaced.  A unit of time passes only when the front has nothing left   *)
(* to do, so that it has more than the margin left unless it could not     *)
(* pay; and a successor is tended from the moment it is sent for until its *)
(* container runs.                                                         *)
(***************************************************************************)
\* The age at which a shelter looks for its successor.
Generation == Ceiling - Margin

Old(j) == length[j] >= Ceiling /\ age[j] >= Generation
Front(f) == Held(f) /\ \A k \in Jobs \ {f} : Held(k) => age[f] < age[k] /\ Old(k)

Moving == {"gating", "listing", "posting", "claiming", "checking", "delivering", "verifying"}
Tends(j, s) == pc[j] \in {"posting", "claiming", "checking", "delivering"} /\ target[j] = s

Ages ==
  \A j \in Jobs : /\ state[j] = "running" => age[j] < length[j]
                  /\ state[j] # "running" => age[j] = 0
                  /\ done[j] => Alive(j)

Relay ==
  /\ \E f \in Jobs : Front(f)
  /\ \A j \in Jobs : pc[j] \in Moving => Old(j)
  /\ \A j \in Jobs : pc[j] \in Moving \ {"gating", "listing"} =>
       target[j] \in Jobs /\ age[target[j]] < age[j]
  /\ \A s \in Jobs : Held(s) /\ ~Alive(s) => \E j \in Jobs : Tends(j, s)
  /\ \A j \in Jobs : done[j] => ~Front(j)

Custody == Ages /\ Relay

LEMMA Sizes ==
  /\ Margin \in Nat \ {0} /\ Ceiling \in Nat /\ Reserve \in Nat /\ SolFloor \in Nat \ {0}
  /\ Generation \in Nat \ {0} /\ Generation + Margin = Ceiling
  BY ParametersAssumption DEF Generation

LEMMA InitCustody == ASSUME Init PROVE Custody
<1>1. PICK first \in Jobs :
        /\ pc = [j \in Jobs |-> IF j = first THEN "asleep" ELSE "off"]
        /\ state = [j \in Jobs |-> IF j = first THEN "running" ELSE "none"]
        /\ length = [j \in Jobs |-> IF j = first THEN 1 ELSE 0]
  BY DEF Init
<1>2. /\ age = [j \in Jobs |-> 0] /\ done = [j \in Jobs |-> FALSE]
  BY DEF Init
<1>3. Ages
  BY <1>1, <1>2 DEF Ages
<1>4. Relay
  BY <1>1, <1>2 DEF Relay, Front, Held, Alive, Moving
<1> QED
  BY <1>3, <1>4 DEF Custody

----------------------------------------------------------------------------
\* The loops.  A step that leaves the jobs and their ages alone leaves the front
\* where it is.
LEMMA FrontStays ==
  ASSUME UNCHANGED <<state, age, length>>
  PROVE  \A f \in Jobs : Front(f)' <=> Front(f)
  BY DEF Front, Old, Held

\* One loop's step keeps the relay if the loop only goes on to move once it is old,
\* only towards a younger job, goes on tending the job it has listed until a
\* container runs there, and takes the handover for done only when it is not the
\* front.
LEMMA LoopRelays ==
  ASSUME Inv, Custody, NEW j \in Jobs, NEW to \in {"asleep"} \cup Turning,
         Alive(j), Goto(j, to), UNCHANGED leases,
         \A k \in Jobs \ {j} : target'[k] = target[k] /\ done'[k] = done[k],
         done'[j] => done[j] \/ ~Front(j),
         to \in Moving => Old(j),
         to \in Moving \ {"gating", "listing"} => target'[j] \in Jobs /\ age[target'[j]] < age[j],
         \A s \in Jobs : Tends(j, s) /\ Held(s) /\ ~Alive(s) => Tends(j, s)'
  PROVE  Custody'
<1>0. /\ pc'[j] = to /\ \A k \in Jobs \ {j} : pc'[k] = pc[k]
      /\ UNCHANGED <<state, age, length>>
  BY DEF Goto, Inv, TypeOK, leases
<1>1. \A k \in Jobs : Alive(k)' <=> Alive(k)
  BY <1>0 DEF Alive, Turning
<1>2. \A f \in Jobs : Front(f)' <=> Front(f)
  BY <1>0, FrontStays
<1>3. Ages'
  BY <1>0, <1>1 DEF Custody, Ages
<1>4. Relay'
  <2>1. \E f \in Jobs : Front(f)'
    BY <1>2 DEF Custody, Relay
  <2>2. \A k \in Jobs : pc'[k] \in Moving => Old(k)'
    BY <1>0 DEF Custody, Relay, Old
  <2>3. \A k \in Jobs : pc'[k] \in Moving \ {"gating", "listing"} =>
          target'[k] \in Jobs /\ age'[target'[k]] < age'[k]
    BY <1>0 DEF Custody, Relay
  <2>4. ASSUME NEW s \in Jobs, Held(s)', ~Alive(s)' PROVE \E k \in Jobs : Tends(k, s)'
    <3>1. Held(s) /\ ~Alive(s)
      BY <1>0, <1>1, <2>4 DEF Held
    <3>2. PICK k \in Jobs : Tends(k, s)
      BY <3>1 DEF Custody, Relay
    <3>3. Tends(k, s)'
      BY <1>0, <3>1, <3>2 DEF Tends
    <3> QED
      BY <3>3
  <2>5. \A k \in Jobs : done'[k] => ~Front(k)'
    BY <1>2 DEF Custody, Relay
  <2> QED
    BY <2>1, <2>2, <2>3, <2>4, <2>5 DEF Relay
<1> QED
  BY <1>3, <1>4 DEF Custody

LEMMA SleepRelays ==
  ASSUME Inv, Custody, NEW j \in Jobs, Alive(j), Sleep(j), UNCHANGED leases,
         \A k \in Jobs \ {j} : done'[k] = done[k],
         done'[j] => done[j] \/ ~Front(j),
         \A s \in Jobs : Tends(j, s) => ~Held(s) \/ Alive(s)
  PROVE  Custody'
<1>1. Goto(j, "asleep") /\ \A k \in Jobs \ {j} : target'[k] = target[k]
  BY DEF Sleep, Inv, TypeOK
<1> QED
  BY <1>1, LoopRelays DEF Moving

\* Whoever has a younger job running is not the front.
LEMMA Relieved ==
  ASSUME Inv, NEW j \in Jobs, NEW s \in Jobs, Held(s), age[s] < age[j]
  PROVE  ~Front(j)
<1>1. age[s] \in Nat /\ age[j] \in Nat
  BY DEF Inv, TypeOK
<1> QED
  BY <1>1 DEF Front

LEMMA ExtendRelays ==
  ASSUME Inv, Custody, NEW j \in Jobs,
         ReadOwnJob(j) \/ ReadWallet(j) \/ SendExtension(j)
           \/ ExtensionConfirmed(j) \/ ExtensionRefused(j) \/ SkipReplacement(j)
  PROVE  Custody'
<1>0. TypeOK BY DEF Inv
<1>1. CASE ReadOwnJob(j) \/ ReadWallet(j) \/ ExtensionConfirmed(j)
  <2>1. PICK to \in {"affording", "extending", "replacing"} : Goto(j, to)
    BY <1>1 DEF ReadOwnJob, ReadWallet, ExtensionConfirmed
  <2>2. UNCHANGED <<target, done, leases>> /\ Alive(j) /\ \A s \in Jobs : ~Tends(j, s)
    BY <1>1 DEF ReadOwnJob, ReadWallet, ExtensionConfirmed, Alive, Tends
  <2> QED
    BY <2>1, <2>2, LoopRelays DEF Turning, Moving
<1>2. CASE SendExtension(j)
  <2>1. /\ pc'[j] = "confirming" /\ \A k \in Jobs \ {j} : pc'[k] = pc[k]
        /\ pc[j] = "extending"
        /\ UNCHANGED <<target, done, state, age, length>>
    BY <1>0, <1>2 DEF SendExtension, Goto, TypeOK
  <2>2. \A f \in Jobs : Front(f)' <=> Front(f)
    BY <2>1, FrontStays
  <2>3. Ages'
    BY <2>1 DEF Custody, Ages, Alive
  <2>4. \A k, s \in Jobs : Tends(k, s)' <=> Tends(k, s)
    BY <2>1 DEF Tends
  <2>5. \A k \in Jobs : (Alive(k)' <=> Alive(k)) /\ (Held(k)' <=> Held(k)) /\ (Old(k)' <=> Old(k))
    BY <2>1 DEF Alive, Held, Old
  <2>6. \A k \in Jobs : pc'[k] \in Moving => pc'[k] = pc[k]
    BY <2>1 DEF Moving
  <2>7. Relay'
    BY <2>1, <2>2, <2>4, <2>5, <2>6 DEF Custody, Relay
  <2> QED
    BY <2>3, <2>7 DEF Custody
<1>3. CASE ExtensionRefused(j) \/ SkipReplacement(j)
  <2>1. /\ Sleep(j) /\ UNCHANGED <<done, leases>> /\ Alive(j)
        /\ \A s \in Jobs : ~Tends(j, s)
    BY <1>3 DEF ExtensionRefused, SkipReplacement, Alive, Tends
  <2> QED
    BY <2>1, SleepRelays
<1> QED
  BY <1>1, <1>2, <1>3

LEMMA ReplaceRelays ==
  ASSUME Inv, Plan, Calm, Custody, NEW j \in Jobs,
         ReadIndex(j) \/ GateSuccessor(j) \/ ListConfirmed(j) \/ ListRefused(j)
           \/ Claimed(j) \/ ClaimLost(j) \/ CheckRecovered(j) \/ HandOver(j)
           \/ SuccessorGone(j) \/ TurnFails(j)
  PROVE  Custody'
<1>0. TypeOK /\ Bounded(j) /\ Relay BY DEF Inv, Custody
<1>1. CASE ReadIndex(j)
  <2>1. Old(j)
    <3>1. seen[j] >= Ceiling /\ seen[j] - age[j] <= Margin
      BY <1>1, ParametersAssumption DEF ReadIndex, ShouldReplace, Left
    <3>2. seen[j] <= length[j] /\ seen[j] \in Nat /\ length[j] \in Nat /\ age[j] \in Nat
      BY <1>0 DEF Plan, Lengths, TypeOK
    <3> QED
      BY <3>1, <3>2, ParametersAssumption DEF Old, Generation
  <2>2. /\ UNCHANGED <<done, leases>> /\ Alive(j)
        /\ \A s \in Jobs : ~Tends(j, s)
    BY <1>1 DEF ReadIndex, Alive, Tends
  <2>3. \/ Goto(j, "gating") /\ UNCHANGED target
        \/ \E s \in Jobs : /\ Acceptable(j, s)
                           /\ target' = [target EXCEPT ![j] = s]
                           /\ Goto(j, "checking")
        \/ Sleep(j)
    BY <1>1 DEF ReadIndex, Successors, Indexed
  <2>4. CASE Goto(j, "gating") /\ UNCHANGED target
    BY <2>1, <2>2, <2>4, LoopRelays DEF Turning
  <2>5. ASSUME NEW s \in Jobs, Acceptable(j, s),
               target' = [target EXCEPT ![j] = s], Goto(j, "checking")
        PROVE  Custody'
    <3>1. target'[j] = s /\ \A k \in Jobs \ {j} : target'[k] = target[k]
      BY <1>0, <2>5 DEF TypeOK
    <3>2. age[s] < age[j]
      BY <2>5 DEF Acceptable
    <3> QED
      BY <2>1, <2>2, <2>5, <3>1, <3>2, LoopRelays DEF Turning
  <2> QED
    BY <2>2, <2>3, <2>4, <2>5, SleepRelays
<1>2. CASE GateSuccessor(j)
  <2>1. /\ Old(j) /\ UNCHANGED <<done, leases>> /\ Alive(j)
        /\ \A s \in Jobs : ~Tends(j, s)
    BY <1>0, <1>2 DEF GateSuccessor, Relay, Moving, Alive, Tends
  <2>2. CASE Goto(j, "listing") /\ UNCHANGED target
    BY <2>1, <2>2, LoopRelays DEF Turning
  <2> QED
    BY <1>2, <2>1, <2>2, SleepRelays DEF GateSuccessor
<1>3. CASE ListConfirmed(j) \/ Claimed(j) \/ (CheckRecovered(j) /\ Goto(j, "delivering") /\ UNCHANGED target)
  <2>1. PICK to \in {"claiming", "delivering"} : Goto(j, to)
    BY <1>3 DEF ListConfirmed, Claimed
  <2>2. /\ UNCHANGED <<target, leases>> /\ Alive(j)
        /\ pc[j] \in {"posting", "claiming", "checking"}
    BY <1>3 DEF ListConfirmed, Claimed, CheckRecovered, Alive
  <2>3. Old(j) /\ target[j] \in Jobs /\ age[target[j]] < age[j]
    BY <1>0, <2>2 DEF Relay, Moving
  <2>4. pc'[j] = to
    BY <1>0, <2>1 DEF Goto, TypeOK
  <2>5. \A s \in Jobs : Tends(j, s) => Tends(j, s)'
    BY <2>1, <2>2, <2>4 DEF Tends
  <2>6. CASE UNCHANGED done
    BY <2>1, <2>2, <2>3, <2>5, <2>6, LoopRelays DEF Turning
  <2>7. CASE ~ UNCHANGED done
    <3>1. Sleep(j)
      BY <1>3, <2>7 DEF ListConfirmed, Claimed, CheckRecovered
    <3> QED
      BY <1>0, <2>1, <2>4, <3>1 DEF Sleep, Goto, TypeOK
  <2> QED
    BY <2>6, <2>7
<1>4. CASE ListRefused(j) \/ ClaimLost(j)
  <2>1. /\ state[target[j]] = "none" /\ Sleep(j) /\ UNCHANGED <<done, leases>>
        /\ Alive(j)
    BY <1>4 DEF ListRefused, ClaimLost, Alive
  <2> QED
    BY <2>1, SleepRelays DEF Tends, Held
<1>5. CASE HandOver(j) \/ (CheckRecovered(j) /\ Sleep(j))
  <2>1. /\ Sleep(j) /\ Alive(j) /\ Alive(target[j])
        /\ pc[j] \in {"checking", "verifying"}
        /\ done' = [done EXCEPT ![j] = TRUE] /\ UNCHANGED leases
    <3>1. CASE HandOver(j)
      BY <3>1 DEF HandOver, Alive
    <3>2. CASE CheckRecovered(j) /\ Sleep(j)
      <4>1. pc'[j] = "asleep"
        BY <1>0, <3>2 DEF Sleep, Goto, TypeOK
      <4>2. ~Goto(j, "delivering")
        BY <1>0, <4>1 DEF Goto, TypeOK
      <4> QED
        BY <3>2, <4>2 DEF CheckRecovered, Alive
    <3> QED
      BY <1>5, <3>1, <3>2
  <2>2. target[j] \in Jobs /\ age[target[j]] < age[j]
    BY <1>0, <2>1 DEF Relay, Moving
  <2>3. Held(target[j])
    BY <2>1, <2>2 DEF Inv, Bounded, Held
  <2>4. ~Front(j)
    BY <2>2, <2>3, Relieved
  <2>5. \A k \in Jobs \ {j} : done'[k] = done[k]
    BY <1>0, <2>1 DEF TypeOK
  <2> QED
    BY <2>1, <2>4, <2>5, SleepRelays DEF Tends
<1>6. CASE SuccessorGone(j)
  <2>1. \A s \in Jobs : Tends(j, s) => ~Held(s)
    BY <1>6 DEF SuccessorGone, Tends, Held
  <2> QED
    BY <1>6, <2>1, SleepRelays DEF SuccessorGone, Alive
<1>7. CASE TurnFails(j)
  BY <1>7 DEF TurnFails
<1> QED
  BY <1>1, <1>2, <1>3, <1>4, <1>5, <1>6, <1>7 DEF CheckRecovered

\* The container is started in the job its lister tends.
LEMMA DeliverRelays == ASSUME Inv, Custody, NEW j \in Jobs, Deliver(j) PROVE Custody'
<1>0. TypeOK /\ Relay BY DEF Inv, Custody
<1>1. PICK s : s = target[j]
  OBVIOUS
<1>2. pc[j] = "delivering" /\ state[s] = "running"
  BY <1>1 DEF Deliver
<1>3. s \in Jobs /\ age[s] < age[j] /\ Old(j)
  BY <1>0, <1>1, <1>2 DEF Relay, Moving
<1>4. s # j
  BY <1>0, <1>3 DEF TypeOK
<1>5. /\ pc'[j] = "verifying" /\ pc'[s] = (IF Alive(s) THEN pc[s] ELSE "asleep")
      /\ \A k \in Jobs \ {j, s} : pc'[k] = pc[k]
      /\ UNCHANGED <<target, done, state, age, length>>
  BY <1>0, <1>1, <1>3, <1>4 DEF Deliver, TypeOK, leases
<1>6. Alive(j) /\ Alive(j)' /\ Alive(s)' /\ \A k \in Jobs \ {s} : Alive(k)' <=> Alive(k)
  BY <1>2, <1>5 DEF Alive
<1>7. \A f \in Jobs : Front(f)' <=> Front(f)
  BY <1>5, FrontStays
<1>8. Ages'
  BY <1>5, <1>6 DEF Custody, Ages
<1>9. Relay'
  <2>1. \E f \in Jobs : Front(f)'
    BY <1>0, <1>7 DEF Relay
  <2>2. \A k \in Jobs : pc'[k] \in Moving => k = j \/ pc'[k] = pc[k]
    BY <1>5 DEF Moving
  <2>3. \A k \in Jobs : pc'[k] \in Moving => Old(k)'
    BY <1>0, <1>3, <1>5, <2>2 DEF Relay, Old
  <2>4. \A k \in Jobs : pc'[k] \in Moving \ {"gating", "listing"} =>
          target'[k] \in Jobs /\ age'[target'[k]] < age'[k]
    BY <1>0, <1>1, <1>3, <1>5, <2>2 DEF Relay
  <2>5. ASSUME NEW r \in Jobs, Held(r)', ~Alive(r)' PROVE \E k \in Jobs : Tends(k, r)'
    <3>1. Held(r) /\ ~Alive(r) /\ r # s
      BY <1>5, <1>6, <2>5 DEF Held
    <3>2. PICK k \in Jobs : Tends(k, r)
      BY <1>0, <3>1 DEF Relay
    <3>3. k # j
      BY <1>1, <3>1, <3>2 DEF Tends
    <3>4. Tends(k, r)'
      BY <1>5, <3>2, <3>3 DEF Tends, Alive
    <3> QED
      BY <3>4
  <2>6. \A k \in Jobs : done'[k] => ~Front(k)'
    BY <1>0, <1>5, <1>7 DEF Relay
  <2> QED
    BY <2>1, <2>3, <2>4, <2>5, <2>6 DEF Relay
<1> QED
  BY <1>8, <1>9 DEF Custody

\* The loop that lists is alone on chain, and its successor the new front.
LEMMA SendListRelays ==
  ASSUME Inv, Plan, Custody, NEW j \in Jobs, SendList(j)
  PROVE  Custody'
<1>0. TypeOK /\ Bounded(j) /\ Relay /\ Ages BY DEF Inv, Custody
<1>1. PICK s \in Jobs : /\ Free(s)
                        /\ state' = [state EXCEPT ![s] = "sent"]
                        /\ target' = [target EXCEPT ![j] = s]
  BY DEF SendList
<1>2. /\ pc[j] = "listing" /\ pc'[j] = "posting" /\ \A k \in Jobs \ {j} : pc'[k] = pc[k]
      /\ state'[s] = "sent" /\ \A k \in Jobs \ {s} : state'[k] = state[k]
      /\ target'[j] = s /\ \A k \in Jobs \ {j} : target'[k] = target[k]
      /\ UNCHANGED <<done, age, length>>
  BY <1>0, <1>1 DEF SendList, Goto, TypeOK
<1>3. /\ Old(j) /\ Alive(j) /\ state[j] = "running"
      /\ pc[s] = "off" /\ state[s] = "none" /\ s # j
      /\ \A k \in Jobs \ {j} : ~Held(k)
  BY <1>0, <1>1, <1>2 DEF Relay, Moving, Bounded, Alive, Free, Plan, Succession
<1>4. age[s] = 0 /\ length[s] = 0 /\ length[j] = Ceiling /\ age[j] >= Generation
      /\ age[j] \in Nat
  BY <1>0, <1>3, ParametersAssumption DEF Ages, Plan, Lengths, Old, Bounded, TypeOK
<1>5. \A k \in Jobs : (Held(k)' <=> k \in {j, s}) /\ (Alive(k)' <=> Alive(k)) /\ (Old(k)' <=> Old(k))
  BY <1>2, <1>3 DEF Held, Alive, Old
<1>6. Front(s)' /\ \A k \in Jobs \ {s} : ~Front(k)'
  BY <1>2, <1>3, <1>4, <1>5, Sizes DEF Front
<1>7. Ages'
  BY <1>0, <1>2, <1>3, <1>5 DEF Ages
<1>8. Relay'
  <2>1. \A k \in Jobs : pc'[k] \in Moving => Old(k)'
    BY <1>0, <1>2, <1>3, <1>5 DEF Relay
  <2>2. \A k \in Jobs : pc'[k] \in Moving \ {"gating", "listing"} =>
          target'[k] \in Jobs /\ age'[target'[k]] < age'[k]
    BY <1>0, <1>2, <1>4, Sizes DEF Relay
  <2>3. Tends(j, s)'
    BY <1>2 DEF Tends
  <2>4. \A k \in Jobs : done'[k] => ~Front(k)'
    <3>1. \A k \in Jobs : done[k] => k # s
      BY <1>0, <1>3 DEF Ages, Alive
    <3> QED
      BY <1>2, <1>6, <3>1
  <2> QED
    BY <1>3, <1>5, <1>6, <2>1, <2>2, <2>3, <2>4 DEF Relay
<1> QED
  BY <1>7, <1>8 DEF Custody

----------------------------------------------------------------------------
\* The chain.  Only the front buys.
LEMMA FrontBuys ==
  ASSUME Inv, Custody, NEW j \in Jobs, Held(j), ~Old(j)
  PROVE  Front(j) /\ \A k \in Jobs \ {j} : ~Front(k)
<1>1. PICK f \in Jobs : Front(f)
  BY DEF Custody, Relay
<1>2. f = j
  BY <1>1 DEF Front
<1> QED
  BY <1>1, <1>2 DEF Front

\* A job that is listed and not yet claimed is the front.
LEMMA FreshIsFront ==
  ASSUME Inv, Plan, Custody, NEW s \in Jobs, state[s] \in {"sent", "queued"}
  PROVE  /\ Front(s) /\ \A k \in Jobs \ {s} : ~Front(k)
         /\ age[s] = 0 /\ length[s] = 0
<1>1. age[s] = 0 /\ length[s] = 0
  BY DEF Custody, Ages, Plan, Lengths
<1>2. ~Old(s) /\ Held(s)
  BY <1>1, Sizes DEF Old, Held
<1> QED
  BY <1>1, <1>2, FrontBuys

\* What the relay says is kept by whatever leaves the loops and the ages alone and
\* lets no job appear or become less than it was.
LEMMA ChainRelays ==
  ASSUME Inv, Custody, UNCHANGED <<loop, age>>,
         \A k \in Jobs : (Held(k)' <=> Held(k)) /\ (Old(k)' <=> Old(k))
  PROVE  Relay' /\ \A f \in Jobs : Front(f)' <=> Front(f)
<1>1. \A f \in Jobs : Front(f)' <=> Front(f)
  BY DEF Front
<1>2. \A j, s \in Jobs : (Tends(j, s)' <=> Tends(j, s)) /\ (Alive(s)' <=> Alive(s))
  BY DEF Tends, Alive, loop
<1> QED
  BY <1>1, <1>2 DEF Custody, Relay, loop

LEMMA ChainCustody ==
  ASSUME Inv, Plan, Calm, Custody, NEW j \in Jobs, Chain(j)
  PROVE  Custody'
<1>0. TypeOK /\ (\A k \in Jobs : Bounded(k)) /\ Ages BY DEF Inv, Custody
<1>1. ASSUME NEW t \in ext[j], ExtensionLands(j, t) PROVE Custody'
  <2>1. t > length[j] /\ t <= Ceiling /\ t \in Nat /\ length[j] \in Nat /\ state[j] = "running"
    BY <1>0, <1>1 DEF ExtensionLands, Bounded, TypeOK
  <2>3. Front(j) /\ \A k \in Jobs \ {j} : ~Front(k)
    <3>1. Held(j) /\ ~Old(j)
      BY <2>1, ParametersAssumption DEF Held, Old
    <3> QED
      BY <3>1, FrontBuys
  <2>4. /\ length'[j] = t /\ \A k \in Jobs \ {j} : length'[k] = length[k]
        /\ UNCHANGED <<loop, state, age>>
    BY <1>0, <1>1, <2>1 DEF ExtensionLands, TypeOK
  <2>5. Ages'
    BY <1>0, <2>1, <2>4 DEF Ages, Alive, loop, TypeOK
  <2>6. age[j] < length[j] /\ age[j] \in Nat
    BY <1>0, <2>1 DEF Ages, TypeOK
  <2>7. Front(j)' /\ \A k \in Jobs \ {j} : ~Front(k)'
    <3>1. \A k \in Jobs \ {j} : Held(k) => age[j] < age[k] /\ Old(k)
      BY <2>3 DEF Front
    <3>2. \A k \in Jobs : age[k] \in Nat
      BY <1>0 DEF TypeOK
    <3> QED
      BY <2>1, <2>4, <3>1, <3>2 DEF Front, Held, Old
  <2>8. Relay'
    <3>1. \A k \in Jobs : Old(k) => Old(k)'
      BY <2>1, <2>4, ParametersAssumption DEF Old
    <3>2. \A k \in Jobs : (Front(k)' <=> Front(k)) /\ (Held(k)' <=> Held(k)) /\ (Alive(k)' <=> Alive(k))
      BY <2>3, <2>4, <2>7 DEF Held, Alive, loop
    <3>3. \A k, s \in Jobs : Tends(k, s)' <=> Tends(k, s)
      BY <2>4 DEF Tends, loop
    <3>4. UNCHANGED <<pc, target, done, age>>
      BY <2>4 DEF loop
    <3> QED
      BY <3>1, <3>2, <3>3, <3>4 DEF Custody, Relay
  <2> QED
    BY <2>5, <2>8 DEF Custody
<1>2. ASSUME NEW t \in ext[j], ExtensionDrops(j, t) PROVE Custody'
  <2>1. UNCHANGED <<loop, state, age, length>>
    BY <1>2 DEF ExtensionDrops
  <2>2. \A k \in Jobs : (Held(k)' <=> Held(k)) /\ (Old(k)' <=> Old(k)) /\ (Alive(k)' <=> Alive(k))
    BY <2>1 DEF Held, Old, Alive, loop
  <2>3. Relay'
    BY <2>1, <2>2, ChainRelays
  <2>4. Ages'
    BY <1>0, <2>1, <2>2 DEF Ages, loop
  <2> QED
    BY <2>3, <2>4 DEF Custody
<1>3. CASE ListLands(j) \/ Claim(j)
  <2>1. /\ state[j] \in {"sent", "queued"} /\ state'[j] \in {"queued", "running"}
        /\ \A k \in Jobs \ {j} : state'[k] = state[k] /\ length'[k] = length[k]
        /\ state'[j] = "running" => length'[j] = 1
        /\ state'[j] = "queued" => length'[j] = length[j]
        /\ UNCHANGED loop
    BY <1>0, <1>3 DEF ListLands, Claim, TypeOK
  <2>2. age[j] = 0 /\ length[j] = 0
    BY <2>1, FreshIsFront
  <2>3. UNCHANGED age
    BY <1>0, <1>3, <2>2 DEF ListLands, Claim, TypeOK
  <2>4. \A k \in Jobs : (Held(k)' <=> Held(k)) /\ (Old(k)' <=> Old(k)) /\ (Alive(k)' <=> Alive(k))
    BY <2>1, <2>2, <2>3, Sizes DEF Held, Old, Alive, loop
  <2>5. Relay'
    BY <2>1, <2>3, <2>4, ChainRelays
  <2>6. Ages'
    BY <1>0, <2>1, <2>2, <2>3, <2>4 DEF Ages, loop
  <2> QED
    BY <2>5, <2>6 DEF Custody
<1>4. CASE ListDrops(j)
  <2>1. state[j] = "sent" /\ (nos = 0 \/ sol = 0)
    BY <1>4 DEF ListDrops
  <2>2. AffordsSuccessor
    BY <2>1 DEF Plan, Payable
  <2> QED
    BY <2>1, <2>2, Sizes DEF AffordsSuccessor
<1> QED
  BY <1>1, <1>2, <1>3, <1>4 DEF Chain

----------------------------------------------------------------------------
\* A unit of time passes only when the loops have nothing left to do that they can
\* pay for.  If they could pay for all of it, the front has a container and more than
\* the margin left: it is not old yet, for an old one would have been replaced and
\* not be the front.
LEMMA RestedFront ==
  ASSUME Inv, Custody, Rested, \A j \in Jobs : ~Lacks(j), NEW f \in Jobs, Front(f)
  PROVE  /\ Alive(f) /\ state[f] = "running"
         /\ length[f] >= age[f] + 2 /\ age[f] < Generation
<1>0. TypeOK /\ Bounded(f) /\ Ages /\ Relay BY DEF Inv, Custody
<1>1. state[f] = "running"
  BY <1>0 DEF Front, Held, Rested, TypeOK
<1>2. Alive(f)
  <2>1. SUFFICES ASSUME ~Alive(f) PROVE FALSE
    OBVIOUS
  <2>2. PICK j \in Jobs : Tends(j, f)
    BY <1>0, <2>1 DEF Relay, Front
  <2> QED
    BY <2>2 DEF Tends, Rested
<1>3. length[f] \in Nat /\ age[f] \in Nat /\ age[f] < length[f] /\ length[f] <= Ceiling
  BY <1>0, <1>1 DEF TypeOK, Ages, Bounded
<1>4. ~MustExtend(f) /\ ~MustMove(f)
  BY DEF Rested, Lacks
<1>5. length[f] - age[f] > Margin
  <2>1. CASE length[f] < Ceiling
    BY <1>2, <1>3, <1>4, <2>1, Sizes DEF MustExtend, ShouldExtend, Left
  <2>2. CASE length[f] >= Ceiling
    <3>1. ~ShouldReplace(f, length[f])
      BY <1>0, <1>2, <1>4 DEF MustMove, Relay
    <3> QED
      BY <1>3, <2>2, <3>1, Sizes DEF ShouldReplace, Left
  <2> QED
    BY <1>3, <2>1, <2>2, Sizes
<1> QED
  BY <1>1, <1>2, <1>3, <1>5, Sizes

LEMMA TickCustody ==
  ASSUME Inv, Calm, Custody, Tick, ~short'
  PROVE  Custody'
<1> DEFINE over == {j \in Jobs : state[j] = "running" /\ age[j] + 1 >= length[j]}
<1>0. TypeOK /\ Ages /\ Relay /\ Rested /\ \A j \in Jobs : ~Lacks(j)
  BY DEF Inv, Custody, Tick
<1>1. PICK f \in Jobs : Front(f)
  BY <1>0 DEF Relay
<1>2. /\ Alive(f) /\ state[f] = "running"
      /\ length[f] >= age[f] + 2 /\ age[f] < Generation
  BY <1>0, <1>1, RestedFront
<1>3. PICK js \in SUBSET Jobs : js = over
  OBVIOUS
<1>4. Stopped(js) /\ UNCHANGED ext
  BY <1>3 DEF Tick
<1>5. /\ \A j \in js : /\ pc'[j] = "off" /\ done'[j] = FALSE /\ state'[j] = "none" /\ length'[j] = 0
      /\ \A j \in Jobs \ js : /\ pc'[j] = pc[j] /\ target'[j] = target[j] /\ done'[j] = done[j]
                              /\ state'[j] = state[j] /\ length'[j] = length[j]
  BY <1>4 DEF Stopped
<1>6. \A j \in Jobs : /\ state[j] = "running" /\ j \notin js => age'[j] = age[j] + 1
                      /\ ~(state[j] = "running" /\ j \notin js) => age'[j] = 0
  BY <1>3 DEF Tick
<1>7. /\ \A j \in Jobs : age[j] \in Nat /\ length[j] \in Nat
      /\ \A j \in Jobs : state[j] \in {"none", "running"}
      /\ \A j \in Jobs : pc[j] \in {"off", "asleep"}
  BY <1>0, ParametersAssumption DEF TypeOK, Rested
<1>8. \A j \in Jobs : j \in js <=> state[j] = "running" /\ age[j] + 1 >= length[j]
  BY <1>3
<1>9. f \notin js /\ age'[f] = age[f] + 1 /\ length'[f] = length[f] /\ state'[f] = "running"
  <2>1. f \notin js
    BY <1>2, <1>7, <1>8
  <2> QED
    BY <1>2, <1>5, <1>6, <2>1
<1>10. \A k \in Jobs : Held(k)' => /\ k \notin js /\ state[k] = "running" /\ Held(k)
                                   /\ age'[k] = age[k] + 1 /\ length'[k] = length[k]
  BY <1>5, <1>6, <1>7 DEF Held
<1>11. Front(f)' /\ \A k \in Jobs \ {f} : ~Front(k)'
  <2>1. ASSUME NEW k \in Jobs \ {f}, Held(k)' PROVE age'[f] < age'[k] /\ Old(k)'
    <3>1. age[f] < age[k] /\ Old(k)
      BY <1>1, <1>10, <2>1 DEF Front
    <3> QED
      BY <1>7, <1>9, <1>10, <2>1, <3>1, Sizes DEF Old
  <2>2. Held(f)' /\ age'[f] \in Nat
    BY <1>7, <1>9 DEF Held
  <2>3. \A k \in Jobs : age'[k] \in Nat
    BY <1>6, <1>7
  <2> QED
    BY <2>1, <2>2, <2>3 DEF Front
<1>12. \A j \in Jobs \ js : Alive(j)' <=> Alive(j)
  BY <1>5 DEF Alive
<1>13. Ages'
  <2>1. ASSUME NEW j \in js PROVE state'[j] # "running" /\ age'[j] = 0 /\ ~done'[j]
    BY <1>5, <1>6, <2>1
  <2>2. ASSUME NEW j \in Jobs \ js
        PROVE  /\ state'[j] = "running" => age'[j] < length'[j]
               /\ state'[j] # "running" => age'[j] = 0
               /\ done'[j] => Alive(j)'
    BY <1>0, <1>5, <1>6, <1>7, <1>8, <1>12 DEF Ages
  <2> QED
    BY <2>1, <2>2 DEF Ages
<1>14. Relay'
  <2>1. \A k \in Jobs : pc'[k] \notin Moving
    BY <1>5, <1>7 DEF Moving
  <2>2. ASSUME NEW s \in Jobs, Held(s)', ~Alive(s)' PROVE FALSE
    <3>1. Held(s) /\ ~Alive(s)
      BY <1>10, <1>12, <2>2
    <3>2. PICK j \in Jobs : Tends(j, s)
      BY <1>0, <3>1 DEF Relay
    <3> QED
      BY <1>7, <3>2 DEF Tends
  <2>3. ASSUME NEW j \in Jobs, done'[j] PROVE ~Front(j)'
    <3>1. done[j]
      BY <1>5, <2>3
    <3>2. j # f
      BY <1>0, <1>1, <3>1 DEF Relay
    <3> QED
      BY <1>11, <3>2
  <2> QED
    BY <1>11, <2>1, <2>2, <2>3 DEF Relay
<1> QED
  BY <1>13, <1>14 DEF Custody

----------------------------------------------------------------------------
LEMMA NextCustody ==
  ASSUME Inv, Plan, Calm, Custody, [Next]_vars, ~short'
  PROVE  Custody'
<1>1. ASSUME NEW j \in Jobs, Turn(j) PROVE Custody'
  BY <1>1, ExtendRelays, ReplaceRelays, SendListRelays, DeliverRelays DEF Turn
<1>2. ASSUME NEW j \in Jobs, ContainerExits(j) PROVE FALSE
  BY <1>2 DEF ContainerExits
<1>3. CASE UNCHANGED vars
  <2>1. UNCHANGED <<loop, state, age, length>>
    BY <1>3 DEF vars, leases
  <2>2. \A k \in Jobs : (Held(k)' <=> Held(k)) /\ (Old(k)' <=> Old(k)) /\ (Alive(k)' <=> Alive(k))
    BY <2>1 DEF Held, Old, Alive, loop
  <2>3. Relay'
    BY <2>1, <2>2, ChainRelays
  <2>4. Ages'
    BY <2>1, <2>2 DEF Custody, Ages, loop
  <2> QED
    BY <2>3, <2>4 DEF Custody
<1> QED
  BY <1>1, <1>2, <1>3, ChainCustody, TickCustody DEF Next

HousingInv == Calm /\ ~short => Custody

\* When nothing fails, only an empty wallet makes the program homeless, for any
\* number of slots, any ceiling, margin, caps and pace of refills: as long as every
\* loop that had to extend or to move could pay when it looked, there is a shelter,
\* through every handover (nosana_runtime.py:66-74, :363-437).
THEOREM AlwaysHoused == Spec => []StayHoused
<1>1. Init => HousingInv
  BY InitCustody DEF HousingInv
<1>2. ASSUME Inv, Planned, HousingInv, [Next]_vars PROVE HousingInv'
  <2>1. SUFFICES ASSUME Calm, ~short, ~short' PROVE Custody'
    BY <1>2, WeatherStays DEF HousingInv, Calm
  <2>2. Plan /\ Custody
    BY <1>2, <2>1 DEF HousingInv, Planned, Calm, Harsh
  <2> QED
    BY <1>2, <2>1, <2>2, NextCustody
<1>3. ASSUME HousingInv PROVE StayHoused
  <2>1. SUFFICES ASSUME Calm, ~short PROVE \E j \in Jobs : Alive(j)
    BY DEF StayHoused
  <2>2. Relay
    BY <1>3, <2>1 DEF HousingInv, Custody
  <2>3. PICK f \in Jobs : Front(f)
    BY <2>2 DEF Relay
  <2>4. CASE ~Alive(f)
    <3>1. PICK j \in Jobs : Tends(j, f)
      BY <2>2, <2>3, <2>4 DEF Relay, Front
    <3>2. Alive(j)
      BY <3>1 DEF Tends, Alive
    <3> QED
      BY <3>2
  <2> QED
    BY <2>4
<1> QED
  BY <1>1, <1>2, <1>3, PlanInvariant, PTL DEF Spec

=============================================================================
