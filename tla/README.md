# TLA+ models of the shelter's money paths

The repository runs an agent that pays for its own home: a container leased on
the Nosana market, paid in NOS and SOL from a capped Solana wallet, which is
refilled from a treasury wallet, which is refilled from USDC earned on Base.
Everything that can go wrong for good goes wrong around those payments: a
transaction whose outcome is unknown, a process that dies between two appends,
two processes that size their spend from the same balance, a lease that ends.
This directory models those payment paths, checks them with TLC and proves the
core of them with TLAPS.

Paths are relative to `src/`; `nosana/` stands for
`skills/self/shelter/nosana/` and `python/` for `skills/self/shelter/python/`.
`PROJECT.json` lists the components, the runs with their properties, one mutant
per checked property, the source lines behind every definition, the hazards and
the findings.

## The system

    Base USDC --(relay.link)--> treasury SOL --(Jupiter swap)--> treasury NOS
                                    |                                |
                                    +------ fundSubWallet -----------+
                                                  |
                                          capped sub-wallet  (key shipped to the cloud)
                                                  |
                         list / extend -> Nosana jobs -> containers (the shelter)

| Component | State it keeps | Operations | What is hard | What makes it correct |
| --- | --- | --- | --- | --- |
| `nosana/funding/acquire-nos.mjs` | intent file, funding ledger; treasury on chain | one swap per run | outcome unknown, process death, late landing, overlapping runs | intent before send; a verdict from a signature is true; files agree; floor and quarter kept when the swap lands |
| `nosana/sub-wallet.mjs` | key file, funding file; capped wallet on chain | create or load the key, top up in up to three legs | half a transfer, half a file, a leg that lands after its exception | cap, floor, money only to a key on disk, partial transfers visible |
| `nosana/funding/refill.mjs`, `bin/citizen-refill` | last intent of its ledger; three wallets | plan, bridge, swap, top up, hourly | each leg has floors of its own; a bridge that never answers | ok means delivered; a deposit spares the working capital; a payable shelter is stocked |
| `python/nosana_runtime.py`, transactions of `python/nosana_bootstrap.py` | loop variables; jobs on chain | extend, list a successor, deliver, hand over | stale index, lost confirmations, two shelters on one wallet, lease expiry | ceiling, reserve, at most two jobs that have a lister, a shelter as long as it can be paid |
| `python/nosana_bootstrap.py`, `python/modal-nosana-bootstrap.mjs` | lock file; jobs on chain | first job: discover, list, wait, deliver | stale lock, unreadable index, death between claim and delivery | one lister, one job at a time; an ok receipt can be explained |
| `nosana/deploy.mjs`, `nosana/spend-gate.mjs` | intent file, cost ledger; jobs on chain | gate, post, reconcile by the jobs API, charge | a job claimed late, two deployments in one window, death after the post | no paid lease missing from the books; at most once |
| `skills/self/spawn/lib/ledger.js`, `shelter-cost-ledger.js` | append-only files | append, correct, resolve | corrections find their row by a time stamp | the resolved row says what was last said of it |
| `nosana/steward.mjs`, `nosana/renew.mjs`, the renewer of `nosana/franklin-job.mjs` | beat files; the lease on chain | poll the job, extend, beat, stop | lagging copies against a lease that is being extended | the steward leaves when the lease is over, and not before on a copy younger than the grace |
| `shelter.mjs`, `buy-house.mjs`, `move-in.mjs` | none of their own; the purse on Base | try rails in order | a rail fails after it has paid | a house is returned, or every landlord declined; nothing more is promised when a rail fails after it has paid |
| `python/modal-statement.mjs`, `python/statement.py` | none; a page built per request | move in, publish, read back, compare | balances that move while they are compared | a proof is about one round; a disturbance costs one read |

The components meet in four places: the executors share the treasury and the
capped wallet on chain; `citizen-refill` calls the two Solana rails in process
and interprets what they return; `launchd` starts `citizen-refill` every hour
(`launchd/ai.anicca.citizen-refill.plist.template`) while every command can
also be started by hand; and the shelters of one wallet see each other only
through Nosana's payer index. Within a process everything is one event loop (or
one Python thread), so interleaving happens at awaits and requests, and between
processes.

`PROJECT.json` lists all the components, those not modelled included, with the
reason; market choice, job definitions, identity lookup, statistics and the
layout of statements are formatting and I/O without a protocol.

## The modules

| Module | What it is |
| --- | --- |
| `IntentLedger` | The abstract promise of README.md "Money safety": record, then effect, at most once, and a verdict that is never rewritten. `Exact` says whether a settled verdict must be backed by the effect. |
| `AcquireNos`, `MCAcquireNos` | `acquireNos`, one action per await of the code, with the chain and the other users of the wallet. |
| `AcquireNosProofs` | Its theorems: invariants, refinement of `IntentLedger`, what the hourly schedule adds, and the steps a run may take. |
| `SubWallet`, `MCSubWallet` | `ensureSubWallet` and `fundSubWallet`: the key file system call by system call, the gate, the intent, three legs. |
| `SubWalletProofs` | Its theorems: types, visible partial transfers, refinement of `IntentLedger`; the key, the cap and the floor without overlap; the steps a run may take. |
| `Refill`, `MCRefill` | `citizen-refill --live` with `planRefill` and `executeRefill`, for ever. The two Solana rails appear as `executeRefill` sees them; the modules above open them up. |
| `RefillProofs` | Its theorems: types, what a deposit leaves on Base, the meaning of ok, room for fees. |
| `WriterLease` | The lock file of the bootstrap, system call by system call. |
| `Bootstrap`, `MCBootstrap` | `bootstrapNosanaFromModal` and `bootstrap_once`, on top of the lease. |
| `BootstrapProofs` | Its theorems: the bootstraps keep to the lease, the lease admits one and one job is paid at a time, but for the reasons named; why a receipt may be wrong; the steps a run may take. |
| `ShelterRuntime`, `MCShelterRuntime` | The loops of all the shelters that pay from one wallet, with Nosana and the passing of time. |
| `ShelterRuntimeProofs` | Its theorems: types, the ceiling and the cap of two jobs in every weather; the reserve and the fee floor; a shelter as long as it can be paid; what the default caps come to. |
| `SpendGate` | `outflowRows`, `checkSpendCaps` and `evaluateSpendGate` as operators over a history. |
| `CostLedger` | `shelter-cost.jsonl`: cost rows, corrections and the resolved view, in which a row keeps the place it has in the file. |
| `Deploy`, `MCDeploy` | `deployNosanaJob` behind `citizen-up --live`, on top of the gate and the ledger, with the chain, the jobs API and corrections by hand. |
| `DeployProofs` | Its theorems: types, refinement of `IntentLedger`, and the books. |
| `Tenancy`, `MCTenancy` | One lease with the loop inside that extends it, the steward outside that watches it, and the indexer between them. |
| `TenancyProofs` | Its theorems: types, that the steward stays for the whole lease, and how soon it leaves after it. |
| `House` | `rentAnywhere` and `findShelter`: one landlord after the other. |
| `Statement`, `MCStatement` | `proveModalStatement`, with `House` beside it spending from the same purse. |
| `StatementProofs` | Its theorems: a proof given up for a difference was disturbed in every read; a proof is of one round. |

How state and actions correspond to the code:

* **AcquireNos.** A run is one invocation and signs one transaction at most, so
  `Runs` also names transactions and intents. `rows` and `funding` are the two
  JSONL files, kept as sets because each run appends a row of a kind once. `tx`
  and `credited` are the chain's view, which the code learns only through
  `PollConfirmed`, `PollFailed`, `ReconcileBySignature` and the balance read.
  `SignAndRecord` is one action because signing and `appendFileSync` happen in
  one turn of the event loop; everything between two awaits is. The slippage,
  impact and quote-shape checks are one Boolean the environment chooses: no
  property depends on them. Balances are read in one action although the code
  reads SOL and NOS with two awaits: nothing the run writes lies between them,
  and the properties compare each with the chain at a later time.
* **SubWallet.** `file` is the key file: absent, torn, or the key of the run
  that made it. `Look`, `LoadKey`, `OpenKey` and `WriteKey` are the system
  calls, so a crash or another process can come between. `leg[r][a]` is the
  fate of the transfer of asset `a`. A leg that throws may still be in flight.
* **Refill.** `PlanAndRecord` is the three reads, `planRefill` and the intent
  row. `given` is what the pass delivered, `late` the money of earlier passes
  relay.link still holds. Any step may end in `Throw`. Amounts are in units of
  equal worth, one unit of SOL being 0.005. What inference and Modal cost is
  paid from Base at any time (`SpendOnBase`); `spent` is history: how much of
  that fell between the plan and the deposit.
* **ShelterRuntime.** A unit of time is ten minutes, what an extension adds and
  what a successor gets. `length`, `age`, `state` are the job on chain, `seen`
  the timeout the loop read, `ext` the timeouts of the extensions in flight,
  `done` the variable `replacement_completed`. An exception anywhere in a turn
  ends it (`TurnFails`), as the two `except` clauses do. A job slot is used
  again when nothing refers to the old job. Two variables are history: `short`,
  that in calm weather some loop could not pay for what it had to do when time
  went on, and `orphans`, the jobs whose lister gave up before a node claimed
  them.

* **WriterLease, Bootstrap.** A run is one invocation with its own token; it
  lists one job at most, so `Runs` names jobs too. `stage` is where the run is
  in `acquireBootstrapWriterLease` and `release`, `lock` the token in the file,
  `stale` whether the file is older than fifteen minutes. `work` is the worker
  in the rented sandbox, which goes on when its caller has given up or died.
  Each behaviour is exposed to a fixed set of `perils`, the failures that may
  happen in it, so that one run checks all the worlds. What nothing in the code
  prevents is in every world: two runs may meet the same old lock, and a lock
  ages whatever its holder does. The properties then say what else is needed for
  a failure: `judged`, `outlived` and `slip` are history, of the locks judged
  old, of a lock that aged under its holder, and of the first event that upset
  the order of one job at a time. `buried` are the jobs whose transaction has
  left the payer's last ten, the window of the search.
  The three paid requests before the wait are one action: nothing but the last
  of them changes state another part can see. Which of several jobs the index
  lists first is arbitrary, but a running one goes before a queued one.
* **Deploy, SpendGate, CostLedger.** A run is one `citizen-up --live`. A job and
  an intent are named by the run that made them; the code names an intent by
  `floor(nowTs)` and the market, which is not unique within a second, and no
  code looks an intent up by its name. `GateAndRecord` is one action because the
  cost file is read, judged and the intent appended without an await between
  them. `start` is the `timeStart` the jobs API shows, 0 until a node claims the
  job, when the API does not list it. The guess parsed from the CLI's output is
  logged and never used, so it does not appear. `Correct` is a person who calls
  `appendShelterCostCorrection`; `meant` and `by` are history.
* **Tenancy.** One job and one unit of time for everything. `idx` is the
  indexer's copy, `lastJob` the steward's copy of that, `box` and `pc` the places
  of the two loops. A round of the renewer is `BoxFind`, `BoxPay`, `BoxExtend`,
  `BoxBeat`, `BoxWake`: its awaits. Money is counted in extensions. `maxCycles`
  is `Infinity` unless a caller sets it, and no caller does, so the steward has
  no such exit here; that the container finds another job of the same wallet is
  left out as well.
* **House, Statement.** `signed` holds the x402 authorizations that are signed
  and not settled: the gateway settles them when it likes, which is what moves
  the balance the page shows. `found`, `attempts` are what a search returns, unless
  it throws: `buyHouse` loads its payment library and reads the body of the
  answer outside its `try`. So does `moveIn` with all its requests, and a proof
  is then rejected without a reason (`Rejected`). A
  page is a list that grows source by source (`Build`), one per route, and `own`
  is the comparison's own list; `before` is what a lagging source still answers.
  USDC stands for the three balances that must match exactly, `market` for the
  value that has a tolerance. `moves` and `seen` are history: the disturbances
  within the rounds so far, and the values of each source in this round.

## The runs

| Run | Question | Result |
| --- | --- | --- |
| `acquire_tick` | Two runs an hour apart in a wallet others only deposit SOL into: are floor and quarter kept when the swap lands, is a settled row true to the amount, is the exact ledger implemented, does each run end? | holds |
| `acquire_hand` | Overlapping and back-to-back runs, others moving SOL and NOS both ways: what still holds? Intent before broadcast, verdicts drawn from signatures, agreement of the files, the loose ledger. | holds |
| `acquire_unresolved` | Does the next hourly run wait for an unresolved intent? | violated, finding |
| `subwallet_tick` | Two top-ups an hour apart, from every content of the key file, with crashes, failing legs, rent and refunds: cap, floor, key on disk, visible partial transfers, ledger, end. | holds |
| `refill_passes` | Passes for ever, all rails failing and recovering, Base earning and spending: what a deposit leaves on Base, meaning of ok, room for fees, and a shelter the treasury can pay for is stocked again and again. | holds |
| `refill_homeless` | With all rails working again and again, can the shelter stay without NOS for ever beside a rich Base wallet? | violated, finding |
| `bootstrap_runs` | Two bootstraps at any distance in time, in five worlds: deaths and a blind index, long queues, other transactions of the payer, failing searches and requests of the worker, failing requests of the caller. When can two hold the lease, when can two jobs be paid at once, when is an ok receipt wrong, is the lease given back? | holds |
| `runtime_housed` | Shelters that hand over for ever, from any wallet and at any point of the refill's hour: ceiling and the two-job limit in every weather, the reserve where listers wait, and a shelter as long as the loops can pay when nothing fails. | holds |
| `runtime_moveout` | Nothing fails: can the last shelter lapse while the wallet holds the price of the next one? | violated, finding |
| `deploy_runs` | Three deployments, apart or crowded, that die anywhere and are reconciled through a lagging API, with corrections by hand: is any paid lease missing from the books, do corrections stand, is every intent at most once? | holds |
| `tenancy_runs` | The lease is extended from inside and watched from outside through a lagging indexer: does the steward leave only a lease that is up, and does it leave at all? | holds |
| `statement_runs` | A statement is proved while its own payments settle, the market moves, sources lag and a search spends from the same purse: is a proof about one round, and is a difference reported only after that many disturbances? | holds |

A run that is violated checks one sentence of the repository against what the
code does; `PROJECT.json` quotes the sentence and says what the counterexample
shows. In short: no code reads an unknown intent back, so the hourly run swaps
again; the planner counts SOL the transfer must leave behind, so nothing is ever
bridged; a shelter that must keep the reserve does not extend, and looks for a
successor only when its lease is as long as it may get, so that it lapses beside
the price of the next one.

Some of the properties that hold do so under a condition that the code does not
create. `SettledMeansLanded` needs a wallet that receives no NOS from elsewhere
while a swap is unresolved: reconciliation by balance takes any inflow for the
swap (`nosana/funding/acquire-nos.mjs:546`). `FloorKept` and `QuarterKept` of the
swap need that nobody else spends SOL between its gate and its landing.
`CapKept` needs the next top-up to start after the transfers of the last are
resolved: the cap is compared with a balance that does not show a transfer in
flight. `FundsReachable` needs one creator of the key file at a time.
`ReserveKept` needs the outcome of a listing to be learnt and the job to be
claimed while its lister waits. `NoLeaseLost` and `CorrectionsStand` need
deployments more than five seconds apart: closer ones may take each other's job
for their own, and rows of one time stamp are corrected together. `StopIsRight`
needs a copy no older than the grace, less what a job may outlive its timeout:
with three failed reads at the default interval, or an indexer further behind,
the steward may leave a lease that was extended. The hazards beyond these
conditions are listed in `PROJECT.json` without a property and with the reason.

Others name their exceptions, because what they exclude does happen in the run.
`OneWriter` excepts a run that outlived its lock and two runs that judged the
same lock old; `SingleJob` besides these a caller that left a worker behind, a
transaction whose outcome a worker did not learn, and a search that missed the
job, because it has left the last ten transactions or because a read of them
failed and counts as an empty one (`python/nosana_bootstrap.py:673`, `:675`,
although `specs/00-SHELTER-INDEPENDENCE.md:268` asks it to fail closed).
`OkIsExplained` allows an ok receipt for a container nobody delivered when the
job was found running and its own worker has failed or is still at it
(`python/nosana_bootstrap.py:835`). `TwoJobCap` does not count the jobs whose
lister gave up on them before they were claimed: each may cost a lease more.
`StayHoused` excepts a wallet that could not pay when a loop had to. Each
exception is a record of an event, so that a failure without such an event
refutes the property. `WorkingCapitalKept` allows for what others spent from Base
between the plan and the deposit. `OkMeansDelivered` of the refill says what an ok
row is worth, not that the bridge delivered: a bridge that never answers, or a
deposit that reverted, counts as done (`bin/citizen-refill:170`, `:183`).

### Bounds, and why they are enough

* Two runs in `AcquireNos` and `SubWallet`: their properties relate a run to
  its own transaction or to one other run; the theorems below remove the bound.
  One unit of SOL is 0.0025 in `MCAcquireNos`, and the start balances 3, 12 and 17 are below the smallest spend, where the quarter
  binds, and where the request binds. Two rungs of the ladder and one poll
  before the deadline are the smallest numbers with a first and a last. One
  movement by others (`MoveBudget`) is enough to separate a balance read from a
  balance used.
* `MCSubWallet` counts in halves of a cap, so that a top-up, a top-up beside an
  earlier one and a refund above the cap are all distinct. Two of the three
  assets occur in a request, in both orders of the ranks.
* `MCRefill` starts from six wallets: poor, rich on Base only, stocked for a
  swap, able to pay, able to pay but for the treasury's floor, and short of SOL
  only with NOS above the cap. `Wealth` bounds revenue, and `MaxSpent` = 1 what is
  spent from Base within one bridge; passes are not bounded.
* `MCBootstrap` has two runs: `SingleJob` and `OkIsExplained` relate a run to one
  before or beside it. The lease, where a third run matters (one dead, two
  contending), and both of these are proved for any number and for every set of
  perils. The worlds keep apart what would only multiply: deaths with a blind
  index, long queues, the payer's other transactions, failing searches and
  requests of the worker, failing requests of the caller. One wallet pays for two
  jobs and one for none.
* `MCShelterRuntime` has three slots, one more than the limit under test, a
  ceiling of four units (the code has 36) and a margin of one (the code's
  margins are two and a half and just under three units): what matters is that
  the ceiling exceeds twice the margin, so that a predecessor is gone when its
  successor looks for a successor. `RefillPeriod` = 3 units is half the hour, so
  that a lease spans a refill and a half. The wallet starts with any
  NOS from the reserve, which the bootstrap leaves
  (`python/nosana_bootstrap.py:298`), and any SOL from one below the fee floor, up
  to caps of 5 each: shelters hand over without a shortage in some behaviours of
  the run and fall short in others. Time is not bounded. Slots are interchangeable and no liveness
  is checked there, so they are a symmetry set. The theorems hold for every
  ceiling above the margin and for every cap.
* `MCDeploy` has three runs: two that confuse their jobs and a third whose gate
  reads what they wrote. At a distance the clock goes to 5, enough for three
  runs more than `Slack` apart; crowded runs need 2. Two costs, one within the
  cap and one above it; two corrections, the least with a last one.
* `MCTenancy` has a lease of two units that is extended at most twice (its
  ceiling is 5, and the wallet holds two extensions and the reserve), three
  failures where the code has five, and a clock up to 7, past the end of the
  longest lease plus its grace. `StewardStays` below removes these bounds.
* `MCStatement` has two bounded reads (the code has four), a purse of two
  payments and a market that jumps further than the tolerance; the searches are
  both of the code's, with two rails and with an unknown one. `ReadsAreDisturbed`
  below is for every number of reads.

With the code's own constants `DEFAULT_SOL_CAP` equals `DEFAULT_SOL_FEE_FLOOR`
(0.005): after one transaction the loop may not extend until the next refill
(`OneTransactionPerRefill` below), which is the shortage that `StayHoused`
excepts. The property does not say that the defaults suffice; it says that
nothing else than such a shortage ends the program when nothing fails.

### Fairness, and why the code justifies it

* `AcquireNos`, `SubWallet`: weak fairness of the steps of a started process.
  The polls have a deadline and the retries a count; that a single request
  returns or throws is assumed, since most of the code's requests (`fetch`,
  `postModal`, the RPC clients) carry no time limit of their own and rely on
  the runtime's or the server's. Nothing is assumed of launchd, the chain, or of
  not crashing.
* `Refill.FairSpec`: launchd starts a pass every hour, and a started pass ends.
  `WorkingSpec` adds strong fairness of the successful outcomes of the rails:
  no outage lasts for ever. It serves the two questions that make sense only
  then, whether a payable shelter is stocked and whether a rich agent can stay
  homeless.
* `Bootstrap.FairSpec`: weak fairness of what can go on: a started run and its
  worker, whose polls are counted, the fate of a transaction, whose blockhash
  expires, and, except in worlds with long queues, the claim of a queued job. One
  condition for all of them (`GoesOn`) is enough, as nothing among them starts
  over. Here too a request is assumed to return or to throw; how long it takes is
  left open, so that a lock may age under its holder. Nothing is assumed of when
  a run starts or a job ends.
* `Tenancy`: weak fairness of the steward, whose sleeps end and whose requests are
  assumed to come back,
  of the clock, and of the indexer, which catches up with the chain. None for
  the renewer, the node or the market. At the bound of the clock a sleep ends at
  once, so that the bound does not stop the steward.
* `Deploy` and `Statement` check safety only.
* `ShelterRuntime` has no fairness: `StayHoused` is stated as an invariant of
  calm weather, in which ten minutes pass only when every loop has done what
  was due. A loop makes about thirteen turns in that time.

## What is proved

`tlapm` checks the following for every value of the constants that
`ParametersAssumption` allows, any number of runs included.

* `AcquireNosProofs`: `TypeCorrect`, `BroadcastIsRecorded`,
  `SignatureVerdictIsTrue`, `FilesAlwaysAgree`. They rest on one inductive
  invariant, `IInv`, because none of the three properties is inductive by
  itself: that a transaction in the network has an intent row needs to know
  that a run which is about to send has one; that a failure row is true needs
  to know that a failed transaction stays failed; that the files agree needs to
  know, for each place a run can be in, which rows it has written and that a
  run which has not reached its intent has neither rows nor a transaction.
  There is one step per action, and under it one per part of `IInv` the action
  can disturb.
  `SwapImplementsLedger`: every behaviour of `AcquireNos` is one of
  `IntentLedger` with `Exact = FALSE`; initial states map to initial states, and
  under `IInv` each action maps to a ledger step or to a stutter.
  `FloorIsKept` and `QuarterIsKept` assume runs one tick apart and other programs
  that only deposit SOL (`DepositsOnly`). The added invariant says that only one
  run is under way, its transaction included, and that the wallet still holds at
  least the SOL this run read; so what its gate computed is still true when the
  swap lands. `SettledIsLanded` and `SwapImplementsExactLedger` assume runs one
  tick apart and NOS that only the swaps move (`SwapsOnly`). The added invariant
  is an equation: from its first reading to its settled row a run finds the NOS
  it read plus what its own transaction has delivered.
* `SubWalletProofs`: under every schedule `SubWalletTyped`,
  `PartialTransferIsVisible` and `FundingImplementsLedger`, for which the
  invariant follows the legs in the order of their ranks: at each place of a run
  it says which legs have landed, which one may be in flight, and that a leg is
  tried only under an intent row. `MoneyIsReachable` assumes that runs do not
  overlap (`~Overlap`): a run under way then finds the key file as it left it,
  and nothing was paid before there was one. `CapIsKept` and
  `TreasuryFloorIsKept` assume moreover that no run starts while a transfer is
  in flight (`Tick`), which the hourly schedule gives since a blockhash expires
  after about a minute. The invariant accounts for the wallets between the
  reading and the last leg: the capped wallet holds at most, the treasury at
  least, what was read there, corrected by the legs that landed since and by
  refunds.
* `RefillProofs`: `RefillTyped`, `WorkingCapitalIsKept`, `OkIsDelivered`,
  `SwapFloorSuffices`. A pass acts on balances read before; the invariant says
  for each place of a pass what is left of the reading. The treasury only gains
  and the shelter only pays rent while a pass is under way, which is in the
  plan's favour; Base loses what the agent works with, and the invariant charges
  that to `spent`. `PlanSound` is the lemma about `PlanRefill`: it spares
  what stays on Base and never asks for more than the shortfall.
  `SwapFloorSuffices` assumes that the floor of the swap (0.02 SOL,
  `nosana/funding/acquire-nos.mjs:59`) is no less than the SOL cap of the
  shelter plus the floor of the transfer (0.005 each,
  `nosana/sub-wallet.mjs:110`).

* `BootstrapProofs`: `BootstrapKeepsLease`, a bootstrap is a behaviour of
  `WriterLease`, and `LeaseAdmitsOne`: two runs hold the lease at once only after
  one outlived its lock or two judged the same lock old. `OneWriter` is not
  inductive: that nobody unlinks the lock of a run that is inside needs to know
  that the lock a run is about to unlink is still the one it judged old, and
  that its holder is dead. `OneJobAtATime` carries that over to the workers,
  which go on without their callers: `HoldInv` says that, as long as nothing has
  upset the order, a worker that may still list a job is that of the run whose
  token is in the lock file, dead or alive, and that such a lock is neither stale
  nor judged old; so a worker that has looked everywhere and found no job is
  alone until it has listed one (`JobInv`). `ReceiptIsExplained` needs, for each
  place of a worker, whose job it works on and how it was found (`ReceiptInv`).
  All four hold in every world and assume nothing about the perils.
  `BootstrapTyped` has the types.

* `DeployProofs`: `DeployTyped`, and `DeployImplementsLedger`, for any number of
  deployments at any distance: every behaviour of `Deploy` is one of
  `IntentLedger` with `Exact = FALSE`. That a run posts once needs to know that a
  run before its post has neither a landed nor a flying job; that a verdict is
  written once needs to know, for each place of a run, which rows it has.
  `CorrectionsDoStand` and `NoLeaseIsLost` are about runs at a distance. The
  invariant `Books` says that the clock of the gate is past everything the
  earlier runs did (`Clock`), so that no two cost rows have a time stamp in
  common and no correction is aimed at a row not yet written (`Apart`); that the
  last correction aimed at a row is the last word about it (`Stand`); and that
  the job a row names was claimed after every earlier row was written
  (`Windows`), so that no two rows name the same job and the gate, which counts
  every address once, counts them all. `NoLeaseIsLost` then compares three sets,
  the leases paid, the runs with a cost row and the intents that stand open, and
  assumes only that there are finitely many runs.
* `TenancyProofs`: `TenancyTyped`, and `StewardStays`: for all intervals, margins,
  ceilings and lease lengths `StopIsRight` holds. The inductive part says that
  every copy, the indexer's and the steward's, is of an earlier state of the one
  job: its start does not change once it is known, its timeout only grows, and
  a copy that misses an extension was made before the end it shows (and what the
  job may outlive it). So a copy that looks ended by the grace, if recent
  enough, misses no extension.
* `StatementProofs`: `ReadsAreDisturbed`: for every number of bounded reads,
  tolerance and pace of the world, a proof that gives up for a difference was
  disturbed anew in each read. The property is not inductive: the invariant
  counts the rounds that are over against `moves`, and says of the round under
  way that, unless it was disturbed too, the JSON holds what its sources answer
  now and the comparison what the JSON holds, so an undisturbed round succeeds.
  `ProofIsOfOneRound` needs that what each source may answer, at any moment of a
  round, is among the values seen since its routes were asked for, and that a
  new round starts from blank pages.
* `ShelterRuntimeProofs`: `RuntimeTyped` and `CeilingIsKept`, in every weather,
  "harsh" included. An extension may land long after the turn that signed it, so
  the invariant bounds every timeout in flight, for that the timeout a loop has
  read until it signs, and for that it says that a container runs only while its
  job does.
  `TwoJobsAtMost` holds in every weather too: `Line` says that a loop that lists
  or waits for the job it has listed is the only one that runs, and that a job
  which is sent or queued beside a shelter is waited for by that shelter or is an
  orphan; so a search that finds no successor proves that there is none but
  orphans. `ReserveIsKept` is about the weathers other than "harsh". For the
  reserve and the fee floor, `Lengths` says that of two leases one is as long as
  it may get, so that only one loop extends, and `Payable` that from the reading
  of the wallet to the landing a transaction is still paid for above the reserve
  and the floor; nobody else spends in between. `OneTransactionPerRefill` follows
  for wallets refilled to no more than the floor, which are those of the code's
  defaults: a transaction lands only on a wallet as the refill left it.
  `AlwaysHoused`: in calm weather, and as long as no loop was short (`short`), a
  container runs, for all constants. The invariant, `Custody`, follows the front,
  the youngest job on chain: every other one is as long as it may get and old
  enough to have been replaced. `Ages` says that a lease outlives its age;
  `Relay` that a job without a container is tended by the loop that listed it,
  that loops move only towards a younger job, and that no front considers itself
  replaced. So when a unit of time passes and nobody was short, the front has
  extended and has more than the margin left, or a successor has become the
  front.

The hypotheses are conditions on the constants: `Tick`, `~Overlap`,
`DepositsOnly` and `SwapsOnly` in `AcquireNosProofs` and `SubWalletProofs`, which
the runs that check the same properties meet; the floors in `SwapFloorSuffices`
and `SolCap <= SolFloor` in `OneTransactionPerRefill`, which the defaults of the
code meet; and that there are finitely many deployments, which lets them be
counted.

Only model-checked: the liveness properties (`EveryRunEnds` of `AcquireNos` and of
`SubWallet`, `PayableIsStocked`, `LeaseGivenBack`, `EndsAfterJob`), which the
proof system cannot treat under fairness. What there is of safety in four of
them is proved, for every value of the constants, as a countdown: a number, the
`StepsLeft` of each module, bounds the steps left, every step of the process takes
at least one from it, and nothing else adds to it. `RunsAreBounded` and
`RunsComeToAnEnd` do so for the swap (the rungs not yet burnt, the polls not yet
made, and the places still ahead), `TopUpsComeToAnEnd` for the top-up (two steps
for each leg not yet tried), `BootstrapsComeToAnEnd` for a bootstrap with its
worker, and `StewardComesToAnEnd` for the steward from the moment the indexer
shows that the job is over (four steps for each failure it may still see). What
is left to fairness, and to TLC, is that a process which can go on does: an
`ENABLED`, and for the bootstrap and the steward that the transaction is decided
and the indexer catches up. `PayableIsStocked` has no such number, since an outage
may last any number of passes.

## Not modelled, and why

* The Python spend caps (`skills/earn/funding/lib/caps.py`): `SpendGate` is the
  JavaScript restatement of them that a deployment uses; the earning skills that
  call the original are elsewhere. The kill switch is a file test.
* The post of the confidential job (`nosana/confidential-post.mjs`,
  `bin/citizen-franklin-up`) and its provisioning commands: one send, with no
  ledger and no state kept. Its renewal loop is in `Tenancy`. `extendLease` of
  `nosana/renew.mjs`, which that loop restates in one line, is called by no other
  code and is not modelled.
* Verification of heartbeats and of signed beats, identity lookup, market choice
  and job definitions: stateless functions of one request.
* Floating point statistics (`skills/earn/self-improve/lib/gate_math.py`).
* Floating point. `planRefill` computes `cap - balance` in doubles and the gate
  adds it back; for about one lamport balance in ninety the sum is just above
  0.005 and the gate refuses the planner's own request. Integers cannot show
  that; a module with a short significand is planned.
* Prices, slippage, quotes, formatting, HTTP headers, encryption of the
  bundle: no property distinguishes them.
* Solana's forks: a transaction is in flight, landed, failed or dropped, and
  the first status the code accepts is final.

## Plan

In this order, most important first:

1. `AcquireNos`, `SubWallet`, `Refill`, `ShelterRuntime` - done, as above.
2. `WriterLease` and `Bootstrap` - done, as above.
3. `Deploy` with `SpendGate` and `CostLedger` - done, as above.
4. `Tenancy`, `House` and `Statement` - done, as above.
5. Theorems: every safety property of the runs that hold is proved, as above.
6. The rounding of the refill target, as an algorithm on a short significand
   checked against exact arithmetic.

The number of runs is kept small; a later module replaces the least telling of
the violated runs rather than adding to them. So the runs on a bridge that never
arrives, on an unproven absence of jobs and on a third shelter have made room;
their conditions are listed under the runs above.
