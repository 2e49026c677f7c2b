# Grey: verification project

TLA+ models of the concurrent and crash-prone parts of Grey, the TLC runs that
check them on small instances, and proofs of the safety results that do not
depend on the size of the instance. Paths below are relative to the repository
root (`src/` here); `PROJECT.json` gives the lines of each definition under `map`.

## 1. The system and its parts

Grey sells verification work (legitimacy scans, whitepaper verification) over
several agent-commerce channels and settles in USDC on Base and xDAI on Gnosis.

| Part | State it keeps | Operations | Talks to |
|---|---|---|---|
| **ACP adapter** `adapters/acp-adapter/src/acpAdapter.ts` | in memory: dedup keys with a TTL (`recentJobs`), `inFlight`, `acceptInFlight` | `start` (hydration), `handleEntry` (SSE), `handleJobCreated`, `handleJobFunded`, `pollFundedJobs`, `stop` | ACP SDK: `fetchJob`, `setBudget`, `reject`, `submit`; handlers of grey-core; reputation hooks |
| **Buyer reputation** `adapters/acp-adapter/src/reputation/` | Postgres: `acp_buyer_records`, `acp_tracked_jobs` | `evaluateAcceptance`, `onJobSubmitted`, `onJobTerminal`, `applyStiffTransition`, `runReconcileSweep` | called by the ACP adapter; reads job status from the ACP API |
| **Sweeper** `packages/grey-sweeper/src/` | Postgres: `sweep_log`, `refuel_log`; the agent's and relayer's wallets | `runLoop`, `runTick`, `runRefuel`, `recoverStranded`, `executeRefuel`, `executeSweep` | Base RPC, Uniswap router, WETH, alert hook |
| **x402 gate** `adapters/x402-middleware/src/`, `packages/grey-core/src/server/` | none between requests; the token's authorization nonces on chain; the `revenue_events` ledger | challenge, `verify`, `settle`, the offering, trust-rung, MCP, CDP and Bankr routes | Base RPC or the CDP facilitator, the handlers |
| **Mech registration** `adapters/mech-adapter/src/registration*`, `scripts/register-live.ts` | on chain: the service's state in the registry, the mech | the script (one step a run), `registerAsMech` (all that is left), the five steps | Base or Gnosis RPC, service registry, mech marketplace |
| **Mech delivery** `adapters/mech-adapter/src/` | in memory: the block cursor; on chain: requests, the Safe's nonce | the poll loop, `pollAndRespond`, `deliverSigned`, pinning, the self-test | RPC, Filebase, an IPFS gateway, the Safe, the marketplace |
| **Core and pipeline** `packages/grey-core/src/`, `packages/grey-pipeline/src/` | Postgres `grey_two`: whitepapers, claims, verifications, requests, cost_events | the offering handlers, `cacheOrLive`, `runL1`, `runL1L2`, `runFullPipeline`, `upsertWhitepaperWithClaims` | LLM, DexScreener, token contracts, discovery |
| **Document discovery** `packages/grey-pipeline/src/discovery/`, `crawler/` | in memory: one headless browser with its page count, render lock and hourly ration | `discover` by tiers, `resolveWhitepaper` by layers, `crawl` | the web, search engines, GitHub, aggregators |
| Schemas, ceremony, bridge, scripts, infrastructure | types, key material, deployment units | none that runs concurrently | |

Interactions. The adapter tells the reputation code of a delivered job and of
terminal events, and asks it before it accepts; both then await Postgres in the
same event loop, so a sweep, another sweep and a socket handler interleave at
every `await`. The adapter is fed by three sources that do not know of each
other: hydration after a start, the SSE stream and the poll timer. The sweeper
shares nothing with the adapter but the agent's wallet, into which revenue
falls while a tick is under way. The x402 gate runs an offering's handler once
a payment stands; the handlers of all channels read the rows of a project and,
when there are none, run discovery and the pipeline, which write them. Every
live request of the process shares the database and the one browser. The mech
adapter is a process of its own; the operator's scripts run beside it.

What is hard in it:

- *one job, several triggers*: `job.created` and `requirement.message` have
  different dedup keys; the stream repeats and drops entries; the poll looks at
  funded jobs a stream entry may be delivering already;
- *awaits inside a decision*: the funded status is read before a handler that
  may take minutes; the buyer's record is read, computed on and written back as
  absolute values; the USDC balance is read before a refuel spends some of it;
  two runs of one project decide on rows each other deletes; an authorization
  is checked and simulated before it is broadcast;
- *reads behind the head*: the step of a registration, the nonce of an
  authorization and the logs of a block range come from backends that lag;
- *unknown outcomes*: a chain call whose answer is lost may still be mined;
- *no transaction*: an upsert deletes and creates rows statement by statement,
  and a timer may give the run up in the midst of it while it goes on;
- *death of the process*: all Maps, cursors and locks are lost, rows and
  transactions stay;
- *limits*: dedup keys are shed above a threshold, a sweep lists a bounded
  number of rows, what the browser yields is rationed, the browser is recycled
  and may hang;
- *progress*: a paid job must be delivered, value stranded by a failed refuel
  recovered and a registration completed, although everything that can fail is
  swallowed and retried by a timer or by the operator.

What makes each part correct:

- ACP adapter: one accept attempt and one delivery of a job at a time; no claim
  outlives its attempt; a funded job is never rejected and always delivered;
  every job that can be answered is answered, once; observing signs nothing.
- Buyer reputation: a strike only for a delivered job the buyer let expire, one
  each, whoever observes it; nobody else is refused; every tracked job is
  resolved.
- Sweeper: audit rows tell what moved; the sweep decision sees the balance
  there is; the cadence holds; nothing stays stranded.
- x402: an authorization pays for one request; who is refused is never charged,
  who is served has paid; nothing is broadcast for a request that could not be
  served; the ledger says what was paid.
- Mech registration: a step that was mined is not repeated, no second service
  is created, the script makes no mech without a price, and running it on leads
  to a mech.
- Mech delivery: no request between two ticks is skipped or answered twice, no
  hash is delivered before its content resolves, and every request is answered.
- Pipeline: a stored verdict has its claims, the largest set of claims is kept,
  the request row tells the outcome and closes.
- Discovery: calls exclude one another at the browser where they must and do
  not change one another's outcome; no hour yields more texts and lists of links
  than the ration.

## 2. Modules

| Module | Models |
|---|---|
| `SingleFlight` | abstract: per job at most one unit of work in the air, whatever its origins |
| `AcpAdapter`, `MCAcpAdapter`, `AcpAdapterProofs` | the adapter, the chain's job life cycle, the stream, the poll; constants; theorems |
| `BuyerReputation`, `MCBuyerReputation`, `BuyerReputationProofs` | gate, tracked jobs, strike ladder, overlapping sweeps and socket handlers, the tables |
| `Sweeper`, `MCSweeper`, `SweeperProofs` | the tick: refuel, recovery, sweep; the chain's delayed and lost answers; theorems |
| `PaidService` | abstract: what a paid request promises its buyer |
| `X402Gate`, `MCX402Gate`, `X402GateProofs` | the five routes, verify / simulate / broadcast / receipt, the ledger; theorems |
| `MechRegistration`, `MCMechRegistration`, `MechRegistrationProofs` | the script, both registration flows, the registry, lagging reads; theorems |
| `MechDelivery`, `MCMechDelivery`, `MechDeliveryProofs` | the poll loop, intake, pinning, the Safe, the self-test; theorems |
| `Verdicts` | pure: the scores of the three layers and the verdict of a report |
| `Pipeline`, `MCPipeline`, `PipelineProofs` | handlers, cache or live run, the upsert, on `Verdicts`; theorems |
| `Documents` | pure: what a server's answer, a link or a search hit is worth |
| `Discovery`, `MCDiscovery`, `DiscoveryProofs` | tiers, layers, crawl and the shared browser, on `Documents`; theorems |

Common conventions. One action is the stretch of code between two awaits; a
`pc` names the await. A call to the chain has two steps, *mined* and
*answered*; a call that throws may leave an *orphan* that is mined later or
never. `Crash` forgets what lives in memory. `fails`, `crashes`, `dups`, `lags`
and `faults` count what a run may throw at the program, and the constants named
`Max...` bound them, the clock, the chain's height and the number of services;
nothing else is bounded. Operators marked *Mutant* are plausible slips of the
definition after them; they are never part of a specification and serve to show
that the properties can fail. Where several invariants share a run they are the
named conjuncts of one (`GateInv`, `RegistrationInv`, `DeliveryInv`,
`PipelineInv`, `DiscoveryInv`), with the type invariant among them.

### AcpAdapter

| Code | Model |
|---|---|
| `recentJobs` and its timestamps | `recentJobs`, and `expiredKeys`: those older than the TTL. Time itself is `TtlElapses`. |
| `claimDispatch` | `Claimable`, `ClaimDispatch`, `AfterClaim` (with the clean-up above `CleanupThreshold`) |
| `acceptInFlight`, the `__decided` marker | `acceptInFlight`, `HandleAcceptEntry`, `MarkDecided` |
| `handleJobCreated` await by await | `apc`: `fetch`, `require`, `gate`, `budget`, `budgetMined`, and the three calls of `reject`: `refuse`, `gateRefuse`, `undo` |
| `inFlight`, `handleJobFunded` | `inFlight`, `dpc`: `fetch`, `handler`, `submit`, `fallback`, `submitMined`, `nudge` |
| `pollFundedJobs` | `PollTick` takes the list, `PollDispatch` and `PollDispatchThrows` go through it |
| `OBSERVE_ONLY` | `observing`, chosen at the start and fixed |
| `start`, hydration | `Init` and the `wire` after a `Crash` |
| buyer, chain, SSE server | external: `CreateJob`, `PostRequirement`, `Fund`, `Complete`, `BuyerRejectsOrExpires`, `Mined`, `OrphanSettles`; an entry handled may stay on the wire and be handled again (`MaxDups`) |

What was ordered is one of five kinds: with handler and subject, the same with an
expiry no Date can hold, without subject, an unknown offering, no offering at all.
Contents of requirements and deliverables, prices and wording are left out.
The daemon starts among jobs of every phase an earlier process may have left.

### BuyerReputation

A job is named by the tick of its expiry, so the order of `expires_at` is the
order of numbers. `tracked` is the status column of `acp_tracked_jobs`,
`records` the three columns of `acp_buyer_records` the gate reads. `pc`, `rows`,
`cur`, `verdict`, `pending` are the locals of the sweeps and socket handlers
that may be awaiting at one time: `runReconcileSweep` is started by an interval
that does not wait for the sweep it started before, so two of them overlap. The
socket reports `completed` only (`SocketEvents`). The stub INSERT of a first
contact and the INSERT after a delivery are not awaited by their callers and are
steps of their own. The CHECK constraints of the migration are part of `TypeOK`.

### Sweeper

`pc` is the await of `runTick`, `runRefuel`, `recoverStranded`, `executeRefuel`
or `executeSweep`. Balances are small naturals; one unit of USDC buys one of
WETH, so slippage, gas and prices are left out. `eth` is what the agent holds
above its reserve. Nonces are consecutive: no call is mined while an earlier one
is on its way. `row` is the refuel row of the tick, and tells whether a failed
row carries the swap's hash; `lastOk` is what the `sweep_log` query returns, and
`lastSwept`, `swapped`, `income` are history variables no action reads. Alerts
and the counter of failed reads are left out.

### X402Gate and PaidService

| Code | Model |
|---|---|
| `loadX402Config`, the CDP config that is all there or absent, `register*Routes` | `loadX402Config`, `Mounted`, `Boot` over the environments of `Envs` |
| a request's hooks: presence of the payment, schema, gate, handler, ledger | `pc`: `arrived`, `present`, `valid`, `verified`, `simulated`, `waiting`, `settled`, `recorded`, then the status answered; the order differs by route (`HeaderCheck`, `BodyCheck`, `Gate`) |
| `verifyPayment` | `verifyPayment`: soundness, window, amount, and the lagging `authorizationState` |
| `settle` | `Simulate`, `Broadcast`, `BroadcastRejected`, `BroadcastThrows`, `ReceiptArrives`, `ReceiptWaitThrows` |
| the CDP facilitator | external: `CdpVerify`, `CdpSettle`, `CdpSettled` |
| the token contract | external: `Mine`, `SpendElsewhere`; an authorization is spent once, inside its window |
| `revenue_events` | `ledger`, cents by request |

An authorization (`terms`) is its amount, its window, and whether network, payee
and signature are right. Prices are those of the pricing table, in cents.
`PaidService` knows only what each request was told and whom each authorization
was spent for: a request is charged while it is open or after it *failed*, never
once it was served or refused. `ImplementsPaidService` maps the statuses: 200 is
served, 400/402/403 refused, 500/502 and a lost connection failed.

### MechRegistration

`services` is the registry, `stale` the registry one transaction ago; each read
may be answered by either (`Reads`, a fault). A run (`run[r]`) is a record of the
script's or of `registerAsMech`'s locals, its `pc` the await: `resolve` (which
service), `payload` (the delivery rate), `read` (what is left of the lifecycle),
`perform` (simulate, or simulate and send), `sent` (receipt), `visible`
(`serviceVisibilityPoll`), `confirm` (the passphrase). The script simulates with
`observeOnly`, asks, and executes what a fresh read shows. The registry's guard
on each step is `Permits`, its effect `Advanced`; both are external, as are the
mempool and `Mine`. The registry is shared: `StrangerCreates` and
`StrangerAdvances` are other parties', whose services are `foreign`; they do not
register agents in a service of the operator's. The payload of `registerAsMech` is
its caller's (`given`), that of the script a rate or nothing. Bonds, agent ids and the keystore are left out. The chains
differ by the default service id only: 635 on Base, none on Gnosis.

### MechDelivery

The height of the chain is time. `cursor` is the loop's next `fromBlock`, `upto`
the head its range was computed from, `queue`, `routed`, `doc`, `attempts`,
`signed` the locals of one tick. `Poll` is the sequence of intake (`logs`, `route`),
`pin`, `verify` through the independent gateway (`resolvable` grows behind
`pinned`), and `Deliver` that of the Safe transaction (`build`, `send`,
`receipt`); any of them may throw, and then the tick ends without moving the
cursor. `installSignalAbort` sets `aborted`, and the loop looks at it where the
code does. Environments that must not start are in `Envs`. `tester` is
`self-test-request.ts`. The Safe's nonce orders deliveries; other mechs may
deliver after the response timeout.

### Pipeline and Verdicts

A job is one call of a handler. A row is named by the job that created it. Each
SQL statement of a run is an action, and the timer of `withTimeout` (`Expire`)
answers the buyer while the run goes on alone. The buyer is answered after the
last statement, not with it: the run is at `return` or `thrown` until `cacheOrLive` has
what it returned or threw (`RunReturns`, `RunThrows`), and may die there. A statement may
fail (`StatementFails`), or, on the request row, be carried out with its reply
lost (`ReplyLost`). A lost reply of another statement is left out: it leaves what the
failure of the next statement leaves, or, for the last one of a layer-1 run, a row
that no property relates to the answer. `papers`, `claims`, `verifs`,
`requests`, `costs` are the tables. `Verdicts` has the decision content: the
section, hype, formatting and citation scores of layer 1, the claim scores of
layers 2 and 3, the aggregation and the adjustment of the verdict for MiCA, all on a
document that is the set of features the code looks for. `kept` and `overlapped`
are history. What the model says of claims is one of `Opinions`.

### Discovery and Documents

`Documents` says what each resolver makes of what a server answered: content is a
length, a source and the names its first 2000 characters mention; a URL is the
features the code tests for. `Discovery` walks each call through the tiers
(`DiscoverLinked`, `DiscoverSite`, `DiscoverGitHub`, `DiscoverAggregator`,
`DiscoverSearch`, `Compose`), each URL through the layers (`resolveWhitepaper`),
documentation sites through `crawl`, and every visit to the browser through
`Queue`, `Enters`, `loadPlaywright`, `ensureBrowser`, `Render`, `Leaves`. The lock
is the chain of promises it is in the code: a caller replaces the last promise by
one of its own (`lock`, `mine`) and waits for the one that was there (`waits`)
to settle (`settled`). Fetches between two visits are one step: no other call
can observe them. A browser may die, which the next context tells, or hang
(`BrowserHangs`), and then what waits for it waits. `history` keeps the times at which
the browser gave a caller a text or a list of links; loads that give nothing are
not in it, nor in the code's own list. It also counts the contexts of the browser
process in use and those its page count leaves out; a page that is followed
inside a context adds to the page count and is not a context of its own.

## 3. Runs

| Run | Question | Bounds |
|---|---|---|
| `acp_flights` | Do claims, attempts and deliveries match when keys are shed at once and one answer is lost? Do both phases implement `SingleFlight`? Does a repeated entry submit again? Does observing sign? | 1 job, all kinds, 1 repeat, 1 lost answer, clean-up at 0 keys |
| `acp_live` | Is a funded job never rejected and a decided one not answered again? Is it delivered with the timer alone, and every job answered if the stream delivers? | 1 job, 1 repeat, 1 crash |
| `acp_forgets_funded` | *violation*: the same with one read that fails | 1 job, 1 failing call |
| `rep_ladder` | Is there one strike for each delivered job left to expire, and is nobody else refused? | 4 jobs of one buyer (the whole ladder), 1 sweep |
| `rep_race` | False strikes, inconsistent rungs, unresolved rows with overlapping observers | 2 jobs of one buyer, `LIMIT` 1, 2 sweeps, 1 socket handler, 1 failing call, 1 crash |
| `sweep_ticks` | Audit row, stale balance, cadence; is stranded WETH and ETH always delivered? | 3 units of income, cadence 2, clock to 2, 1 fault, 1 lagging read, disordered wallet at the start |
| `gate_paid` | Does the gate implement `PaidService`? Does it charge only when due, turn no honest buyer away, keep a true ledger, answer everybody? | 2 requests, 1 authorization of 4 kinds, 3 environments, clock to 1, 1 fault |
| `mech_register` | A second service, a repeated step, an inert mech of the script, another step than the confirmed one, a false service id; is there a mech in the end? | 2 runs, Base from every state of its service or Gnosis without one, 2 services, 1 mech, 1 visibility attempt, 1 fault (lagging read, death, overlap or another party's service) |
| `mech_deliver` | Skipped or repeated requests, unresolvable hashes, a stop in the midst; is every request delivered? | 2 requests, one the self-test, 1 response, 2 verify attempts, head to 3, 1 fault, 4 environments |
| `pipeline_runs` | Do verdicts, claims and request rows agree with one another and with the answers? | 3 calls in 6 sets of asks over one project with two names, 2 in flight, 1 fault (failing statement, lost reply or death), a long document with up to 2 claims and a short one |
| `pipeline_caches_pass` | *violation*: is a stored verdict the one the buyer was told? | the same, no fault |
| `discovery_shares` | Lock, ration, recycling; does a call find what it finds alone? Does it end? | 3 projects that take every tier and layer, ration 2 an hour, restart after 2 pages, clock to 1, 1 fault (also a browser that dies or hangs) |

Why the bounds are enough. Every claim and dedup key of the adapter names one
job, and no handler looks at another one, so one job with all its triggers has
the interleavings; the proofs below hold for any number. There are two exceptions.
The size of `recentJobs` decides when keys are shed: thresholds 0 (always)
and 100 (never) are its two extremes. And an uncaught throw of one job ends the
process of all: for each of the others that is a `Crash`, which `acp_live` has. Buyers meet only through their own row, so
one buyer with enough jobs to climb the ladder is the hard case; two sweeps and
a socket handler are three observers of one row, and with `LIMIT` 1 two rows are
enough for one to starve the other. Requests on paid routes meet only in an
authorization they share: two requests with one authorization are all the
conflict there is. A registration is a line of five steps of which each run
takes one or all; two runs overlap in every pair of them, and a third would
meet the registry in the same states. One service of another party takes the id a
create expected, or is the one the create reports; more of them only widen the gap.
An extraction yields 0, 1 or all claims of a document: what is stored is compared
with what was found, and none, some and all are its cases. Two requests are enough for one to be in
a tick the other comes too late for, and three blocks for ranges that meet, and
a response that times out. Two runs are in flight on the one resource they
share, the rows of a project, and the third call reads what they left. Three
calls make a queue of two at the browser. One fault may fall at any step, and
each recovery path starts from the state it left.

Deadlock is checked for the sweeper, whose loop never ends. It is not for the
others: all jobs, requests, runs or calls may reach their end with nothing left
to do.

### Fairness

- `LoopSpec` (adapter): weak fairness of every step of an attempt or delivery that
  awaits (the event loop runs what is ready), of the poll timer and of its
  dispatches (`setInterval` keeps firing). An awaited call returns or throws in
  the end, with either outcome. Nothing is assumed of the buyers, nor that a call
  nobody waits for is mined. `EveryJobIsAnswered` in addition takes `StreamDelivers` as its
  hypothesis, because the poll only looks for funded jobs.
- `FairSpec` (reputation): the sweeps and handlers run, the clock advances, the
  INSERT after a delivery is sent, and the keeper of the chain expires what is
  past its SLA (`INVARIANTS.md`, item 29). A buyer need not act.
- `FairSpec` (sweeper): `runLoop` goes on for ever (systemd starts the process
  again when it dies), and a transaction that was sent is mined or
  dropped in the end. Income and the relayer's expenses are not assumed.
- `FairSpec` (x402 gate): weak fairness of the steps of a request. That a transfer
  is ever mined is not assumed: the wait for its receipt has a timeout.
- `FairSpec` (registration): weak fairness of the steps of a run and of mining; strong
  fairness of the operator's confirmation and of the next launch, which a wait,
  a death or an abort may disable in between. It says that the operator comes back and
  confirms in the end, as the script's last line asks, and is used for
  `RegistrationCompletes` alone.
- `FairSpec` (delivery): systemd restarts the process, its loop and its tick run on, pins
  spread to the gateway, and a delivery that was sent is mined.
- `FairSpec` (pipeline): weak fairness of the steps of a call; the calls to the model
  and the web have timeouts of their own. The database client sets none for a
  statement (`client.ts`): that it is answered or its connection drops is an
  assumption, which `EveryRequestRowCloses` needs.
- `FairSpec` (discovery): weak fairness of the steps of a call. Fetches, the launch,
  `goto` and `waitForFunction` have timeouts, and closing a context is raced with
  one. `newContext`, `newPage`, `route`, `evaluate` and the browser's `close` have none
  (`HeadlessBrowserResolver.ts:169-190, 243-251, 307, 339, 427, 464, 592`): in a browser
  that hangs the steps that wait for it are disabled, nothing is assumed of
  them, and `EveryDiscoveryEnds` excepts the call that waits there and those in
  the queue behind it.

## 4. Where the code departs from its comments

Two disagreements have a run and are listed in `PROJECT.json`:

1. *A funded job may be forgotten* (`acp_forgets_funded`). A delivery that ends
   early because `fetchJob` failed releases `inFlight` but leaves the
   `job.funded` key; the poll then skips the job until the key is shed, which
   needs more than 100 keys and five minutes. The comment: "once funded, ALWAYS
   deliver" (`acpAdapter.ts:409`).
2. *A cached verdict is not the delivered one* (`pipeline_caches_pass`). `runL1`
   stores the verdict it makes of the structural score alone
   (`pipeline.ts:479-484, 512-523`), and only then does `ReportGenerator` adjust it for a
   MiCA claim (`pipeline.ts:527`). In the run a document scores 3 and claims MiCA with
   2 of its 7 sections: the row says PASS and the buyer of the live run is told FAIL
   (`reportGenerator.ts:68-69`); a later `legitimacy_scan` answered from the cache says
   PASS. The comment: "cached verdicts are already MiCA-adjusted at write time"
   (`cacheRead.ts:3-4`). `runFullPipeline` does store the adjusted verdict
   (`pipeline.ts:717-719`), and `runL1L2` stores no verification (542-544).

The passing properties are stated with the exceptions the code makes. These are
the behaviours behind them, which TLC shows when the bound or the hypothesis is
lifted:

- `NeverRejectFunded` without its condition on `lost`: `setBudget` was mined, its
  answer is lost, the buyer funds, and the catch block rejects
  (`acpAdapter.ts:350-352`).
- `NeverRejectFunded` and `RedeliveryIsHarmless`, the same, with two jobs and nothing
  that fails: nobody catches the `reject` of a job that has expired
  (`acpAdapter.ts:307`), so refusing it ends the process, and with it the wait for
  the `setBudget` or the `submit` of *another* job, which is then mined unseen.
- `DecisionIsPermanent` with `CleanupThreshold = 0`: the `__decided` marker is a
  dedup key like any other and is shed with them (`acpAdapter.ts:195`); a funded
  job may then be rejected as well.
- `RedeliveryIsHarmless` without `kind[j] # "badExpiry"`: `toISOString` of an
  expiry beyond the range of Date throws after the submit was mined, and the
  catch block submits the fallback (`acpAdapter.ts:484`).
- `OneStepPerStiff` with `MaxCrashes = 1`: the row is resolved before the strike
  is written, and no later sweep lists it (`buyerReputationGate.ts:191`). With
  two sweeps a strike may even be taken back: the slower one writes the rung it
  computed from an older record (`buyerReputationGate.ts:235`).
- `SweepSeesReality` without `lags = 0`: a refuel that fails after its swap was
  mined is not followed by a second balance read (`index.ts:145`).
- `SweepsAreSpaced` with a lost answer: a sweep that was mined but whose answer
  or row was lost does not count for the cadence (`log.ts:47`).
- `AuditSpine` for a failure that carries no hash: only a `RefuelStepError` carries
  the swap's, and the wait for a receipt throws a plain error
  (`refuel/index.ts:180`).
- `NothingReverts` with two lagging reads: the state and the simulation both come
  from behind the head, and the step that was mined is sent again.
- `CalmConfirmedStepIsExecuted` with an overlapping run: the confirmed step was
  taken by the other, and the fresh read executes the next one unseen
  (`register-live.ts:368`).
- `NoRequestSkipped` with a lagging `getLogs`: an empty answer looks like no
  requests, and the cursor moves past them (`taskIntake.ts:59`).
- `SentOnce` with a receipt that never comes: the tick is repeated while its
  transaction may still be mined (`safeDeliveryClient.ts:253`).
- `OneRowPerName`, `LargestClaimSetIsKept` with overlapping runs: both find no row and
  both create one, or one deletes what the other decided to reuse
  (`pipeline.ts:395`).
- `StoredVerdictHasItsClaims` with a death between the deletion of the claims and
  that of the verifications (`pipeline.ts:407`).
- `BrowserIsRecycled` with a failing list of links: the page is not counted.
- `EveryDiscoveryEnds` without its exception: a browser that hangs in a call without a
  timeout keeps the render lock, and every later call at the browser waits for
  good. `discover` runs outside of `withTimeout` (`cacheOrLive.ts:143`).

More follows from the models and contradicts no property:

- The catch around `evaluateAcceptance` also catches a failed `reject` of a buyer
  the gate refused, and the attempt goes on to `setBudget` (`acpAdapter.ts:333`).
- "payment not consumed" (`preHandler.ts:17`) is not true of a 502 after a lost
  receipt: `PaidService` lets a failed request be charged, and the gate does.
- A run of layer 1 over a stored project replaces the verification a deeper run
  left (`pipeline.ts:510`).
- A Gnosis environment without its own RPC URL falls back to `BASE_RPC_URL`
  (`config.ts:445`); `start` then refuses to run, because no marketplace answers.
- `executeCreate` reports the service id of its simulation
  (`serviceRegistryClient.ts:146-163`), not that of the receipt. Another party's
  create mined in between makes it that party's, which is the shift
  `marketplaceClient.ts:22-31` fixed for `createMech`. `waitForServiceVisible` then
  sees a service, and `registerAsMech` goes on with it: its owner is asked for every
  step but the registration of agents, whose bond the registry would take for a
  service of another. `ReportedServiceIsOwnUnlessTaken` says how far the id can
  be off and no more.
- The payload of a mech made by `registerAsMech` is its caller's and nothing checks
  it (`mechAdapter.ts:152-154`); `NoInertMech` is about the script's mechs.
- The ration bounds what the browser yields, not what it loads: renders that fail or
  have under 100 characters (`HeadlessBrowserResolver.ts:107-113, 131-134`), lists of
  links that throw (215-217) and pages followed from a thin one (455-483) are loads
  it never counts.
- A crashed browser is not replaced before its page count says so; until then
  every render comes back empty and the calls end on the other tiers.

## 5. Proofs

Checked by TLAPS, for every value of the constants that satisfies the named
assumptions of its module; nothing else is assumed but what a theorem names as
its hypothesis.

`AcpAdapterProofs`

- `TypeCorrect`.
- `ClaimsAreReleased`, `FlightsAreExclusive`: the inductive invariant `ClaimInv`
  is `TypeOK /\ ClaimsMatchFlights` and that neither phase has two flights of one
  job. None of the parts is inductive alone: that a second flight cannot start
  needs that the first one holds the claim, and that the claim may be released
  when a flight ends needs that there is no other.
- `AcceptsAreSingleFlights`, `DeliveriesAreSingleFlights`: under `ClaimInv` each
  step starts, ends or leaves alone the flights of one job, or clears them all
  (a crash), so both phases refine `SingleFlight`.
- `ObservingSignsNothing`: by its own invariant over the two program counters.
- `SafeMarkersKeepDecisions` (`DecisionIsPermanent`), `SafeMarkersProtectFunded`
  (`NeverRejectFunded`), for any number of jobs and keys, as long as `MarkersAreSafe`:
  no claim that can be made sheds the `__decided` marker of a job, whichever other
  keys the clean-up takes. That a marker outlives the entries that repeat its job
  is a matter of real time (a TTL of minutes), which the model does not count, so
  it is a hypothesis and not an invariant. The first theorem is
  `AnsweredInv`: an answered job is marked and no attempt of it is under way.
  The second needs to know why nothing can reject a budgeted job: it is marked,
  or the attempt that will mark it still holds the claim, or it was budgeted
  before the start, and then no entry of it can come (`SettledInv`). That holds of jobs
  no `setBudget` of which is in `lost`, a history variable with the calls that were or
  may be mined unseen. A count of crashes would not do: see section 4.
- `DecisionsArePermanent`, `FundedIsNeverRejected`: the case where `recentJobs`
  never outgrows its threshold (`Cardinality(Keys) <= CleanupThreshold`), so that
  nothing is ever shed (`RoomIsSafe`).
- `RedeliveriesAreHarmless`, for any threshold: past its fresh read a delivery works
  for a job nobody else can submit for (`AwaitedInv`), because the claim is its own.

`BuyerReputationProofs`

- `TypeCorrect`; `LadderConsistent` (also for records still in a worker's hands).
- `NoFalseStrikes`: strikes of a buyer never exceed the expired jobs. Not
  inductive as it stands: a worker between read and write is about to add a
  strike. `StrikeInv` counts the workers that read for `b` (`Reading(b)`), at
  most one for each resolved job, and bounds the record, as well as every
  record about to be written, by what the other expired jobs allow (`Room(b)`).
- `OnlyStiffersRefused`: from the ladder and `NoFalseStrikes`.
- `OneSweepCountsEveryStiff` (`OneStepPerStiff`), when no two sweeps overlap: the other
  half of the account. `AccountInv`: strikes and transitions under way add up to
  the stiffs, and a record about to be written is one strike ahead of the table.
  The write keeps this because its worker is alone in a transition: socket
  handlers hear of completions only (`SocketsNeverStrike`).

`X402GateProofs`

- `TypeCorrect`.
- `NothingIsChargedUndue` (`ChargedOnlyWhenDue`): a transfer is broadcast only for
  a well-formed call of a paid route, on an authorization that pays its price.
- `GateImplementsPaidService` (`ImplementsPaidService`): the refinement, for any
  number of concurrent requests on any of the routes, with crashes, lagging
  reads and lost receipts.

The inductive invariant is `GateStory`, three facts about each request.
`RouteStory`: past verification, or with a transfer, a request is `Due` (its
body is valid and its authorization pays what the route asks); a bridge call
never reaches the payment. `TransferStory`: where a request may stand while its
transfer is absent, on its way or mined; a 402 never follows a transfer that
can still succeed. `ChainStory`: an authorization is spent for a request if and
only if that request's transfer succeeded. None stands alone: that two requests
do not share an authorization is `ChainStory`, whose step in `Mine` needs that
the request was due; that the refused are never charged later is
`TransferStory`, whose step in `Verify` needs what `RouteStory` says of the
transport. Every step of a handler has the shape `MovesOn` (one request moves
on and has at most broadcast its transfer or had its row written), which is
proved once and used by the types, the stories of the other requests and the
refinement alike. The assumption that no request is called `nobody` or `other`
keeps the requests apart from the two values of `spentBy` that name none.

The promises of `GateInv` (`PromisesAreKept`) need two more stories.
`HonestStory`: a buyer who did all he could is refused, or has his transfer
reverted, only for a fault or for an authorization that is spent or no longer
open; the transfer is in it because the cause of a revert may be older than the
refusal. `LedgerStory`: a row is the price of a transfer that stands, and is
there once the write was passed. Both rest on that a cause is never undone.

`SweeperProofs`

- `TypeCorrect`, `AuditRowsHaveTheirSwap` (`AuditSpine`), `SweepsSeeReality`
  (`SweepSeesReality`), `SweepsKeepTheCadence` (`SweepsAreSpaced`).

One `Story` with three parts. `AuditStory`: a swap that was mined leaves the tick
only at places past it, so a row that says *failed* can be written only where
none was mined. `BalanceStory`: the balance in hand is covered by the wallet
everywhere but between a swap and the balance read again; on that stretch no
call can fail, for each spends what the last one yielded, so no failure leads
from there to the sweep. `CadenceStory`: the time a tick read is that of the last sweep
mined until its own is, and the balance in hand is swept because the decision
said so.

`MechRegistrationProofs`

- `RegistrationIsTrue` (`RegistrationInv`), `NoSecondService` (`OneService`),
  `OneLagIsHarmless` (`NothingReverts`), for any number of runs, services and polls.

`RegistrationStory` is what holds always (`MempoolStory`: a transaction is its run's
only one and is its next step; `PayloadStory`: no placeholder passes; what a run
has left to do is a create, one step, or a tail of the lifecycle), that one run
is at work when runs do not overlap (`AloneStory`), and what such a run relies
on (`ReliedStory`). The last is the point: that a step is not sent twice needs
that what a run is about to do is what the registry's state asks for
(`StepStory`), which a lagging read may break; then `RegistryStands` holds still,
because the simulation would have had to lag as well. That no second service is
created needs that a run with a create to do has seen no service of the
operator's (`UnforcedStory`), from the resolution on until the transaction is
mined. Ids are given in order, so the id simulated is at most the next one, and
what was created since the simulation of a run that is alone is other parties'
(`TakenUpTo`): this is how far a reported id can be off.

`MechDeliveryProofs`

- `DeliveriesAreSound` (`DeliveryInv`), `CursorLeavesNoGap` (`NoRequestSkipped`),
  `NothingIsSentTwice` (`SentOnce`), for any requests, documents and heights.

`DeliveryStory` says where the cursor, the end of the range and the head are
(`PlaceStory`), that what a tick holds was mined in its range (`RangeStory`), and
that the range polled holds no request not seen (`SeenStory`), from which the
cursor may jump over it. `SentStory` explains why the next tick does not
repeat one: a request that was sent is below the cursor, or its receipt is
awaited. `FlightStory` (the delivery in flight is the awaited one) makes a stop
clean, `ContentStory` and `HonestStory` carry resolvability and authorship from the
gateway to the chain.

`DiscoveryProofs`

- `BrowserIsShared` (`DiscoveryInv`), `RationIsKept` (`YieldsAreRationed`),
  `CallsAreIndependent` (`CallsDoNotDisturbEachOther`), for any
  number of calls over any web. Assumed of the web (`WebAssumption`) is that links and
  search results are lists, lead to servers that answer something, and that texts have a length.

`DiscoveryStory`: every step of a call away from the browser is a `FreeStep`, which
neither enters the line nor touches what the line is made of; this is proved
once for each tier and layer. `ChainStory` is about promises: they settle in
their order, a caller's own comes right after the one it waits for and is not
settled while it is in the line, and no two callers share one. Exclusion
(`OneBusy`) follows: of two callers at the browser each would wait for a promise
not before the other's. `RationStory` and `RecycleStory` need it, since the check and
the entry are two steps: the list counts the last texts and lists of links the browser
gave, those it dropped are an hour old, and whoever renders found room that
nobody took since.

`CallsAreIndependent` compares a call with what it finds alone (`FoundAlone`), which is
computed tier by tier without a browser, a lock or a ration. `AloneStory` says that,
short of a fault and of a refusal, the browser is there and every call is on the way it
takes alone: a URL it resolves is the one its tier offers, and the cheaper tiers
found nothing (`ReadsAsAlone`); who asks the browser for a page has nothing
cheaper, and gets what the page shows (`AsksAsAlone`); a crawl follows the
same links (`CrawlsAsAlone`), and after k of them has read the same
text (`SubpagesAsAlone`, `HasRead`). Each step of a call keeps this (`AloneStep`), because the
only things it shares with another call, its turn and its room in the list, decide when it
goes on and never what it is given. Two facts about the reference are needed:
at each place of the way there is at most one thing to find (`OfferedOnce`, `ShownOnce`,
`ResolvedOnce`), and a crawl that has read enough reads no more (`EnoughIsEnough`).
The second is about a recursive function, `ReadAlone`; its induction on the number of links
(`NumberInduction`) is derived from the least number of a set (`WFMin`).
The proof corrected the reference: an earlier form of it, with folds, went on
reading beyond the limit of 80000 characters, and lost what a home page without
an `llms.txt` names.
The model of the code was right in both places.

`PipelineProofs`

- `PipelineIsSound` (`PipelineInv`), `VerdictsHaveTheirClaims`
  (`StoredVerdictHasItsClaims`), `LargestClaimSetStays` (`LargestClaimSetIsKept`),
  `RequestRowsTellOutcomes` (`RequestRowTellsTheOutcome`), for any calls, offerings
  and documents. Assumed (`DocumentAssumption`) is that a document given or discovered is one
  of those described, that its claims are finitely many, and that no call is named like the
  record a run makes up.

The invariant has two halves. `Local` is about one call: what it remembers at
each place (`GoodCall`), and how its place, its answer and its request row fit
together (`GoodAnswer`): a call that is not at its end has no answer but the one of
its timer. `Store` is about the rows. A run writes by single statements, so the rows
satisfy what the properties say only between runs, and `Store` says what a run in
the middle of its upsert knows of them: nobody has read a row that is not created
yet (`Stored`); while runs have not overlapped the candidates of the one that is writing
are all the rows of its name and still there (`Alone`), so that what it creates is
the only one; what a run has counted, made or found is in the whitepaper it
goes by, unless that is leaving (`Counted`), also when runs overlap, which is
where a verdict gets its claims from; and what a run was stored under is safe in a row
nobody is about to delete, or in the hands of a run that found at least as much
(`Keeping`). Neither alternative of the last is inductive alone: the decision to
replace a row hands its claims over to the run, and the last claim hands them back.
Most steps are `Quiet`: they leave whitepapers and claims alone and end outside of
the upsert; that these preserve `Store` is proved once.

Only model-checked: all liveness (`FundedIsDelivered`, `EveryJobIsAnswered`,
`EveryTrackedJobIsResolved`, `StrandedIsDelivered`, `EveryRequestIsAnswered`,
`RegistrationCompletes`, `EveryRequestIsDelivered`, `EveryRequestRowCloses`,
`EveryDiscoveryEnds`), which is out of the prover's reach. Every invariant and
action property of the passing runs is a theorem. The operators of `Verdicts`
enter the proofs by their types: what they compute of a document, such as the mean of
the scores, a fold over a sequence, is checked by the runs.

## 6. Plan

1. *(done)* `AcpAdapter` with `SingleFlight`, `BuyerReputation`, `X402Gate` with
   `PaidService`, `Sweeper`, `MechRegistration`, `MechDelivery`, `Discovery` on
   `Documents`, `Pipeline` on `Verdicts`, and their proofs.
2. *(done)* Every invariant and action property of the passing runs as a theorem.

## 7. Not modelled

- The composition of `AcpAdapter` and `BuyerReputation`: each has the other as its
  environment, in its full generality. In the first the gate may admit or refuse a
  buyer at any time, in the second any job may be delivered at any time, so what
  holds of either holds of both together.
- Parsing of requirements, prices, configuration and logging of the ACP adapter;
  alerts, gas watch and key loading of the sweeper: nothing in them depends on
  order or failure beyond what the callers' models contain.
- x402: the wording of the challenges, the free MCP tools and resources, the
  discovery routes, the stop of the server.
- Mech adapter: the encoding of pinned archives and the signature of uploads,
  generic Safe transactions, the operators' other scripts; the handlers with a
  constant answer (`prediction_market_research`, `resolution_evidence_compiler`).
- Pipeline: prompts and parsing of model answers, focus-area scores, the margin
  report; of discovery what a text says beyond length and subject, and
  cancellation (no caller passes a signal).
- Schemas, the key ceremony, the bridge, migrations, deployment and one-off
  scripts: no state that runs concurrently. The SQL constraints of the reputation
  tables are the types of `BuyerReputation`.
