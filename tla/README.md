# Risk-Claw-SOL in TLA+

A verification project for the code under `src/`: two Solana programs, the TypeScript client that
talks to them, the agent process and the operator's web app that drive the client, the scripts that
provision programs, addresses and identities, and the two that smoke-test the whole. TLC checks small
instances of every module; TLAPS proves, for all values of the constants, every safety property that
the passing runs check: of the programs, the client, the agent loop, the operator's app, the registry,
the deployment and the smoke scripts.

## 1. Inventory

### What the system is

An operator stores an encrypted risk policy on chain (`risk_policy`). An agent process watches a
position; when it is in breach of the policy, it orders an exit (`swig_delegation::execute_rebalance`).
Both go through one class, `RealClient` in `packages/onchain/src/client.ts`. An audit page lists the
events that the chain emits.

```
 policy page ──setEncryptedPolicy──▶ RealClient ──init_policy / update_policy──▶ risk_policy
 Observer ─timer─▶ Analyst ─checkThresholdBreach─▶ RealClient (read cache)
                   Guardian ─executePrivateRebalance─▶ RealClient (write cache)
                                                    └─execute_rebalance──▶ swig_delegation
 audit page ◀──────────────── RebalanceExecutedEvent ────────────────────────┘
 register-agents ──mint──▶ Core assets;  ──patch──▶ config/devnet.ts ──load──▶ RealClient.registerAgent
 deploy-devnet ──deploy──▶ the two programs;  ──patch──▶ config/devnet.ts ──load──▶ ids.ts
 create-multisig ──create──▶ Squads multisig;  an operator ──paste──▶ config/devnet.ts
 e2e-smoke, smoke-realclient ──every operation in turn──▶ RealClient;  listen to RebalanceExecutedEvent
```

### Components

| Component | State it keeps | Operations | What is hard | What makes it correct |
|---|---|---|---|---|
| `swig_delegation` | per policy a `LastRebalanced` account, the event log | `execute_rebalance` | order of the gates, `init_if_needed` rolled back by a refusal, 30 s boundary, 0 as "never", u128 arithmetic | two exits of a policy are a window apart; a refusal has a cause; account and log agree |
| `risk_policy` | per vault a `RiskPolicy` account | `init_policy`, `update_policy` | hash recomputed by every writer, `seeds` and `has_one` | hash answers for the content; only the vault writes |
| `RealClient.executePrivateRebalance` | `writeCache` per policy, in memory | one async method | overlapping calls around one `await`, lost answers, restarts, two clocks | no double swap; a returned signature is an exit that ran, and the latest one |
| `RealClient.setEncryptedPolicy` | none | one async method with two awaits | check, await, act; late transactions of calls given up | the chain holds the last landed submission; a resolved call landed |
| `RealClient.checkThresholdBreach` | `readCache` | one method, v1 verdict from the drawdown | verdict of an earlier tick | a verdict lags by one tick at most |
| `RealClient.registerAgent` | `AGENT_REGISTRY`, loaded once | lookup | config replaced behind a running process | the mint belongs to the caller's key |
| Agent loop | tick counter, timer, the handlers in flight | `setInterval` callback, async handler | nobody awaits or catches the handler | a lasting breach is exited again and again |
| `register-agents` | key files, `devnet-registry.json`, a block of `config/devnet.ts` | one run | death between two awaits, re-runs, a second checkout | one identity per zone, config whole |
| `RealClient.delegateToGuardian` | none | always throws | | step 9 of `e2e-smoke` relies on it |
| `deploy-devnet` | program keypairs and builds in `target/`, ids in `config/devnet.ts`, declared ids in the sources | one run of shell commands | death between any two, two builds around `keys sync`, lost keypairs | what the config names is deployed and knows its address; re-runs pay for nothing new |
| `create-multisig` | none; its address is pasted | one run | fresh key per run, unconfirmed transaction | the config names a multisig that was sent |
| `encryptThreshold` | none | pure function | width, byte order | what was packed can be read off |
| Arcis circuit `threshold_compare` | none | `compare`, which nothing queues | | |
| Policy page | `ProposalState` | `onSubmit`, wallet changes, navigation | the wallet or the page changes while a proposal is pending | what is shown is about the last submission and happened |
| Audit page | rows, a subscription per wallet | effect, cleanup, callback | late and reordered events, subscriptions that come and go | each exit once, latest first |
| `e2e-smoke`, `smoke-realclient` | the step, the captured event, the client's caches | their steps | the chain and the network are not the script's own; steps rely on windows in real time | a step fails for a cause; a green run is what it says |
| `seed-demo`, `verify-onchain` | none | read-only checks (and an airdrop) | the one looks at the config, the other at the chain | what passes the first passes the second |
| Landing page, layout, entry points, IDLs | none | presentation, generated code | | |

The hazards that follow from this, each at its line and with the properties that answer for it, are
listed in `PROJECT.json`.

### Which build is modelled

`agents/src/run.ts` still constructs the stub client, whose methods return constants; its comment
and `.planning/builder-a-swap-guide.md` name the `RealClient` as what takes its place. `AgentLoop`
models the loop over a `RealClient`. `queue_threshold_check` and the real MPC verdict exist in the
documents only and are not modelled; nor is the circuit `threshold_compare`, which exists but which no
code feeds. What is stored as a threshold decides nothing in this build: the verdict compares with a
fixed 2500 basis points (`client.ts:184`).

## 2. Modules

Names of operators follow the code. An operator `X_Y` is `X` with the bug `Y`; nothing uses it, the
mutants of `PROJECT.json` put it in the place of `X` to show that a property notices.

| Module | Models | Built on |
|---|---|---|
| `RateLimiter` | the promise of a write-side rate limit, abstractly: a grant needs every earlier grant of the subject to be a window old | |
| `SwigDelegation` | `swig_delegation`: `Execute` and `Refuse`, the gates in `Outcome` | refines `RateLimiter` |
| `PolicyAccount` | the accounts of `risk_policy`, `state.rs`: `Account`, `XorFold` for `recompute_hash`, and what holds of them | |
| `RiskPolicy` | the instructions of `risk_policy`: `InitPolicy`, `UpdatePolicy` | extends `PolicyAccount` |
| `RebalanceClient` | `executePrivateRebalance`: `RefuseLocally`, `Shortcut`, `Submit` up to `.rpc()`, `Confirm`, `CatchTooSoon`, `Rethrow`, `Abandon` after it | `Chain == INSTANCE SwigDelegation` |
| `PolicyClient` | `setEncryptedPolicy`: `Begin`, `Submit`, `Confirm`, `Reject`, `ReadFails` around its two awaits | extends `PolicyAccount`, `Chain == INSTANCE RiskPolicy` |
| `AgentLoop` | `run.ts`, `observer.ts`, `analyst.ts`, `guardian.ts`, `checkThresholdBreach` | `Client == INSTANCE RebalanceClient` |
| `AgentRegistry` | `register-agents.ts`, `AGENT_REGISTRY`, `registerAgent` | |
| `Threshold` | `encrypt.ts`: the bytes of a v1 ciphertext, and the number that `_testDecryptPlaceholder` reads off them | |
| `OperatorApp` | a browser tab: wallet, policy page, audit page | `PolicyClient`, `SwigDelegation`, `Threshold` |
| `SmokeRun` | `e2e-smoke.ts` and `smoke-realclient.ts` step by step, with another client and another editor on the chain | `PolicyClient`, `RebalanceClient` |
| `Deployment` | `deploy-devnet.ts`, `create-multisig.ts`, what `seed-demo.ts` and `verify-onchain.ts` check, and the working tree between them | |
| `SwigDelegationProofs` | the theorems about `swig_delegation` | extends `SwigDelegation` |
| `RebalanceClientProofs` | the theorems about the write path of the client | extends `RebalanceClient`, `ChainProofs == INSTANCE SwigDelegationProofs` |
| `PolicyClientProofs` | the theorems about `risk_policy`, for any contents, and about its client | extends `PolicyClient`, `Program == INSTANCE RiskPolicy` |
| `AgentLoopProofs` | the theorems about the agent process | extends `AgentLoop`, `ClientProofs == INSTANCE RebalanceClientProofs` |
| `AgentRegistryProofs`, `DeploymentProofs` | the theorems about the scripts | extend the modules they are named after |
| `OperatorAppProofs` | the theorems about the packing and the two pages | extends `OperatorApp`, `ClientProofs == INSTANCE PolicyClientProofs`, `ExitsProofs == INSTANCE SwigDelegationProofs` |
| `SmokeRunProofs` | the theorems about the smoke scripts | extends `SmokeRun`, `EditsProofs == INSTANCE PolicyClientProofs`, `ExitsProofs == INSTANCE RebalanceClientProofs` |
| `MC...` | the instances that TLC checks | extend the modules they are named after |

### How state and actions correspond to the code

*Atomicity.* A Solana instruction that writes an account is serialised with every other one that
does, and a failed transaction is rolled back, so an instruction is one action. JavaScript runs from
one real wait to the next without interruption, so an async method is one action per stretch
between waits: `executePrivateRebalance` two, `setEncryptedPolicy` three, a tick of the agent with
its handler one, up to the `.rpc()` of the exit. Awaits of promises that are settled already
(`checkThresholdBreach` in v1) give the timer no turn and are not a boundary. An iteration of
`register-agents` is cut at `fetchAssetV1` and at `sendAndConfirm`.

*Transactions.* `txs` holds every transaction ever submitted; a signature is an index in it. `Land`
executes one against the chain at any later time, in any order, whether somebody waits for it or
not. `.rpc()` reports its status; the `timeout` fault lets it fail for a reason of its own while the
transaction goes on.

*Clocks.* `clock` is the Clock sysvar, `wall` is `Date.now()`. They advance together unless the
fault `skew` lets them drift apart. Units are abstract: a window of 30 s is two or three units.

*Client state.* `writeCache` and `readCache` are the two maps; `cachedWrite` in a call is the local
variable that survives the await. `Restart` empties the maps and forgets the calls, not their
transactions.

*The tab.* `OperatorApp` follows one page at a time, which is mounted and left; state of a page dies
with it, a pending call does not. The vault and the signer of a submission are the wallet connected
when the button is pressed; the wallet signs with the account connected when it is asked. An effect
with its cleanup is one action, as React runs it; `Deliver` is the callback of a subscription.

*The smoke scripts.* A step is an action, or two around the `.rpc()` of the client; `Walk` is their
order. Every step may take any time. `resume` is the end of a `setTimeout`. A failed step ends the
run (`process.exit`), a new run may follow with the earlier transactions still in flight.

*Deployment.* A shell command is an action; `Die` ends the script before any of them. An id is the
number of a generated keypair. The chain maps an address to the id that its program was compiled
with: an Anchor program whose `declare_id!` is not its address refuses everything. The working tree
(config, declared ids, bundled IDLs) is in git, `target/` is not; `LoseTarget` stands for a clean
build directory, another machine or a clone of what was committed.

*Data.* Policies, vaults, clients and wallets are model values. A ciphertext is a function from byte
positions to bits: `recompute_hash` is a fold by exclusive or, which acts on each bit of a byte
alike, so one bit per byte carries the whole behaviour. Every exit carries the quote the client
hardcodes (`expected_out` 1000, `min_out` 995, 100 bps); `SwigDelegation` itself is checked with a
request for each way through its gates. A public key of an agent is the number of the keypair, a
mint address the number of the asset.

*External.* The Solana runtime, the clock, the network, Metaplex Core and the file system are
modelled from how the code uses them and marked external in the map.

## 3. Runs

| Run | Question | Result |
|---|---|---|
| `swig_core` | Does `execute_rebalance` keep exits of a policy apart, refuse only for cause, and keep account and log in step, in every order of instructions? Does it implement `RateLimiter`? | `SpacedExecutions`, `RefusalIsJustified`, `AnchorIsLastEvent`, `LimiterSpec` hold |
| `client_faults` | Two processes, one of them with two overlapping calls, two policies, unknown outcomes, restarts, skewed clocks: can a call return, or a cache hold, a signature that is not an exit of its policy? | `ResolvedSigIsAnExit`, `CacheHoldsOwnExits` hold |
| `client_alone` | One process alone with its policy, one call at a time, the clocks apart, transactions lost: is FR-8b true there, and does every call come to an end? | `NeverRefused`, `ResolvesWithLatest`, `EveryCallSettles` hold |
| `policy_core` | Does the stored hash answer for the content after any series of writes? | `HashMatchesContent`, `SingleChangeShows` hold |
| `policy_clients` | Two editors at once, failing reads, timeouts, late transactions, a wallet that is not the vault: what is on the chain, and what may a caller conclude? | `PolicyIsLastLanded`, `ResolvedHasLanded`, `RefusedOnlyIfOvertaken` hold |
| `agent_loop` | The timer as fast as the read throttle, confirmations as slow as a tick, answers lost and transactions expiring: how old is a verdict, how long does a breach go without an exit, what makes a handler fail, what does the cache hold after overlapping calls? | `VerdictLagsOneTick`, `BreachIsExited`, `FailureHasCause`, `CacheIsLatest` hold |
| `agent_registry` | Two checkouts, one config, re-runs and a fault: whose mint does `registerAgent` return, is the config ever incomplete, where do duplicates come from? | `ResolvedMintIsCallers`, `ConfigIsWhole`, `DuplicatesNeedFaults` hold |
| `operator_app` | Two wallets switched at will, pages left and revisited, two proposals in flight, timeouts, late and missed events: what does the operator see, and what does the chain hold? | `ShownIsLastSubmission`, `StoredIsChosen`, `RowsAreDistinctExits`, `ProposalSettles` hold |
| `smoke_run` | Both scripts, run twice, as fast or slow as may be, with another client, another editor and a lossy network: which steps can fail on a correct system and because of whom; what does a green run prove? | `FailureHasCause`, `CapturedIsOwnUnlessSlow`, `PassedMeansOneExit` hold |
| `deployment` | Deployments killed anywhere, `target/` lost, ids reset, the tree rolled back: is what `seed-demo` lets pass really there, what does a re-run cost, when does an IDL copied by hand not fit the config? | `PreflightIsEnough`, `DeploymentsNeedLosses`, `MismatchNeedsLoss` hold |
| `agent_slow` | "works correctly under any tick rate", "does NOT throw" | violated |
| `re_register` | "Re-running the script must not produce duplicate identities" | violated |

### Disagreements with the documents

Two are runs, with the line and the quotation under `findings` in `PROJECT.json`:

* `agent_slow`: the catch clause for `RebalanceTooSoon` uses `cachedWrite` as it was before the
  await. A tick that fires while the previous exit is unconfirmed has none, is refused by the chain,
  and the handler rejects with nobody to catch it; the run loses no message. On a network that does,
  a handler also rejects without any overlap, for its own lost answer and then, until the window is
  over, for the exit that nobody cached (`client.ts:250`). `FailureHasCause` says that there is no
  further way.
* `re_register`: any failure of `fetchAssetV1` counts as "not on-chain" and is answered with
  another mint.

The others follow from reading, or from what the passing runs have to except:

* FR-8b, "resolves with the most recent successful TxSig": with another client on the same policy the
  cache entry may be of an earlier window than the exit the call was refused for. `ResolvesWithLatest`
  holds for a client alone (`client_alone`), and is false with two.
* "If the policy PDA already exists, calls `update_policy`" (`client.ts:108`): existence is read,
  awaited and acted upon, so the loser of two first submissions sends `init_policy` for an existing
  account. `RefusedOnlyIfOvertaken` says that nothing but such a race refuses what the vault signs.
* `create-multisig.ts:2-4` and `:41` call the script idempotent; `:43` generates a new key on every
  run. `:77` says "wrote multisig PDA" of a transaction that was only sent; `PreflightIsEnough`
  excepts exactly that.
* `deploy-devnet.ts:5-6`: the app and the package "pick them up automatically". The ids, yes; the
  bundled IDLs carry the address too and are copied by hand (`index.ts:58`), although
  `.planning/builder-b/PRD.md:439` has them "copied into `packages/onchain/src/idl/` by the deploy
  script". A redeployment under new ids therefore leaves a client that looks a policy up under one
  address and writes it to another. `MismatchNeedsLoss` says that this takes a loss of `target/`.
* The hint on the policy page, "Trigger an EXIT when position drawdown crosses this": the v1
  verdict compares with a fixed 2500 basis points (`client.ts:184`) and never reads the policy. The page's notional,
  slippage and expiry fields are never submitted.
* `demo-state.ts:13` calls the packing big-endian; `encrypt.ts` and the tests are little-endian.
  Bytes 40 to 48 of the ciphertext, described as a nonce, stay zero.
* `state.rs:28` documents sha256, the code folds, and a TODO at `state.rs:49` concedes it. What the
  fold does guarantee is `SingleChangeShows`.

### Bounds, and why they are enough

* `swig_core`: two policies, two guardians, a window of three and eight units of time: two whole
  windows and a boundary on each side, with instructions one unit before, at and after it. Requests
  cover each refusal and the widest tolerance that passes.
* `client_*`: two clients; in `client_faults` with three calls, two of which overlap on one client and
  its cache. Every race in the code is between two parties over one cache
  entry or one account. Three or four transactions allow an exit, a refused one and a later exit; in
  `client_alone` the time bound reaches the second window, in `client_faults` the first one's end. `WriteThrottle` exceeds `RateLimit` by one in `client_alone`,
  so that entries outlive the chain's window as well as the other way round under skew.
* `policy_*`: two vaults, two contents and a malformed one, two calls, three transactions: an init,
  an update and the late one. Two ciphertext bytes are enough there because `policy_core` looks at
  the fold itself with four bytes and a handle of two.
* `agent_loop`: two handlers are as many as can overlap when a confirmation takes less than a tick
  with its jitter. The drift curve is shortened to six ticks of which five are breached, so that the
  run sees the curve enter a breach, stay in it for more than a write window, leave it and enter
  again. The throttle is as long as a tick, as in the code, and the windows are two ticks long (six
  in the code). A tick is two units and may be off by one, a confirmation takes up to one, so the next
  tick may come before it. Three transactions allow one to be lost, the next to be refused for it and
  a later one to succeed. Every answer may be lost and every transaction may expire.
* `agent_registry`: two zones and two checkouts, five assets and one fault other than a failed
  fetch, which the number of assets bounds. `re_register` has the three zones of the code.

* `operator_app`: two wallets, two slider positions and two calls, so that a pending proposal can
  meet another wallet, another page and another proposal (the slider of the page goes from 100 to
  10000, `page.tsx:106-108`, and so fits a u64, which is what `DrawdownsAssumption` says); three exits in five units with a window of
  two, so that a policy is exited twice and another once in between. Three bytes of base two carry a
  two-byte number and a tag.
* `smoke_run`: two runs, so that the first leaves transactions and account behind; three transactions
  and two exits of others; the time bound of five passes a read throttle of one, a window of three and
  both waits. Each reason in `failure` that the property allows is reached.
* `deployment`: four keypairs are two full sets, one loss brings the second; two multisigs allow a
  re-creation. Everything else is bounded by the model itself, and the run reports deadlock.

Constants that exist only as bounds are `MaxTime`, `MaxTxs`, `MaxAssets`, `MaxFaults`, `MaxEvents`,
`MaxRuns`, `MaxIds`, `MaxMultisigs`, `MaxLosses`, and `MaxLatency` in `AgentLoop`, where it is also the assumption under which the response time is stated.
Deadlock is not reported in runs that stop at these bounds; `swig_core` and `policy_core` report it,
because a refusal is always possible there.

### Fairness

Only `client_alone` and `operator_app` need any. A transaction lands or its block hash expires, so `Land \/ Drop` is
weakly fair per transaction; `sendAndConfirm` comes back once either has happened, so `Settle` is
weakly fair per call. On the policy page the RPC node answers and the user answers the wallet's
prompt, by signing or declining. Nothing is assumed of callers, of navigation, of restarts or of faults. The other responses
are bounded instead (`BreachIsExited`, `VerdictLagsOneTick`), which needs no fairness: `AgentLoop`
lets no time pass over a tick or a confirmation that is due.

## 4. Proofs

Each proof module extends the component it is named after. `RiskPolicy` has its theorems next to those
of its client, whose accounts are the same `PolicyAccount`: they are stated of an instance, `Program`,
whose contents and handles are all there are of the right length and bits, so that what holds for these
holds for any smaller set of them. `tlapm` checks every leaf; nothing is
taken on trust but the named assumptions about constants, which TLC evaluates in the runs.

| Module | States for every instance | of the runs |
|---|---|---|
| `SwigDelegationProofs` | `TypeCorrect`, `AnchorCorrect`, `RefusalCorrect`, `Refinement`, `LimiterSpacing`, `SpacingCorrect`, `SlippageGateFits` | all of `swig_core` |
| `RebalanceClientProofs` | `TypeCorrect`, `ResolvedCorrect`, `CacheCorrect`, `DoubleSwapExcluded`, `ImplementsChain`, `AloneNeverRefused`, `AloneResolvesLatest` | all of `client_faults`, `NeverRefused` and `ResolvesWithLatest` of `client_alone` |
| `PolicyClientProofs`, of the program | `AccountsCorrect`, `ProgramHashCorrect`, `SingleChangeCorrect` | all of `policy_core` |
| `PolicyClientProofs`, of the client | `TypeCorrect`, `PolicyCorrect`, `ResolvedCorrect`, `RefusalCorrect`, `ImplementsChain`, `HashCorrect` | all of `policy_clients` |
| `AgentLoopProofs` | `TypeCorrect`, `VerdictCorrect`, `BreachCorrect`, `FailureCorrect`, `LatestCorrect`, `ImplementsClient`, `DoubleSwapExcluded` | all of `agent_loop` |
| `AgentRegistryProofs` | `TypeCorrect`, `ResolvedCorrect`, `ConfigCorrect`, `DuplicatesCorrect` | all of `agent_registry` |
| `DeploymentProofs` | `TypeCorrect`, `PreflightCorrect`, `MismatchCorrect`, `DeploymentsCorrect` | all of `deployment` |
| `OperatorAppProofs` | `DecryptInverts`, `TypeCorrect`, `ShownCorrect`, `ThresholdCorrect`, `RowsCorrect`, `ImplementsProgram` | all of `operator_app` but `ProposalSettles` |
| `SmokeRunProofs` | `TypeCorrect`, `FailureCorrect`, `CapturedCorrect`, `PassedCorrect`, `ImplementsPolicyClient`, `ImplementsChain` | all of `smoke_run` |

### The programs

For any policies, guardians, requests, window and start time with `RateLimitAssumption`,
`ClockAssumption` (the clock has left 0, which the program uses as "never") and `RequestsAssumption`.
`SpacedExecutions` is not inductive: it speaks of all events, while the guard looks at one timestamp.
The inductive invariant is `IInv == TypeOK /\ ClockRuns /\ AnchorIsLastEvent`: no event is dated 0
or in the future, and the account of a policy holds the time of its latest event.
`GateSeesEveryEvent` derives from it that the guard, passed, holds against every event of the policy,
which gives `RefusalIsJustified` and the `Grant` step of the refinement. `SpacedExecutions` is then
what `RateLimiter` promises, seen through the refinement: `LimiterSpacing` is proved of the abstract
limiter's actions alone, for whatever implements it.

`SlippageGateFits`: for every u64 amount and every tolerance up to 100%, both products of the gate
fit a u128 and the gate is the documented ratio.

`ProgramHashCorrect` follows the fold through both instructions, each of which recomputes it.
`SingleChangeCorrect` rests on `OneMoreFlips` (one more element changes the parity of a cardinality)
and `SingleDifferenceFlips` (contents that differ in one byte fold to different hashes). The fold is
defined by counting, so none of it needs induction over data.

### One layer on top of the other

`RebalanceClientProofs` first shows `ImplementsChain == Spec => Chain!Spec`: whatever clients,
network, faults and clocks do, the chain makes a step of `SwigDelegation` or none. An instance of the
program's proof module then hands its theorems up: `DoubleSwapExcluded` is `SpacingCorrect` seen
through that refinement, a corollary that no client could break and that no run repeats; the event
arguments of the loop and of the smoke scripts rest on it. `PolicyClientProofs` gets `HashCorrect` the same way, over `risk_policy` for any
contents (`ChainIsProgram`), and `AgentLoopProofs` shows `ImplementsClient == Spec => Client!Spec` and inherits the client's typing
and its `DoubleSwapExcluded`. The assumptions of the lower modules are lemmas of the upper ones.

### The clients

`executePrivateRebalance`. `ResolvedSigIsAnExit` alone is not inductive, since a call may resolve with
what a cache holds or with what it read before its await. `IInv` says of every place a signature can
be, in a cache, in the local of a waiting call and in a result, that it is that of an exit of the
right policy, and that a waiting call has a transaction of its own. `TxsKept` (a transaction keeps its
request, and its outcome once it has one) carries all of it over steps of others.

`AloneNeverRefused` is stated under `OneCaller`, `AnswersArrive` and `SizesValid`: one call at a time
on the clients that submit, no unknown outcome and no restart, and sizes within 100%. Transactions may
still be lost and the clocks may differ. The invariant `AloneInv` follows an exit from the chain back
to the cache: a transaction in flight is awaited, one that ran is in the cache or awaited, the chain's
anchor is such an exit, and what a waiting call read is still what the cache holds. So a refusal for
being early finds an entry to answer with. Neither the relation of the two windows nor the drift of
the clocks matters.

`AloneResolvesLatest`, under the same hypotheses, is an action property: the step that resolves a call
gives it the most recent exit of the plan's policy. Exits are numbered by the events they emit, and
`LatestInv` adds to `AloneInv` where the latest one is: with the call that waits for it if it has run,
in the cache otherwise. The three ways to resolve (confirmation, shortcut, catch clause) read it from
there. `OneCaller` cannot be dropped: the cache of one process knows nothing of another's exits (§3).

`setEncryptedPolicy`. `PolicyIsLastLanded` and `RefusedOnlyIfOvertaken` are about the log of what has
landed; the strengthening is that the log holds exactly the transactions that succeeded
(`LandedAreOk`) and that a transaction's kind records what its call's read saw in the log
(`KindFits`). A refused submission then has the wrong kind, and somebody landed in between.

### The agent process

For any period, jitter below it, windows, latency, drift curve, and any number of handlers,
infinitely many included: there the timer never has to wait for a free one. `WindowsAssumption` is
about the code's defaults: the read throttle is at most two periods that jitter shortens (5 s and 5 s
in the code, so jitter up to half a period), and the program's window is no longer than the write
throttle (30 s and 30 s).

* `VerdictCorrect`: if the last verdict was wrong, it came from an entry at least a shortened period
  old (`VerdictSound`); when the next tick fires, the entry is two of them old and no longer valid.
* `BreachCorrect` is a bounded response proved as an invariant. `Covered(x)` says that the chain has
  an exit recent enough for a call made at time x, `Pending(x)` that such a call still waits.
  `CallsFollowBreach`: while the breach lasts, every stretch of a period has a call that is covered
  or pending. Any landing, successful or refused as too early, covers every call so far; a hit in the
  cache covers its own, since an entry is no more than a confirmation younger than its exit
  (`AnchorKnown`). A pending call is at most `MaxLatency` old, and the bound follows. A call that the
  network fails covers nothing, so the stretches are those after the last one given up (`failedAt`).
* `FailureCorrect` follows what the process was told. `Accounted`: a transaction that runs or may run
  was given up, is waited for, or has left an entry in the cache. A handler that is alone waits for
  the only transaction that is waited for and has read what the cache still holds (`AloneSound`). If
  it is refused without an entry to answer with, every exit before its own was given up
  (`RejectedSound`).
* `LatestCorrect`: overlapping confirmations come in any order, so the entry that a confirmation
  replaces might be of a later exit. The two exits would be a window apart (`DoubleSwapExcluded`)
  while the older one still waits for its confirmation, which would thus take a window: that is what
  `MaxLatency < RateLimit` excludes. `LatestInv` carries it
  (`EventsSound`, `CachedSound`, `NotAfterCached`).

What is assumed of the runtime is in the guards of `Advance`: the timer is not late by more than its
jitter, an answer, good or bad, not by more than `MaxLatency`. The process is not restarted.

### The scripts

`AgentRegistryProofs`, for any machines (finitely many), zones and faults. Entries are written only by
the run that saw its asset minted, and a minted asset never changes, so every copy of an entry is
true, in a file, in the config, in a run or in a process that loaded it long ago (`CopiesSound`); this
gives `ResolvedMintIsCallers`. `WholeConfig` adds that a run has entries for the zones it has passed.
`DuplicatesNeedFaults` needs a count. For each zone a ledger adds up the assets that no machine holds,
the machines whose key was lost after they looked at it, and those that hold an identity of another
key than theirs; `LedgerBalanced` keeps it within the faults that touched the zone. Every action that
could add to the ledger removes something from it or is a fault. That no two machines know the same
asset (`KnowledgeApart`) makes the identities at most one per machine plus the strays.

`DeploymentProofs`, for any bounds. An id is followed from its keypair to the config: keypairs are
numbered as they are made and never shared (`KeysDistinct`); before each command the script has
achieved what `ScriptProgress` says, so that it deploys only what was rebuilt under the keypair's id,
and a program on the chain believes in its own address (`ChainSound`); an id reaches a config, in the
tree or committed, only after both programs are deployed (`ConfigSound`); as long as `target/` is
there, whatever was synced, built, copied or submitted carries the id of the keypair (`NothingStale`). `MadeBounded` counts the
keypairs still missing with those made, since a run may die between the two.

### The smoke scripts

For any waits, windows, contents, faults and bounds with the module's assumptions, of which
`WaitAssumption` is the one about the scripts: the sleep before the high check is no shorter than the
read throttle (5.2 s and 5 s in the code). The scripts' account behaves as `PolicyClient`'s
(`ImplementsPolicyClient`) and their chain as `SwigDelegation`'s (`ImplementsChain`), whoever else
writes to them, so `EditsAreKnown` and `ExitsAreKnown` take
over what is proved of those: `PolicyIsLastLanded`, `ResolvedHasLanded`, `RefusedOnlyIfOvertaken`,
`NoDoubleSwap`, `AnchorIsLastEvent`, `RefusalIsJustified`, and that no event is of the future.

The properties are about the end of a walk, so the invariant follows the walk. `ExecSound` says at
each place what the run has submitted and what it remembers: nothing (`Untouched`), the exit in
flight (`Submitted`), the exit confirmed and cached (`Exited`, `Remembered`), the repetition that the
cache let pass (`Repeating`), its refusal (`Repeated`). `RefusedForCause` carries the event that a
refusal is due to from the moment it lands to the step that fails. `SetSound` is about the account:
what the script wrote is there until an editor's submission lands, whichever run's it was.
`ReadSound` dates the entry of the read cache, `ListenerSound` whatever the listener may be told.

* `FailureCorrect`: no step fails that the code could be blamed for. `low`, `high`, `account` and
  `delegate` never do; each of the others needs the slowness, the editor or the exit of somebody else
  that `FailureHasCause` names, or the network: a read that fails (`unread`), an answer that is lost,
  a transaction that expires, an event that does not come.
* `CapturedCorrect`: the event and the script's exit are both later than the subscription and no later
  than now, and two exits of one policy are a window apart (`NoDoubleSwap`): so they are the same, or
  the run took the window.
* `PassedCorrect`: the exit is the run's first transaction, and the only one that may follow it has
  been refused before the last step passes.

### The operator's app

For any wallets, calls, slider positions that fit a u64, layout of a ciphertext, windows, faults and
bounds. `BitsAssumption` (bytes of base two) is that of `RiskPolicy`, whose accounts hold bits; the
packing itself is proved for any base and width.

*Packing.* `DecryptInverts` says that `decrypt` undoes `encryptThreshold` for every number that fits.
`Weight` is a recursive function and `decrypt` a fold, so this needs induction over data. The
library's `NatInduction` takes its predicate as a parameter, which is out of reach here; `SetInduction`
says the same of a predicate given as a set, and follows from the well-foundedness of `<`
(`WFMin`, `NatLessThanWellFounded`). With it the weights are defined (`WeightDefined`) and grow, and
the fold over the positions is the sum that takes them in any order. The sum of the first k digits is
the number modulo the weight of k (`NextDigit`), which for all digits is the number.

*Policy page.* `OperatorApp` does not implement `PolicyClient` step by step: the wallet may decline to
sign (`NotSigned`), after which the call is rejected with nothing submitted. So `ClientPreserved` shows
that the client's own inductive invariant survives that step too; everything else in it is a step of
the client (`StepOfClient`) and cited. `PageInv` adds what ties the page to the calls: a call submits
what was on the slider for the wallet of that time (`CallsRemember`); the mounted page awaits one call
at most and says so, what it says is about the latest one, and a call it calls proposed has resolved
and was not made again (`PageFollows`). That `mine` is emptied when the page is left, and the button
is disabled while it proposes, is what makes this inductive. `ShownCorrect` follows with the client's
`LandedAreOk`, `ThresholdCorrect` with `PolicyIsLastLanded`, `CallsRemember` and `DecryptInverts`: it
says what can be read off the account, and nothing of a verdict, which does not read it.

*Audit page.* The exits are those of `swig_delegation` (`ImplementsProgram`), so events of one policy
are a window apart and any two differ (`EventsApart`). `AuditInv` says that rows are events
(`RowsAreEvents`), that no two are the same (`RowsDiffer`), and, which makes that inductive, that there
is one subscription at most (`OneListener`) and the table holds nothing that it may still deliver
(`UnheardIsUnshown`). A subscription that takes over from another starts after the events that the
table can hold. `RanksSort` is about the table's order: ranks are distinct and at most as many as the
rows, hence each position has its row (`FS_Injection`), and a lower rank is not older. `RowsCorrect`
combines them.

### Only model-checked

* `EveryCallSettles` and `ProposalSettles`: liveness under fairness and `ENABLED` are out of the
  prover's reach. `GuardianSeesSuccess` and `NoDuplicateIdentities` are false.
* Every other property of a run is stated by a theorem.

No module declares a `RECURSIVE` operator. The recursive function `Weight` and the folds are reasoned
about by `SetInduction` and by counting.

## 5. Plan

Done: every component that keeps state has its module, and the programs, clients, agent loop, pages,
registry, deployment and smoke scripts have their theorems.

## 6. Not modelled

* `Observer.stop()`, which nothing calls; the WebSocket, whose messages nothing reads.
* The stub client of the agents: constants and throws. `generateDemoEvents`: sample data.
* `seed-demo`'s airdrop and all balances; a dry run of `deploy-devnet`, which changes nothing.
* The Arcis circuit `threshold_compare`: no code path queues it, and what is stored in v1 is not what
  it takes.
* The balance reads and preconditions of the smoke scripts before their first step: a script that ends
  there has submitted nothing.
* Arcium, Orca: the code has no call of theirs on a path that changes state (the exit's swap is a
  TODO of `execute_rebalance`). Squads only as far as `create-multisig` goes.
* The landing page and the layout; the audit page's filters and formatting; the policy page's fields
  that are never submitted.
* Two runs of `register-agents` at once on one checkout, and a death inside `writeFileSync`.
* Rendering, styling, formatting, logging, generated IDLs.
