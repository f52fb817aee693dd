# Dusk in TLA+

Dusk is a private dark pool on Flare. Traders lock BTC or XRP elsewhere, prove the
deposit to a contract, and submit an encrypted order. A program inside a trusted
execution environment (TEE) decrypts orders, keeps the books, matches, and signs. This
directory models the parts of the repository that carry protocol logic, checks them
with TLC on small instances, and proves the central results with TLAPS for every
instance.

## 1. The system

### Parts, state and operations

| Part | Source | State it keeps | Operations |
|---|---|---|---|
| Orchestrator contract | `src/DarkPoolOrchestrator.sol`, `src/mocks/MockFDC.sol` | owner, enclave, data connector, orders by id, used deposit hashes; verified deposits of each connector | `transferOwnership`, `setEnclaveAddress`, `setFdc`, `submitDarkOrder`, `cancelOrder`, `settleDarkOrders`, `mockVerifyDeposit` |
| Go extension server | `fce-extension/go/internal/extension` | a private key, an order book for each pair, a read-write mutex, one goroutine for each request | `POST /action` (KEY/UPDATE, KEY/SIGN, ORDER/MATCH), `GET /state` |
| Python extension server | `fce-extension/python/{base,app}` | a private key, one lock, one thread for each request | the same without ORDER/MATCH |
| TypeScript extension server | `fce-extension/typescript/src/{base,app}` | a private key, a chain of promises | the same without ORDER/MATCH |
| `register-tee` | `fce-extension/go/tools/pkg/fccutils/registration.go`, `cmd/register-tee` | a state file; on chain: machines, challenges, availability checks | steps r, R, a, p, each after the other, `-resume` |
| InstructionSender contract | `fce-extension/contracts/InstructionSender.sol` | the extension id (0: not set) | `setExtensionId`, `updateKey`, `sign`, `matchOrder` |
| Set-up pipeline | `pre-build.sh`, `post-build.sh`, `fccutils/extension.go`, `pkg/utils/instructions.go` | `config/*.env`, on chain: the extension registry | deploy, register, set owners and key types, set the id, allow the code version |
| Round trip | `cmd/run-test` | none | send update and sign, poll for the results, check the signature |
| Go processes | `cmd/main.go`, `cmd/docker/main.go`, `cmd/start-tee`, `pkg/server` | a listener, its error channel, a signal | listen, look for an early failure, wait, shut down |
| Chain support library | `pkg/support`, `pkg/configs`, `fccutils/{revert,diag,common}.go` | the account's pending transactions | estimate, send, wait for a receipt, explain a revert |
| Diagnostics | `pkg/validate`, `cmd/audit-deploy`, `cmd/verify-deploy`, `cmd/check-tee-state` | none | read-only checks and verdicts |

### How they interact

A trader calls the orchestrator (an order on chain) and InstructionSender (an
instruction for the TEE). InstructionSender hands the instruction to Flare's extension
registry, which picks a machine; the machine's node posts it to the extension's
`/action` endpoint. The extension calls back into the node (`/decrypt`) while it handles
the action. Matching produces a signed result; the enclave's address calls
`settleDarkOrders`. *Nothing in the repository connects the signed result to that
call*, so the two sides are modelled side by side, and the contract model lets the
enclave name any two ids. `register-tee` must have taken the machine into production
before any of it.

### What is hard here

`PROJECT.json` lists the hazards at their lines. The groups are:

* **Contract**: races of cancellation and settlement, deposits spent twice through some
  other trader, block or connector, the zero value of `OrderStatus` being `Open`.
* **Servers**: handlers interleave; the Go mutex is released while the node decrypts;
  the key is copied under a lock and used after it; the node's call has no time-out;
  a restart loses memory and answers; actions may be delivered twice; in TypeScript a
  broken response never settles its promise.
* **Processes**: a listener may fail after the main function looked for a failure; a
  signal may come while the node is being configured, or while handlers run; a rejection that
  nobody handles ends Node.
* **Transactions**: a tool gives one up after two minutes and it is mined during the next
  run, or never; others call the same contracts in between; RPC nodes disagree on where the
  reason of a revert is.
* **Registration**: the command can die between a transaction and its record, the
  record can be torn, challenges are used once and expire, the machine behind the proxy
  can be replaced between two runs.
* **Set-up**: scripts die between a transaction and the config; the id 0 means "not
  set"; an error is dropped; the proxy caches the identity of a node that is gone; dead
  machines stay active; polls give up on instructions that still take effect.

### What makes each part correct

* Contract: a deposit backs one order and leaves the pool once, by refund or by a swap
  against one deposit of the other asset; orders are final and immutable.
* Servers: whatever interleaves, the key, the books, and the answers are those of a
  service that executes one call at a time; books never cross; no order is lost or
  filled twice; a stalled node stalls only those it must.
* Processes: one without a listener ends, and so does one that gets a signal.
* Transactions: a config names the extension that its own run registered, whose grants are
  final by then; a reason that a tool gives is the contract's.
* Registration: success means production; a re-run repairs what an earlier run left.
* Set-up: the config never names something half made; a passing test proves the whole
  chain; whatever died, starting again what is missing makes the extension usable.

## 2. Modules

The order is that of importance, and the order in which they were written.

| Module | Models |
|---|---|
| `DepositEscrow` | abstract: what the contract promises about deposits |
| `DarkPool` | the orchestrator and MockFDC, one action per external function |
| `EnclaveCalls` | vocabulary of the extension: calls, orders, answers, what crosses |
| `EnclaveService` | abstract: an extension that executes every call at one moment |
| `SignExtension` | the Go server, one action per stretch between scheduling points |
| `ScriptServer` | what the Python and the TypeScript server share: state, answers, promises |
| `LockServer`, `QueueServer` | the Python server, the TypeScript server |
| `NodeProcess` | the Go programs around the extension, from start to end |
| `ServerProcesses` | the process that `LANGUAGE` selects: one of the last three |
| `Registration` | `register-tee` |
| `ExtensionSetup` | pre-build, services, post-build and test, with InstructionSender |
| `VerifyDeploy` | verify-deploy's report over the states of `ExtensionSetup` |
| `RevertReasons` | what the tools make of a node's answer to a call that reverts |
| `DeployEnvironment` | settings, addresses and keys, and the checks of them by verify-deploy |
| `DeployTools` | the tools' transactions one by one, on a chain with other senders |
| `...Proofs` | theorems about the module they are named after; those about `VerifyDeploy` are in `ExtensionSetupProofs`, those about `LockServer` and `NodeProcess` in `ServerProcessesProofs` |
| `MC...` | instances for TLC |

`SignExtension`, `LockServer` and `QueueServer` each instantiate `EnclaveService` with a
refinement mapping (the last two through `ScriptServer`), as `DarkPool` does
`DepositEscrow`. `ServerProcesses` instantiates the two script servers and `NodeProcess` and
lets one of them run. `DeployTools` extends `RevertReasons` and `DeployEnvironment`.

### DarkPool

The variables have the names of the storage. An order id is the record
`[trader, depositTxHash, block]`: the code hashes sender, deposit hash, timestamp and
`prevrandao`, so ids are equal only for equal inputs (no collisions of keccak256).
`orders` is total over ids, as a Solidity mapping is, and starts with the zero order,
whose status is `Open`. The logs `orderSubmitted`, `orderCancelled` and `orderSettled`
are the emitted events. A settlement entry records which of its ids had been submitted
at that moment. The enclave may name any two ids. Deposit amounts are not modelled: the
contract passes the amount to the connector only, and MockFDC ignores it.

`DepositEscrow` has only deposits: `Hold`, `Refund`, `Swap`. The mapping reads held
deposits off submitted orders, refunds off cancellation events and swaps off those
settlement events that name a submitted order.

### SignExtension, ScriptServer, LockServer, QueueServer

A request is a model value; `pc[r]` is where its goroutine, thread or promise is, `call[r]`
what it asked, `answer[r]` what its handler returned. A message is `"empty"`, `"bad"`
(cannot be parsed) or `"good"`; a key is a model value. Actions end where the scheduler may switch:

* Go: `Receive` (parsing, up to the first call that blocks), `DecryptReply`, `Lock`,
  `StoreKey` or `MatchOrder` (critical section to unlock), `RLock`, `CopyKey`,
  `AnswerFromCopy`, `WriteResponse`.
* Python: `Acquire`, then the whole handler, which is cut only where it waits for the
  node, with the lock held.
* TypeScript: `Start` runs the head of the chain to its first `await`; `DecryptReply`
  is the continuation; `ResponseCut` is a response that breaks after its headers, for
  which the code has no listener.

* TypeScript again: a message that is the JSON text `null` makes `lookup` throw outside of
  any `catch`; the request is `"thrown"`, nothing but continuations runs after it, and `Crash`
  ends the process. Go and Python refuse such a message.

`Restart` replaces the process: memory, locks and unanswered requests are gone. Books
hold requests, an entry being the order its request carried, so that two deliveries of
one order can be told apart.

In `EnclaveService` a call has its effect and its answer in one step, at some moment between
its arrival and its answer. Answers given and not yet sent can be lost in a restart.
The mapping for Go counts a SIGN as answered when it copies the key, since the answer
is then fixed.

### NodeProcess, ServerProcesses

`main` is where the main goroutine is, `server` the listener, `errCh` the one-place channel
between them. `program` selects the main function: `cmd/main.go` listens in the main
goroutine and shuts down in another one; `docker` looks at `errCh` after 100 ms and then
selects between it and the signal; `start-tee` looks once, then waits for the node in
`SetProxyUrl`, then for the signal alone, which it has caught from the start. Requests are
only in flight or not. `ServerProcesses` adds the choice of the language; the variables of
the servers that were not chosen keep their first values.

### Registration

The variables are the chain's registries (external, reduced to what the command relies
on), the state file, and the locals of one run of the command: `pc` is the next step,
`unsaved` says that a step is done and not yet recorded. `Crash` stands for every early end of a run (killed, RPC
error, late receipt, 15 polls without a result) and may tear a write in progress. `Save` may fail,
and so may the removal of the file that a run without `-resume` begins with (`Start`); the code
only warns of both. `resumed` says that the run stands on the file of an earlier one, for either
reason. `Expire` and `ReplaceMachine` are the environment. A challenge is accepted if it is this
machine's, unused and not too old.

### ExtensionSetup

`registry` and `senders` are on chain: extension `n` is `registry[n + 1]` (ids count from
0), and `senders[s]` is the `_extensionId` of the s-th InstructionSender deployed.
`config` is `config/extension.env`. A machine is one start of the node, which makes a new
key, so its number is its TEE id; `tee` is the one that runs and `proxy` the one whose
identity the proxy cached. `at` is the next step of the running script. `mode` tells
containers (both processes are recreated) from local processes (`e2e.sh start` leaves a
running one alone). The steps of `register-tee` are reduced to `PreRegister` and `Promote`,
since `Registration` has them in detail. `ScriptDies` stands for every early end of a
script; writing the config may then leave it empty. `Needed` is what an operator does who
follows the guides, `Whim` any script run without need. What the registries accept is
external: a machine registers if its extension has a machine owner and allows its version,
and the active set of an extension holds its machines in production.

### VerifyDeploy

`verify-deploy` changes nothing, so the module adds operators and no variables: each check
is the record of its id and status, as a function of the chain, the config file and the
ports. `Files` distinguishes the file that is not there from the empty one that a dying
script leaves: S2 does not, V4 and E1 do. Checks that read the environment only (keys,
funds, chain id, addresses, T1, T5, S7, S10) are in `DeployEnvironment`. The code's behaviour to know: R3 is the only check that a config of these
scripts can fail; no check sees that the id 0 is useless; and with local processes S5 warns
of every healthy set-up, since the running node holds the port.

### DeployTools, DeployEnvironment, RevertReasons

`ExtensionSetup` takes a transaction for one step. `DeployTools` cuts it into those of the tools:
estimated (`SendRefused` if the chain refuses it now), sent (`Send`, `SendFails`), mined, failed
or dropped by the chain, and heard of by the tool (`HeardMined`, `HeardFailed`, `TimeOut`, or
`ToolDies`). `txs` are the transactions in the order in which they were sent, each with its
`fate`; those of one key are mined in that order, those of two keys in any. `tool` is the
running tool, `config` is `config/extension.env`, `served` are the extensions it has ever named,
since a machine started for one may run on after a forced pre-build, and `allow-tee-version` asks
the machine, not the config; `ended` says how the last `run-test` or `allow-tee-version` ended.
`CheckTx` and `deploy-contract` give up after two minutes, and what they gave up may be mined
under the next run; `run-test` waits without a limit. `OthersSetId` and `OthersRegister` are what
anybody may send to the same contracts.

`setting` is chosen once. Its `env` and `world` are the settings, addresses, keys and funds of
`DeployEnvironment`, which has no variables: the pre-flight check of `deploy-contract`
and the checks of `verify-deploy` that read settings are operators of them ("enough" funds pass D5
and pay for everything: what a transaction costs is not modelled). Its `node` says how the RPC
node answers a call that reverts (`Habits` of `RevertReasons`): the reason may be in the error's
data, in its text, in the result of the call, or nowhere. `RevertReasons` follows `Send`, `SetExtensionId`,
`GetFailingMessage`, `audit-deploy`'s replay and the search for a selector in the ABIs. What is in
an account changes nothing but whether a transaction may or may not be paid for.

## 3. Runs

| Run | Instance | Shows |
|---|---|---|
| `darkpool` | 2 accounts, 2 connectors, 2 deposits, 2 blocks, 2 ids that may be settled unannounced | all interleavings of submissions, cancellations, settlements and changes of owner, enclave and connector keep the deposits safe and implement `DepositEscrow` |
| `darkpool_phantom` | 1 account, 2 deposits | **violated**: the contract settles ids nobody submitted |
| `extension_service` | 3 requests of every kind, 5 orders on 2 pairs, a node that may never answer, 1 restart | books uncrossed, orders accounted for, `ImplementsService`, a request waits for its own decryption only |
| `server_processes` | the Python, the TypeScript or the Go process; 3 requests of every kind, 2 keys, 1 restart | serial handlers, effects in arrival order where there is a queue, `ImplementsService`, every request ends unless the node cuts a response; a Go process without a listener, or with a signal, ends |
| `node_process_graceful` | 1 request, a port that may be taken, a signal at any moment | **violated**: a handler in flight is finished before the process ends |
| `register` | 2 machines, 4 mishaps, 1 needless re-run, resumed or not | for runs that start without an earlier run's file: success means production, no spurious revert; and an honest state file, production in the end |
| `register_resume_stuck` | 1 machine, always resumed | **violated**: production in the end |
| `register_replaced` | 2 machines, 3 mishaps | **violated**: success means production, for resumed runs |
| `setup` | no extension registered before, both modes, 2 mishaps, 1 needless script | complete configs, senders that know their extension, honest tests, usable again and again; `verify-deploy` is exact in every state |
| `setup_verdict` | 1 mishap, 1 needless script | **violated**: "All consistent" only when the active set is not emptied by a status |
| `deploy_tools` | 2 runs of pre-build, 1 of `run-test` or `allow-tee-version`, 1 call of others, 1 mishap, 5 kinds of node | a config names what its own run registered, the grants of what it names are final, step 1 ends well with a bound sender and goes wrong only without one, after a silent report tools fail only for what it cannot see, tools end, accounts of a revert are right |
| `deploy_version` | 1 pre-build, 2 images under one version name | **violated**: `allow-tee-version` ends well only if the image's code hash is supported |

### Why the bounds are enough

* Contract: two deposits and two traders give a settled pair that may be settled again,
  cancelled or re-submitted; the second account may be owner, enclave, trader, or all. Two
  connectors and two blocks are what a change needs. Deposits are interchangeable, so they
  are symmetric. `Guessable` bounds only which ids the enclave may settle that nobody
  submitted: the deployer's ids of block 1, which is enough for an id that is settled
  first and submitted later. `DarkPoolProofs` removes the bounds.
* Servers: a lost update or a crossed book takes two writers; the third request is the
  later one that observes or is filled twice. The orders cover equal and different
  amounts and pairs, and a side that is neither `buy` nor `sell`, which the code
  accepts. A MATCH is an unknown operation to the script servers, and a null message like
  any unknown one to the Go server, so those runs leave them out. The instances are small
  enough without symmetry, which would not be sound for their liveness properties.
  `SignExtensionProofs` and `ServerProcessesProofs` remove the bounds.
* Registration: `MaxMishaps` bounds crashes, failed writes and removals, expiries and
  replacements together; four are enough for a torn file after an expiry after a crash after a
  replacement. `MaxReruns` bounds the starts for a machine that is already in
  production. `RegistrationProofs` removes the bounds.
* Set-up: the first extension gets the id 0, which is useless, so the run includes a second
  one. Two mishaps are a half-made set-up beside a finished one, or a dead node and a late
  answer; the needless script is the forced pre-build, the premature test or the start
  over running services. (Two needless scripts also pass, in a million states.)
  `ExtensionSetupProofs` removes the bounds.
* Tools: two runs of pre-build give a transaction of the first that is mined among those of the
  second; one mishap is the one that loses, fails or orphans it; one call of others is the
  race for `setExtensionId` or an id taken in between. Time-outs are not counted, so they come
  with any mishap. `MCSettings` has the sound settings with one node for each way to give a
  reason or none, each mistake in the settings or the world that a tool minds, and an owner's
  key beside the deployer's, with low funds. `DeployToolsProofs` removes the bounds, and covers every environment, world and
  node that the types allow.

`CHECK_DEADLOCK FALSE` is given where the bounded system may stop: all requests done,
all deposits spent, all mishaps used up. That nothing stops too early is the subject of
the liveness properties.

### Fairness

* Go (`FairSpec`): every goroutine that can go on does, and `sync.RWMutex` does not
  starve waiters. Nothing is assumed of the node.
* Python and TypeScript (`FairSpec` of `ServerProcesses`): the same of threads and promise
  continuations, and the node begins an answer to every `/decrypt`. Both hold their lock, or
  their chain, during the call, which has no time-out: without that assumption
  `EveryRequestEnds` would not hold, which is the hazard recorded at
  `python/app/handlers.py:112`. In TypeScript the answer may still break off.
* Go processes (there too): goroutines that can go on do. Nothing is assumed of requests,
  signals, or the node that `SetProxyUrl` waits for.
* Registration (`FairSpec`): a running command goes on unless a mishap stops it; the
  operator starts it again until the machine is in production, and, if runs without
  `-resume` are allowed at all, again and again finds the moment to do one
  (strong fairness: starting is disabled while a run is in progress).
  TESTNET_DEPLOYMENT.md tells him to delete the state file when a resumed run fails;
  `post-build.sh` never resumes.
* Set-up (`FairSpec`): a running script goes on unless it dies, and the operator does what
  is needed, testing again when nothing else is. `getRandomTeeIds` chooses among the active
  machines, dead ones included, with block randomness: infinitely many choices fall on the
  running machine infinitely often (strong fairness on that choice).
* Tools (`FairSpec`): a running tool goes on, and a chain that has a waiting transaction and
  has not forgotten it mines the next. Nothing is assumed of the others.

### Where the code and its documents disagree

Six violation runs, quoted with their lines in `PROJECT.json` under "findings":
settlements of unknown ids (`darkpool_phantom`), a shutdown that does not wait for the handlers
in flight (`node_process_graceful`), a resumed registration that reverts for ever because R is
skipped and its challenge is stale (`register_resume_stuck`), a resumed registration that reports
success for a machine it never registered (`register_replaced`), a diagnosis that blames a ban
where a promotion is missing (`setup_verdict`), and a version that is "already registered" for
another image (`deploy_version`). The first is harmless for the properties that hold
(`RefundOrSwapNotBoth`, `ImplementsEscrow`).

Met while modelling, each visible in a definition, and without a run of its own:

* `base-spec.md:37` says "Only one handler runs at a time" of every language. The Go server
  does not keep that, and does not need it, as `ImplementsService` shows.
* SKILL.md:108 says "Action handling is idempotent where possible; otherwise implement replay
  protection." ORDER/MATCH has none: an order delivered twice rests, and is filled, twice.
  `OrdersAreAccountedFor` therefore counts deliveries, not orders.
* A message that is the JSON text `null` ends the TypeScript process (`Crash`).
* `start-tee` does not hear its listener fail after the first 100 ms, nor a signal while it
  waits in `SetProxyUrl`. `FailsFast` and `SignalEnds` except exactly these.
* `run-test` waits for ever for a transaction that the node dropped; `TestEndsUnlessDropped`
  says so.
* The diagnosis of a mined revert recovers the sender with a signer of the legacy kind, so the
  reason of a transaction with dynamic fees is lost.
* `register-tee` without `-resume` only warns when it cannot remove the state file
  (`register-tee/main.go:29`), and then goes on with it, though line 27 says "Default: start fresh."
  `Start` has that case. Such a run counts as `resumed`, and ends as in `register_replaced`: the
  properties of fresh runs do not hold of it, `EventuallyInProduction` and
  `RecordedStepsHappened` do.
* `verify-deploy` T1 passes as "real attestation mode" when `SIMULATED_TEE` is unset, which
  `post-build.sh:120` takes for `true`: the machine is then registered on test values, of which
  T1 would warn. No property here says what the silence of T1 means.
* `verify-deploy` S10 says "PROXY_PRIVATE_KEY is configured" though it is unset, if LOCAL_MODE
  is neither `true` nor `false`.

## 4. Proofs

Eight modules hold proofs, which TLAPS checks to the last step. Assumptions are only those
the modules state of their constants: the zero address is no account, the deployer is one, a
missing key is no key, calls are well formed, bounds are natural numbers.

**DarkPool.** `TypeCorrect`, `Inductive`, and from them `DepositSafety`, `ProofSafety`, `PairSafety`,
`RefundSafety`, `Immutability` and `Refinement` (`DarkPool` implements
`DepositEscrow`). None of the properties is inductive alone. `IInv` adds:

* an unsubmitted id has the zero order's terms (BTC for BTC), whatever its status, so it can cross only
  another one, and it has no trader who could cancel it. This keeps phantom
  settlements away from real deposits;
* the deposit of every submitted id is marked as used, so that a submission is new
  although the contract does not ask whether its id exists;
* statuses and event logs agree in both directions, and each order is in at most one
  settlement event.

**SignExtension.** `TypeCorrect`, `Inductive`, `BookSafety`, `Refinement`
(`SignExtension` implements `EnclaveService`) and `Accounting`. `IInv` adds:

* the lock: the writer is the one in the critical section, readers and a writer exclude
  each other, and the local copy of a book in the critical section *is* the book;
* what each stage says about the request's call and answer;
* only orders of answered requests rest in books, so a resting order's terms are fixed.

That an uncrossed book stays uncrossed then follows: a MATCH either removes an entry,
or appends an order that crosses none of the entries of the copy, which is the book.
The refinement goes action by action: the critical sections and `CopyKey` are the
moments of effect, `WriteResponse`, `AnswerFromCopy` and the refusals send, the rest stutters.
`Accounting` adds `FateInv` to it: every order answered as resting rests, was matched, or was
forgotten in a restart; these exclude each other; no order rests twice, and none is matched by
two requests. A match moves one order from the first kind to the second.

**QueueServer.** `ScriptServerProofs` has the lemmas that the two script servers share: which
steps of a request keep its stage, call and answer in line, and which step of `EnclaveService`
each is. For TypeScript (`TypeCorrect`, `OneHandler`, `ArrivalOrder`, `Inductive`, `Refinement`)
the strengthening is `OrderInv`: the queue is the tail of the arrivals, nobody arrives twice, and
the handler that awaits the node is that of the last request taken out; and `KeyInv`: the key held
is that of the last update that succeeded among those taken out. A signature made now is then by
the key the order of arrival calls for.

**ServerProcesses.** `TypeCorrect`, `OneHandler`, `ArrivalOrder` and `Refinement` are about the
specification that the run checks, `FairSpec`. `Inductive` cuts it by language: a process keeps the
one it was started with, so it is a Python server for ever (`PythonRuns`), a Go process for ever
(`GoRuns`), or a behaviour of `QueueServer`, whose theorems are cited through the instance
`Chain`. The Python part is proved here: `LockInv` says that the thread in a handler, or in its
call to the node, is the one that holds the lock. `LockServer` and `QueueServer` have, as instances,
copies of what they take from `ScriptServer`; `PythonWords`, `ChainWords` and the lemmas after them
show that the copies mean the same.

**Registration.** `TypeCorrect`, `Inductive`, `FileTellsTheTruth`, `FreshSuccess`, `OnlyLate`, for
any number of machines, runs and mishaps. `IInv` adds that the file and the memory of the command
are `Consistent` (steps are recorded in their order, the recorded challenge and check exist and
are about one machine), where the command is and what it has done by then (`RunInv`), that a
run without the file of an earlier one skips nothing and works for its own machine only (`FreshInv`), and that
its check is of a challenge that it asked for itself, which has expired if the check reverts
(`LateInv`). `OnlyLate`
assumes that the command contains R, as it does in `post-build.sh`: without R a machine that
is registered already gets no new challenge, and its check reverts.

**ExtensionSetup.** `TypeCorrect`, `Inductive`, `ConfigSafety`, `SenderSafety` and
`TestSafety`, for any number of set-ups, machines, deaths and tests. `IInv` adds what the
half-done scripts rely on:

* `DraftInv`: between its registration and the config, the draft's extension is the only one
  of its sender, and the grants before the next step are made (but for the machine owner's,
  whose error is dropped);
* `TestInv`: a running test has a config, waits for a machine of the active set of its
  sender, and a machine that was asked to sign and still runs has the key;
* `MachineInv`: a machine with a record on chain has an allowed version and owner.

`TestSafety` follows: the machine that answers is the one the instruction was sent to, it
is active for the sender's extension, and that is the config's, because the config's sender
has no other. It is an action property: the proof shows first that only `PollSign` passes a
test.

**VerifyDeploy.** `VerifySafety` (in `ExtensionSetupProofs`) follows from the same `IInv`: under
it R1, R2, R4 and R7 pass whenever there is a config (`ConfigPasses`).

**DeployTools.** `ToolsTypeOK`, `Inductive`, `ConfigIsRight`, `GrantsSafety`,
`StepOneIsRight`, `KnownSenderPasses`, `EarnestSafety` and `ReasonsAlwaysHold`, for any number of
runs, transactions, mishaps and calls of others. The chain is only ever reached through the log of
transactions, which outlives the tool that wrote it, so `IInv` is about these things at once:

* the log against the chain (`LogInv`): what a transaction asks for exists (`CallsInv`), what
  was mined has had its effect (`EffectInv`), a sender is deployed once and registered at most
  once, by mined and waiting transactions together (`OnceInv`), and an extension with a sender,
  like the id a sender knows, goes back to a registration (`OwnInv`);
* the order of nonces (`OrderInv`): registrations and grants are all of the key of
  `DEPLOYMENT_PRIVATE_KEY`, and where one transaction of a key is decided, so are those before it;
* what the config has named (`ServedInv`): no grant to it waits;
* what the running tool knows (`ToolFacts`): the transaction it waits for is the one that its
  step sends, the sender it holds was deployed by a transaction it heard of, nobody has asked
  to register that sender before it does, and the grants it has made are on chain;
* what the config says (`ConfigFacts`): a registration of its sender was mined with its id, and
  the owner and the key type are set.

`OnceInv` is what makes `ConfigIsRight` hold across time-outs: a run that gives `register` up
leaves a transaction for a sender that no later run uses, since each run deploys its own.
`OrderInv` is what makes `GrantsSafety` hold although the machine owner's grant may be given up
and the script goes on: the key type's grant comes later, of the same key, and the tool waits for
its receipt, so when the config is written every grant to the extension is decided (`LastGrant`),
and later runs grant to extensions of their own. With the grants in another order it fails, as the
mutant `After_ownerLast` shows. The log only grows and its decided part never changes (`Grows`), so
what a tool or the config knows is kept by `FactsStay` whatever the chain does; `ChainStep` covers
the steps of the chain, and each action of a tool then shows only what it changes.
`KnownSenderPasses` is an action property; it needs of the node only that `SetExtensionId` can read
its reasons, and of the chain that a sender which knows its id refuses another for that cause alone.
`EarnestSafety` adds to it what a silent report rules out: with funds for every send and no mishap, a
send of step 1 is refused, or its transaction fails, only because the sender was told its extension
in between (`EarnestInv`), and that is what `KnownSenderPasses` tolerates.
`ReasonsAlwaysHold` is about operators without state, so it rests on one lemma for each account
(`Sent`, `Failing`, `Diagnosed`, `Replayed`), by cases of where the node puts the reason.

**Only model-checked.** Liveness: it is out of TLAPS's reach. These are `WaitsOnlyForOwnDecryption`,
`EveryRequestEnds`, `FailsFast`, `SignalEnds`, `EventuallyInProduction`, `EventuallyUsable`,
`BuildEnds` and `TestEndsUnlessDropped`. Every other property of a passing run is a theorem.

Definitions whose names end in a suffix such as `_shared` or `_kept` are slips to compare with: a
plausible bug in the definition they are named after. No specification uses them.

## 5. What is not modelled

* Cryptography (secp256k1, ECIES, keccak256), the node, and Flare's registries: libraries
  and services; modelled from the outside where the code relies on them.
* `matchOrder` of InstructionSender, which differs from `sign` in the operation it names
  and has no caller among the tools; a TEE hosted by somebody else, who keeps its key
  across restarts; bans, pauses and disabled versions.
* Key parsing and ABI encoding: functions of bytes without state, which unit tests with fixed
  vectors reach. What the servers do when they fail is modelled.
* The composition of InstructionSender with the extension servers in one state space:
  `ExtensionSetup` takes an instruction for one step of the machine, and `ImplementsService`
  is what entitles it to.
* The composition of books and contract: the enclave's book has no cancellation, so a
  trader may cancel on chain an order that is matched inside. The contract half is in
  `DarkPool` (`settleDarkOrders` then reverts). The enclave half has no code yet.
* The other read-only printouts: most of `check-tee-state` and of `audit-deploy`, `query-tee`,
  `start-proxy`; pid files, Docker files, port variables; the frontend; and the upstream copy
  `fce-extension/fce-sign`, which is the same code without ORDER/MATCH and is modelled once.
* The `-i` flag of `register-tee` (promotion from an instruction id given by hand).
