# TLA+ models of the Arb402 facilitator

These modules model the x402 facilitator: a server with one hot wallet that pulls an
authorized amount of USDC from a payer (EIP-3009 `transferWithAuthorization`), keeps a
gas fee and a service fee, and transfers the rest to a merchant. TLC checks the
models on small instances; TLAPS proves the properties that matter most for every
value of the constants. Files named alone are in the repository's `src/`; other
paths are relative to the repository.

Contents: 1 the system, 2 the modules, 3 the runs, 4 the proofs,
5 what the code does otherwise than its documents say, 6 not modelled, 7 plan.

## 1. The system

| Component (source) | State | Operations | Makes it correct |
|---|---|---|---|
| Wallet submitter (`settle.ts:82-249`) | `walletLock` (a promise chain), `nextNonce`: process memory | `submitTx` = lock, allocate, sign, persist callback, broadcast; `broadcastRaw` outside the lock | no gap in the account nonces, no nonce twice, nobody waits for ever |
| Settlement handler (`settle.ts:293-453`) | the row of one payment | `settlePayment`: bind, verify, claim, pull, pay | pull before pay, intent stored before the broadcast, the answer is backed by a transfer |
| Recovery worker (`recovery.ts:37-146`) | its copy of a row | `recoverPayment`: re-send or pay, confirm | pays what was pulled, never twice, eventually |
| Recovery queue (`recovery.ts:148-195`, `nonceStore.ts:207-233`) | `recovery_locked_at`, `running`, the interval | `processIncomplete`: claim the 50 oldest free rows, work on all of them | one worker a row, every row is reached |
| Refund (`refund.ts`) | rows, the token's `authorizationState` | `executeRefund` of a failed row | refunds only what was pulled and not paid, once |
| Payments table (`nonceStore.ts`) | `payments`, `payment_events` | one unconditional UPDATE per write | a status is true of the chain; terminal rows stay |
| Database access (`db.ts`, `nonceStore.ts:46-83`, `server.ts:355-366`) | a pool of clients, advisory locks | `query`, `withTx`, `registerNonce`, `closePool`, `shutdown` | a nonce is registered once by any process, every client comes back, shutdown ends |
| Intake (`server.ts`, `requirements.ts`, `issuedStore.ts`, `auth.ts`, `merchantStore.ts`, `verify.ts`) | `issued_requirements`, `merchants` | issue, prune, authenticate, bind, verify, claim the nonce, add, disable and delete merchants | one claim per authorization, genuine and as quoted; merchants are one whatever their spelling |
| Fees (`verify.ts:19-38`) | none | `calculateFees`, amount checks | the parts add up, at the stated rate |
| EIP-3009 (`eip3009.ts`) | none | hashing, recovery, `splitSignature` | taken as a predicate |
| Chain registry (`chains.ts`, `config.ts`) | `byId`, `aliasIndex` | parse and merge the chains file, index names | a built-in name means its own chain |
| Probe, startup, doctor (`tokenProbe.ts`, `startup.ts`, `cli/commands/doctor.ts`) | none | judge the environment | the two judgements agree; a server that runs can settle |
| HTTP routes, CLI, templates, harness | see section 6 | | |

How they interact. `/settle` handlers run concurrently in one Node process and
interleave at every `await`. They, the recovery worker and refunds share the
payments table without a transaction around their steps, and the wallet through its
promise-chain lock; only the registration of a nonce is a transaction. The chain
mines what the node accepted; the token's own authorization state makes the pull of
one authorization succeed at most once. A restart loses the wallet's memory and
every handler, and keeps the tables, the rows' locks and the chain. Several
processes may share the database, and each then runs a recovery worker.

What is hard here, and what `PROJECT.json` lists under `hazards` line by line:
interleavings of a handler with the worker on one row, and of two workers after a
claim grew stale; the steps between signing, persisting and sending, each of which
can fail or be the last before a restart; an error answer to a send or a COMMIT that
landed; a pending count that trails; the local mark being reset; a receipt that comes
after the wait for it timed out; a refund repeated because nobody knows how the first
one ended; two requests with one authorization, in one process or two; a client of
the pool that is never given back; shutdown under running requests; a requirement
pruned or a merchant disabled while its request runs; rounding, and the amount one
unit above the gas fee.

## 2. The modules

```
TxSubmitter          the wallet and the node              TxSubmitterProofs
   ^ INSTANCE, and refined (WalletSpec)
Settlement           handler, worker, refunds, table      SettlementProofs
   | refines (EscrowSpec)
Escrow               what is promised about money
RecoveryQueue        several workers, leases, batches     RecoveryQueueProofs
Intake               requests up to the first transfer,   IntakeProofs
                     requirements and merchants
Database             pool, withTx, registerNonce, exit    DatabaseProofs
   | refines (RegisterSpec)
NonceRegister        what registerNonce promises
FeeSplit             amounts                              FeeSplitProofs
ChainRegistry        names of networks                    ChainRegistryProofs
Readiness            doctor and the start of the server   ReadinessProofs
```

`MC*` modules give constants their values for TLC; every `.cfg` names its bounds.
What one module takes as a single step another takes apart: Intake's `RegisterNonce`
is the transaction of Database, which `RegisterSpec` shows to be atomic; Settlement
begins where Intake's request is `settling`, or stops short of it (`SettleRefused`);
RecoveryQueue keeps of `recoverPayment` what decides about a claim, and Settlement
models it in full for one worker.

### TxSubmitter
`lockQ` is `walletLock` as the queue of its callers, `nextNonce` the local mark.
`stage`, `call`, `acct` and `held` are the locals of each caller's `submitTx`:
`Submit` queues, `Allocate` reads the pending count, `Sign` signs and runs the
persist callback, `Broadcast` sends and treats "already known" and "nonce too low"
as sent, `Resume` returns or rethrows. `AllocateFails`, `SignFails`,
`BroadcastRejected` and `BroadcastFails` are the errors, the last with and without
the send having landed; `Resync` is the reset of the mark in the catch block.
`Rebroadcast` is `broadcastRaw`, `Crash` a restart. The node is external: it takes
the next nonce only, keeps the first transaction of a nonce, never drops one, and
its pending count may trail by `PendingLag`.

### Settlement
Instantiates `TxSubmitter` with one caller per (role, payment), and one per refund
request: `<<"settle", p>>`, `<<"recover", p>>`, `<<"refund", p, r>>`. `spc`, `rpc` and
`fpc` are where `settlePayment`, `recoverPayment` and each `executeRefund` are; `snap`
is the row that `recoverPayment` got as its argument and goes on using; `status`,
`inTx`, `outTx` and `locked` are the table; `answer` is the outgoing transaction that
the response to a payment's `/settle` names, if it reports success. One action is what a
handler does between two awaits that somebody else can observe. The persist callback is
part of the signing action, and an error may come before or after its write.

Two history variables name the two races the code leaves open. `overlap` holds the
rows the worker claimed while their handler was alive. `rushed` holds the rows a
refund read while it was not known how an earlier refund of them ended: it was still
running, or it had lost its receipt or its process (`fpc` is `unsure`).

### Escrow
The promise about money, as the chain shows it: an authorization is pulled once; a payee
is paid no more than was pulled for it; a payment is refunded once, only if it was
pulled and only if nothing of it is owed to a payee; except, as to how often, for
payments that are `contested` (Settlement's `overlap`) or `rushed`. `EscrowSpec` maps it
to Settlement's mined transactions.

### RecoveryQueue
One worker per server process. `Claim` is the one statement of
`claimIncompletePayments`: the `Limit` oldest rows that are incomplete and unlocked,
or locked for longer than `StaleAfter`. `task` holds the status each `recoverPayment`
call has got its row to, starting from the claimed row, which it never reads again;
`batchAge` is how long the batch has been running; nothing renews a claim. `Writes` is
a task's status write, `incoming_complete` after the pull or `outgoing_submitted` with
the payout: it asks neither for the row's status nor for its lock, so a late one takes
a row out of `complete` again. `cycle` and `timer` are `running` and the interval.
`Hopeless` rows can never finish (their pull or payout lost its nonce); rows that end
as `failed` are left to Settlement. Two histories: `outlived`, the rows claimed while an
earlier claim was still worked on, and `reopened`, those a late write took out of
`complete`.

### Intake
`POST /settle` up to the first submission, step by step: `Authenticate`,
`CheckIssuedBinding`, `VerifyPayment`, `RegisterNonce`, `CheckMerchant`, `Preflight`;
meanwhile requirements are issued and pruned, merchants are added, disabled, enabled and
deleted, time passes, any step may throw (`Breaks`), and the process restarts. A
merchant is a spelling of an address (`Address`): each has a key and a row, and most
statements compare addresses without case, while the primary key does not. Nonces
compare as texts, as in the code. `quotes`, `claims`, `switched` and `split` are history
variables.

### Database and NonceRegister
Each call of `/settle` needs a client of its process's pool twice: for the
transaction in which `registerNonce` takes the nonce's advisory lock, looks and
inserts, and for the statement that stores the outcome; in between it is with the
chain. Connections break at every step, COMMIT may land unanswered, waiting for a
client times out, and a broken connection's transaction keeps its lock until the
server notices (`orphan`). `Shutdown`, `Exit` and `Crash` are the ends of a process.
NonceRegister has one step for what the transaction does, and states what that is
worth to its callers (`OneWinner`).

### FeeSplit
`Merchant` and `Service` are `calculateFees` on integers, `Verdict` the amount
checks of `verifyPayment` in their order. Amounts are BigInts in the code, so
nothing overflows.

### ChainRegistry
The entries of a chains file are parsed (one bad entry rejects the file), merged
over the built-in chains and indexed, first registration first. Map's insertion
order is the order of the sequence `all`.

### Readiness
`runDoctor`, then `runStartupChecks`, in one environment that `Init` chooses among all
of them. `Probe` is what `probeToken` read; a read that fails and a getter the token
does not have give the same `"hidden"`. The version of Node is part of the environment,
and only doctor looks at it (`DoctorNode`). In a flaky environment any RPC call may
fail.

## 3. The runs

| Run | Question | Bounds |
|---|---|---|
| `wallet` | does a failure or restart leave a gap; is an allocated nonce the next free one; does every call end? | 2 callers, lag 1, 2 errors, 1 restart, 2 transactions at the node or queued, fairness |
| `settle_one` | one payment, everything that can happen to it; does Settlement implement the wallet and the escrow? | 2 errors, 2 restarts, 2 gas quotes, reverts, 1 refund |
| `settle_two` | two payments with the same outgoing call: what are payees paid, and what are an answer and a complete row worth? | 1 error or 1 restart (`OneFault`), 4 transactions |
| `settle_live` | is a pulled payment eventually paid and complete, and a signed pull resolved? | 1 error, 1 restart, reverts, fairness |
| `refund_zero` | may a refund send what was not pulled, or twice? | the payment that leaves nothing, 2 refund requests, 1 error, 1 restart |
| `recovery_queue` | who works on a row, how often is it paid, is it reached? | 2 workers, 2 rows of which the newer is hopeless, 1 row a cycle, claims of 1 tick, batches of up to 2, 1 restart, fairness |
| `database` | is `registerNonce` atomic, is a replay answered, does shutdown cut a transaction, does everybody get an end? | 2 processes with 1 client each, 4 calls, 3 of one nonce and 1 of another with the same lock, fairness |
| `intake` | one claim per nonce, genuine, quoted; prunes nothing alive; whom may a disabled merchant turn away? | 2 requests, 2 merchants in 3 spellings, 2 changes of the table, 2 amounts, a clock of 2 |
| `fee_split` | rate, monotonicity, the only payment that leaves nothing | all totals and requirements to 60 |
| `registry` | identity of the built-in chains, first registration wins | 2 built-in chains, files of up to 2 entries, each with a slug and up to 1 alias |
| `ready` | where doctor and start differ; what a running server can rely on | every environment, with reliable and unreliable endpoints |

One more, `paid_twice`, ends in a counterexample (section 5).

`database` and `recovery_queue` check for deadlock. The others say `CHECK_DEADLOCK
FALSE`, because there each system comes to rest: all payments ended, all requests
answered, the registry built.

What the runs show.

- Settlement's rows. `SettleInv`: a row, and the worker's older copy of it, name only
  transactions signed for this payment, the outgoing one only after the pull succeeded,
  and a status is written after what it reports. `IntentBeforeBroadcast`: a pull the
  node holds is the one its row names, and the row has left `pending`.
  `FailedNeverPaid`: a payment that owes its merchant something is failed only when its
  pull reverted, so the refund guard is safe: all that a refund can ever give back is a
  payment that left its merchant nothing (`RefundBacked`). `AbandonedMovesNothing`: a
  handler that stops after claiming the nonce and before signing leaves the row
  `pending` for good, where no one looks again, but the payer's funds never move.
- Settlement's money. `EscrowSpec`, and its parts `OverpaidOnlyByOverlap` and
  `RefundedTwiceOnlyRushed`: money is passed on or given back twice only if the
  worker claimed a row whose handler still ran, or a refund was requested before the
  previous one was known to have failed. So a lock the handler also took would make
  payouts exactly-once. `AnswersBacked`: every success told to a merchant names a
  mined transfer of its net amount, which no other success names. Two handlers may
  sign for one account nonce after an error or restart, and "nonce too low" is read as
  success, but a handler then waits for a receipt of its own hash. The exception is a
  mark reset while the count trails: two equal calls may then be the same bytes.
  `UnderpaidOnlyByFault`: rows that say a payee was paid never outnumber the transfers
  it got, however the worker takes rows over and waits run out, as long as no submission
  failed and the process did not restart; by section 4 whatever the count trails by.
- Settlement's progress. `EventuallyPaid` and `IncomingResolves` hold through an error
  and a restart with one exception each, both of one kind: the account nonce of the
  stored transaction went to another one, or the transfer reverted. Nothing replaces
  it then.
- The queue. `SharedOnlyWhenStale` and `PaidOnceUnlessOutlived`: SKIP LOCKED and the
  lease keep workers apart while every batch ends before its claim grows stale. After
  that they are not kept apart even within a lease: a task that outlived its claim may
  store its payout on a row which another worker has completed and unlocked, and the row
  is then claimed again while the writer is on it (`reopened`, which only happens to
  rows that were `outlived`). `EveryRowRecovers`: a row that can finish does, unless as
  many older rows as a cycle claims never can.
- The database. `RegisterSpec`: over processes, restarts, broken connections and
  unanswered commits, at most one caller is told that a nonce is new, and then the
  row is committed. `LosersAreTold`: a replay gets `false`, and an exception only
  after a fault. `CallsAndShutdownsEnd`: every path of `withTx` gives its client back.
- The intake. `TurnedAwayIfSwitched`: "merchant is disabled" after the nonce is claimed
  means that somebody disabled the merchant under way, or that a disabled address had
  been given a second, enabled row in another spelling.

Why the bounds are enough. The conflicts all take two actors on one row, or two
transactions with one outgoing call: two payments, of which one may have both a handler
and a worker. A lag of one and one error are enough to reset the mark while the count
trails. `MaxTxs` counts accepted and queued transactions: in `wallet` one that is
accepted and not mined, and the call that may take its nonce again; one payment needs
two, three with an overlap; its bound of 8 (4 with two payments) leaves room for the
extra ones that an error or restart brings. In the queue one row a cycle and two rows
give a batch that is full, a batch longer than the claim takes it past the lease, and
the hopeless row is met by both workers; in the database four calls at two pools of one
put a call in each pool's line, and two calls at the lock in different processes. Two
ticks of the clock and a requirement of one put every comparison of a deadline on both
sides of its boundary, and two changes are enough to disable an address and add a row
for it. Symmetry is used only in runs without liveness properties.

Fairness. `wallet` asks for weak fairness of each caller's progress: promises settle,
and viem's calls have timeouts. `settle_live` adds weak fairness of mining, of the
worker's timer and of a lock growing stale (two minutes), and strong fairness of the
recovery steps: a step waits for a receipt and may give up and come back a cycle later,
again and again, so it is enabled infinitely often rather than for ever, and a receipt
that exists is eventually read. `recovery_queue` asks for the clock, for each worker's
next step, and for the same reason for strong fairness of the claim (a cycle may throw
before it) and of a row being advanced (`Advances`: its pull confirmed, its payout
signed or confirmed) by some worker. `database` asks that the database answers or the
connection breaks, that waiting for a client ends (`connectionTimeoutMillis`), and that
a pool serves and a closing process exits when it can. A request need not arrive, and
nobody has to shut a process down or restart it.

Every property of a passing run has a mutant in `PROJECT.json`: a changed
definition, such as a dropped guard or an answer read the wrong way, under which
TLC finds the property violated. The mutated forms are in the modules, each before
the definition it changes.

## 4. The proofs

All for every value of the constants: any number of payments, callers, requests,
processes, errors, restarts and transactions.

- `TxSubmitterProofs`. `NoGap` is not inductive. `WalletInv` adds that only the
  head of the queue is between allocation and broadcast, that the mark is then one
  past the nonce it holds and otherwise never passes what the node has accepted,
  and that what a caller holds is what it signed. `StepInv` has one step per
  action. `FreshNonceEver` holds for every lag, through `QuietInv`: while nothing
  has failed the mark is exactly one past what was accepted or is held
  (`MarkExact`), and only what a caller holds is signed and unsent
  (`OnlyHeldUnsent`). `AllocatesFresh` puts it as a lemma for the modules above: what
  is allocated is beyond everything accepted.
- `SettlementProofs`. Every step of Settlement is a step of the wallet or leaves
  it alone (`WalletPart`), which gives `ImplementsSubmitter`: Settlement implements
  the wallet's specification, so `WalletInv` holds of it. Receipts are stable and
  signed transactions accumulate (`Frame`); over that, `SettleKeepsInv`,
  `RecoverKeepsInv`, `RefundKeepsInv`, `SigningKeepsInv` and `WalletStepKeepsInv`
  preserve `SettleInv`, which needs the worker's copy `snap` as well as the row:
  the worker acts on the copy, often after the row has changed. `PulledBeforePay`
  and `CompleteWasPaid` follow.
  Its second part is about payouts. `PayoutInv` adds to it that a row never taken over
  has one worker at a time, who signs a payout only while the row names none
  (`OneWorker`), so that every payout ever signed is one a row names, or its row was
  taken over (`PayoutsNamed`). `PaidOnceButForOverlap` counts: payouts to one payee
  inject into the rows that name them, and each of those rows was pulled.
  Its third part is about answers. `AnswersBacked` is not inductive: what a handler will
  answer is decided when its send returns. `CreditsApart` therefore speaks of each
  payment's credit, the transaction its handler has named or may still name: no two
  credits have one account nonce, each is below what the node accepted, and below what
  any caller is allocated to sign. A new credit is one that the node just accepted, or,
  at "nonce too low", one whose nonce was taken before; the last conjunct keeps it apart
  from the older ones, and `AllocatesFresh` keeps that conjunct. `AnswersMined` adds
  that a success was told with a receipt in hand.
  Its fourth part is about complete rows. `UnderpaidOnlyByFault` is not inductive
  either: a row completes by the transaction that the handler holds, that the row names,
  or that the worker copied from the row a while ago. `NamesApart` speaks of all of
  these at once (`Names`): no transaction is named by two payments. Handlers, worker and
  refunds only pass names on within a payment (`SettleNames`, `RecoverNames`,
  `RefundNames`, `OthersName`); a new one comes into being by a signature only, and
  `SignsFresh` says that while nothing has failed nobody has signed those bytes before,
  whatever the lag. `PaidForEachComplete` then injects the complete rows of a payee into
  its transfers.
  Its fifth part is about refunds. `RefundInv` adds to `PayoutInv` that a pull is signed
  once and stays the one its row names (`PullsNamed`), that only reverted pulls and
  payments that owe nothing are failed, and only the latter refunded (`RefundAt`), that
  a terminal row has no worker (`ClosedAt`), and that refunds of a row that is neither
  taken over nor rushed come one after another (`OneRefundAt`). From it follow
  `IntentPersisted`, `FailedWereNeverPaid`, `RefundsAreBacked`,
  `RefundedOnceButForRush`, `TerminalRowsStay`, `AbandonedStays`, and
  `ImplementsEscrow`: only `Mine` changes what the escrow sees, by one transaction, and
  each kind of transaction is a step the escrow allows.
- `RecoveryQueueProofs`. `QueueInv` says that a task whose batch is no older than a
  claim holds still has its claim, at exactly the batch's age, unless the row was
  completed or reopened (`LeaseHeld`), that a row never outlived has one task at most
  (`AloneUnlessOutlived`), which knows the row's status and with it whether a payout is
  stored (`StatusKnown`), and so never writes over `complete`. `WritesKeeps` is the
  lemma for both unconditional writes.
- `DatabaseProofs`. `DatabaseInv` says that only the holder of a nonce's lock decides on
  it, and that what it saw stays true until it commits (`LockedWhileDeciding`), that a
  call stands in one line once (`LinesInOrder`), and that the clients in use are those
  of calls in a transaction or a statement (`ClientsInUse`). `RegisterNonceIsAtomic`
  maps the commit to `NonceRegister`'s `Claim`. `OneWinnerEver` then follows from
  `NonceRegister` alone, where it takes no lock, pool or connection to argue.
- `IntakeProofs`. `IntakeInv` says what each step of a request has established, for
  as long as the request uses it, though requirements and merchants change under
  it. `OneClaimEver` rests on the single INSERT of `registerNonce`;
  `PrunedOnlyDeadEver` on the agreement of the two deadline comparisons;
  `TurnedAwayIfSwitchedEver` on the rows of an address being in one state, but for one
  added to a disabled address (`SpellingsAgree`).
- `ChainRegistryProofs`. For every set of names, list of built-in chains and file.
  `RegistryInv` describes each loop half-way: the entries still to merge are the parsed
  rest of the file (`PhasesInStep`), a built-in chain keeps its place, id, family and
  names, and lacks a token only if neither it nor the entries merged so far gave one
  (`BuiltinsInStep`), and the index is right for the chains indexed so far
  (`FirstAmong`). `FirstWins` is `FirstAmong` at the end. `StrayAliasHarmless` needs
  besides that without an override the built-in chains are still the first of `all` as
  they were, that no id is also a spelling and that no two built-in chains share a
  name, which `RegistryAssumption` states of `src/chains.ts:59-156`.
- `FeeSplitProofs`. Division is used through its bounds only (`DivisionBounds`);
  `FeeRateEver` (gas fee, merchant's and service's part add up to the payment),
  `MonotoneEver` and `NothingOnlyAtOneUnitEver` hold for every gas fee,
  cap, amount and rate up to the 500 basis points that `config.ts` allows.
- `ReadinessProofs`. `ReadyInv` says what has been found by each step: with answers that
  do not change, `hardFail` is exactly what the checks of doctor so far fail on, that of
  the Node version first (`Noted`), and the server stopped on a check of its own that
  fails (`Stopped`); with any answers, what the server passed is so (`Passed`). The
  three properties compare the two lists.

Assumptions: those named in the modules (`...Assumption`), that the node keeps the
first transaction of a nonce and drops none (so viem's detection of replaced
transactions never applies), that there is no reorganisation below a receipt, one
server process for the wallet, Postgres transactions and locks as `Database` states
them, and that code between two awaits is atomic, as it is in Node.

Only model-checked: liveness (`EverySubmissionEnds`, `EventuallyPaid`,
`IncomingResolves`, `EveryRowRecovers`, `CallsAndShutdownsEnd`), which with `ENABLED` is
beyond the prover. Every invariant and action property of a passing run has a theorem.
What a recursive definition computes for every input (induction over data) could not
be proved with the installed provers; no module needs it, and none declares a
RECURSIVE operator.

## 5. Where code and documents disagree

The run `paid_twice` finds a counterexample to `src/recovery.ts:30`, "WITHOUT ever
risking a double-payment", and `docs/deployment.md:113-115`: the worker claims a row
whose handler still runs, and both pay.

Others are stated as the exceptions of properties that hold:

- `FreshNonce`: the mark "so we never reuse a nonce" (`src/settle.ts:106`) is reset
  by an error or restart, and a trailing count then repeats a nonce.
- `FailedNeverPaid` (`Net # 0`): "An `outgoing_submitted` row is never marked
  `failed`" (`src/recovery.ts:35`), but one whose merchant amount is zero is.
- `EventuallyPaid` (`Spent`) and `IncomingResolves`: "funds safe, will retry"
  (`src/settle.ts:420`) and that a crash or timeout can never "strand a payer's funds"
  (`docs/deployment.md:113-115`); but a transfer that reverted, or whose stored
  transaction lost its nonce, stays the row's transaction for ever.
- `AnswersBacked` and `UnderpaidOnlyByFault`: "every settlement must have a distinct
  outgoing tx" (`harness/scripts/settle-once.ts:141`) is so of what merchants are told,
  unless the count trails, but not of the rows. After an error or restart that left a
  stored transaction unsent, two equal payments may sign the same bytes, and one
  transfer completes both rows once recovery looks, although "funds conserved across
  concurrent settlements" (`settle-once.ts:139`). That takes such a fault, never mere
  concurrency.
- `PaidOnceUnlessOutlived`: the worker "is safe to run on multiple instances"
  (`README.md:172-173`, `docs/deployment.md:117-118`) while each batch ends within the
  two minutes a claim holds; a batch whose tasks wait a minute for each of two
  receipts, or for the node, may not.
- `SharedOnlyWhenStale` (`reopened`): workers "run concurrently without ever grabbing
  the same row", a claimed one being "off-limits to other cycles until it goes stale"
  (`src/nonceStore.ts:208-210`), but the status writes of `src/nonceStore.ts:85-173` do
  not ask for the claim: a task that outlived its own reopens a completed row, without
  a lock, and two workers are on it at once.
- `RefundedTwiceOnlyRushed`: a refund whose receipt did not come in time answers with
  an error and leaves the row `failed`; asked again, it is sent again.
- `ExitCutsNoTransaction` is all that shutdown keeps: "In-flight settlements complete
  first" (`docs/deployment.md:206`), but `shutdown` does not wait for the listener
  to close, and a settlement that is with the chain when the pool has ended is cut
  off between two statements. It is then as after a restart, which the runs of
  Settlement cover.
- `TurnedAwayIfSwitched` (`split`): rows are found by the address without case but
  kept by its spelling, so that an enabled row authenticates a request which a
  disabled one in another spelling turns away, with its nonce claimed.
- `StrayAliasHarmless` (`~Overrides`): "an Orbit entry cannot hijack a built-in
  alias" (`docs/chains.md:205`), but an entry that amends Arbitrum One is indexed in
  its place, before Nova, and may take "nova".
- `GateButDatabase`: doctor is a "gate: exits non-zero on any blocking issue"
  (`docs/deployment.md:25`), but in production without DATABASE_URL it passes and
  the server refuses to boot.
- `UpIsSettleable` (`~flaky`): the domain is "checked at boot so the failure lands
  here" (`src/startup.ts:53`), but one failed read of DOMAIN_SEPARATOR is passed over.
- `FeeRate`: the merchant receives "slightly less than totalAmount * (1 -
  feeBps/10000)" (`src/verify.ts:23`); the fee is taken of the merchant's part, so
  without a gas fee it is slightly more.

## 6. Not modelled

- Hashing and signatures (`eip3009.ts`): an authorization is genuine or it is not.
- The spelling of a nonce. `payments.nonce` is compared as text (`src/db.ts:146`), and a
  request may give its hex digits in either case (`src/types.ts:105`). With issued
  requirements a nonce must be the issued text; without
  (`REQUIRE_ISSUED_REQUIREMENTS=false`) two spellings of one nonce are two of Intake's
  `Nonces` and may each claim a row, and `OneClaim` says nothing of the pair. The token
  still executes the authorization once: the pull of the second row reverts.
- HTTP parsing, rate limits, logging, metrics routes, the CLI's one-shot commands:
  input and output. The `merchant` commands appear as `AddMerchant`,
  `SetMerchantEnabled` and `DeleteMerchant`.
- The in-memory fallbacks without a database, which production refuses, and the
  development merchant.
- Balances (`hasEnoughGas`): the check may say either, and a shortfall appears as a
  failed or reverted transfer.
- Two processes that settle with one wallet key, each with its own `nextNonce`:
  `README.md:170-175` forbids them. RecoveryQueue has several workers on one table,
  without the wallet below them.
- Templates and the harness, which are examples and test drivers.

## 7. Plan

Done: the wallet; Settlement over it, the escrow and the proofs of both; the queue of
incomplete payments; the intake with its merchants; the database, `registerNonce` and
shutdown; fees; the chain registry; readiness.

Left, in the order of importance:

1. RecoveryQueue over Settlement's rows instead of its own summary of them, and two
   processes with one wallet key, to see what exactly the one-process rule protects.
2. After a fault, which rows may come to share a transaction: an inductive account of
   the payments whose stored transaction lost its nonce, which liveness names as `Spent`
   (without a fault none do, `UnderpaidOnlyByFault`).
3. The metered session of the inference template; `splitSignature` as a pure operator.
