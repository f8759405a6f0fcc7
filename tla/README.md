# TLA+ models of the citizenchain voting engine, accounts, clearing and citizens

This directory holds a verification development for the GMB repository: TLA+
modules translated from the Rust code of the runtime and of the clearing bank's
node, TLC configurations that check them on small instances, and TLAPS proofs of
what matters most for every instance. `PROJECT.json` lists components, runs,
mutants, the map from definitions to source lines, findings, hazards and theorems.

Paths below are relative to `src/citizenchain/` unless they start with `src/`.

## 1. The system

GMB is a Substrate chain (`citizenchain`) with the programs around it: a node
with a desktop front end, a web administration platform (`onchina`), mobile and
wallet applications, an SDK with a light client, and chat and web services. The
program's own protocol logic is in the runtime pallets and in the node's clearing
code.

| Component | State it keeps | Operations | What makes it correct |
|---|---|---|---|
| Voting engine: store and status machine (`runtime/votingengine/src/{lifecycle,id,types}.rs`) | `Proposals`, `NextProposalId` | create, set status, finish | decided once, executed at most once, never revived |
| Mutex and limit (`mutex.rs`, `limit.rs`) | lock table per subject, bindings per proposal, active lists | acquire, release, add, remove | locks equal bindings; admin-set changes run alone; no slot leaks |
| Timeout pipeline (`expiry.rs`, `lib.rs` hook) | buckets by block, one cursor, retry states, dead letters | file, drain a bucket, retry with backoff | every overdue proposal is settled |
| Execution queues (`execution.rs`) | automatic executions, retry windows, deadline buckets, terminal finalizations | execute, retry, cancel, expire | every passed proposal is executed or failed |
| Deferred deletion (`cleanup.rs`, `maintenance.rs`) | retention FIFO, round-robin stages | schedule, activate, purge | each finished proposal is deleted once, leaving nothing |
| Internal votes and personal accounts (`votingengine/internal-vote`, `entity/personal-manage`, `admins/personal-admins`, `transaction/multisig`) | snapshots, tickets, thresholds, accounts, admins, deposits | register, close, change admins, transfer, vote | tickets decide; the pallets agree; only current admins decide |
| Joint vote (`votingengine/joint-vote`) | institution tickets and tallies, referendum votes by citizen | create, vote in two stages, time out | every institution approves, or the citizens decide, each of them counted once |
| Citizen identity (`misc/citizen-identity`) | CID register, wallet bindings, identities with their history, population counts by place, daily transitions | occupy, bind, rebind, register, upgrade, update, revoke; maintenance in `on_idle` | number and wallet one to one; counts equal the people eligible; past rolls do not change |
| Citizen issuance (`issuance/citizen-issuance`) | reward marks, a queue per block | queue at registration, pay at the end of the block | one reward per citizen and per wallet |
| Clearing pallet (`transaction/offchain`) | deposits, totals, nonces, marks, rates, batch numbers | deposit, withdraw, switch, settle a batch, change rates | banks stay solvent, money is conserved, notice of rates is given |
| Clearing node (`node/src/transaction/offchain`) | ledger of balances, pending payments, batch number | accept, pack, submit, follow events, restart | the ledger follows the chain; what is acknowledged is kept; numbers continue the chain's |
| GRANDPA key change (`governance/grandpakey-change`, `node/src/core/grandpa_rotation.rs`) | scheduled change, proof nonces, two local keys | rotate, recover, reconcile | one change at a time; a usable key at every moment (not modelled) |

Interaction. Business pallets create proposals through a Track; the Track asks
the engine for an id, an active slot and a lock, and files the proposal's end.
Votes go to the Track, which tells the engine the outcome. The engine runs the
owner's callback: at once when the proposal is rejected, from a queue in
`on_initialize` when it has passed. A callback answers executed, retryable
failure, fatal failure or not mine; after a retryable failure administrators may
retry by hand until a deadline block. The joint Track asks citizen identity for a
roll at its snapshot and, per vote, whether a wallet speaks for a citizen on that
roll. A bank's node accepts payments over RPC, submits them to the pallet in
batches and follows the pallet's events.

On the chain everything is one state machine with block hooks: the concurrency is
the interleaving of extrinsics with the hooks' queues over many blocks, and the
failures are callbacks, Tracks and notices that return errors. The node and the
chain are two processes: submissions are lost or late, events arrive behind, the
node restarts, blocks are reorganised.

Hard behaviours: several queues hold the same proposal; every loop has a budget
and carries the rest over; entries are stale when they are read; callbacks and
batches fail half-way and are rolled back; locks are held across blocks; four
pallets keep parts of one account's state; wallets, rosters and passports change
while a vote that depends on them is open.

## 2. Modules

| Module | Models |
|---|---|
| `StorageMap` | FRAME's storage maps as partial functions (external) |
| `ProposalStore` | proposals, ids, status transitions, time |
| `ProposalMutex` | locks, bindings, active lists |
| `ExpiryQueue` | expiry buckets, cursor arithmetic, backoff, dead letters |
| `ExecutionQueue` | execution and deadline queues |
| `CleanupQueue` | retention FIFO and deletion stages |
| `VotingEngine` | composes the five: extrinsics, and the block hook queue by queue |
| `ProposalLifecycle` | abstract specification: what the engine promises its users |
| `EngineProperties` | invariants, the refinement mapping, liveness |
| `PersonalAccount`, `PersonalProperties` | accounts, admins, internal votes and transfers of personal accounts |
| `ClearingRates` | fee rates, their announcement, cap and activation |
| `ClearingPallet` | the pallet: nodes, deposits, batches with commit and rollback |
| `ClearingNode` | a bank's ledger, packer, submitter and listener, composed with `ClearingPallet` |
| `EventListener` | the listener on a tree of blocks |
| `CitizenBinding` | CID register and wallet bindings |
| `CitizenPopulation` | identities with history, counts, transitions, maintenance |
| `CitizenIssuance` | certification rewards |
| `CitizenIdentity` | composes the three: the pallet's calls |
| `Electorate` | abstract specification: what a roll of citizens promises to votes |
| `JointVote` | joint proposals over `Electorate`, with the institutions' rosters |
| `MC...` | the TLC instances |
| `DataLemmas`, `FoldLemmas`, `StoreLemmas` | lemmas: maps, finite sums, folds over sequences; the engine's store |
| `EngineLifecycle`, `PersonalSafety`, `ClearingSolvency`, `CitizenLoop`, `JointVerdict` | theorems and proofs |

Two abstract specifications are implemented by detailed ones: `ProposalLifecycle`
by `VotingEngine`, and `Electorate` by `CitizenIdentity`. `JointVote` uses
`Electorate` in the place of the identity pallet, so what it shows holds for the
pallet as well.

### The engine

Variables carry the names of the pallet's storage items. One action is one
extrinsic (`CreateProposal`, `DecideByVote`, `AdvanceByVote`, `FinalizeProposal`,
`RetryPassedProposal`, `CancelPassedProposal`) or one iteration of a loop of
`on_initialize`. The variable `hook` is the hook's program counter: the phase, the
entries collected and the budget left. Extrinsics happen only between hooks, as in
a block. An action whose name ends in `Fails` is the error branch of the handler.

External to the pallet are the Tracks, the owners' callbacks and their answers;
they are choices from `Outcomes` and `Faults`. `effects` counts how often an
owner's action took effect and `notified` records failure notices; no code reads
them, the properties do.

Abstractions, each of them in the definition concerned:

- Weight budgets of the execution and cleanup loops are folded into numbers of
  items per block. The timeout loop keeps both its count and its weight budget.
- A deletion stage deletes an unknown number of keys, so it is a choice between
  finished and not finished.
- The proposer's automatic first vote is a `DecideByVote` step of its own.
- `AtBound` stutters at the last modelled block. Deadlock checking stays on, and
  so shows that the branches left out of a handler because nothing reaches them
  (a finalization item that is not failed, a deadline item with a window but not
  passed, a queued id without a stage) never arise.

### The personal account

`PersonalAccount` joins the four pallets that keep one account's state. The engine
appears as its abstract promise: a passed proposal is executed or failed at some
later time, once, in any order with others; rejection runs its callback at once.
`ballot` groups what internal-vote stores per proposal: role, snapshot, threshold,
tickets and tally. Creation is one transaction and includes the proposer's own
vote, which cannot decide because every threshold is at least two.

Left out are names of admins (a change that keeps the people stands for one that
renames an admin), balances (an execution may fail; of the deposit only whether it
is reserved is kept), and protected addresses. Callback errors do not occur for
these roles.

### Clearing

`ClearingPallet` keeps a bank's reserve account, fee account, customers' deposits,
the bank's total, nonces, marks of settled payments and batch numbers. The call
`submit_offchain_batch` is one transaction, but its items are steps of their own
(`BatchBegin`, `BatchItem`, then `BatchCommit` or `BatchRollback`), so that what
holds between two items is checked too and a failure may come at each of them; no
other call runs while a batch is open. The pallet's constants keep their values
where arithmetic depends on them: existential deposit 111, smallest fee 1, an
on-chain fee of one tenth of a percent but at least 10, rates of 1 to 10 basis
points. Signatures and the registry's answers about institutions are taken to be
valid. The runtime's call filter currently rejects every call of this pallet
(`runtime/src/configs.rs:188-194`); the models describe the pallet as written.

`ClearingNode` adds the node of one bank. `SubmitPayment` is the RPC, with the
nonce and balance checks of the ledger's two branches (payer banks here, payer
banks elsewhere). `pack_and_submit` waits, signs and submits after it has copied the
pending payments, and the RPC and the listener change the pending list meanwhile, so
it is two steps: `PackBegins` copies and numbers a batch, then `PackSubmits` puts it
in the pool or `PackFails` takes back those of its payments that are still pending, one
by one. `IncludeBatch` puts a pooled batch into a block, where it settles or fails as a
whole; `HandleEvent` is the listener and `LoseEvent` its error path, a block whose
events cannot be read or decoded. `Restart` empties the ledger: `save_to_disk` has no
caller, so `load_from_disk` finds nothing. The batch number after a restart is the
chain's. Meanwhile customers are bound, deposit, withdraw and switch, and banks' nodes
are unregistered and registered again. `acknowledged` is the set of payment ids the node
acknowledged since its start and did not take back; no code reads it.

`EventListener` looks at the listener's loop alone, on every tree of blocks. A block is
the best one when its chain has more work than the best chain; all blocks have the same
difficulty, as they have between two adjustments (600 blocks apart).

### Citizens

`CitizenBinding`, `CitizenPopulation` and `CitizenIssuance` hold the state and the
helpers; each call of `CitizenIdentity` is one action with all it writes. The
maintenance in `on_idle` is a sequence of steps (`StartIdle`, then rounds of
`InitializePopulationDate`, `ProcessTransition`, `AdvanceReadyDate`) under its
budgets of days and transitions, and may stop after any round, as weight may run
out. Days are numbered consecutively in place of calendar dates; an
authorisation is an expected revision and a new wallet, without its signature and
its time limit; the commitment of a CID stands for its wallet; the queue of a day's
transitions is kept as the sequence still to be done instead of a cursor. The
clock does not run backwards (`DateMovedBackwards` and `InvalidReadyDate` are left
out). A revoked number keeps its wallet binding, as in the code.

### The joint vote

`JointVote` follows one proposal through its stages, with the rosters of the
institutions and the bindings of the citizens beside it. Voting time is kept as
blocks left. Which admins hold the voting role is chosen at creation as a
non-empty subset of the roster. Rosters of the fixed institutions change by the
institution's own proposal only (`ProposeAdminChange`, `ReplaceAdmins`), which
takes the exclusive lock of that institution; registrars are refused for them
(`runtime/src/configs.rs:1103-1110`). A call whose last step fails is rolled back
and so is no step.

## 3. Runs

State counts are those of the committed bounds.

| Run | Checks | States | Time |
|---|---|---|---|
| `engine_execution` | types, `MutexAccounting`, `LockLifetime`, `IndexesMatchStatus`, `PassedIsQueued`, `FailureNoticeOwed`, `CleanedUpOnce`, `CleanupFifoOrdered`, `PurgedLeavesNothing`, `ImplementsLifecycle` | 1 830 741 | 150 s |
| `engine_liveness` | `PassedEventuallySettles`, `ReachedIsHandled` | 464 672 | 125 s |
| `engine_stranded` | `OverdueWithinReach` is violated | | 5 s |
| `personal_account` | types, `VotesDecide`, `AccountStatesAgree`, `PendingRecordsLive`, `AdminChangeExclusive`, `DecidedByCurrentAdmins` | 205 404 | 30 s |
| `personal_snapshot` | `TransferOfCurrentAccount` is violated | | 20 s |
| `clearing_pallet` | types, `Solvent`, `BooksBalance`, `DepositAtOwnBank`, `NoticeGiven` | 470 264 | 120 s |
| `clearing_node` | `LedgerFollowsChain`, `AcknowledgedIsKept`, `NumbersContinue` | 2 286 237 | 175 s |
| `event_listener` | `NoRepeatedProcessing` is violated | | 2 s |
| `citizen_registry` | `BindingsClosed`, `AuthorisedOnce`, `RewardedOnce` | 136 771 | 15 s |
| `citizen_population` | types, `CountsExact`, `NeverFaults`, `ImplementsElectorate`, `ReadyAgain` | 274 086 | 70 s |
| `joint_vote` | `InstitutionsDecide`, `UnanimousOrReferendum`, `VerdictStands`, `TalliesCountCitizens`, `ActorKeepsAdmins`, `EventuallyDecided` | 91 101 | 10 s |
| `joint_ticket` | `OneTicketPerAdmin` is violated | | 15 s |

What they show:

- *Engine, execution.* Through every answer of a callback and every fault, a lock
  lasts exactly as long as its proposal may act, a passed proposal is always in a
  queue or in an open retry window that some later block closes, never in both, a
  refused failure notice is kept while its proposal exists (deletion does not wait for
  it), and all of this is one step of the abstract
  lifecycle at a time: in particular no proposal takes effect twice, although the
  hook and administrators both execute. However a proposal ends, its terminal side
  effects are applied once, and deletion leaves no entry behind that a hook does not
  drop by itself. Locks are counted exactly, and active lists and expiry index hold
  the undecided proposals, with a timeout budget of one.
- *Engine, liveness.* With less budget than overdue proposals, nothing stays passed if
  blocks keep coming, and every overdue proposal in a bucket the hook turns to is
  settled, deferred or reported, over however many blocks. A bucket it passes over is
  another matter (finding 1).
- *Personal account.* A vote is decided exactly when its tickets decide it; the
  pallets agree; deposits, marks and pending thresholds live as long as their
  proposal. Admins are replaced and accounts closed only by the admins of that
  moment, and an admin change has the account to itself, however late the
  executions come.
- *Clearing pallet.* At every point, also between two items of a batch, each
  reserve covers the deposits of its bank; the total of all money is constant and a
  bank's total is the sum of its customers' deposits; a rolled-back batch leaves
  nothing; a customer's deposit is at his own bank; a rate takes effect only after
  the delay since its latest announcement.
- *Clearing node.* Unless an event was lost, the confirmed balances in the ledger and
  the events on their way together are the deposits on the chain. A payment the node
  acknowledged and did not take back stays pending until it is settled, though its
  batch be refused, replaced in the pool or rolled back, its event late or lost, or a
  failing submission overlap with the listener. After a restart with a batch of the
  former run still in the pool the node's numbers are behind the chain's by one at most.
- *Event listener.* When a branch displaces the best one, a payment that both settle is
  handed to the ledger twice (finding 4).
- *Citizen registry.* Numbers and wallets stay one to one, seen from both indexes, no
  authorisation to move a number works twice, and neither a number nor a wallet is
  rewarded twice, in whatever order calls fall into a block.
- *Citizen population.* When the maintenance has caught up, the counts of country and
  town are the number of citizens eligible that day; a transition that came due after
  its identity changed does nothing; the fault that would stop the pallet for ever
  does not occur; the maintenance always catches up; a roll taken at a snapshot has
  the members and the total it had, whatever is written later.
- *Joint vote.* An institution's verdict is what its tickets decide, unanimity passes,
  anything else goes to the citizens; the referendum's verdict is what the votes
  demand, ties included, and the tallies it is judged by count each citizen of the roll
  who voted, once, though wallets change hands; the proposing institution keeps its admins while it is locked; and
  every proposal is decided in the end.

### Bounds

Engine: two proposals (three in `engine_liveness` and `engine_stranded`, where buckets
compete), one subject, five to nine blocks, every per-block budget one or two. Two proposals are
the fewest that compete for a lock, a bucket or a budget, and a budget of one makes
each loop carry work over. `MaxManualExecutionAttempts = 2` and a retry window of one
block are the smallest values with a retry that is not the last. `Retention = 1` in
`engine_execution` lets deletion catch up with the other queues, larger values
elsewhere keep it out. The real values (2048 entries per bucket, 3 attempts, 90 days)
differ in size only. `LastCreateBlock` stops creation so that the run has time to
finish what it began; `MaxBlock` is the horizon.

Personal account: three admins give sets of two and three and every legal
threshold; three proposals cover registration and two competing ones; four, in
`personal_snapshot`, cover closing and registering again. Admins other than the
creator are symmetric.

Clearing: two banks, two customers and one or two payment ids are the fewest with
payments inside a bank and between banks, a payment submitted twice and one
rejected in the middle of a batch. The amount 20 000 makes fees of 2 and 4 at rates
1 and 2. Initial balances are set so that each bound is reached: the reserve falls
short of a second payment, the fee account of a second on-chain fee, a wallet
exactly to the existential deposit. `RateDelay` stands for 1680 blocks and
`RateBudget` for 32; rates change in `clearing_pallet` only. `MaxSeq` and `MaxInbox`
bound the node's batches and the events on their way, `MaxFaults` the failed
submissions, lost events and restarts; the node's run has one of them, at any point of
any round, and two blocks, so that a payment expires. `Leaving` are the banks whose nodes
come and go: the other one. `TxId = {t1}` lets one id be signed again with another nonce
or expiry, which is the case to fear; more payments, faults and events on their way, and
so their order among each other, are left to the theorems. Five blocks give trees with
side branches as long as the best chain and longer.

Citizens: the registry run has one day, two numbers and three wallets (one always
free to move to) and three rebindings, enough to leave a wallet, have it taken over
and come back. The population run has three days and windows that begin and end on
different ones, two towns, two writes per citizen and budgets of one day and one
transition per block (366 and 2048 in the runtime), so that work is carried over.
`MaxCount` (the reward's cap) and `HighCount` are small so that both are reached.

Joint vote: two institutions with thresholds below their size stand for the 87 with
105 votes in all; three citizens, one of them admin of nothing, one spare wallet.
`MaxEvents` bounds rebindings, revocations and changes of rosters during the vote.
One is enough for everything but `OneTicketPerAdmin`, whose violation needs three.

### Fairness

- Engine: weak fairness of `NewBlock` and of `HookStep`: the chain keeps producing
  blocks, and a hook that has begun runs to its end, as it is one function call. No
  fairness is assumed of votes or of administrators. The liveness run has no faults:
  a Track or a callback that fails for ever leads to unlimited retries or a dead
  letter by design.
- Citizen population: weak fairness of the beginning of `on_idle` and of the block's
  end, strong fairness of a maintenance round: a block's idle time may be too short,
  but again and again it is long enough. No fairness of calls.
- Joint vote: weak fairness of `NextBlock` and of the two timeouts, which the engine's
  hook calls. No fairness of votes.

`CHECK_DEADLOCK FALSE` is set for the joint vote, which is over when its proposal is
decided, and for the listener, whose tree is finite.

### Mutants

Every property of a passing run has a mutant: a changed definition, kept beside the original with a
comment beginning with "Mutant", that stands for a plausible slip in that code and
violates the property.

## 4. Findings

1. **Skipped expiry buckets** (`engine_stranded`, `votingengine/src/lib.rs:709`). When the
   cursor's bucket is not finished, or has used up the count budget, the hook does
   not visit the bucket of its own block, and later hooks never return to it: the
   cursor holds one bucket. Its proposals are settled only if somebody calls
   `finalize_proposal`. The storage comments promise automatic settlement. With the
   real budget of 2048 per block this needs that many proposals to end together, or a
   weight budget that runs out earlier.
2. **Transfers that outlive their account** (`personal_snapshot`,
   `transaction/multisig/src/lib.rs:745`). A passed transfer is tied to its account by
   the address alone. Closing takes a shared lock, so open transfers do not prevent
   it; if the creator registers the same name again with other admins, a transfer
   approved by the former ones is executed from the new account. The comment on the
   check says that it proves the proposal to be one of the current account.
3. **Two tickets of one admin** (`joint_ticket`,
   `votingengine/joint-vote/src/jointinternal.rs:282`). Tickets are deduplicated by the
   account the present roster gives for the voter. When two admins exchange wallets
   and their institution seats them again, the account an admin resolves to is the
   other's place in the frozen snapshot, and he votes a second time. The comment says
   that an old and a new wallet never vote both. The joint proposal locks only the
   institution that proposed it, so the others may change their rosters meanwhile.
4. **Payments booked twice after a reorganisation** (`event_listener`,
   `node/src/transaction/offchain/settlement/listener.rs:153`). The listener hands the
   events of every new best block to the ledger, and `on_payment_settled` does not ask
   whether it has booked a payment before. When a branch displaces the best one, blocks
   of the old branch are not undone, those of the new one are applied only if they are
   announced as best, and a payment settled on both is booked twice. The comment at
   lines 151-152 says that the runtime's replay protection prevents repeated processing;
   that protection is part of the chain's state and a displaced block takes it along.

Further disagreements between comments and code, met while modelling, without a run
of their own:

- `transaction/offchain/src/fee_config.rs:68` compares a new rate with the larger of
  `MaxL2FeeRateBp` and the built-in maximum, and nothing looks at a rate again when it
  takes effect; the comment at line 39 says that rates stay within `MaxL2FeeRateBp`.
- `solvency.rs:5-6` promises that deposits can be withdrawn at any time, but
  `deposit.rs:99` transfers with `KeepAlive`, so the last existential deposit of a
  reserve stays. `solvency.rs:8-10` names solvency checks in `do_withdraw` and
  `do_deposit` that are not made there; the invariant holds without them.
- `solvency.rs:44` compares the reserve after a debit with the deposits before it, so a
  bank without funds of its own can settle nothing. This is stricter
  than needed: the accounts keep every bank's surplus by themselves (`BooksBalance`), so
  they stay solvent with and without the check, and no property is about it.
- Node, `packer.rs:228` and `267-271`: a failed submission does not take its batch number
  back, while lines 145 and 153 speak of continuing the chain's numbers; the node's
  batches are refused until it restarts. `packer.rs:15-16` says that taking back
  payments keeps the chain of nonces, but `ledger.rs:525` leaves later payments of the
  payer with nonces that do not follow. One bad item fails a batch as a whole, no event
  reports it, and the items are submitted again with every later batch.
- `ledger.rs:36` calls `pending_debit` what was accepted here and is not yet on the
  chain; lines 238-243 lower it for each settled payment of the payer, also one that
  another bank accepted. `ledger.rs:40` calls the
  cached nonce the chain's, but it is the last one accepted.
- `settlement/reserve.rs:110` builds another storage key than `lib.rs:163` of the pallet
  declares, so the monitor, which only logs, reads nothing.
- `settlement/listener.rs:161-163`: a block whose events cannot be read or decoded is
  logged and passed over for good; `reserve.rs` compares sums but repairs nothing.
- `misc/citizen-identity/src/lib.rs:1689`: revoking a CID is said to remove the
  candidate's profile; lines 1690-1701 leave that of an identity already revoked.
- `votingengine/src/snapshot.rs:3-5`: a frozen voter is said to keep his vote; an admin
  removed from the present roster, or seated again with another wallet, is not resolved
  any more, while the number of tickets needed stays.

## 5. Proofs

Eight modules hold the proofs; all obligations are discharged by SMT, Zenon and LS4.
Constants are assumed to be natural numbers or sets, with the relations the code
enforces and no more (the named `ASSUME`s in the modules that declare them). Where a
property counts or sums, the set counted over is assumed to be finite: admins,
customers, citizens, institutions, the subjects of role tickets and the rosters at the
start.

`DataLemmas`, `FoldLemmas` and `StoreLemmas` hold the lemmas about operators. The
library's induction theorems take an operator as a parameter, which the provers cannot
instantiate. Two arguments take their place. A statement about all subsets of a finite
set is proved by contradiction from a smallest set for which it fails
(`SmallestSubset`); sums and cardinalities in `DataLemmas` are treated this way. A
statement about folds is proved in a module whose `CONSTANTS` are the operator and a
relation (`FoldLemmas`), by a least position at which it fails; a component takes an
instance of that module for each of its folds.

### The engine (`EngineLifecycle`)

- **`EngineTypeOK`**: `TypeOK` is not inductive. The error branches of the execution and
  finalization loops read the queue entry of an item that was collected earlier, and the
  new entry is well typed only if the old one is still there. The invariant is
  `TypeOK /\ CollectedStillQueued`: no handler takes another proposal off the queue
  being worked through.
- **`LocksExact`** (`MutexAccounting`): the strengthening adds `FreshUnbound`, that a
  proposal not yet created holds no binding; without it an acquisition need not add a
  new holder and the count could run ahead. Every action is reduced to acquire, release
  or neither (`LockStep`).
- **`LocksLiveAsLongAsNeeded`, `NoticeNeverLost`, `NothingOutlivesProposal`,
  `SideEffectsOnce`** (`LockLifetime`, `FailureNoticeOwed`, `PurgedLeavesNothing`,
  `CleanedUpOnce`) come from one inductive invariant, `LocalInv`: for every proposal,
  `Local` relates its status to its bindings, its active list, its entry in every
  queue, its notice and its place in the deletion queues. Each action is shown to leave the records of
  all other proposals alone and to keep `Local` of its own, so the proof has one short
  case for each handler instead of one for each handler and property.
- **`EngineImplementsLifecycle`**: the refinement of `ProposalLifecycle`. The same case
  distinction says how a handler moves its proposal; `LocalInv` supplies that a deletion
  concerns a finished proposal.
- **`PassedNeverForgotten`** (`PassedIsQueued`): from `LocalInv` and `RegInv`, that every
  open retry window has its end registered in a bucket the hook has not passed. The
  bucket of the running block is taken over by the hook's worklist, entry by entry.
- **`RetentionInOrder`** (`CleanupFifoOrdered`): an entry is due a fixed time after the
  block that files it; `FifoInv` says that none is due later than the one a call would
  file now.
- **`IndexesAgree`** (`IndexesMatchStatus`): `IndexInv` says where an open proposal is filed and that the carried-over
  bucket is not of the future; `LimitInv` bounds the active lists.

### The personal account (`PersonalSafety`)

`PersonalInv` says of every proposal that its tickets fit its tally and status, that it
holds the lock of its role, and what it put aside; of every account that the pallets
agree; and that no two registrations of one address are under way. With types and locks it is inductive
(`PersonalInvariant`). From it follow `PersonalTypes`, `TicketsDecide`, `PalletsAgree`,
`NothingLeftAside`, `ChangeExclusive` and the action property
`OnlyCurrentAdminsDecide`: the exclusive lock keeps an admin change alone, so the snapshot its
voters were taken from is the account's admin set when it is executed; closing needs a
yes vote of all admins, and the same lock keeps that set from changing.

### Clearing (`ClearingSolvency`)

- **`PalletTypes`, `AlwaysSolvent`**: neither is inductive alone. A transfer leaves a
  natural number only because the reserve covers the deposit, and a rollback restores
  books saved earlier. `PalletInv` joins both with the solvency of the saved books.
- **`NoticeIsGiven`**: an action property, from `NoticeInv`: an open announcement falls
  due exactly one delay after it was made, or made again.
- **`DepositsStayHome`**: from `OwnBankInv`, which again says the same of the saved books.
- **`BooksAlwaysBalance`**: sums over all customers change by what is written, and a
  payment between two customers of one bank writes twice; the sum lemmas of `DataLemmas`
  carry each case. `BalanceInv` says the same of the saved books, and that nobody pays
  himself in what is left of a batch.
- **`LedgerAlwaysFollows`**: `LedgerInv` says that the ledger, after the events in the
  inbox, agrees with the books as of the last commit, and during a batch that after the
  events of its finished items too it agrees with the books in progress. The folds over
  events, rejected payments and retained payments are instances of `FoldLemmas`. A
  saturating subtraction hides nothing here since deposits are natural numbers.
- **`AcknowledgedAlwaysKept`**: that a payment leaves the pending list by its event only
  if it is settled needs to know of the events. `AckInv` says that the payment of every
  `PaymentSettled` under way has its mark on the chain as last committed, and that in a
  batch under way every finished item has its mark in the books in progress, which
  contain the saved ones (`MarksGrow`). The rollback of a failed submission is a fold of
  `reject_pending` over the copied batch; `FoldLemmas` gives that it removes payments of
  the batch only.
- **`NumbersAlwaysContinue`**: a restart takes the chain's number, but a batch of the
  former run may still be in the pool with a higher one. `SeqInv` says that there is one
  such batch at most, that its number is below the counter or the counter has caught up,
  and that a batch of this bank being executed has left the pool.

### Citizens (`CitizenLoop`)

- **`LoopClosed`, `AuthorisationsSpent`**: `LoopInv` adds that the register is finite (so
  that the count of active numbers is the cardinality it should be) and
  `RevisionsSpent`, that an authorisation used has an expected revision below the
  present one.
- **`RewardsOnce`**: `RewardInv` says that rewards queued and paid are about different
  numbers and wallets, which are all marked, and that queue and payments together stay
  below the limit.
- **`IdentityTypes`, `CountsAlwaysExact`, `MaintenanceNeverFaults`** (`TypeOK`,
  `CountsExact`, `NeverFaults`) depend on each other: a count stays a natural number only
  if nobody is taken out of it twice, a transition is applied to a citizen in the state
  it expects only if every earlier one was filed and applied, and what a call files
  depends on what is counted. `PopulationInv` joins them: identities and histories go
  together, and only an active number has an identity in force (`IdentityFits`); a
  transition of a present identity waits only on the day it starts or ends to count, and
  nothing is filed twice (`DayFits`); on a day the maintenance has not begun nothing is
  missing (`AllFiled`). A call that writes an identity files its transitions under a new
  revision, and those of the old revision are skipped when their day comes.
- **`PalletImplementsElectorate`**: the refinement of `Electorate`. Every call and every
  maintenance step changes the voters, takes a roll, binds a wallet, or does none of it.
  That a roll taken in the past still answers with the identities of its revision needs
  `HistoryInv` (the versions of a citizen are in the order of their revisions, each ends
  where the next one starts, and the last is the present identity) and the correctness
  of the binary search in `identity_at_revision` (`SearchFinds`): it is a recursive
  function on pairs of bounds; a closed form satisfies its equation, and two solutions
  cannot differ on a narrowest range.

### The joint vote (`JointVerdict`)

- **`VerdictCorrect`, `CitizensCountOnce`, `ProposerKeepsAdmins`**: `VerdictInv` relates
  tallies, stage and status, and knows that a roll is not empty; `VotesInv` says that
  the tallies are the numbers of stored votes for and against and that these are votes
  of members of the roll, a finite set, so that a new vote raises one of the numbers by
  one (`VoteCounted`); `LockInv` says that no institution both holds the joint proposal's
  lock and has a change of admins under way.
- **`DecisionsFollowTickets`, `OnlyUnanimous`**: `TicketsInv` says that snapshots and
  rosters are finite, that ticket counts are those of the snapshots and that tickets come
  from them; `DecideInv` joins it with the verdict. `UnanimousInv` says that the joint tally
  is the weight of the approvals, so that the last approval and only it reaches the
  threshold.

### Model-checked only

Liveness (`PassedEventuallySettles`, `ReachedIsHandled`, `ReadyAgain`,
`EventuallyDecided`): fairness and `ENABLED` are out of this prover's reach. Every other
property of a passing run is stated by a theorem. The findings are counterexamples of
TLC on small instances.

## 6. Plan

In order:

1. Proofs: the arithmetic of the referendum's thresholds and of fees against reference
   definitions; invariants of the components below as they are modelled.
2. `GrandpaKeyChange`: the scheduled change, its proofs and the node's two keys.
3. The legislation and election Tracks over `Electorate`.
4. `ProposalYear`: the calendar arithmetic of `id.rs` against a reference.

## 7. Not modelled

Most of the repository's lines are user interfaces and clients (`citizenapp`,
`citizenwallet`, `citizenweb`, `citizenserve`, `citizenchatserver`, `onchina`, the SDK),
vendored code (libp2p, the smoldot light client inside `src/citizensdk`), weights and
benchmarks. They hold no protocol state of the program's own, so the map covers a small
share of the repository's lines although it covers most of the protocol.

Of the runtime: block and interest issuance and the address registry and posts are
single calls on keyed records; the difficulty rule depends on real block times.
Legislation and election votes, the registration of institutions and the remaining
governance actions are further users of the engine; the engine's model already contains
every answer they give it. Inside modelled components: the display number of proposals,
the chunked deletion of joint ballots (a stage of the engine), signatures and expiry
windows of authorisations, calendar arithmetic, the node's key files, bootstrap and
reserve monitor, institutions' transfers.
