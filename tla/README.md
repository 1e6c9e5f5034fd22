# A TLA+ verification project for hotmint

hotmint is a BFT state-machine-replication engine in Rust: a two-phase HotStuff-2
protocol with weighted validators, epochs, durable consensus state, block sync,
a mempool, staking, a light client and an ABCI bridge. This directory holds TLA+
modules translated from its source, TLC configurations that check them on small
instances, and TLAPS proofs that hold for every instance.

All source paths are relative to the repository's root; `engine.rs`,
`view_protocol.rs`, `commit.rs`, `state.rs` are in `crates/hotmint-consensus/src`.

## 1. Inventory

| component | state | operations | talks to | what makes it correct |
|---|---|---|---|---|
| view protocol (`view_protocol.rs`, `state.rs`, `leader.rs`) | current view, step, role, `locked_qc`, `highest_qc`, `highest_double_cert`, last votes | `enter_view`, `propose`, `on_proposal`, `on_votes_collected`, `on_prepare`, `check_and_record_vote` | network, block store, persistence, application | no conflicting commits; no double signing; votes respect the lock over restarts |
| consensus engine (`engine.rs`) | the above, vote collector, pacemaker, pending/previous epoch, WAL handle | `run`, `handle_message` (8 message kinds), `handle_timeout`, `on_qc_formed`, `on_double_cert_formed`, `advance_view_to`, `persist_state` | everything | what is sent is durable first; failures of one step leave a safe state; views only rise |
| commit (`commit.rs`) | committed height, app hash | `try_commit`, `execute_committed_block`, `chained_pending_epoch` | store, application | the committed chain only grows and never forks |
| vote collector (`vote_collector.rs`) | votes per (view, type, block) | `add_vote`, `clear_view`, `prune_before` | engine | a quorum is over distinct validators; equivocation is reported once seen |
| pacemaker (`pacemaker.rs`) | wishes per view, relayed certificates, backoff | `build_wish`, `add_wish`, `should_relay_tc`, `on_timeout` | engine | a timeout certificate carries the highest certificate of its signers |
| durable state (`hotmint-storage/consensus_state.rs`), WAL (`wal.rs`) | the saved fields; intent/done records | `save_*`, `flush`, `log_commit_intent`, `log_commit_done`, recovery check | engine, `bin/node.rs` | a restart never forgets a vote, a lock or a commit |
| block store (`block_store.rs`, `store.rs`) | blocks by hash, index by height, commit certificates | `put_block`, `put_commit_qc`, range reads | engine, sync | a committed height names the committed block |
| validator set, epochs (`hotmint-types`) | members with power, start view | `quorum_threshold`, `leader_for_view`, `try_apply_updates` | all | quorums overlap in honest power; everyone agrees on the set of a view |
| block sync (`sync.rs`, `bin/node.rs`) | replay position | `sync_to_tip`, `replay_blocks`, reconnect watcher | store, application | replay reaches the state of live replicas |
| evidence, liveness tracker | proofs, pending and committed; missed commits | `put_evidence`, `mark_committed`, `record_commit`, `reset` | engine, application | evidence is included once |
| mempool | priority order, hash set, gas | `add_tx`, `collect_payload`, `recheck` | RPC, proposer | bounded, consistent indexes |
| light client | trusted height, hash, set | `verify_header`, `update_validator_set` | users | only certified headers are trusted |
| staking | validators, delegations, unbondings | register, delegate, undelegate, slash, unjail, ... | application | stake is conserved; updates match it |
| network service (`hotmint-network/service.rs`) | connection slots, open streams, routes to validators, memory of relayed messages, queues | one arm of `run`'s `select!` per event and command, `handle_epoch_change` | transport, engine, pool, sync | slots and streams are for admitted peers; a validator is reached at its current key; nothing is flooded twice |
| application interface, ABCI (`hotmint-abci`) | one connection, retried calls | `call`, `call_once`, `dispatch` | engine, pool | a block is executed once; an answer belongs to its call |
| RPC, management | shared reads, processes | `submit_tx`, `verify_header`, queries | outside | mostly I/O |

Hard behaviours: the engine is one event loop per node, so the concurrency is
between nodes (messages lost, repeated, reordered and relayed, a Byzantine
leader, timeouts that race with late certificates) and between a node and its
own crashes (several durable writes per handler). Epochs change the quorum under
running views. Beside the engine run the reconnect watcher, which writes the same
block store, the network service, whose events of connections and of streams
come over different channels, the gossip task and the RPC server, which judge
transactions over the connection the engine executes blocks on, and the rechecks
of the pool. `PROJECT.json` lists each hazard at its line.

## 2. Modules

* **`HotStuff2`** - the engine within one epoch. One action per handler:

  | action | code |
  |---|---|
  | `BootGenesis`, `BootResume` | `run`, `enter_genesis_view`, the restore in `bin/node.rs` |
  | `Crash`, `CrashInPrepare`, `CrashInQCFormed` | a crash between handlers, and between the Vote2 record and the save of the lock |
  | `OnUnusableProposal`, `RejectProposal`, `AcceptProposal` | the `Propose` arm of `handle_message` with `on_proposal` |
  | `FastForward` | the same arm for a proposal of a faulty validator that does not lead its view: commit and view change come before the check of the leader |
  | `OnQCFormed` | `VoteMsg` completing a quorum, `on_qc_formed`, `on_votes_collected` |
  | `OnPrepare`, `IgnorePrepare` | the `Prepare` arm, `on_prepare` |
  | `OnDoubleCertFormed` | `Vote2Msg` completing a quorum, `on_double_cert_formed` |
  | `Timeout`, `OnTimeoutCert`, `OnStatusCert` | `handle_timeout`; the `Wish`, `TimeoutCert` and `StatusCert` arms |

  `AdvanceViewTo`, `EnterView`, `TryPropose`, `Propose` and `SelfVote` are the
  functions of the same name that these call.
* **`HotStuff2Inv`** - the inductive invariant.
* **`Ledger`** - the abstract promise: committed chains only grow and are
  prefixes of one another. `HotStuff2!Chain` instantiates it with `chain <- tip`.
* **`ValidatorSet`** - quorum threshold, leader rotation, updates, as operators;
  `MCHotStuff2` takes its quorums and leaders from it.
* **`ValidatorUpdates`** - the validator set as lists of updates change it.
* **`Node`** - one node around the protocol: what the engine does with a commit
  (log, execution block by block, store, checkpoint), startup sync, the reconnect
  watcher, crashes at and inside every step, restarts. It is composed of
  * **`BlockStore`** - blocks, index by height, certificates, results;
  * **`CommitWal`** - the log's records, torn tails, the check at start-up;
  * **`Epochs`** - activation and chaining of epochs on each of the three paths
    (entering a view, a batch, a replay), and what the chain alone determines;
  * **`Ipc`** - what a call of the application can come to: applied or not, once
    or twice, answered or not, with an answer left on the connection.
* **`Staking`** - the staking manager, one action per method, and the epochs that
  its updates lead to (it uses `ValidatorSet`).
* **`Evidence`** - vote handlers, evidence gossip, evidence store, embedding and
  marking, and the liveness tracker, of one node.
* **`Pacemaker`** - timeouts, wishes, timeout certificates and their relay at
  several replicas over an epoch boundary, with fairness.
* **`Network`** - the service of one node and the transport as it sees it.
* **`Mempool`** - the pool as operators on a value.
* **`Transactions`** - composes `Network`, `Mempool` and `Ipc`: gossip, `submit_tx`,
  commits and rechecks.
* **`Vectors`** - the one operation on vectors of the standard library that the
  operators on sequences do not have in a form that can be proved about.
* **`Recursion`** - induction and recursion over sets instead of predicates, and
  what the sums and folds of the community modules compute; lemmas only.
* **`HotStuff2Proofs`**, **`ValidatorProofs`**, **`NodeProofs`**, **`StakingProofs`**,
  **`EvidenceProofs`**, **`PacemakerProofs`**, **`TransactionsProofs`** (which has the
  theorems on `Network` too) - the theorems, each module on the component it is
  named after.
* **`MC...`** - instances for TLC.

| module | actions and their code |
|---|---|
| `Node` | `PastProposal`, `CurrentProposal`, `AdvanceViewTo`: `handle_message`, `advance_view_to`. `ApplyCommit`, `LogIntent`, `TryCommit`, `ExecuteLive`, `ProcessCommitResult`, `PersistState`, `LogCommitDone`, `TruncateWal`: the stages of a live commit, between any two of which the process may end; `ExecuteNext` executes a block and publishes it (`on_commit`). `RefuseLive`: `try_commit` fails on the updates of a block it has executed. `SyncStore`, `SyncRejected`, `RefuseSync`, `SyncExecute`, `StartEngine`: `replay_blocks`, its failures before and after an execution, and `bin/node.rs`. `WatchStart` ... `WatchEnd`: the watcher. `Crash`, `CrashInWal`, `CrashInPersist`, `Panic`, `Restart` |
| `Staking` | `Register`, `Unregister`, `Delegate`, `Undelegate`, `ProcessUnbonding`, `Slash`, `Unjail`, `RewardProposer`, and `EndBlock`, which asks for updates, applies them (or loses them, when the set would be invalid) and activates what is due |
| `Evidence` | `OnVote`, `OnVote2`, `OnEvidence`: arms of `handle_message`. `Commit`: `adopt_commit_epoch` and `process_commit_result`. `AdvanceView`, `AdvanceEpoch`: `advance_view_to`. `Crash`; then `SyncCommit`, which marks nothing, and `StartEngine` |
| `Pacemaker` | `HandleTimeout`, `OnWish`, `OnTimeoutCert`; `OnPrepare` (a replica gets the first certificate of its view and sends its Vote2), `OnDoubleCertFormed` (at any replica that has this certificate); `OnPropose`, `OnFaultyPropose` (fast-forward by the proposal of the view's leader, and of any faulty replica) |
| `Network` | `Connect`, `Disconnect`, `ValidateSubstream` (transport); `ConnectionEstablished`, `ConnectionClosed`, `StreamOpened`, `StreamClosed`, `OnNotification`, `OnRequest`, `OnSyncRequest`, `Broadcast`, `AnnounceEpoch`, `HandleEpochChange`; `EngineReceive` and `SyncRespond` empty its queues |
| `Transactions` | `OnGossip`, `JudgeGossip`, `AddGossiped`; `SubmitTx`, `AddSubmitted`; `OnCommit`, `BeginRecheck`, `EndRecheck`; `ValidateBlock` |

### How the engine's data is abstracted

* A block is its hash; the tree of well-formed blocks is a constant. Blocks that
  fail the checks of hash, height, timestamp, evidence or application are not in
  it: every honest replica refuses them alike.
* A certificate is named by its block. Honest replicas vote for a block in its
  own view only, so the certificate's view is the block's. `Genesis` stands for
  `None`: the code treats no certificate and the genesis certificate (view 0)
  alike.
* `app_hash` is named by the block whose execution produced it; the application
  is deterministic and tracks the hash (`tracks_app_hash`).
* Messages are the sets of everything sent. Delivery is never, late, repeated or
  in any order. A quorum of votes or wishes is "a quorum of those sent": the
  buckets of the collectors only restrict this. Timeout certificates are implied
  by wishes.
* Byzantine replicas hold every certificate that honest votes and their own
  signatures make possible. They wish and report with any of them, and send a
  prepare for any block of a view they lead. They propose the blocks of the tree
  of views they lead, and pass on those of honest leaders, with any double
  certificate that exists and with all ancestors of the block or none. A proposal
  of a view that the signer does not lead passes `verify_message` too; all it does
  is the fast-forward (`FastForward`), for any later view and double certificate.
* Vote2 messages reach any replica, not only the next leader: the network relays
  them (`service.rs`, `relay_consensus`, on by default) and the handler does not
  look at its own role.
* A leader does not receive its own proposals: its step refuses them, and what
  they would store is in its store already.
* The block store and the committed height survive a crash, and a commit is one
  step: `Node` is about crashes inside a commit.
* `LockedGenesisRestart` says whether a replica that holds a lock may crash while
  its view is 1. The code allows it; see section 4.

### How the other modules abstract

* `Node`: consensus is the environment; it gives double certificates to one branch
  of a constant tree (that this is so is what `HotStuff2` shows), while proposals
  and first-phase certificates of other branches arrive too. An epoch is its
  number, first view and the blocks whose updates it contains. The application is
  the list of blocks it executed, each with the epoch it was told. vsdb writes
  survive a crash or not (`store' \in {store, disk}`) unless they were flushed.
  A peer answers the startup sync and the watcher with any block of the tree whose
  first-phase certificate is of the epoch of the replay and which extends the block
  the index holds: that is all `replay_blocks` asks for. `strayed` records that such
  a block was not on the committed branch. Other answers change nothing. The updates
  of any block that carries some may fail to apply (`RefuseLive`, `RefuseSync`);
  `refusals` counts the live commits that ended so.
* `Staking`: amounts are small numbers against `MaxPower`, the saturation of the
  code's integers. Views stand for heights. The sorted list of candidates is given
  by their ranks. When a block's updates would give an invalid set, its commit fails
  after the execution: the updates are lost.
* `Evidence`: a vote is genuine if its signer is faulty or it is for the block a
  correct validator votes for. A certificate's signers are any quorum of its
  epoch among `Signers`. A commit may make a later epoch current within a view.
  Between a crash and the start of the engine blocks are replayed, with any proofs
  of two genuine signatures in them.
* `Pacemaker`: no time; a timer may fire at any moment. A replica may get the first
  certificate of its view (`OnPrepare`) or not, and any quorum of the Vote2s sent,
  completed by the faulty replicas' own, or none. An epoch is a function of the
  view. `Prepares`, `FaultyWishes` and `FaultyProposals` bound who gets what.
* `Network`: a peer is its key. Budgets, rate limits and full queues are losses. The
  epochs announced to it are those that `advance_view_to` activates: an epoch that
  a commit activates is announced to nobody.
* `Transactions`: the application's verdict depends on its state only, which a
  commit changes. Sizes and gas are small numbers.

## 3. Runs

All TLC runs finish with 2 workers in under five minutes. `CHECK_DEADLOCK FALSE`
in all of them but `validator_updates`: named bounds on views, crashes, faults or
arrivals make the bounded systems stop.

| run | instance | checks |
|---|---|---|
| `four` | `n1`, `n2`, `n3` with power 6 each and Byzantine `z` with power 5, which leads every view; two conflicting blocks of views 1 and 2; views up to 3; one crash; symmetry of the honest validators | `Agreement` |
| `pair` | `n1` (power 2), `n2`, `z`, leading views 1, 2, 3; a complete tree for the proposals up to view 2 and blocks of view 3 for the Byzantine leader; one crash at any point | `NoDoubleSign`, `OneCertificatePerView`, `CommitsNeverConflict`, `LockCoversVote2`, `IndInv`, `ImplementsLedger` |
| `resume` | `n1` leads views 1 and 2, `n2` view 3; the complete tree up to view 3; wishes up to view 2; one crash | `VotingSafetyRule` |
| `restart` | as `resume`, and restarts in view 1 with a lock allowed | `Agreement`, violated |
| `validator_updates` | three ids, three keys, powers 0, 1, 2, 3, 5 against `MaxPower` 9, lists of up to two updates, until nothing new is reached | `TypeOK`, `QuorumsShareHonestPower`, `HonestPowerSuffices`, `RotationIsProportional` |
| `node` | a branch of three blocks with updates in the first and the last one, and two rivals, which have certificates too; views up to 7; two crashes; one commit refused after its execution; peers serve any of the blocks | `AppFollowsChain`, `CheckpointMatchesApp`, `TipIsCommitted`, `StoreCoversCheckpoint`, `HeadersExtendChain`, `EpochsFollowChain`, `TypeOK` |
| `epoch_view` | a line of three blocks, updates in the first two | `EpochsAgree`, violated |
| `staking` | two validators, two delegators, three tokens, one piece of evidence, two slash rates, three views | `StakeIsConserved`, `DelegationsAddUp`, `UnbondingStaysSlashable`, `UpdatesReachFormalList`, `TypeOK` |
| `evidence` | five validators, one faulty, who leaves with the second epoch so that positions shift; two views, of which the node leads one; three sets of signers; two commits between resets; any replays after one crash | `NoFalseAccusation`, `OffenceIsKept`, `ReportedIsDone`, `SignersAreOnline`, `TypeOK` |
| `pacemaker` | four replicas, one faulty, which leads the first view of an epoch, helps two replicas into views by its wishes and one by a proposal with an old certificate; wishes and timeout certificates do not get from replica 1 to replica 3 or back; either view may succeed at two replicas; views up to 3 | `ViewsAreEarned`, `ViewsAdvance`, `TypeOK` |
| `stranded` | a correct replica leads the first view of the epoch; the view before it succeeds at that replica and another; the faulty one votes and is silent otherwise, no link is broken; views up to 4 | `ViewsAdvance`, violated |
| `network` | four configurations: churn around one slot over three epochs that rotate and exchange keys; relaying with a memory of one; a pool of two with three transactions, three states of the application and a failing call; requests for blocks and messages | `RoutesMatchSet`, `SlotsAreForValidators`, `StreamsAreAdmitted`, `NoEchoFlood`, `PoolIsCurrent`, `PayloadIsGreedy`, `TxLeavesForAReason`, `TypeOK` |

What the runs outside the engine show. `node`: as long as peers serve committed
blocks and no commit is refused after its execution (`Undisturbed`), through every
order of live commits, replays, watcher writes, crashes and lost answers the
application executes the committed branch once and in order (`AppFollowsChain`), a
node that is up has a checkpoint of exactly what was executed
(`CheckpointMatchesApp`), nothing durable is behind it (`StoreCoversCheckpoint`; the
results may be the defaults of a watcher), the index keeps to the committed block
at the committed height (`TipIsCommitted`), `verify_header` and the sync responder
keep to it at the published height except while a batch is executed
(`HeadersExtendChain`), and epochs are those the chain determines
(`EpochsFollowChain`) except in two further cases its statement names: the one of
`epoch_view`, and a crash between the writes of one checkpoint. The steps that end
`Undisturbed` are in the model, since the code has them; what is lost after them is
in section 4, as are the lower heights, of which nothing is claimed. The constraint
`Explored` cuts off crashes, and views after the last block, after such a step, where
only `TypeOK` is at stake.
`evidence`: an offence is not proposed again once a block that the engine committed
carried it; one that only replayed blocks carried may be (`replayed`).
`pacemaker`: no set of replicas below a quorum carries a replica into a view, but for
the fast-forward, where a faulty proposal with some double certificate names the view
(`ViewsAreEarned`); and views go on (`ViewsAdvance`) unless a replica stays for good
in a view that neither a proposal of its leader nor a timeout certificate calls the
others to. Both ways to such a view are in the run: a double certificate formed by a
replica that does not lead the next view, while its leader is silent, and a faulty
proposal. `stranded` shows that the views may stop although the leader does propose.
`PoolIsCurrent` and `TxLeavesForAReason` hold while no answer was taken for that
of another call, and the first one names the gap between a verdict and the
insertion (`late`). `SignersAreOnline` holds while no certificate of another epoch
was counted, nor one whose commit activated an epoch (`misread`).

Why the bounds suffice: a fork needs two conflicting blocks of different views
with a double certificate each, which three views give; a vote against a lock
needs a lock in one view and a proposal in a later one, with a crash between
them; the overflow of the power sum needs three validators at most. The honest
validators of `four` are interchangeable: they have the same power and none of
them leads a view up to `MaxView + 1`.
`node` needs a batch of two blocks across an epoch, a block after it, a rival at
a committed height, and a second crash during the recovery from the first.
`staking` needs two delegators of one validator, of whom one unbonds while the
validator is slashed, and a removal. `network` needs one more peer than there are
slots, one more message than the memory holds, one more transaction than the
pool. `pacemaker` needs a view before and a view after the boundary, and two
replicas that, with the faulty one, make a view succeed. `evidence` needs votes in a
view that survive the activation of an epoch by a commit, and a proof that is kept
while a replayed block carries it.
A proposal outside the tree is not explored; the trees of `pair` and `resume`
have every block honest leaders can propose within `MaxProposeView`. What the
bounds leave out is what the proofs cover.

Fairness is assumed in `Pacemaker` only. `WF(HandleTimeout(n))`: the event loop
arms a deadline in every view and the backoff is capped, so a timer fires again
as long as its replica stays in the view. `WF(Receive(n))`: a wish that its sender
keeps repeating arrives in the end (`handle_timeout` broadcasts it with every
expiry); certificates and proposals are sent once and arrive over links that are
not broken. Nothing makes a view succeed, a Vote2 reach anybody but its sender, or a
faulty replica speak.

Every property has a mutant: an operator `X_...` next to the definition it
replaces, with a fault that the code could plausibly have.

## 4. Findings

### A restart in view 1 forgets the highest certificate (`restart`)

`run` calls `enter_genesis_view` whenever the restored view is at most 1. It sets
`highest_qc` to the genesis certificate (`engine.rs:378`) although a replica can
have locked a block of view 1 before it crashed, and the lock is restored. The
leader path (`propose`, `leader_self_vote`) extends `highest_qc` and never
compares it with the lock. The run `restart` shows the consequence with one
faulty validator: `n1` helps to double-certify the block of view 1, crashes and
restarts in view 1; a timeout certificate brings it to view 2, where it leads,
proposes a block on Genesis and votes for it; both blocks are committed. This
contradicts INV-CS1 (`docs/ai/patterns/consensus.md:20-23`),
`docs/storage.md:199` and the claim of `README.md:121` that the locking rule
prevents conflicting commits. The other runs of `HotStuff2` and the theorems
marked below assume that no replica crashes in view 1 with a lock.

### Nodes may be in different epochs in one view (`epoch_view`)

Updates of a block of view v announce an epoch that starts in view v+2; updates
of the next block, of view v+1, replace it by one that starts in v+3. A node that
enters view v+2 before it commits the second block has activated the first epoch
(`engine.rs:1985`); the others have not and never will. It executes the block of
view v+2 under an epoch that no other node was in. `engine.rs:1983`,
`commit.rs:138` and `docs/application.md:84` say that every node switches at the
same view.

### A leader alone in a new epoch stops the views (`stranded`)

The leader of the first view of an epoch forms the double certificate of the view
before it and enters the epoch, alone or with others that formed it. A replica left
behind cannot verify its proposal: `verification_epochs` knows the current and the
previous epoch, not the next. It times out and wishes for the view the leader is in;
those who are there never wished for it and wish for the next view, which is beyond
its horizon (`engine.rs:1398`). With one silent replica there is a quorum for neither, and
repetition changes nothing. No message is lost and one fault is tolerated;
`docs/protocol.md:93` says the pacemaker ensures liveness. Within an epoch the
proposal of the leader would bring the others along; there the same happens only
if the proposal is lost.

### Observations without a run

* A commit of several blocks pins its last block only (`engine.rs:1175-1186`). At
  the lower heights of the batch the index and the certificate may be those of a
  sibling that was never committed. The sync responder serves it with its
  first-phase certificate, and RPC clients get it as committed block.
* `replay_blocks` accepts such a sibling (`sync.rs:424-441`), executes it at start-up
  and pins it; the watcher pins it beside the running engine. After that the
  application has executed a block that consensus did not commit, or the conflict
  check of `try_commit` turns the committed branch away. `Node` has these steps
  (`strayed`), and its properties stop at them; `docs/application.md:161` says
  `execute_block` is called once per committed block.
* A retry that fails leaves the connection as it is (`hotmint-abci/client.rs:82-93`);
  an answer that comes after the deadline is then read by the next call.
  `Transactions` has this (`unread`, `crossed`).
* `try_commit` may fail after the application has executed a block, on updates that
  give an invalid set (`commit.rs:187-201`). `apply_commit` warns and closes the
  intent: the application is a block ahead of the node and will be asked to execute
  it again; the earlier blocks of the batch stay committed without results,
  certificate and epochs. `Node` has this too (`RefuseLive`), and `refusals` ends its
  promises. A comment of the staking manager (`manager.rs:524-526`) expects consensus
  to treat such updates as fatal.
* `on_commit` publishes each block of a batch before the batch is pinned: until then
  `verify_header` and the watcher read a height whose index may still be a rival's.
* Default results written by the watcher stay if they come before the check of the
  replay, and replace real ones if the engine writes between the check and the write.
* A replica that forms a double certificate enters the next view on its own if the
  leader of that view does not form it, or drops the quorum for want of the Prepare
  (`engine.rs:1672`); nobody calls the others there. If those that remain are no
  quorum without it, the views stop even within an epoch. A single faulty proposal
  with an old double certificate does the same to one replica (`engine.rs:1132`).
* An epoch that a commit activates (`adopt_commit_epoch`) clears neither the vote
  collector nor the liveness tracker, and is not announced to the network service;
  `advance_view_to` does all three.
* `adopt_commit_epoch`, for a batch that activates two epochs, keeps the epoch
  before the batch as the previous one. Sync never uses the previous epoch.
* Staking computes updates against the active set, consensus applies them to the
  pending one: `UpdatesReachFormalList` is stated for blocks with no epoch in
  flight. Updates in every block push the epoch's start back each time.
* `StakingConfig::validate` (`types.rs:116-132`) admits a minimum self stake of 0. A
  candidate without stake is then in the formal list, and its update of power 0
  removes it from the set; if all candidates are such, the list is not empty, the
  guard of `manager.rs:516` against an empty set does not apply and the set
  becomes empty. `UpdatesReachFormalList` is therefore about the members with power,
  and about all of them when the minimum is positive.
* A proof that arrives after it was committed is stored again, and the same proof
  may be in two blocks; sync does not mark evidence as committed, so the node
  proposes again what replayed blocks have carried (`replayed` of `Evidence`).
* A validator refused or evicted before it was one, or whose stream opened before
  its connection was admitted, gets no stream until it connects again
  (`service.rs:588`).
* A transaction that met a full pool or a failing call stays in the memory of
  gossip; a recheck while the application is away empties the pool.

## 5. Proofs

`tlapm M.tla` checks the proofs of module `M`; `TransactionsProofs` and `NodeProofs`
take a few minutes, the others less. Nothing bounds the number of replicas, blocks, peers,
transactions, views or crashes: the bounds of the models are constants that may
have any value.

### Theorems

Each states, for every value of the constants, a property that a run checks on an
instance; `BaseInvariant` and `CertifiedViewsGrow` state facts of the engine that
other results rest on. Those marked with a star need `~LockedGenesisRestart`.

| module | theorem | states |
|---|---|---|
| `HotStuff2Proofs` | `TypeCorrect` | `TypeOK` |
| | `BaseInvariant` | certificates in use exist, vote records bound the votes |
| | `NoEquivocation` | `NoDoubleSign` |
| | `OneBlockPerView` | `OneCertificatePerView` |
| | `LockCovers` | `LockCoversVote2` |
| | `Invariant` * | `IndInv` |
| | `VotingSafety` * | `VotingSafetyRule` |
| | `NoFork` * | `Agreement` |
| | `CommitsExtend` * | `CommitsNeverConflict` |
| | `EngineIsLedger` * | `ImplementsLedger` |
| | `CertifiedViewsGrow` | a certified block is of a later view than the one it extends |
| `ValidatorProofs` | `ValidatorTypeCorrect` | `TypeOK` |
| | `QuorumsIntersectHonestly` | `QuorumsShareHonestPower` |
| | `HonestAreQuorum` | `HonestPowerSuffices` |
| | `LeadersRotateByPower` | `RotationIsProportional` |
| `NodeProofs` | `NodeTypeCorrect` | `TypeOK` |
| | `ExecutedOnceInOrder` | `AppFollowsChain` |
| | `CheckpointIsExact` | `CheckpointMatchesApp` |
| | `CommittedTipStays` | `TipIsCommitted` |
| | `CheckpointIsCovered` | `StoreCoversCheckpoint` |
| | `HeadersAreSound` | `HeadersExtendChain` |
| | `EpochsAreTheChains` | `EpochsFollowChain` |
| `StakingProofs` | `StakingTypeCorrect` | `TypeOK` |
| | `TokensAreConserved` | `StakeIsConserved` |
| | `PowerIsBacked` | `DelegationsAddUp` |
| | `UnbondingCanBeSlashed` | `UnbondingStaysSlashable` |
| | `UpdatesReachTheList` | `UpdatesReachFormalList` (an action property) |
| `EvidenceProofs` | `EvidenceTypeCorrect` | `TypeOK` |
| | `AccusationsAreTrue` | `NoFalseAccusation` |
| | `OffencesSurvive` | `OffenceIsKept` |
| | `ReportedOnce` | `ReportedIsDone` |
| | `SignersStayOnline` | `SignersAreOnline` |
| `PacemakerProofs` | `PacemakerTypeCorrect` | `TypeOK` |
| | `ViewChangesAreEarned` | `ViewsAreEarned` |
| `TransactionsProofs` | `TransactionsTypeCorrect` | `TypeOK` |
| | `RoutesFollowSets` | `RoutesMatchSet` |
| | `SlotsGoToValidators` | `SlotsAreForValidators` |
| | `StreamsNeedAdmission` | `StreamsAreAdmitted` |
| | `MessagesDoNotEcho` | `NoEchoFlood` |
| | `PoolStaysCurrent` | `PoolIsCurrent` |
| | `PayloadsAreGreedy` | `PayloadIsGreedy` |
| | `LeavesForAReason` | `TxLeavesForAReason` (an action property) |

### Assumptions

They are the named `ASSUME`s of the modules, which TLC evaluates on every run.

* `HotStuff2`: two quorums share an honest replica and a superset of a quorum is a
  quorum (`QuorumAssumption`; `QuorumsIntersectHonestly` proves that the code's
  threshold gives this while faulty power is at most `max_faulty_power`), the block
  tree is a tree (`BlockAssumption`), and the bounds are numbers
  (`BoundAssumption`).
* `Node`: the blocks are a tree with heights (`BlockAssumption`), the committed
  branch is that of some block of it, and a block with updates is not genesis.
  `BranchAssumption`, which only `EpochsAreTheChains` needs, says of the committed
  branch what the engine guarantees: views increase along it (within an epoch this
  is `CertifiedViewsGrow`; from one epoch to the next it is assumed), and no
  certificate names an epoch before its first view (a vote names the voter's
  `current_epoch`, and an epoch becomes current only from its `start_view` on,
  `commit.rs:143`, `engine.rs:1984`).
* `ValidatorUpdates`: the genesis set passes the checks of `ValidatorSet::try_new`
  and lists nobody without power. The code does not check the last part; it is up
  to who writes the genesis file.
* `Staking`: slash rates are at most 10000 basis points (`StakingConfig::validate`),
  the validators of genesis have at least the minimum stake.
* `Evidence`, `Pacemaker`: constants have their types; validators are finitely many.
* `Network`: peers are finitely many, the ids and keys within one validator set are
  distinct (`try_from_parts` refuses others), and the peers the node is configured
  with are validators of genesis (`parse_persistent_peers` refuses others).
* `Mempool`, `Transactions`: hashes order transactions, the application's answers
  are numbers.

### Recursion and sums

The library's induction theorems take a predicate, which the provers cannot
instantiate. `Recursion` states them over sets instead: a set of numbers that has 0
and with n also n + 1 has all of them; a set of subsets that has {} and is closed
under adding an element has every finite one. A fact to be proved for every n is
then the set of the n it holds for. From these follow the recursion equations of
the functions that `FoldSet`, `FoldLeft` and `SumFunctionOnSet` are defined by, and
the lemmas the other proofs cite: a sum over a union, after an update, by columns
of a table, of differences (which telescope), of what `retain` leaves.

### The argument, engine

`Agreement` is not inductive: it says nothing of certificates that
are about to be committed. `IndInv` adds

1. *evidence* (`HeldEvidence`, `SentEvidence`): every certificate a replica
   holds, sends or commits by is backed by votes;
2. *records* (`VoteRecords`): the durable last votes bound what was ever signed,
   and no record is of a later view than the replica's, so a guard that compares
   with the record prevents double signing over restarts;
3. *locks* (`LockCoversVote2`, `HighestCoversLock`): the lock covers every Vote2
   sent, and `highest_qc` covers the lock in memory and on disk. This is what
   makes a leader respect a lock it never checks, and what the restart of
   section 4 breaks;
4. *choice* (`ChosenIsExtended`): a block is choosable while a quorum has sent
   its Vote2 or not left its view. A replica with a Vote2 for a choosable block
   votes later only for its descendants.

Choosable can only become false (views rise, and a replica past a view sends no
Vote2 of it), so the last part is preserved by every step but a vote; a voted
block's parent is certified in a view at least that of the lock, the quorum that
certified it shares an honest replica with the quorum that chose, and by
induction over views the parent descends from the chosen block. Two blocks
with double certificates are therefore on one chain, which gives `Agreement`,
`CommitsNeverConflict` and the refinement. The proof has one lemma that
summarises what a step may do (views rise; at most one vote is added, under the
guards), proved action by action, and the argument above works from it.

`CertifiedViewsGrow` is not a consequence of a guard: `on_proposal` checks the
certificate of the parent and the lock, never that the block's view is above the
certificate's. A Byzantine leader can propose a block of an earlier view than its
parent and get votes for it, from replicas that did not vote for the parent. The
invariant (`ParentsBlock`) is that before the first such vote a quorum has voted for
the parent, and that those in it have a record of that view and refuse the block
for good, over restarts; a quorum for the block would need one of them.

### The argument, other components

*Validator set.* `ValidatorInv` adds to the types what `try_new` checks: distinct
ids and keys, and a total within the width. Sums of power over disjoint sets then
add up, and the threshold floor(2n/3)+1 gives both overlap and sufficiency. For the
rotation, the slots of a validator are the interval of its cumulative power, and a
window of total length meets each residue once.

*Node.* What is proved is that an undisturbed node has `NodeInv`, in every reachable
state (`Undisturbed` only becomes false, so that it holds before every step after
which it holds). None of the properties is inductive: they speak of moments between
commits. `NodeInv` says at each stage of a commit or a replay what log, checkpoint,
memory and application have in common: the checkpoint lags only between an
execution and its end (`CheckpointIsClose`); while it may lag the log holds the
intent and nothing else (`LogIsOpen`); when the process is down, either the
application is where the checkpoint is or an intent above the checkpoint is open,
and then the node does not start (`ExecutionsAreKnown`); the height of the
checkpoint, and the one about to become it, is covered by blocks and results and
pinned by a certificate both in the store and on the disk (`StoreIsSafe`), so
that a crash that loses unflushed writes cannot undo it. A pinned height keeps its
block under `put_block`, and as long as no peer strays no certificate of another block
of that height is stored over it. What is published is the height of the last
execution, which is the committed height unless a commit was refused. A refusal in a
replay leaves the intent open, and the node halts: it disturbs nothing.

For the epochs `EpochsInv` says of checkpoint, memory and the batch in hand that each
is as the chain determines at its height (`AsChain`), or ahead of it by the
activation of the pending epoch by a view (`Ahead`), and then no block of the branch
that is still to come brings updates before that epoch starts. `EpochsFollowChain`
alone is not inductive: it does not say that a node that went ahead meets the chain
again at the block that activates the epoch, nor anything of the middle of a batch.
`BranchAssumption` is used twice: since views increase, a block is never below the
first view of the epoch the chain determines for it, so that a live commit, which
falls back to the previous epoch for blocks below the first view of the current one,
does so only when the node is ahead, and then rightly; and a node that is ahead
replays no such block, since its certificate names another epoch.

*Staking.* `StakingInv` joins conservation and backing with the types: sums of own
stake, stake entries and queue change by what an operation moves. The parts of a
delegated slash are differences of rounded cumulative shares; they telescope to
the whole, and none exceeds its entry. That a validator with unbondings stays
needs that an account without a key is empty (`Tidy`). `UpdatesReachFormalList` rests
on `SetsInv`, one entry for each id in the sets of consensus: a list of updates with
distinct ids then acts on a set as on a function from ids, whatever the order, by
induction over the list (`Updating`); and the rank of a candidate is a bijection to
1..n, so that the formal list has each of its members once. It is stated for updates
that consensus accepts; in the instance of the run it accepts all that are computed
with no epoch in flight.

*Evidence.* `EvidenceInv`: votes in the collector are signed, the store on the disk
is the store in memory (every write is flushed before anything else), what is done
is what was reported by blocks that the engine committed, and what was detected is on
the list or done. Votes in the collector may be of an earlier epoch than the current
one, never of a later one: a commit that activates an epoch leaves them there. A
validator that signed everything has missed nothing, in any set, as long as no
certificate was counted by the positions of another epoch's set.

*Pacemaker.* What a node has collected from a correct replica that replica has
sent, and a certificate on its way stands for a quorum of wishes (`Backed`); both are
needed since a relayed certificate carries a node without any wish of its own. A view
that is earned stays so, since wishes sent and Vote2s sent only grow (`EarningLasts`);
the views that correct leaders propose in are earned, so that following a proposal
needs no new reason, and a faulty proposal is followed on a double certificate only.

*Network.* `AdmissionInv`: streams and slots, with what the unread events of the
transport can tell. `EchoInv`: the two sets of the memory are the messages of two
adjacent stretches at the end of what was sent, and the older one, unless it is
empty at the start, has more than `DedupLimit` of them; so a message in neither is
far enough back. `RouteInv`: the two maps are partial injections inverse to each
other under `insert` and `remove`; after the members of a set are inserted one by
one, each is routed to its key, since a later insertion disturbs only a route with
the same id or key and there is none; the others are then removed.

*Transactions.* `TxInv`: the pool's index, entries and order agree (`Filed`); a
recheck that runs with none waiting began in the current state
(`RecheckFollows`), so what it leaves was judged in it. The entries are rechecked
in the order of the pool by a fold; a lemma says what every run of it has
answered, by induction over its steps. The payload is a fold too: by induction over
the pool in order of priority (`Greedy`) what `Collect` has taken after n entries
adds up to the bytes and gas it has counted, fits, and is all that fitted.

### Only model-checked

* `ViewsAdvance`: liveness under fairness is out of the prover's reach.
* The three runs with a violation: what they refute is not there to be proved.

## 6. Not modelled

Not modelled:

* Signatures, hashes and encodings (assumed ideal); sockets; metrics; rate limits
  and budgets (they are losses); time and backoff.
* Blocks unrelated to a proposal that a faulty validator attaches to it as ancestors
  (`engine.rs:1112-1128`): they are stored like blocks of proposals that were not
  accepted, below the committed height not at all.
* Vote extensions: they travel with Vote2 and influence no state of the engine.
* The peer book, peer exchange and the maintenance that redials (`peer.rs`,
  `pex.rs`, part of `service.rs`): nothing in the repository sends an
  advertisement or otherwise adds a peer to the book, so among such nodes it
  stays empty.
* Sync by snapshots: a node always falls back to the replay of blocks.
* RPC reads, HTTP and WebSocket servers, the management crate, examples and the
  cluster tools: I/O around state that is modelled.
* A stand-alone light client: `verify_header` is modelled as the RPC server uses it.
* Progress of commits after stabilisation: a matter of timers.
