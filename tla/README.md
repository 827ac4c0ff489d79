# A TLA+ model of a Pocket node

This directory models the Pocket V1 node of this repository, and the key base
of its client, in TLA+. TLC checks the models on small instances, TLAPS proves
the most important properties for every value of the constants. `PROJECT.json`
lists the components, the runs, the definitions with the source lines they
translate, the hazards the properties are aimed at, and the theorems.

## 1. The system

A Pocket node is a set of modules on a bus. The event loop of `shared/node.go`
takes one envelope at a time off the bus and hands it to a module.

| part | state | operations that change it | modelled in |
|---|---|---|---|
| consensus: HotStuff handlers | height, round, step, leader, `m.block`, prepareQC, lockedQC, one message pool per step, unit of work | five leader and five replica handlers | `HotPOKT` |
| pacemaker | round timer | filter and catch-up, InterruptRound, NewHeight, RestartTimer | `HotPOKT`, `Node` |
| leader election | none | round robin over height, round and step | `HotPOKT` |
| event loop, bus, state machine, state sync | bus, FSM state, two channels, consensus mutex | handle an event, publish, send the next FSM event, answer requests | `Node` |
| database pool, RPC queries | connections in use | take and give back a connection | `Node` |
| persistence | SQL, block store, transaction index, state trees | genesis, write, ComputeStateHash, Commit, Release | `Persistence` |
| transaction mempool | FIFO set with counters | push, pop, remove, evict | `Mempool`, `Persistence` |
| unit of work (utility) | proposal, state hash, write context | propose, apply, commit, release | `HotPOKT`, `Persistence`, `Ledger` |
| ledger and sessions (utility) | accounts, pools, actors and parameters at each height | one handler per transaction message, end of block | `Ledger` |
| p2p | peer stores, RainTree view, nonces seen | broadcast, send, handle a stream, change peers at a new height | `Gossip` |
| key base (client) | key pairs by address | create, import, derive, update, delete, sign, export, get | `Keybase` |

What is hard here: messages of several rounds arrive in any order, late or
never; timers fire at any moment, in goroutines that do not take the consensus
mutex; a round can be interrupted between applying a block and committing it,
and the state trees keep what it wrote; storage is written in several
independent steps; every transaction of a block reads the block before; many
goroutines wait for one mutex, one bus and one pool of connections.

The modules meet where the code does. `HotPOKT` has many validators and the
unit of work as one record. `Persistence` opens that record up on one node, with
the rest of the network as its environment. `Ledger` looks at what the
transactions of that unit of work do, on a leader and on a replica. `Node`
drops what is decided and stored, and keeps who waits for whom.

## 2. Modules

| module | models |
|---|---|
| `HotPOKT` | consensus handlers, pacemaker, leader election, message pools and the unit of work of N validators on an asynchronous network |
| `HotPOKTSync`, `MCHotPOKTSync` | the same validators on a synchronous network, some of them stopped; fairness and liveness; who hears whom |
| `HotPOKTVotes`, `HotPOKTSafety` | proofs about `HotPOKT` |
| `Mempool` | the bounded FIFO set of transactions, as operators |
| `Persistence`, `MCPersistence` | the four stores of a node, the unit of work that writes them, clients, timer, crash and start |
| `BlockChain` | what persistence promises: an append-only chain of state hashes |
| `PersistenceProofs` | proofs about `Persistence` |
| `Ledger`, `MCLedger`, `LedgerProofs` | transactions, end of block and sessions, on a leader and a replica |
| `Node`, `MCNode`, `NodeProofs` | event loop, bus, state machine, mutex, connections, state sync, timer, RPC clients |
| `Gossip`, `MCGossip`, `GossipProofs`, `GossipTypes` | RainTree, background gossip, nonces and peers of N nodes |
| `KeybaseInterface` | what the `Keybase` interface promises |
| `Keybase`, `MCKeybase`, `KeybaseProofs` | its two implementations, and that they keep the promise |

### HotPOKT

Each variable is a function from validators to one field of `consensusModule`
(`height`, `round`, `step`, `leaderId`, `block`, `prepareQC`, `lockedQC`,
`pool` for `hotstuffMempool`, `uow` for `utilityUnitOfWork`), or to a store
behind it (`tree`, `committed`). `indexed` remembers the messages a leader has
pooled, `up` whether the process still runs, `msgs` every message sent.

An action is one call of `handleHotstuffMessage`, which holds the mutex of the
module, or one expiry of the round timer:

| action | code |
|---|---|
| `LeaderCollect` | any leader handler short of the threshold; `HandleDecideMessage` |
| `LeaderNewRound` | leader `HandleNewRoundMessage`: prepare or re-propose, apply, propose, vote |
| `LeaderPrepare`, `LeaderPreCommit` | make prepareQC or lockedQC, propose the next step, vote |
| `LeaderCommit` | broadcast Decide, commit, `NewHeight`; interrupt when there is no block or unit of work |
| `LeaderNoQC` | enough messages but not enough votes of this view: the pool is lost |
| `ReplicaNewRound` ... `ReplicaDecide` | the replica handlers with their error paths |
| `AnteHandleFails` | a refused message still moves the pacemaker |
| `Timeout` | `InterruptRound` by the timer |

The guard `ShouldHandle` is the pacemaker's `ShouldHandleMessage`,
`LeaderAfter` its catch-up together with `shouldElectNextLeader`.
`InterruptRound`, `CommitBlock` and `CommitAndNewHeight` are the shared tails.
A `log.Fatal` (the state hash does not match) and the two nil dereferences of
the replica handlers are `Exit`: the process stops.

Abstractions, and why they lose nothing that the properties tell apart:

- A block is what its header and transactions determine: height, proposer,
  transactions, state hash, and the view of the certificate in the header. The
  previous hash is determined by proposer and height.
- A state hash is the set of transactions whose rows are in the trees it is
  computed over. Each transaction writes rows of its own. Fees leave no mark:
  the rewards at the end of a block are computed from the fee pool as last
  committed, which is empty (`Ledger` models why).
- `tree` keeps the rows of interrupted rounds, as `stateTrees.Update` does:
  releasing a unit of work undoes the SQL transaction and not the trees. A block
  is applied only if the hash recomputed over the node's own trees is the
  proposed one (`AppliesTo`); otherwise the process exits.
- Applying a transaction a second time gives rows no other node computes, so
  `AppliesTo` is false (`NotYetApplied`). The mempool refuses what the index
  knows, and the index keeps what was applied in interrupted rounds (`InMempool`).
- A certificate keeps the signers whose signature is over its own block, the
  ones `validateQuorumCertificate` counts. Signatures cannot be forged.
- Every validator follows the code. The threshold comparison in floating point
  equals `3 * num > 2 * N` (it was compared for all N up to 200 000).
- `msgs` only grows: delivery at any time, in any order, or never. A validator
  pools a message once, since the p2p module drops nonces it has seen; replica
  handlers are not guarded so, which allows more than the network does.
- A timeout may happen at any moment, also right after a restart of the timer.
- `Loopback` says whether the network hands a node its own messages. RainTree
  does not (`sendInternal` returns early); the network of the consensus tests does.

Not in this module: debug (manual) mode, the byte limit of the pools, errors of
the database, validator sets that change with the height, and restarts, which
are in `Persistence` and `Node`: the trees of a restarted node are empty, so the
hash of the next proposal differs and it exits before it votes again.

### HotPOKTSync

The validators in `Live` run; the others stopped after sending the NewRound
message of round 0. Messages arrive in the order of their steps, and a timer
expires only when no live validator has a message left that it would handle:
the round timeout is longer than any delay, and timers run in step. Fairness is
weak fairness of handling and of expiry for each live validator: the event loop
never stops taking envelopes, and an armed timer expires.

### Mempool and Persistence

`sql`, `blockStore`, `slots`/`byHash` (the transaction index) and `trees` are the
four stores of `persistenceModule`; `uow` is the unit of work with its write
context, `client` the calls of `HandleTransaction` in progress, `boot` how far
the process has started. The first three survive the process; trees start empty.

| action | code |
|---|---|
| `SubmitCheckMempool`, `SubmitCheckIndex`, `SubmitAdd` | `HandleTransaction`: two checks and the insertion, with no lock around them |
| `RefreshUOW`, `ReleaseUOW` | `refreshUtilityUnitOfWork`, `ReleaseUtilityUnitOfWork` |
| `BeginProposal`, `ReapTx`, `EndProposal` | `CreateProposalBlock`, one step per transaction popped |
| `BeginApply`, `ApplyTx`, `EndApply` | `ApplyBlock`, one step per transaction; a wrong hash ends the process |
| `StoreBlock`, `CommitSQL` | the two writes of `PostgresContext.Commit` |
| `TimerReleasesUOW` | `InterruptRound` by the timer, outside the mutex, also between those two |
| `Crash` | the process ends |
| `Start`, `ClearBlockStore`, `PopulateGenesis`, `CommitGenesis` | `persistenceModule.Create` with `clearAllState` and `populateGenesisState` |

`Mempool` has the bounded set of `GenericFIFOSet` with the callbacks of the
transaction mempool, called with the element the code calls them with. A row is
the transaction that wrote it; a state hash is the set of rows in the trees.

`BlockChain` is the abstract specification: `AtomicStore` says that what
`GetBlock` serves up to the last height of SQL is such a chain.

### Ledger

`ledger` is the committed state: balances, pools, and for every actor and
parameter a table of rows by height, of which a read takes the last at or below
the height asked for, as the SQL queries do. `uow` has for the leader and for
the replica a working copy and how far it is. Reads go to the committed
ledger (`persistenceReadContext`), writes to the working copy.

| action | code |
|---|---|
| `ReapTx` | `reapMempool`: one transaction, kept or dropped |
| `ApplyTx` | `processProposalBlockTransactions`: one transaction of the block |
| `BeginEndBlock` | `endBlock` begins: proposer rewards, query of the actors to unbond |
| `UnbondActor` | one step of the walk of `unbondUnstakingActors`, in any order: it ranges over a Go map |
| `FinishEndBlock` | `beginUnstakingMaxPausedActors`; the replica gets the leader's block |
| `Commit` | the state hashes agree, and the working copy becomes the committed ledger |

`HandleTransaction` is validation, fee and `handleMessage`, which has one
operator per message handler (send, stake, edit stake, unstake, unpause, change
parameter). `GetSession` is a function of ledger, height and request. The
pseudo-random draw is some fixed choice for a set of candidates. A query of all
servicers looks up the chains of each at the height of the row it read last
(`ReadLast`). The fees of all messages are one parameter,
and all parameters have one owner. The genesis file may hold actors that are
paused or already unstaking. `paid` records when a stake was returned, for the
property about it.

### Node

Events are numbered as they reach the bus; `at[i]` is where the handler of event
`i` is: on the bus, waiting for the mutex, reading, publishing, done. What is
waited for is the mutex (`lock`), room on the bus, in `metadata` or in `blocks`, and a
connection (`reading`, two for `uow`, `leaked` ones that nobody gives back).

`TakeEvent`, `HandlerDone` and `Timeout` are the loop of `Node.Start`; after its
deadline of 30 s the loop goes on while the handler still runs. `Handle(i)` is one
step of a handler: lock and unlock, FSM transitions and their handlers,
HotStuff messages as far as they open a unit of work, store and commit, state
sync requests and responses, debug messages. `TimerFires` and `TimerBroadcasts`
are the goroutine of the round timer, `Request...` those of RPC clients,
`Receive` and `Restart` the outside. Heights are the primary key of the blocks in
SQL, which therefore refuses a block at a height it has. A height is an unsigned word: `height - 1`
at height 0 is the largest. What comes in is bounded by a load (`Loads`).

Fairness is weak fairness of `Progress` as a whole: the Go scheduler runs some
goroutine that can run, a connection or a message that is waited for is handed
over, and the deadline of the loop passes. Nothing is assumed of the round
timer, of clients or of other nodes.

### Gossip

A call is a goroutine that handles a message or a peer event, with where it
is; a message in flight is a call that has not begun. `Broadcast` and `Send`
start calls; `HandleStream`, `AddPeer`, `Forward`, `Check` and `Observe` are the steps of
`handleStream` and `handleRainTreeMsg`, among them the separate reads and
writes of the peer manager (`Measure`, `Assign`). `ReadSubscription` delivers from
the background topic, `NewHeight`, `HandleNewHeight` and `UpdatePeer` change the
peers, `Crash`, `Start` and `Lose` are faults. A network says who is staked at
each height and up to which height each node gets (`top`). View, levels and
targets are the functions of `p2p/raintree`, over addresses that are numbers;
places in the view are found by the bisection of `sort.Search`; the levels are
computed with integers, which equals the floating-point result up to 53 peers.
libp2p is external: a stream opens or not, and the topic may deliver any message
to anyone. Fairness: while some call can go on, one does; there are finitely many.
Nothing is assumed of the topic, of heights, or of a node that is down.

### Keybase

A process runs one command of `cli/keys.go`: open the key base, call one method,
stop. The methods of the Badger key base have their reads and writes in separate
transactions, but Badger locks its directory (`lock`); the methods of the vault key
base are separate requests that interleave with those of other processes, and
whose answers may be lost. `Kill` ends a process at any step. An address stands
for its key; a key pair is the key and the passphrase it is encrypted under, and
the ciphers are left out. `KeybaseInterface` is the abstract specification: every command takes
effect at once or not at all; a vault promises less (a passphrase that was right
once, a deletion overtaken by a write, a lost answer).

## 3. Runs

| run | instance | result |
|---|---|---|
| `hotpokt_rounds` | 3 validators, 1 transaction, 1 height, rounds 0 and 1, loopback | votes, certificates and views are safe, 24 404 states |
| `hotpokt_late_rounds` | 4 validators, 2 transactions, rounds 0 to 3, validator 1 cut off and Decide lost in round 0 | commits are certified, 18 996 states |
| `hotpokt_live` | 4 validators, the first leader stopped, rounds 0 and 1 | every live validator commits, 172 states |
| `hotpokt_own_votes` | as above with another validator stopped and no loopback | **violated**: three of four vote, nobody commits |
| `hotpokt_agreement` | 4 validators, rounds 0 to 5, messages lost | **violated**: two state hashes at one height |
| `hotpokt_empty_hash` | 4 validators, rounds 0 and 1, one proposal lost | **violated**: a block stored without a state hash |
| `hotpokt_one_leader` | as `hotpokt_rounds` | **violated**: two leaders in one round |
| `persistence` | 2 transactions, 1 client, heights 0 to 2, 2 crashes | the stores stay one chain, 1 054 542 states |
| `ledger` | 5 actors, 6 messages, blocks of at most 2, 4 heights | one state, no overdraft, stakes and sessions right, 85 904 states |
| `node` | 8 loads, bus of 2, 5 connections, channels of 1 | heights, answers, and what is waited for comes, 137 722 states |
| `gossip` | 5 networks of up to 4 nodes, 3 heights, 2 messages, 1 nonce remembered | no early repetition, views in order, the tree delivers, 202 575 states |
| `keybase` | 2 processes, 3 keys, 12 commands, file and vault | both keep the interface, 164 884 states |

What the properties say:

- `VoteOnce`: one vote per validator and view. `ViewNeverGoesBack`: the view of
  a validator only grows.
- `UniqueQC`: valid certificates of one view are for one block. `QCsInPlace`:
  the checks that `validateQuorumCertificate` leaves out are not needed.
- `CommitCertified`: a stored state hash has more than two thirds of the Commit
  votes of the round of its certificate. The stored hash comes from the unit of
  work and not from the block that was voted on, which makes this less than obvious.
- `AgreementInRound`: the agreement the code does guarantee. `Agreement` across
  rounds and `HashStored` (no block is stored without a hash), which it does not.
- `AllLiveCommit`, `QuorumCommits`: progress, when the network is timely.
- `ServedMatchesSQL`, `AtomicStore`: wherever the process ends between the two
  writes of a commit, or while genesis is written, block store and SQL are one
  chain that grows by whole blocks. `BlockHoldsApplied`: the index also has what
  interrupted rounds put there, and a stored block still begins with what was
  applied. `MempoolCounted`: the callbacks keep the count right.
- `SameState`: the replica accepts the leader's block and ends with the leader's
  ledger, whatever the leader dropped and in whatever order each walks the
  actors. `NoOverdraft`: although every transaction of a block checks the balance
  of the block before. `StakeReturnedWhenDue`: at the height the actor waited for
  and at no other. `SessionFixed`: a session whose first block is committed
  stays what it is, whatever is staked or changed meanwhile.
- `WorksAboveCommitted`: consensus works on the block after the last committed
  one, through failing commits, debug messages and restarts. `ServesCommitted`:
  state sync answers only with committed blocks, also at height 0. `EventsTaken`:
  the loop gets to every event. `LockReleased`: the consensus mutex is released
  unless leaked connections starve its holder (`Starved`) or it waits for a full
  channel (`Full`); both do happen, and are named so that nothing else does.
  `UnsyncedSyncs`: a node that is behind goes on to synchronise.
- `RepublishedOnlyAfterEviction`: a message that comes by several branches and by
  the topic is published once per place in the nonce memory. `ViewInOrder`: what
  streams and height events add and remove together leaves a view the targets
  can be computed from; a node that leaves the validators and comes back is left
  out (`ComesBack`, see section 4). `TreeDelivers`: whatever the
  order of the goroutines, the tree alone reaches everyone its targets cover
  (`Covered`), which is every validator at most sizes, but not at all (section 4).
- `OwnAddress`: a key pair is stored at its own address. `NothingLeftBehind`: a
  deletion leaves no older version of a secret. `ListingFailsOnlyAfterDelete`:
  the vault's `GetAll` fails only once something was deleted. `Implements`: both
  implementations refine `KeybaseInterface`.

Bounds of the consensus runs. Three validators need all three for a quorum, so
every quorum holds the leader; two rounds let stale messages, certificates and
votes of round 0 meet round 1; the one transaction lets proposals differ. No
block can differ between two nodes that both commit in so few rounds, which is
why the questions about commits have a run of their own: there a quorum commits
in one of the rounds 1 to 3, led by three different validators, over trees that
hold what round 0 left, while the leader of round 0 has committed already. With
one height the messages of height 2 are sent but not handled. Runs that stop at a
bound do not check for deadlock. `hotpokt_agreement` follows only some schedules
of the synchronous network (`InTurnSpec`): its counterexample has almost 80
steps. `LeaderNoQC` needs pools that survive a catch-up: TLC reaches it with N = 2
and rounds up to 3, a space too large for a regular run; the proofs cover it.

Bounds of the other runs.

- `persistence`: with room for one transaction in the mempool and two in
  existence, every push may evict; two heights above genesis let a block of an
  interrupted or crashed round be written over and then built upon; the second
  crash can hit the restart after the first. Both transactions have one byte: an
  instance with one and two bytes has 4.9 million states and passes too, in
  about four minutes.
- `ledger`: the messages meet each other in every order and in one block or in
  two: a payment of nearly everything and a stake from one account; unstaking
  and a change of its period; a session length that changes while an actor
  leaves; an actor paused at genesis that is unpaused or put out; one that was
  unstaking at genesis.
  Four heights hold a session, the next, and the return of a stake.
- `node`: each load brings together what can wait for each other: a decision
  and the timer; a crash in a decision, also of the first block; a late node
  asked at height 0; one response more than a channel takes; a reset to genesis; a
  block decided at height 0, which SQL refuses; clients that take, keep and lose connections. The code's bus, pool and channels are
  larger; full is reached here with fewer steps. Five connections are one more
  than consensus ever holds at a time.
- `gossip`: a tree of two levels; two nodes with more messages than nonces
  remembered, and a fault; a validator that leaves while another joins; a tree
  that gets a level; a validator that leaves and comes back. The last three have a
  message under way meanwhile.
- `keybase`: every operation with a right and a wrong passphrase, on a key that
  two processes change and delete and write again, a child with and without a
  hint, an index out of range. Two versions of the contended secret are enough
  for a deletion to miss one. The processes are symmetric. Deadlock is checked.

## 4. Findings

1. *A leader's own vote is lost in production* (`hotpokt_own_votes`). The
   handlers send the leader's vote through the network; RainTree drops
   messages to oneself. With four validators all four have to be up.
2. *Different blocks can be committed at one height* (`hotpokt_agreement`).
   The certificate that a NewRound message carries is always from an earlier
   round, and `isPrepareQCFromPast` makes the leader ignore every such one. What
   still holds the validators together is that `m.block` survives a round and
   `anteHandle` refuses every other hash; but a leader replaces its own
   `m.block`, and after three interrupted rounds all three that have not
   committed have done so. The lock does not help: `validateProposal` compares
   it with the certificate of the message and not with the proposed block.
3. *A block is stored without a state hash* (`hotpokt_empty_hash`). A replica
   that misses the Prepare proposal of a round but has an equal block from the
   round before commits a unit of work in which nothing was applied.
4. *Two leaders in one round* (`hotpokt_one_leader`), because the election
   uses the step of the message that triggered it.

What else the code does that a reader of the models should know; no run is
about these, since they either follow from reading or are promised by nobody:

- Reads within a block see the block before. The second payment of a block from or to
  an account replaces the first, and fees are deducted and never reach anyone:
  the total supply is not conserved. A stake can be returned more than once when
  its actor is unstaked again; an unstaking period of 0 blocks never ends; an
  actor that stays paused has its unstaking height moved at every block.
- One paused or unstaking servicer makes every session of its height fail.
- An interrupted round loses the transactions its leader took from the mempool.
- The byte counter of the mempool drifts when an evicted transaction differs in
  size from the pushed one (`generic_fifo_set.go:63`). Its default limit,
  `1024 ^ 3` in `defaults.go:47`, is 1027 in Go.
- `SyncMode` has no way out, as nothing reads the channels of the state sync; a
  response that does not fit waits for ever with the consensus mutex held.
- `PostV1QueryUpgrade` and `calculateMessageFeeForActor` never give their
  connection back.
- Rounding makes the tree leave validators out at some sizes, which then depend
  on the background topic. Up to 27, the largest network that
  `p2p/module_raintree_test.go` simulates, these are 8, 17, 19, 20 and 22 to 26
  (`LeftOut` of `MCGossip`, which TLC evaluates); the test has none of them.
- A node that is staked after it started has no staked router and ends when it
  uses it.
- Whether a node is staked is asked of the present height, but its peers of the
  height of the event (`p2p/event_handler.go:27-33`). A validator that left and
  came back may handle the event in between when it is staked again: it takes
  itself for a peer that left and then for one that joined, and goes to the end
  of its view a second time, where `peers_view.go:28` has it first and the rest
  sorted.
- After a deletion the vault's `GetAll` fails until that key is stored again. A
  child given a passphrase but no hint is stored without one. `--new_pwd` is
  bound to the variable of `--pwd` (`cli/utils.go:202`).

## 5. Proofs

### Consensus

Assumptions: `N` is a positive natural number, `Loopback` a Boolean, `Nil` is
neither a block nor a certificate. Nothing is assumed of `Txs`, `MaxHeight` and
`MaxRound`: the bounds are only guards.

`HotPOKTVotes` proves `Spec => []TypeOK` and `Spec => ViewNeverGoesBack`. The
lemmas `...Forward` say for each handler that the view grows and that the only
new vote is for the view just left (replica) or entered (leader). Its second part
says for each handler what it does to the validator's own pools, unit of work and certificates
(`LocalInv`), that it leaves the others alone (`Others`), and which
certificates it issues (`CertStep`).

`HotPOKTSafety` proves `Spec => []IInv`, where `IInv` adds to the properties
what makes them inductive:

- `VotesAreCast`: a validator that voted in a view has left it, or leads it.
  With it the next vote cannot repeat a view, which gives `VoteOnce`.
- `ProposalsJustified`: proposals of the last three steps carry the certificate
  of the step before, of their own view and block: `QCsInPlace`.
- `QCsBacked`, `PoolSent`: certificates are made of votes that were cast.
- `PoolMatchesBlock`, `UOWMatchesBlock`: pooled Commit votes and an applied unit
  of work have the state hash of `m.block`. Together they give
  `CommitCertified` for the leader, which never validates its own certificate.

`UniqueQC` and `AgreementInRound` follow: two sets of more than two thirds of
the validators intersect (by cardinalities of finite sets), and the validator
in both voted once.

The proof modules say `USE Zenon`: most leaves need no arithmetic, and this
prover settles them much faster. A leaf that does need it cites `SMT`.

### Persistence

Assumptions: the limits are natural numbers, `Word` is positive, a transaction
has a size from 1 to `Word`, `Genesis` is no transaction and `Nil` no block
(`LimitsAssumption`, `SizeAssumption`, `PersistenceAssumption`, `NilAssumption`).

`PersistenceProofs` proves `TypeOK`, `ServedMatchesSQL`, `BlockHoldsApplied`,
`MempoolCounted` and the refinement `Spec => AtomicStore`, for any transactions,
clients, heights and crashes.
`ServedMatchesSQL` alone is not inductive: the commit of SQL adds a height, at
which the block store must already have the right block. `IInv` adds `UowInv` (a
unit of work exists only in a process that is up and above genesis, and once its
block is stored the block store has its hash at the height that SQL lacks) and
`BootInv` (while genesis is written again SQL is empty). For the refinement every
step leaves `Served` alone, except `CommitSQL`, which appends one hash to it.

`BlockHoldsApplied` speaks of heights that SQL has, so `HoldsInv` follows a block
from the moment its first transaction is applied: what the index has at the
height under construction begins with what the unit of work has applied, since
each transaction goes to the next place and so over those of an interrupted round;
the stored block is read from the index, and SQL gets what was applied.
`MempoolCounted` compares a counter with a number of different transactions. It
needs `Counted`: the queue has nothing twice, is as long as the counter says and
no longer than its limit, so that a push evicts at most one.

### Ledger

Assumptions: the constants have their types, the genesis state is well formed,
and messages name addresses, actors and parameters that exist. The proposer's
cut is at most 100 and a session at least one block, at genesis and in every
message that sets them: the handler of a parameter change checks neither, and
the code divides by the second (`LedgerAssumption`, `MsgsAssumption`).

`LedgerProofs` proves `NoOverdraft`, `TypeOK`, `StakeReturnedWhenDue`,
`SessionFixed` and `SameState`, each with what it needs added to the one before.

- `NoOverdraft`, `TypeOK`. Every handler writes a balance computed from the
  committed balance it has checked, and never from the working copy. `IInv` says
  that the committed ledger and both working copies are `Sound`: balances are
  natural numbers, every parameter has a row at genesis so that a read finds one,
  the proposer's cut is at most 100 and the fee pool not negative, so that the
  rewards are not negative; and that a working copy has a row wherever the
  committed ledger has one (`Covers`), so that unbonding finds its actor.
- `StakeReturnedWhenDue`. `History` adds that a committed ledger has rows of the
  past only, and that a working copy differs from it at its own height only. So
  whether an actor is due at a height is settled once the block below is
  committed, and `PaidInv` says of the heights below that what was due was paid and
  nothing else, and of the block under construction that an actor is paid or
  still in the leader's walk.
- `SessionFixed`. A session is computed from rows at or below its own height,
  where by `History` no later block writes. The step to show is that a commit
  leaves every read at those heights alone, parameters, actors and their chains.
- `SameState`. The two nodes have the same transactions to apply, but walk the
  actors to unbond in different orders. `SameInv` says that there is one
  sequence of ledgers, one per transaction of the block, that both follow, and one
  table of ledgers, indexed by sets of actors, that returning the stakes of a set
  leads to in any order; both walks are in that table. That it exists rests on the
  return of two stakes commuting, although both may go to one account, and on an
  induction over the size of the set.

### Node

Assumptions: the sizes of bus and channels are positive and there are at least
four connections; heights fit into the word; there are finitely many clients;
what comes in has the form of a message, and no decision is for a height above the
bound (`NodeAssumption`, `LoadsAssumption`).

`NodeProofs` proves `TypeOK`, `WorksAboveCommitted` and the action property
`ServesCommitted`, for any loads, sizes and clients. `TypeOK` includes that bus,
channels and pool stay within their limits, for which the waiting handlers and
clients have to be counted. After the deadline of the loop several handlers run
together, so the invariant is about all of them (`HandlersInv`): those between
the lock and the unlock are one at a time; a handler that stores or commits
a block is still at the height its message was compared with; and nobody has a
unit of work between the release of one and the next. `StoreInv` says that a node
at height 0 has stored no block but genesis; with it a request answered at height
0, where `height - 1` is the largest word, still gets only what is committed.

### Gossip

Assumption: `GossipAssumption` (types of the constants, at least one nonce is
remembered).

`GossipProofs` proves `RepublishedOnlyAfterEviction` and `ViewInOrder`, and
`GossipTypes` proves `TypeOK`, for any nodes, networks, heights and capacity.

- `RepublishedOnlyAfterEviction`. `DedupInv` says that the deduper of a node has
  the nonces published last, in their order, and all of them while there is room;
  a call gets to publish only in the step that finds its nonce missing and pushes
  it; and calls that only change peers never publish (`CallsOK`). A crash empties
  both.
- `ViewInOrder`. First come the operators. `Search` of a condition that becomes
  true once finds where (`SearchFinds`: the halves are the recursive function, and
  any function that satisfies its equation has the value that is claimed, by
  the length of the interval); a finite set of addresses can be sorted
  (`SortedExists`); and the place that the two searches around the point of the
  wrap give is one where inserting keeps the order, and where an address that is in
  the view is found (`IndexPlace`, `AddInOrder`, `RemoveInOrder`, `SortAddrsInOrder`).
  All of them need that the node itself is not the address that is added or removed,
  and that is what `ViewsInv` is about. A stream from oneself is from a known peer; an
  update never has the node among the peers that join or leave. The latter is so
  because the node was staked before every height it has yet to hear of
  (`StakedBefore`): if it is staked now and not at the height of the event, it has left
  and come back, which `ViewInOrder` excludes. `OneUpdate` counts the calls: a peer
  is removed by one call at a time, so that no second one finds it gone.
- `TypeOK`. It is also about the nodes that `ViewInOrder` leaves out: in a view
  that is not in order the condition of a search may change more than once, so
  what is needed is that bisection ends within the list for any condition
  (`FurtherBisects`, `BisectsExists`, `SearchInList`). Levels are the number of powers
  of three below the size, and a larger size has no fewer (`MaxLevelsGrow`, which
  needs only that the order is transitive). `TypesInv` adds what calls carry between
  two steps: one that has measured the levels and not yet assigned them has them
  packed with the level of its message, and both can be taken out again
  (`PackedLevels`, `UnpackedLevels`); the peers that an update has yet to add or
  remove are nodes.

### Key base

Assumption: `KeybaseAssumption` (types of the constants, `None` is none of them).

`KeybaseProofs` proves `TypeOK`, `OwnAddress`, `NothingLeftBehind`,
`ListingFailsOnlyAfterDelete` and the refinement `Spec => Implements`, for any processes, keys, passphrases and
commands. `IndInv` adds to `TypeOK` and `OwnAddress`:

- `Locked`: a process that works on a file key base holds the lock on its
  directory, so nobody else changes it between its check and its write;
- `Checked`: a busy process has its command and no answer yet, and one that has
  passed the check of the passphrase has the key, in an entry that still opens
  with that passphrase (file) or once did (vault).

With `Checked` a write of the file key base is one step `Perform` of the
interface, and a write of the vault is one of what the interface allows when
processes share it. Killing a process maps to a failed command or to a stutter.

For `ListingFailsOnlyAfterDelete`, `ListInv` says of a process in `GetAll` that every
secret it has still to read has a version, and that a version is destroyed once
the listing has failed. Other processes write between the listing and the reads,
but no version goes away and none that is destroyed comes back.

### Only model-checked

- Liveness (`AllLiveCommit`, `QuorumCommits`, `EventsTaken`, `LockReleased`,
  `UnsyncedSyncs`, `TreeDelivers`): fairness is out of the prover's reach.
- At which sizes the tree is complete (`LeftOut`): a recursive function, evaluated
  for each size.
- The four counterexamples.

## 6. Not modelled, and why

- *Relays and servicers.* `validateRelayChainSupport` looks the servicer up by
  the hex of an address that is hex already, so no relay is admitted, and what
  counts and stores relays behind it are stubs: no change of state is reachable.
- *Fisherman and validator modules, save points, block synchronisation.* Stubs.
- *Burning validators* (`validator.go`): nothing calls it with a validator, as
  `prevBlockByzantineValidators` returns none.
- *IBC.* Paths and conversions of proofs for a host without state of its own.
- *RPC responses, client commands other than keys, configuration, telemetry,
  logging, build tools.* Sequential input and output. What a request takes from
  the node is in `Node`, what a transaction does in `Persistence` and `Ledger`.
- *P2P bootstrap through RPC.* Called only when the peer store of a staked node
  is empty, which does not happen.
- *Debug key base.* Unpacks an embedded backup, in debug builds only.
- *The manual mode of the pacemaker*, which the debug client drives.
- *Data races of two goroutines on one field of consensus.* The timer is a
  process of its own in `Node` and `Persistence`, with whole assignments as steps.
- *The Merkle trees, Badger, Postgres, libp2p and the vault* are external, and
  modelled by how the code uses them; errors of the database are left out.
- *The byte limit of the consensus message pools* (500 MB), and *validator sets
  that change with the height* in `HotPOKT`.
- *Timers out of step in the liveness runs.* A validator that catches up to a
  round through a NewRound message never broadcasts its own; nothing in the code
  bounds how far apart validators drift, and no doc promises progress there.
