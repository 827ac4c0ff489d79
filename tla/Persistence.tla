----------------------------- MODULE Persistence -----------------------------
(***************************************************************************)
(* What one validator stores, and how a block gets there: the SQL database,*)
(* the block store, the transaction index and the state trees of the       *)
(* persistence module, the unit of work that consensus writes them through,*)
(* and the mempool that clients fill meanwhile.  The four stores are       *)
(* written one after the other.  The process may end between any two       *)
(* writes, and starts again from what is on disk; the round timer may      *)
(* release the unit of work while a handler is using it.                   *)
(*                                                                         *)
(* The rest of the network is the environment: it proposes blocks, has the *)
(* state hash of a validator that never restarted nor interrupted a round, *)
(* and certifies only blocks with that hash.                               *)
(***************************************************************************)
EXTENDS Mempool, FiniteSets

CONSTANTS
    Clients,        \* goroutines that submit transactions
    MaxTxBytes,     \* largest block a leader makes
    MaxHeight,      \* bound: heights that are committed
    MaxCrashes,     \* bound: times the process ends
    Genesis,        \* the rows of the genesis file
    Nil

VARIABLES
    sql,            \* committed SQL state: the block of height h at h + 1
    blockStore,     \* what StoreBlock wrote last at each height
    slots,          \* transaction index: by height and place in the block
    byHash,         \* transaction index: by hash
    trees,          \* rows in the state trees
    mempool,
    uow,            \* the unit of work and its write context
    client,         \* HandleTransaction calls in progress
    boot,           \* how far the process has started
    crashes

disk   == <<sql, blockStore, slots, byHash>>
vars   == <<disk, trees, mempool, uow, client, boot, crashes>>

ASSUME PersistenceAssumption ==
    /\ MaxHeight \in Nat /\ MaxCrashes \in Nat /\ MaxTxBytes \in Nat
    /\ Genesis \notin Txs

Heights == 0 .. MaxHeight
Hashes  == SUBSET (Txs \cup {Genesis})
Block   == [txs : Seq(Txs), hash : Hashes \cup {Nil}]

ASSUME NilAssumption == Nil \notin Block

\* `todo' is what is left of a proposed block, `done' what the open SQL
\* transaction has applied; `expect' is the hash in the proposal.
UnitOfWork ==
    [stage : {"fresh", "reaping", "applying", "applied", "stored"},
     todo : Seq(Txs), done : Seq(Txs), bytes : Nat,
     expect : Hashes, hash : Hashes \cup {Nil}]

FreshUOW == [stage |-> "fresh", todo |-> <<>>, done |-> <<>>, bytes |-> 0,
             expect |-> {}, hash |-> Nil]

Idle == [pc |-> "idle", tx |-> Nil]

Up == boot = "up"

\* The height consensus works on.
height == Len(sql)

InHandler == uow # Nil /\ uow.stage \in {"reaping", "applying", "stored"}

\* Every row of the committed state.
State == {Genesis} \cup UNION {TxsIn(sql[i].txs) : i \in DOMAIN sql}

\* Mutant: the place in the block is taken to be the end of the index.
IndexAtEnd(t, i) ==
    /\ byHash' = byHash \cup {t}
    /\ slots' = [slots EXCEPT ![height] = Append(@, t)]

\* Index puts the transaction at its place in the block of this height; the
\* entries that a longer block of an interrupted round left stay behind it.
IndexTransaction(t, i) ==
    /\ byHash' = byHash \cup {t}
    /\ slots' = [slots EXCEPT ![height] =
                   IF i <= Len(@) THEN [@ EXCEPT ![i] = t] ELSE Append(@, t)]

\* What the queries of the trees find at this height: the rows that the open
\* SQL transaction wrote, and every transaction that is indexed at it.
RowsAtHeight(done) == TxsIn(done) \cup TxsIn(slots[height])

\* The leaves of the trees are set one by one, and none is removed.
Upsert(rows) == trees \cup rows

\* ComputeStateHash
TreesAfter(done) == Upsert(RowsAtHeight(done))

\* New trees do not read the root that their node stores had.
EmptyTrees == {}

-----------------------------------------------------------------------------
(* Clients: HandleTransaction of the utility module *)

SubmitCheckMempool(c, t) ==
    /\ Up /\ client[c].pc = "idle"
    /\ ~ Contains(mempool, t)
    /\ client' = [client EXCEPT ![c] = [pc |-> "index", tx |-> t]]
    /\ UNCHANGED <<disk, trees, mempool, uow, boot, crashes>>

\* TransactionExists
SubmitCheckIndex(c) ==
    /\ Up /\ client[c].pc = "index"
    /\ client' = [client EXCEPT ![c] =
                    IF @.tx \in byHash THEN Idle ELSE [@ EXCEPT !.pc = "add"]]
    /\ UNCHANGED <<disk, trees, mempool, uow, boot, crashes>>

SubmitAdd(c) ==
    /\ Up /\ client[c].pc = "add"
    /\ mempool' = AddTx(mempool, client[c].tx)
    /\ client' = [client EXCEPT ![c] = Idle]
    /\ UNCHANGED <<disk, trees, uow, boot, crashes>>

-----------------------------------------------------------------------------
(* The unit of work *)

\* refreshUtilityUnitOfWork, at the NewRound messages of a round: what the
\* previous one wrote to SQL is rolled back.
RefreshUOW ==
    /\ Up /\ ~ InHandler /\ 1 <= height /\ height <= MaxHeight
    /\ uow' = FreshUOW
    /\ UNCHANGED <<disk, trees, mempool, client, boot, crashes>>

\* The round is interrupted between two messages.
ReleaseUOW ==
    /\ Up /\ uow # Nil /\ ~ InHandler
    /\ uow' = Nil
    /\ UNCHANGED <<disk, trees, mempool, client, boot, crashes>>

\* CreateProposalBlock of the leader
BeginProposal ==
    /\ Up /\ uow # Nil /\ uow.stage = "fresh"
    /\ uow' = [uow EXCEPT !.stage = "reaping"]
    /\ UNCHANGED <<disk, trees, mempool, client, boot, crashes>>

\* One turn of the loop of reapMempool.  `ok' is basicValidateTransaction:
\* a transaction that fails it is dropped.
ReapTx(ok) ==
    /\ Up /\ uow # Nil /\ uow.stage = "reaping" /\ mempool.queue # <<>>
    /\ LET t     == Head(mempool.queue)
           bytes == uow.bytes + Size(t)
       IN  /\ bytes < MaxTxBytes
           /\ mempool' = PopTx(mempool)
           /\ IF ok
              THEN /\ IndexTransaction(t, Len(uow.done) + 1)
                   /\ uow' = [uow EXCEPT !.done = Append(@, t),
                                         !.bytes = bytes]
              ELSE UNCHANGED <<slots, byHash, uow>>
    /\ UNCHANGED <<sql, blockStore, trees, client, boot, crashes>>

\* The mempool is empty, or its next transaction would make the block too
\* large and goes back to the end of the mempool.
EndProposal ==
    /\ Up /\ uow # Nil /\ uow.stage = "reaping"
    /\ \/ mempool.queue = <<>> /\ UNCHANGED mempool
       \/ /\ mempool.queue # <<>>
          /\ uow.bytes + Size(Head(mempool.queue)) >= MaxTxBytes
          /\ mempool' = AddTx(PopTx(mempool), Head(mempool.queue))
    /\ trees' = TreesAfter(uow.done)
    /\ uow' = [uow EXCEPT !.stage = "applied", !.hash = TreesAfter(uow.done)]
    /\ UNCHANGED <<disk, client, boot, crashes>>

\* applyBlock of a replica: SetProposalBlock, then ApplyBlock.  The proposal
\* has transactions that no block before it has.
BeginApply(txs) ==
    /\ Up /\ uow # Nil /\ uow.stage = "fresh"
    /\ TxsIn(txs) \cap State = {}
    /\ uow' = [uow EXCEPT !.stage = "applying", !.todo = txs,
                          !.expect = State \cup TxsIn(txs)]
    /\ UNCHANGED <<disk, trees, mempool, client, boot, crashes>>

\* One turn of the loop of processProposalBlockTransactions.
ApplyTx ==
    /\ Up /\ uow # Nil /\ uow.stage = "applying" /\ uow.todo # <<>>
    /\ mempool' = RemoveTx(mempool, Head(uow.todo))
    /\ IndexTransaction(Head(uow.todo), Len(uow.done) + 1)
    /\ uow' = [uow EXCEPT !.todo = Tail(@),
                          !.done = Append(@, Head(uow.todo))]
    /\ UNCHANGED <<sql, blockStore, trees, client, boot, crashes>>

ProcessEnds ==
    /\ crashes < MaxCrashes
    /\ crashes' = crashes + 1
    /\ boot' = "down"
    /\ uow' = Nil
    /\ trees' = EmptyTrees
    /\ mempool' = EmptyMempool
    /\ client' = [c \in Clients |-> Idle]
    /\ UNCHANGED disk

\* A state hash that is not the one of the proposal ends the process.
EndApply ==
    /\ Up /\ uow # Nil /\ uow.stage = "applying" /\ uow.todo = <<>>
    /\ \/ /\ TreesAfter(uow.done) = uow.expect
          /\ trees' = TreesAfter(uow.done)
          /\ uow' = [uow EXCEPT !.stage = "applied",
                                !.hash = TreesAfter(uow.done)]
          /\ UNCHANGED <<disk, mempool, client, boot, crashes>>
       \/ /\ TreesAfter(uow.done) # uow.expect
          /\ ProcessEnds

-----------------------------------------------------------------------------
(* Commit of the PostgresContext *)

\* A quorum decided on the block that the unit of work has applied, or on
\* one that a fresh unit of work has not (see HotPOKT).
Decided ==
    /\ uow # Nil
    /\ \/ uow.stage = "applied" /\ uow.hash = State \cup TxsIn(uow.done)
       \/ uow.stage = "fresh"

\* Mutant: the SQL transaction is committed before the block is stored.
StoreBlockAfterSQL ==
    /\ Up /\ Decided
    /\ sql' = Append(sql, [txs |-> uow.done, hash |-> uow.hash])
    /\ uow' = [uow EXCEPT !.stage = "stored"]
    /\ UNCHANGED <<blockStore, slots, byHash, trees, mempool, client, boot,
                   crashes>>

\* prepareBlock takes the transactions from the index of this height.
StoreBlock ==
    /\ Up /\ Decided
    /\ blockStore' = [blockStore EXCEPT ![height] =
                        [txs |-> slots[height], hash |-> uow.hash]]
    /\ uow' = [uow EXCEPT !.stage = "stored"]
    /\ UNCHANGED <<sql, slots, byHash, trees, mempool, client, boot, crashes>>

\* Mutant: the context can be committed again.
CommitSQLAgain ==
    /\ Up /\ uow # Nil /\ uow.stage = "stored"
    /\ sql' = Append(sql, [txs |-> uow.done, hash |-> uow.hash])
    /\ UNCHANGED <<blockStore, slots, byHash, trees, mempool, uow, client,
                   boot, crashes>>

\* insertBlock and the commit of the SQL transaction; then NewHeight.
CommitSQL ==
    /\ Up /\ uow # Nil /\ uow.stage = "stored"
    /\ sql' = Append(sql, [txs |-> uow.done, hash |-> uow.hash])
    /\ uow' = Nil
    /\ UNCHANGED <<blockStore, slots, byHash, trees, mempool, client, boot,
                   crashes>>

\* The timer goroutine takes no lock.  It releases the unit of work under a
\* running handler: the SQL transaction is rolled back, and the handler gets
\* an error from it or calls through a pointer that is nil by now.
TimerReleasesUOW ==
    /\ Up /\ InHandler
    /\ \/ ProcessEnds
       \/ /\ uow' = Nil
          /\ UNCHANGED <<disk, trees, mempool, client, boot, crashes>>

-----------------------------------------------------------------------------
(* Ending and starting the process *)

Crash == boot # "down" /\ ProcessEnds

\* Mutant: the state is cleared and hydrated again at whatever height.
StartFromGenesis ==
    /\ boot = "down"
    /\ \/ Len(sql) > 0 /\ boot' = "cleared" /\ sql' = <<>>
       \/ Len(sql) = 0 /\ boot' = "hydrating" /\ UNCHANGED sql
    /\ UNCHANGED <<blockStore, slots, byHash, trees, mempool, uow, client,
                   crashes>>

\* A chain that has only genesis is cleared, SQL first.
shouldHydrateGenesisDb ==
    \/ Len(sql) > 1 /\ boot' = "up" /\ UNCHANGED sql
    \/ Len(sql) = 1 /\ boot' = "cleared" /\ sql' = <<>>
    \/ Len(sql) = 0 /\ boot' = "hydrating" /\ UNCHANGED sql

\* Create of the persistence module.  Trees start empty, whatever their node
\* stores hold.
Start ==
    /\ boot = "down"
    /\ shouldHydrateGenesisDb
    /\ UNCHANGED <<blockStore, slots, byHash, trees, mempool, uow, client,
                   crashes>>

\* The last step of clearAllState, which leaves the transaction index alone.
ClearBlockStore ==
    /\ boot = "cleared"
    /\ blockStore' = [h \in Heights |-> Nil]
    /\ boot' = "hydrating"
    /\ UNCHANGED <<sql, slots, byHash, trees, mempool, uow, client, crashes>>

GenesisBlock == [txs |-> <<>>, hash |-> {Genesis}]

\* populateGenesisState, up to StoreBlock in its Commit
PopulateGenesis ==
    /\ boot = "hydrating"
    /\ trees' = {Genesis}
    /\ blockStore' = [blockStore EXCEPT ![0] = GenesisBlock]
    /\ boot' = "genesis"
    /\ UNCHANGED <<sql, slots, byHash, mempool, uow, client, crashes>>

CommitGenesis ==
    /\ boot = "genesis"
    /\ sql' = <<GenesisBlock>>
    /\ boot' = "up"
    /\ UNCHANGED <<blockStore, slots, byHash, trees, mempool, uow, client,
                   crashes>>

-----------------------------------------------------------------------------
Init ==
    /\ sql = <<>>
    /\ blockStore = [h \in Heights |-> Nil]
    /\ slots = [h \in Heights |-> <<>>]
    /\ byHash = {}
    /\ trees = EmptyTrees
    /\ mempool = EmptyMempool
    /\ uow = Nil
    /\ client = [c \in Clients |-> Idle]
    /\ boot = "down"
    /\ crashes = 0

\* Proposals of other leaders: sequences of one transaction or two.
Proposals == {<<>>} \cup {<<t>> : t \in Txs}
               \cup {<<p[1], p[2]>> : p \in {q \in Txs \X Txs : q[1] # q[2]}}

Next ==
    \/ \E c \in Clients, t \in Txs : SubmitCheckMempool(c, t)
    \/ \E c \in Clients : SubmitCheckIndex(c) \/ SubmitAdd(c)
    \/ RefreshUOW \/ ReleaseUOW
    \/ BeginProposal \/ EndProposal
    \/ \E ok \in BOOLEAN : ReapTx(ok)
    \/ \E txs \in Proposals : BeginApply(txs)
    \/ ApplyTx \/ EndApply
    \/ StoreBlock \/ CommitSQL
    \/ TimerReleasesUOW \/ Crash
    \/ Start \/ ClearBlockStore \/ PopulateGenesis \/ CommitGenesis

Spec == Init /\ [][Next]_vars

-----------------------------------------------------------------------------
(* Properties *)

\* Every operation, crash and start leaves the stores in their types.
TypeOK ==
    /\ sql \in Seq(Block) /\ Len(sql) <= MaxHeight + 1
    /\ blockStore \in [Heights -> Block \cup {Nil}]
    /\ slots \in [Heights -> Seq(Txs)]
    /\ byHash \in SUBSET Txs
    /\ trees \in Hashes
    /\ mempool \in Mempools
    /\ uow \in UnitOfWork \cup {Nil}
    /\ client \in [Clients -> {Idle} \cup [pc : {"index", "add"}, tx : Txs]]
    /\ boot \in {"down", "cleared", "hydrating", "genesis", "up"}
    /\ crashes \in 0 .. MaxCrashes

\* Commit writes the block store first and the SQL transaction second, with
\* nothing to tie them together.  Wherever the process ends, the block store
\* has, at every height that SQL has, the block with the hash that SQL has:
\* a block that was stored but not committed is written over.
ServedMatchesSQL ==
    \A h \in 0 .. Len(sql) - 1 :
        blockStore[h] # Nil /\ blockStore[h].hash = sql[h + 1].hash

\* The transactions of a stored block come from the index of its height,
\* which also has what interrupted rounds put there.  The block still begins
\* with the transactions that were applied, in their order.
BlockHoldsApplied ==
    \A h \in 0 .. Len(sql) - 1 :
        LET applied == sql[h + 1].txs
        IN  /\ Len(applied) <= Len(blockStore[h].txs)
            /\ applied = SubSeq(blockStore[h].txs, 1, Len(applied))

\* The callbacks keep the number of transactions whatever mixture of pushes,
\* evictions, pops and removals there is, and no push exceeds the limit.
MempoolCounted ==
    /\ mempool.txCount = Len(mempool.queue)
    /\ mempool.txCount <= MaxTxs
    /\ Cardinality(TxsIn(mempool.queue)) = Len(mempool.queue)

\* What GetBlock serves above genesis, up to the last height of SQL.
Served == [h \in 1 .. Len(sql) - 1 |-> blockStore[h].hash]

Chain == INSTANCE BlockChain WITH Hash <- Hashes \cup {Nil}, chain <- Served

\* Whatever the interleaving and the crashes, the four stores behave as one
\* atomic store of the chain: it only grows, by one whole block at a time,
\* and a crash or a start changes nothing.
AtomicStore == Chain!Spec

=============================================================================
