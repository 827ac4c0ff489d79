------------------------------- MODULE Ledger -------------------------------
(***************************************************************************)
(* The ledger of accounts, pools, staked actors and parameters, and the    *)
(* two units of work that change it at every height: the leader's, which   *)
(* makes a block of the transactions that pass validation, and a replica's,*)
(* which applies that block and compares state hashes.  Both read the      *)
(* COMMITTED ledger (persistenceReadContext) and write their own working   *)
(* copy of it (persistenceRWContext).                                      *)
(*                                                                         *)
(* Actors and parameters are tables of rows by height, and a read at       *)
(* height h takes the last row at or below h.  Sessions are computed from  *)
(* the rows at the session's first height.  Of a balance only the last row *)
(* is kept: nothing modelled here reads an older one.                      *)
(***************************************************************************)
EXTENDS Integers, Sequences, FiniteSets

CONSTANTS
    Addrs,          \* addresses that hold a balance
    Actors,         \* operator addresses of actors
    ActorType,      \* [Actors -> type]
    Order,          \* the actors in the order of their addresses
    StakePool,      \* [types -> the pool that unbonding takes the stake from]
    AppStakePool,   \* POOLS_APP_STAKE
    Chains,         \* relay chains
    Msgs,           \* messages of the transactions that clients submit
    ParamKeys,      \* governance parameters
    GenesisParams,  \* [ParamKeys -> Nat]
    ParamOwner,     \* owner of every parameter
    GenesisAcc,     \* [Addrs -> Nat]
    GenesisRows,    \* [Actors -> a row or Nil]
    Proposer,       \* address of the leader
    MaxBlockTxs,    \* bound: transactions in a block
    MaxHeight,      \* bound: heights that are committed
    Nil

VARIABLES
    ledger,         \* the committed ledger
    height,         \* height of the block under construction
    uow,            \* [Nodes -> unit of work]
    block,          \* transactions of the proposed block
    pending,        \* messages not in a block yet
    paid            \* [Actors -> heights at which the stake was returned]

vars == <<ledger, height, uow, block, pending, paid>>

Nodes   == {"leader", "replica"}
Heights == 0 .. MaxHeight
Types   == {ActorType[a] : a \in Actors}
Pools   == {"FeeCollector", "DAO", AppStakePool} \cup {StakePool[t] : t \in Types}

\* A parameter is named by what it sets and the type of actor it is for.  The
\* fees of the messages are one parameter here.
FeeKey == <<"fee", "message">>
CutKey == <<"proposer_percentage_of_fees", "block">>
BlocksKey == <<"blocks_per_session", "session">>
PerSession == {"per_session"} \X {"servicer", "fisherman"}

\* HeightNotUsed
NotUsed == -1

Row == [stake : Nat, output : Addrs, paused : {NotUsed} \cup Nat,
        unstaking : {NotUsed} \cup Nat, chains : SUBSET Chains]

ASSUME LedgerAssumption ==
    /\ IsFiniteSet(Actors)
    /\ Order \in Seq(Actors) /\ \A a \in Actors : \E i \in DOMAIN Order : Order[i] = a
    /\ Actors \subseteq Addrs /\ Proposer \in Addrs /\ ParamOwner \in Addrs
    /\ MaxHeight \in Nat \ {0} /\ MaxBlockTxs \in Nat
    /\ {FeeKey, CutKey, BlocksKey} \cup PerSession \subseteq ParamKeys
    /\ {"min_stake", "max_chains", "unstaking_blocks", "min_pause_blocks",
         "max_pause_blocks"} \X Types \subseteq ParamKeys
    /\ GenesisParams \in [ParamKeys -> Nat]
    /\ GenesisParams[CutKey] <= 100 /\ GenesisParams[BlocksKey] > 0
    /\ GenesisAcc \in [Addrs -> Nat]
    /\ Nil \notin Row /\ Nil \notin Nat
    /\ \A t \in Types : StakePool[t] # "FeeCollector"
    /\ GenesisRows \in [Actors -> Row \cup {Nil}]

ASSUME MsgsAssumption ==
    \A m \in Msgs :
        /\ m.signer \in Addrs
        /\ m.type = "send" => m.from \in Addrs /\ m.to \in Addrs /\ m.amount \in Nat
        /\ m.type = "stake" =>
             /\ m.actor \in Actors /\ m.output \in Addrs
             /\ m.amount \in Nat /\ m.chains \subseteq Chains
        /\ m.type \in {"unstake", "unpause"} => m.actor \in Actors
        /\ m.type = "edit_stake" =>
             m.actor \in Actors /\ m.amount \in Nat /\ m.chains \subseteq Chains
        /\ m.type = "change_parameter" =>
             /\ m.key \in ParamKeys /\ m.value \in Nat
             /\ m.key = CutKey => m.value <= 100
             /\ m.key = BlocksKey => m.value > 0

-----------------------------------------------------------------------------
(* Tables of rows by height *)

\* SELECT ... WHERE height <= h ORDER BY height DESC LIMIT 1
RowHeights(table, h) == {g \in Heights : g <= h /\ table[g] # Nil}
RowHeight(table, h)  == CHOOSE g \in RowHeights(table, h) :
                           \A k \in RowHeights(table, h) : k <= g
Select(table, h)     == table[RowHeight(table, h)]

\* GetParamOrFlagQuery
GetParam(l, key, h) == Select(l.params[key], h)

\* The parameters of a type of actor
getMinRequiredStakeAmount(l, type, h) == GetParam(l, <<"min_stake", type>>, h)
getMaxAllowedChains(l, type, h) == GetParam(l, <<"max_chains", type>>, h)
getMinRequiredPausedBlocks(l, type, h) == GetParam(l, <<"min_pause_blocks", type>>, h)
getMaxAllowedPausedBlocks(l, type, h) == GetParam(l, <<"max_pause_blocks", type>>, h)
getUnbondingHeight(l, type, h) == h + GetParam(l, <<"unstaking_blocks", type>>, h)

\* GetExists
Exists(l, a, h) == RowHeights(l.rows[a], h) # {}

getPausedHeightIfExists(l, a, h) == Select(l.rows[a], h).paused
getActorOutputAddress(l, a, h) == Select(l.rows[a], h).output
getActorStakeAmount(l, a, h) == Select(l.rows[a], h).stake

getActorStatus(l, a, h) ==
    LET u == Select(l.rows[a], h).unstaking
    IN  IF u = NotUsed THEN "staked" ELSE IF u > h THEN "unstaking" ELSE "unstaked"

\* Insert of a new actor, with its chains.
InsertActor(w, a, h, row) == [w EXCEPT !.rows[a][h] = row]

\* The updates of a column copy the last row to this height.  The rows of the
\* chains table stay at the height they were inserted at.
UpdateRow(w, a, h, col, value) ==
    LET old == Select(w.rows[a], h)
        new == [old EXCEPT ![col] = value]
    IN  [w EXCEPT !.rows[a][h] =
           IF w.rows[a][h] # Nil THEN new ELSE [new EXCEPT !.chains = {}]]

setActorUnbondingHeight(w, a, h, value) == UpdateRow(w, a, h, "unstaking", value)
setActorPausedHeight(w, a, h, value) == UpdateRow(w, a, h, "paused", value)

\* The query with <= in place of =.
ReadyOrPast(l, h) ==
    {a \in Actors : /\ Exists(l, a, MaxHeight)
                    /\ Select(l.rows[a], MaxHeight).unstaking \in 0 .. h}

\* GetActorsReadyToUnstake, of every type
ReadyToUnstake(l, h) ==
    {a \in Actors : /\ Exists(l, a, MaxHeight)
                    /\ Select(l.rows[a], MaxHeight).unstaking = h}

-----------------------------------------------------------------------------
(* Transactions.  `c' is the committed ledger, `w' the working copy.        *)

\* AddAccountAmount, SetAccountAmount, AddPoolAmount, SubtractPoolAmount
SetAcc(w, a, amount)  == [w EXCEPT !.acc[a] = amount]
AddAcc(w, a, amount)  == [w EXCEPT !.acc[a] = @ + amount]
AddPool(w, p, amount) == [w EXCEPT !.pool[p] = @ + amount]

\* getSignerCandidates: it knows no EditStake message.
SignerCandidates(c, m, h) ==
    CASE m.type = "send"  -> {m.from}
      [] m.type = "stake" -> {m.output, m.actor}
      [] m.type \in {"unstake", "unpause"} ->
            IF Exists(c, m.actor, h)
            THEN {getActorOutputAddress(c, m.actor, h), m.actor} ELSE {}
      [] m.type = "change_parameter" -> {ParamOwner}
      [] OTHER -> {}

\* basicValidateTransaction, up to the fee
ValidTx(c, m, h) ==
    /\ m.signer \in SignerCandidates(c, m, h)
    /\ c.acc[m.signer] >= GetParam(c, FeeKey, h)

\* validateAndDeductTxFees
DeductFee(c, w, m, h) ==
    LET fee == GetParam(c, FeeKey, h)
    IN  AddPool(SetAcc(w, m.signer, c.acc[m.signer] - fee), "FeeCollector", fee)

\* What a call to SubtractAccountAmount would do in handleMessageSend.
SendSubtracting(c, w, m) ==
    IF c.acc[m.from] < m.amount THEN w
    ELSE AddAcc(AddAcc(w, m.to, m.amount), m.from, 0 - m.amount)

handleMessageSend(c, w, m) ==
    IF c.acc[m.from] < m.amount THEN w
    ELSE SetAcc(AddAcc(w, m.to, m.amount), m.from, c.acc[m.from] - m.amount)

checkAboveMinStake(c, m, h) ==
    m.amount >= getMinRequiredStakeAmount(c, ActorType[m.actor], h)

\* A validator has no chains.
checkBelowMaxChains(c, m, h) ==
    LET type == ActorType[m.actor]
    IN  type = "validator" \/ Cardinality(m.chains) <= getMaxAllowedChains(c, type, h)

\* The stake of every type of actor goes to the pool of the applications.
handleStakeMessage(c, w, m, h) ==
    LET type == ActorType[m.actor]
        ok   == /\ checkAboveMinStake(c, m, h)
                /\ c.acc[m.signer] >= m.amount
                /\ checkBelowMaxChains(c, m, h)
                /\ ~ Exists(c, m.actor, h)
        row  == [stake |-> m.amount, output |-> m.output, paused |-> NotUsed,
                 unstaking |-> NotUsed,
                 chains |-> IF type = "validator" THEN {} ELSE m.chains]
        paidFor == AddPool(SetAcc(w, m.signer, c.acc[m.signer] - m.amount),
                           AppStakePool, m.amount)
    IN  IF ok THEN InsertActor(paidFor, m.actor, h, row) ELSE w

UpdateActor(w, m, h) ==
    [w EXCEPT !.rows[m.actor][h] =
       [Select(w.rows[m.actor], h) EXCEPT !.stake = m.amount,
          !.chains = IF ActorType[m.actor] = "validator" THEN {} ELSE m.chains]]

\* The handler is there, although no transaction with an EditStake message
\* passes validation.
handleEditStakeMessage(c, w, m, h) ==
    LET more == m.amount - getActorStakeAmount(c, m.actor, h)
        ok   == /\ Exists(c, m.actor, h)
                /\ more >= 0 /\ c.acc[m.signer] >= more
                /\ checkBelowMaxChains(c, m, h)
    IN  IF ok
        THEN UpdateActor(AddPool(SetAcc(w, m.signer, c.acc[m.signer] - more),
                                 AppStakePool, more), m, h)
        ELSE w

handleUnstakeMessage(c, w, m, h) ==
    IF getActorStatus(c, m.actor, h) # "staked" THEN w
    ELSE setActorUnbondingHeight(w, m.actor, h,
                                 getUnbondingHeight(c, ActorType[m.actor], h))

\* An unpause that counts blocks instead of clearing the height.
UnpauseCounting(c, w, m, h) ==
    LET paused == Select(c.rows[m.actor], h).paused
    IN  IF paused = NotUsed THEN w ELSE UpdateRow(w, m.actor, h, "paused", paused - h)

handleUnpauseMessage(c, w, m, h) ==
    LET paused == getPausedHeightIfExists(c, m.actor, h)
        min    == getMinRequiredPausedBlocks(c, ActorType[m.actor], h)
    IN  IF paused = NotUsed \/ h < min + paused THEN w
        ELSE setActorPausedHeight(w, m.actor, h, NotUsed)

\* A second value at the same height replaces the first.
SetParam(w, key, value, h) == [w EXCEPT !.params[key][h] = value]

\* Values have one of the types that updateParam knows.
updateParam(w, key, value, h) == SetParam(w, key, value, h)

handleMessageChangeParameter(w, m, h) == updateParam(w, m.key, m.value, h)

handleMessage(c, w, m, h) ==
    CASE m.type = "send"    -> handleMessageSend(c, w, m)
      [] m.type = "stake"   -> handleStakeMessage(c, w, m, h)
      [] m.type = "edit_stake" -> handleEditStakeMessage(c, w, m, h)
      [] m.type = "unstake" -> handleUnstakeMessage(c, w, m, h)
      [] m.type = "unpause" -> handleUnpauseMessage(c, w, m, h)
      [] m.type = "change_parameter" -> handleMessageChangeParameter(w, m, h)
      [] OTHER -> w

\* HandleTransaction of a valid transaction: a message that fails keeps the fee.
HandleTransaction(c, w, m, h) == handleMessage(c, DeductFee(c, w, m, h), m, h)

-----------------------------------------------------------------------------
(* The end of a block *)

\* handleProposerRewards: the fees read are those of the committed ledger.
handleProposerRewards(c, w, h) ==
    LET collected == c.pool["FeeCollector"]
        cut       == (collected * GetParam(c, CutKey, h)) \div 100
    IN  AddPool(AddAcc([w EXCEPT !.pool["FeeCollector"] = 0], Proposer, cut),
                "DAO", collected - cut)

\* Unbonding that sets the balance from the committed one.
UnbondSetting(c, w, a, h) ==
    LET row == Select(c.rows[a], MaxHeight)
    IN  SetAcc(AddPool(w, StakePool[ActorType[a]], 0 - row.stake),
               row.output, c.acc[row.output] + row.stake)

\* One turn of the loops of unbondUnstakingActors.
Unbond(c, w, a, h) ==
    LET row == Select(c.rows[a], MaxHeight)
    IN  AddAcc(AddPool(w, StakePool[ActorType[a]], 0 - row.stake),
               row.output, row.stake)

\* updateUnstakedHeightIfPausedBefore selects the last rows of the working
\* copy.
PausedBefore(w, a, before) ==
    /\ Exists(w, a, MaxHeight)
    /\ LET p == Select(w.rows[a], MaxHeight).paused
       IN  0 <= p /\ p < before

beginUnstakingMaxPausedActors(c, w, h) ==
    LET limit(a) == h - getMaxAllowedPausedBlocks(c, ActorType[a], h)
        before(a) == IF limit(a) < 0 THEN 0 ELSE limit(a)
        paused == {a \in Actors : PausedBefore(w, a, before(a))}
    IN  [w EXCEPT !.rows = [a \in Actors |->
           IF a \in paused
           THEN setActorUnbondingHeight(w, a, h,
                    getUnbondingHeight(c, ActorType[a], h)).rows[a]
           ELSE w.rows[a]]]

-----------------------------------------------------------------------------
(* Actions *)

\* A row or a value at genesis, and none above it.
AtGenesis(value) == [h \in Heights |-> IF h = 0 THEN value ELSE Nil]

\* populateGenesisState.  The pools that the unit of work uses are empty: it
\* and the genesis file write their addresses in different encodings.
GenesisLedger ==
    [acc    |-> GenesisAcc,
     pool   |-> [p \in Pools |-> 0],
     rows   |-> [a \in Actors |-> AtGenesis(GenesisRows[a])],
     params |-> [k \in ParamKeys |-> AtGenesis(GenesisParams[k])]]

\* NewUnitOfWork; `todo' are the stakes that endBlock has still to return.
NewUnitOfWork(l) ==
    [n \in Nodes |->
       [stage |-> IF n = "leader" THEN "reap" ELSE "wait",
        w |-> l, next |-> 1, todo |-> {}]]

Init ==
    /\ ledger = GenesisLedger
    /\ height = 1
    /\ uow = NewUnitOfWork(GenesisLedger)
    /\ block = <<>>
    /\ pending = Msgs
    /\ paid = [a \in Actors |-> {}]

\* One turn of reapMempool.  A transaction that is not valid leaves no trace.
ReapTx(m) ==
    /\ uow["leader"].stage = "reap" /\ m \in pending
    /\ Len(block) < MaxBlockTxs
    /\ pending' = pending \ {m}
    /\ IF ValidTx(ledger, m, height)
       THEN /\ block' = Append(block, m)
            /\ uow' = [uow EXCEPT !["leader"].w =
                         HandleTransaction(ledger, @, m, height)]
       ELSE UNCHANGED <<block, uow>>
    /\ UNCHANGED <<ledger, height, paid>>

\* processProposalBlockTransactions of the replica.  An invalid transaction
\* makes ApplyBlock fail.
ApplyTx ==
    LET u == uow["replica"]
    IN  /\ u.stage = "apply" /\ u.next <= Len(block)
        /\ uow' = [uow EXCEPT !["replica"] =
                     IF ValidTx(ledger, block[u.next], height)
                     THEN [u EXCEPT !.w = HandleTransaction(ledger, u.w, block[u.next], height),
                                    !.next = u.next + 1]
                     ELSE [u EXCEPT !.stage = "failed"]]
        /\ UNCHANGED <<ledger, height, block, pending, paid>>

\* endBlock begins: the proposer's reward, and the query of the actors to unbond.
BeginEndBlock(n) ==
    /\ \/ n = "leader" /\ uow[n].stage = "reap"
       \/ n = "replica" /\ uow[n].stage = "apply" /\ uow[n].next > Len(block)
    /\ uow' = [uow EXCEPT ![n].stage = "unbond",
                          ![n].w = handleProposerRewards(ledger, @, height),
                          ![n].todo = ReadyToUnstake(ledger, height)]
    /\ UNCHANGED <<ledger, height, block, pending, paid>>

\* The types come in the order of a Go map and the actors of a type in that of
\* an unordered query: two nodes need not agree on either.
UnbondActor(n, a) ==
    /\ uow[n].stage = "unbond" /\ a \in uow[n].todo
    /\ uow' = [uow EXCEPT ![n].w = Unbond(ledger, @, a, height),
                          ![n].todo = @ \ {a}]
    /\ paid' = IF n = "leader" THEN [paid EXCEPT ![a] = @ \cup {height}] ELSE paid
    /\ UNCHANGED <<ledger, height, block, pending>>

\* endBlock ends.  When the leader has its state hash, the replica gets the block.
FinishEndBlock(n) ==
    /\ uow[n].stage = "unbond" /\ uow[n].todo = {}
    /\ uow' = [m \in Nodes |->
                 IF m = n
                 THEN [uow[n] EXCEPT !.stage = "done",
                         !.w = beginUnstakingMaxPausedActors(ledger, @, height)]
                 ELSE [uow[m] EXCEPT !.stage = IF n = "leader" THEN "apply" ELSE @]]
    /\ UNCHANGED <<ledger, height, block, pending, paid>>

\* The state hashes agree and the block is committed.
Commit ==
    /\ height < MaxHeight
    /\ \A n \in Nodes : uow[n].stage = "done"
    /\ uow["leader"].w = uow["replica"].w
    /\ ledger' = uow["replica"].w
    /\ height' = height + 1
    /\ uow' = NewUnitOfWork(ledger')
    /\ block' = <<>>
    /\ UNCHANGED <<pending, paid>>

Next ==
    \/ \E m \in Msgs : ReapTx(m)
    \/ ApplyTx
    \/ \E n \in Nodes : BeginEndBlock(n) \/ FinishEndBlock(n)
    \/ \E n \in Nodes, a \in Actors : UnbondActor(n, a)
    \/ Commit

Spec == Init /\ [][Next]_vars

-----------------------------------------------------------------------------
(* Sessions: GetSession asked at height h, of a node that has committed the *)
(* blocks below `now'.                                                      *)

\* hydrateSessionMetadata: the length of a session is that at the height of
\* the request.
SessionHeight(l, h) == h - (h % GetParam(l, BlocksKey, h))

\* GetAllServicers, GetAllFishermen: every actor with a row.
GetAll(l, type, h) == {a \in Actors : ActorType[a] = type /\ Exists(l, a, h)}

\* Of the actors in S, the one whose row is read last.
ReadLast(S) ==
    LET listed == {i \in DOMAIN Order : Order[i] \in S}
    IN  Order[CHOOSE i \in listed : \A j \in listed : j <= i]

\* The chains are looked up at the height of the row read last.
ListedChains(l, type, h, a) ==
    LET last == RowHeight(l.rows[ReadLast(GetAll(l, type, h))], h)
    IN  IF Exists(l, a, last) THEN Select(l.rows[a], last).chains ELSE {}

\* pseudoRandomSelection: its seed is the hash of the same data for everyone.
pseudoRandomSelection(candidates, n) ==
    IF n > Cardinality(candidates) THEN candidates
    ELSE CHOOSE s \in SUBSET candidates : Cardinality(s) = n

Active(row) == row.paused = NotUsed /\ row.unstaking = NotUsed

\* hydrateSessionServicers, hydrateSessionFishermen: one actor that is paused
\* or unstaking is an error.
HydrateActors(l, type, chain, h) ==
    LET all == GetAll(l, type, h)
    IN  IF \A a \in all : Active(Select(l.rows[a], h))
        THEN [ok |-> TRUE, actors |-> pseudoRandomSelection(
                {a \in all : chain \in ListedChains(l, type, h, a)},
                GetParam(l, <<"per_session", type>>, h))]
        ELSE [ok |-> FALSE, actors |-> {}]

\* hydrateSessionID needs the hash of the block before the session.
HasSessionID(now, start) == (IF start = 0 THEN 0 ELSE start - 1) < now

\* What a hydrator that takes its actors at the height of the request does.
SessionOfRequest(l, now, app, chain, h) ==
    LET s == HydrateActors(l, "servicer", chain, h)
    IN  IF Exists(l, app, h) /\ HasSessionID(now, SessionHeight(l, h)) /\ s.ok
        THEN [number |-> h \div GetParam(l, BlocksKey, h),
              height |-> SessionHeight(l, h),
              servicers |-> s.actors, fishermen |-> {}]
        ELSE Nil

\* GetSession, Nil if it returns an error.
GetSession(l, now, app, chain, h) ==
    LET start == SessionHeight(l, h)
        s     == HydrateActors(l, "servicer", chain, start)
        f     == HydrateActors(l, "fisherman", chain, start)
    IN  IF /\ Exists(l, app, start)
           /\ chain \in Select(l.rows[app], start).chains
           /\ Active(Select(l.rows[app], start))
           /\ HasSessionID(now, start)
           /\ s.ok /\ f.ok
        THEN [number |-> h \div GetParam(l, BlocksKey, h), height |-> start,
              servicers |-> s.actors, fishermen |-> f.actors]
        ELSE Nil

Apps == {a \in Actors : ActorType[a] = "app"}

-----------------------------------------------------------------------------
(* Properties *)

Table(S) == [Heights -> S \cup {Nil}]

LedgerType ==
    [acc : [Addrs -> Int], pool : [Pools -> Int],
     rows : [Actors -> Table(Row)], params : [ParamKeys -> Table(Nat)]]

UnitOfWork ==
    [stage : {"reap", "wait", "apply", "unbond", "done", "failed"},
     w : LedgerType, next : Nat, todo : SUBSET Actors]

\* The committed ledger and the working copies are balances, rows by height
\* and parameters by height.
TypeOK ==
    /\ ledger \in LedgerType
    /\ height \in Heights
    /\ uow \in [Nodes -> UnitOfWork]
    /\ block \in Seq(Msgs)
    /\ pending \subseteq Msgs
    /\ paid \in [Actors -> SUBSET Heights]

\* A replica that applies the leader's block accepts every transaction of it
\* and ends with the leader's ledger, hence with its state hash: what the
\* leader dropped leaves no trace in its working copy, and the order in which
\* each of them walks actor types and actors does not show.
SameState ==
    /\ uow["replica"].stage # "failed"
    /\ (\A n \in Nodes : uow[n].stage = "done") =>
         uow["leader"].w = uow["replica"].w

\* No account is overdrawn, committed or in a working copy, although every
\* transaction of a block checks the balance of the previous block.
NoOverdraft ==
    \A a \in Addrs :
        ledger.acc[a] >= 0 /\ \A n \in Nodes : uow[n].w.acc[a] >= 0

\* The row at height g says that the stake goes back at height u: the genesis
\* file said so, or block g, by the unstaking period in force below it.
Due(l, a, g, u) ==
    /\ l.rows[a][g] # Nil /\ l.rows[a][g].unstaking = u
    /\ g > 0 => u = g + GetParam(l, <<"unstaking_blocks", ActorType[a]>>, g - 1)

\* A stake is returned at the height its actor was waiting for and at no
\* other: every return is due to an earlier row; and an actor whose height
\* has gone by has its stake back.
StakeReturnedWhenDue ==
    \A a \in Actors :
        /\ \A u \in paid[a] : \E g \in 0 .. u - 1 : Due(ledger, a, g, u)
        /\ \A g \in 0 .. height - 1 :
             /\ Exists(ledger, a, g)
             /\ Select(ledger.rows[a], g).unstaking = g + 1
             /\ g + 1 < height
             => g + 1 \in paid[a]

\* Once the first block of a session is committed, every later request for
\* that session gets the same servicers and fishermen, whatever is staked,
\* unstaked or paused meanwhile, and whatever parameters change: only a new
\* length of sessions moves heights that are not committed yet to another one.
SessionFixed ==
    [][\A app \in Apps, chain \in Chains, h \in Heights :
          /\ SessionHeight(ledger, h) < height
          /\ h < height \/ GetParam(ledger', BlocksKey, h) = GetParam(ledger, BlocksKey, h)
          =>
             GetSession(ledger', height', app, chain, h)
               = GetSession(ledger, height, app, chain, h)]_vars

=============================================================================
