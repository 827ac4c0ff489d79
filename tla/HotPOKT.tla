------------------------------- MODULE HotPOKT -------------------------------
(***************************************************************************)
(* The consensus module of a Pocket validator: the HotStuff leader and     *)
(* replica handlers (consensus/hotstuff_leader.go, hotstuff_replica.go),   *)
(* the pacemaker that filters messages and changes views                   *)
(* (consensus/pacemaker/module.go), round-robin leader election, and the   *)
(* unit of work that the handlers apply and commit blocks through.         *)
(*                                                                         *)
(* One behaviour of this specification is one network of N validators.     *)
(* Every action is one call of handleHotstuffMessage, which runs under the *)
(* module's mutex, or one pacemaker timeout.  `msgs' holds every message   *)
(* ever sent: a message may reach a validator at any time, in any order,   *)
(* or never.  No validator receives a message twice (the p2p module drops  *)
(* the nonces it has seen).                                                *)
(***************************************************************************)
EXTENDS Integers, FiniteSets

CONSTANTS
    N,          \* number of validators at every height
    Txs,        \* transactions clients may submit
    MaxHeight,  \* bound: heights at which messages are handled
    MaxRound,   \* bound: largest round of a height
    Loopback,   \* does the network deliver a message to its own sender?
    Nil         \* Go's nil (block, quorum certificate, unit of work, hash)

ASSUME NAssumption == N \in Nat \ {0}
ASSUME LoopbackAssumption == Loopback \in BOOLEAN

VARIABLES
    height, round, step,   \* the view of each validator
    leaderId,              \* the leader it follows, NoLeader when nil
    block,                 \* m.block, the block being voted on
    prepareQC, lockedQC,
    pool,                  \* hotstuffMempool: one message pool per step
    indexed,               \* messages it ever put in a pool
    uow,                   \* utilityUnitOfWork
    tree,                  \* transactions in its state trees and tx index
    committed,             \* its block store
    up,                    \* FALSE once the process has exited
    msgs                   \* all messages sent

view   == <<height, round, step, leaderId>>
certs  == <<prepareQC, lockedQC>>
store  == <<uow, tree, committed>>
vars   == <<view, block, certs, pool, indexed, store, up, msgs>>

-----------------------------------------------------------------------------
(* Steps, validators and the data that messages carry *)

NewRound  == 1
Prepare   == 2
PreCommit == 3
Commit    == 4
Decide    == 5
Steps     == NewRound .. Decide

Node     == 1 .. N
NoLeader == 0
Everyone == 0

\* A block is identified by what its header and its transactions determine.
\* The state hash is the set of transactions whose writes are in the trees it
\* was computed from; `just' is the view of the certificate in the header,
\* Nil if there is none.
Block == [height : Nat, proposer : Node, txs : SUBSET Txs,
          stateHash : SUBSET Txs, just : (Nat \X Steps) \cup {Nil}]

\* A certificate keeps the signers whose signature is over its own block, the
\* ones that validateQuorumCertificate counts.
QC == [height : Nat, round : Nat, step : Steps,
       block : Block \cup {Nil}, signers : SUBSET Node]

Message == [type : {"propose", "vote"}, src : Node, dst : 0 .. N,
            height : Nat, round : Nat, step : Steps,
            block : Block \cup {Nil}, qc : QC \cup {Nil}]

\* `leaves' is what the open SQL transaction has written.
UnitOfWork == [stateHash : (SUBSET Txs) \cup {Nil}, leaves : SUBSET Txs,
               proposer : 0 .. N]

StoredBlock == [height : Nat, round : Nat, proposer : 0 .. N,
                stateHash : (SUBSET Txs) \cup {Nil}, leaves : SUBSET Txs]

ASSUME NilAssumption == Nil \notin Block \cup QC

FreshUOW  == [stateHash |-> Nil, leaves |-> {}, proposer |-> NoLeader]
EmptyPool == [s \in Steps |-> {}]

\* Mutant: the threshold as the integer expression 2/3, which is 0.
ThresholdMetInteger(num) == num > 0

\* float64(num) > 2/3 * float64(numValidators)
ThresholdMet(num) == 3 * num > 2 * N

\* Deterministic round robin over the fields of the message that triggered
\* the election, its step included.
ElectNextLeader(h, r, s) == ((h + r + s - 1) % N) + 1

Propose(n, h, r, s, b, qc) ==
    [type |-> "propose", src |-> n, dst |-> Everyone,
     height |-> h, round |-> r, step |-> s, block |-> b, qc |-> qc]

\* The vote sent to the leader: nothing is sent for a nil block or leader.
Vote(n, leader, h, r, s, b) ==
    IF b = Nil \/ leader = NoLeader THEN {}
    ELSE {[type |-> "vote", src |-> n, dst |-> leader,
           height |-> h, round |-> r, step |-> s, block |-> b, qc |-> Nil]}

ValidQC(qc) ==
    /\ qc # Nil
    /\ qc.block # Nil
    /\ ThresholdMet(Cardinality(qc.signers))

-----------------------------------------------------------------------------
(* Receiving a message *)

\* Mutant: the network hands a validator its own proposals, not its votes.
DeliverableNoOwnVote(n, m) ==
    /\ m.dst \in {n, Everyone}
    /\ m.src = n => Loopback /\ m.type = "propose"

\* RainTree drops what a node sends to itself (Loopback = FALSE); the network
\* of the consensus tests delivers it.
Deliverable(n, m) ==
    /\ m.dst \in {n, Everyone}
    /\ m.src = n => Loopback

\* Mutant: a message of this round is never from the past.
ShouldHandleAnyStep(n, m) ==
    /\ up[n] /\ Deliverable(n, m)
    /\ m.height = height[n] /\ m.height <= MaxHeight
    /\ ~ (leaderId[n] = n /\ m.type = "propose" /\ m.step # NewRound)
    /\ m.round >= round[n]

\* ShouldHandleMessage.  A message of a later height only raises the
\* Consensus_IsUnsynced event, which leaves the consensus state alone.
ShouldHandle(n, m) ==
    /\ up[n] /\ Deliverable(n, m)
    /\ m.height = height[n] /\ m.height <= MaxHeight
    /\ ~ (leaderId[n] = n /\ m.type = "propose" /\ m.step # NewRound)
    /\ \/ m.round > round[n]
       \/ m.round = round[n] /\ m.step >= step[n]

\* The leader after the pacemaker's catch-up and shouldElectNextLeader.
LeaderAfter(n, m) ==
    IF \/ m.round # round[n]
       \/ leaderId[n] = NoLeader /\ (m.step # step[n] \/ m.step = NewRound)
    THEN ElectNextLeader(m.height, m.round, m.step)
    ELSE leaderId[n]

IsValidMessageBlock(n, m) ==
    IF m.block = Nil
    THEN m.step = NewRound
    ELSE /\ m.step # NewRound
         /\ block[n] # Nil => block[n].stateHash = m.block.stateHash

AsLeader(n, m, s) ==
    /\ ShouldHandle(n, m) /\ m.step = s
    /\ LeaderAfter(n, m) = n
    /\ IsValidMessageBlock(n, m)
    /\ m \notin indexed[n]

AsReplica(n, m, s) ==
    /\ ShouldHandle(n, m) /\ m.step = s
    /\ LeaderAfter(n, m) # n
    /\ IsValidMessageBlock(n, m)

\* The view after handling m: the pacemaker has moved to m's round.
EnterView(n, m, s) ==
    /\ round' = [round EXCEPT ![n] = m.round]
    /\ step' = [step EXCEPT ![n] = s]
    /\ leaderId' = [leaderId EXCEPT ![n] = LeaderAfter(n, m)]
    /\ UNCHANGED height

\* Mutant: startNextView forgets SetStep(NewRound) after ResetRound.
InterruptRoundNoStep(n, r, qc, sent) ==
    /\ r < MaxRound
    /\ round' = [round EXCEPT ![n] = r + 1]
    /\ step' = [step EXCEPT ![n] = 0]
    /\ leaderId' = [leaderId EXCEPT ![n] = NoLeader]
    /\ pool' = [pool EXCEPT ![n] = EmptyPool]
    /\ uow' = [uow EXCEPT ![n] = Nil]
    /\ msgs' = msgs \cup sent
                 \cup {Propose(n, height[n], r + 1, NewRound, Nil, qc)}
    /\ UNCHANGED <<height, committed>>

\* Mutant: ResetRound keeps the leader of the interrupted round.
InterruptRoundKeepLeader(n, r, qc, sent) ==
    /\ r < MaxRound
    /\ round' = [round EXCEPT ![n] = r + 1]
    /\ step' = [step EXCEPT ![n] = NewRound]
    /\ pool' = [pool EXCEPT ![n] = EmptyPool]
    /\ uow' = [uow EXCEPT ![n] = Nil]
    /\ msgs' = msgs \cup sent
                 \cup {Propose(n, height[n], r + 1, NewRound, Nil, qc)}
    /\ UNCHANGED <<height, leaderId, committed>>

\* InterruptRound in round r: the next view of the same height.  The handler
\* had sent `sent' and holds the certificate qc as its prepareQC.
InterruptRound(n, r, qc, sent) ==
    /\ r < MaxRound
    /\ round' = [round EXCEPT ![n] = r + 1]
    /\ step' = [step EXCEPT ![n] = NewRound]
    /\ leaderId' = [leaderId EXCEPT ![n] = NoLeader]
    /\ pool' = [pool EXCEPT ![n] = EmptyPool]
    /\ uow' = [uow EXCEPT ![n] = Nil]
    /\ msgs' = msgs \cup sent
                 \cup {Propose(n, height[n], r + 1, NewRound, Nil, qc)}
    /\ UNCHANGED <<height, committed>>

\* The stored block has the state hash and the proposer of the unit of work,
\* whatever m.block is, and the certificate of the commit, here its round r.
CommitBlock(n, r) ==
    /\ committed' = [committed EXCEPT ![n] = @ \cup
           {[height |-> height[n], round |-> r,
             stateHash |-> uow[n].stateHash, leaves |-> uow[n].leaves,
             proposer |-> uow[n].proposer]}]
    /\ uow' = [uow EXCEPT ![n] = Nil]

\* Mutant: NewHeight calls ResetRound(false) and keeps the certificates.
CommitAndNewHeightKeepQCs(n, r, sent) ==
    /\ CommitBlock(n, r)
    /\ height' = [height EXCEPT ![n] = @ + 1]
    /\ round' = [round EXCEPT ![n] = 0]
    /\ step' = [step EXCEPT ![n] = NewRound]
    /\ leaderId' = [leaderId EXCEPT ![n] = NoLeader]
    /\ block' = [block EXCEPT ![n] = Nil]
    /\ pool' = [pool EXCEPT ![n] = EmptyPool]
    /\ msgs' = msgs \cup sent
                 \cup {Propose(n, height[n] + 1, 0, NewRound, Nil, Nil)}
    /\ UNCHANGED <<certs, tree, up>>

\* commitBlock followed by the pacemaker's NewHeight.
CommitAndNewHeight(n, r, sent) ==
    /\ CommitBlock(n, r)
    /\ height' = [height EXCEPT ![n] = @ + 1]
    /\ round' = [round EXCEPT ![n] = 0]
    /\ step' = [step EXCEPT ![n] = NewRound]
    /\ leaderId' = [leaderId EXCEPT ![n] = NoLeader]
    /\ block' = [block EXCEPT ![n] = Nil]
    /\ prepareQC' = [prepareQC EXCEPT ![n] = Nil]
    /\ lockedQC' = [lockedQC EXCEPT ![n] = Nil]
    /\ pool' = [pool EXCEPT ![n] = EmptyPool]
    /\ msgs' = msgs \cup sent
                 \cup {Propose(n, height[n] + 1, 0, NewRound, Nil, Nil)}
    /\ UNCHANGED <<tree, up>>

\* log.Fatal or a panic: the process is gone, with what it had in memory.
Exit(n) ==
    /\ up' = [up EXCEPT ![n] = FALSE]
    /\ UNCHANGED <<view, block, certs, pool, indexed, store, msgs>>

-----------------------------------------------------------------------------
(* Applying a block *)

\* The SQL state that the validator has committed.
Ledger(n) == UNION {c.leaves : c \in committed[n]}

\* ComputeStateHash puts every row of this height in the trees.  The trees
\* keep the leaves of every block applied in an interrupted round: releasing
\* the unit of work leaves them alone.  Fees leave no mark of their own: the
\* rewards are computed from the fee pool as last committed, which is empty.
TreesAfter(n, txs) == tree[n] \cup txs

\* A transaction that was applied already would change the balances again.
NotYetApplied(n, u, txs) ==
    txs \cap (Ledger(n) \cup u.leaves) = {}

\* Mutant: a state hash that differs from the proposed one is only logged.
AppliesToAnyHash(n, u, b) == NotYetApplied(n, u, b.txs)

\* ApplyBlock on the unit of work u recomputes the state hash.
AppliesTo(n, u, b) ==
    /\ NotYetApplied(n, u, b.txs)
    /\ TreesAfter(n, b.txs) = b.stateHash

ApplyBlock(n, u, b) ==
    /\ uow' = [uow EXCEPT ![n] =
                 [stateHash |-> TreesAfter(n, b.txs),
                  leaves |-> u.leaves \cup b.txs,
                  proposer |-> b.proposer]]
    /\ tree' = [tree EXCEPT ![n] = TreesAfter(n, b.txs)]
    /\ block' = [block EXCEPT ![n] = b]
    /\ UNCHANGED committed

-----------------------------------------------------------------------------
(* Leader handlers *)

Pooled(n, m) == pool[n][m.step] \cup {m}

\* The tail of every leader handler that has a quorum of messages.
Drain(n, m) == pool' = [pool EXCEPT ![n][m.step] = {}]

Index(n, m) == indexed' = [indexed EXCEPT ![n] = @ \cup {m}]

\* Any leader handler whose pool is still short of the threshold, and
\* HandleDecideMessage, which only indexes.
LeaderCollect(n, m) ==
    /\ AsLeader(n, m, m.step)
    /\ m.step # Decide => ~ ThresholdMet(Cardinality(Pooled(n, m)))
    /\ EnterView(n, m, m.step)
    /\ pool' = [pool EXCEPT ![n][m.step] = Pooled(n, m)]
    /\ Index(n, m)
    /\ UNCHANGED <<block, certs, store, up, msgs>>

\* findHighQC keeps the first certificate of the pool, which is in arrival
\* order: certificates of one height never replace each other.
HighQCs(n, m) ==
    LET earlier == {x.qc : x \in pool[n][m.step] \ {m}} \ {Nil}
    IN  IF earlier # {} THEN earlier ELSE {m.qc}

ShouldPrepareNewBlock(h, r, qc) ==
    \/ qc = Nil
    \/ qc.height < h \/ qc.round < r
    \/ qc.block = Nil

\* HandleTransaction refuses a transaction that the indexer knows, so none of
\* the ones a validator ever applied is in its mempool.
InMempool(n) == Txs \ tree[n]

\* prepareBlock
NewBlock(n, h, txs, qc) ==
    [height |-> h, proposer |-> n, txs |-> txs,
     stateHash |-> TreesAfter(n, txs),
     just |-> IF qc = Nil THEN Nil ELSE <<qc.round, qc.step>>]

LeaderNewRound(n, m) ==
    /\ AsLeader(n, m, NewRound)
    /\ ThresholdMet(Cardinality(Pooled(n, m)))
    /\ \E highQC \in HighQCs(n, m), txs \in SUBSET InMempool(n) :
         LET b == IF ShouldPrepareNewBlock(m.height, m.round, highQC)
                  THEN NewBlock(n, m.height, txs, highQC)
                  ELSE highQC.block
         IN  IF AppliesTo(n, FreshUOW, b)
             THEN /\ ApplyBlock(n, FreshUOW, b)
                  /\ EnterView(n, m, Prepare)
                  /\ Drain(n, m)
                  /\ Index(n, m)
                  /\ msgs' = msgs
                       \cup {Propose(n, m.height, m.round, Prepare, b, highQC)}
                       \cup Vote(n, n, m.height, m.round, Prepare, b)
                  /\ UNCHANGED <<certs, up>>
             ELSE Exit(n)

\* getQuorumCertificate pops the whole pool and keeps the votes of this view.
Votes(n, m) ==
    {v \in Pooled(n, m) : v.type = "vote" /\ v.height = m.height
                          /\ v.round = m.round}

NewQC(n, m) ==
    [height |-> m.height, round |-> m.round, step |-> m.step,
     block |-> block[n],
     signers |-> {v.src : v \in {w \in Votes(n, m) : w.block = block[n]}}]

HasQuorum(n, m, s) ==
    /\ AsLeader(n, m, s)
    /\ ThresholdMet(Cardinality(Votes(n, m)))

\* The pool reached the threshold with messages that are no votes of this
\* view: they are popped and no certificate is made.
LeaderNoQC(n, m) ==
    /\ m.step \in {Prepare, PreCommit, Commit}
    /\ AsLeader(n, m, m.step)
    /\ ThresholdMet(Cardinality(Pooled(n, m)))
    /\ ~ ThresholdMet(Cardinality(Votes(n, m)))
    /\ EnterView(n, m, m.step)
    /\ Drain(n, m)
    /\ Index(n, m)
    /\ UNCHANGED <<block, certs, store, up, msgs>>

\* The leader proposes step s with the certificate of the step before and
\* votes for it.  CreateProposeMessage refuses a nil block.
ProposeStep(n, m, s, qc, highQC) ==
    \/ /\ block[n] # Nil
       /\ EnterView(n, m, s)
       /\ Drain(n, m)
       /\ msgs' = msgs
            \cup {Propose(n, m.height, m.round, s, block[n], qc)}
            \cup Vote(n, n, m.height, m.round, s, block[n])
       /\ UNCHANGED <<uow, committed>>
    \/ /\ block[n] = Nil
       /\ InterruptRound(n, m.round, highQC, {})

LeaderPrepare(n, m) ==
    /\ HasQuorum(n, m, Prepare)
    /\ prepareQC' = [prepareQC EXCEPT ![n] = NewQC(n, m)]
    /\ ProposeStep(n, m, PreCommit, NewQC(n, m), NewQC(n, m))
    /\ Index(n, m)
    /\ UNCHANGED <<block, lockedQC, tree, up>>

LeaderPreCommit(n, m) ==
    /\ HasQuorum(n, m, PreCommit)
    /\ lockedQC' = [lockedQC EXCEPT ![n] = NewQC(n, m)]
    /\ UNCHANGED prepareQC
    /\ ProposeStep(n, m, Commit, NewQC(n, m), prepareQC[n])
    /\ Index(n, m)
    /\ UNCHANGED <<block, tree, up>>

\* The Decide proposal is broadcast before the block is committed, and the
\* header of m.block takes the certificate before commitBlock can fail.
WithCommitQC(b, qc) == [b EXCEPT !.just = <<qc.round, qc.step>>]

LeaderCommit(n, m) ==
    LET qc     == NewQC(n, m)
        decide == {Propose(n, m.height, m.round, Decide, block[n], qc)}
    IN  /\ HasQuorum(n, m, Commit)
        /\ Index(n, m)
        /\ \/ /\ block[n] # Nil /\ uow[n] # Nil
              /\ CommitAndNewHeight(n, m.round, decide)
           \/ /\ block[n] = Nil \/ uow[n] = Nil
              /\ InterruptRound(n, m.round, prepareQC[n],
                                IF block[n] = Nil THEN {} ELSE decide)
              /\ block' = [block EXCEPT ![n] =
                             IF @ = Nil THEN Nil ELSE WithCommitQC(@, qc)]
              /\ UNCHANGED <<certs, tree, up>>

-----------------------------------------------------------------------------
(* Replica handlers *)

ReplicaNewRound(n, m) ==
    /\ AsReplica(n, m, NewRound)
    /\ EnterView(n, m, Prepare)
    /\ uow' = [uow EXCEPT ![n] = FreshUOW]
    /\ UNCHANGED <<block, certs, pool, indexed, tree, committed, up, msgs>>

\* The error path shared by the handlers below.
ReplicaInterrupts(n, m) ==
    /\ InterruptRound(n, m.round, prepareQC[n], {})
    /\ UNCHANGED <<certs, indexed, tree, up>>

\* validateProposal dereferences the certificate of the proposal when the
\* node is locked, whether or not there is one.
ValidateProposalPanics(n, m) ==
    m.type = "propose" /\ m.qc = Nil /\ lockedQC[n] # Nil

ValidProposal(n, m) ==
    /\ m.type = "propose"
    /\ m.qc # Nil => ValidQC(m.qc)
    /\ lockedQC[n] # Nil => lockedQC[n].block = m.qc.block

ReplicaPrepare(n, m) ==
    /\ AsReplica(n, m, Prepare)
    /\ \/ /\ ValidateProposalPanics(n, m)
          /\ Exit(n)
       \/ /\ ~ ValidateProposalPanics(n, m)
          /\ ~ ValidProposal(n, m) \/ uow[n] = Nil
          /\ ReplicaInterrupts(n, m)
          /\ UNCHANGED block
       \/ /\ ~ ValidateProposalPanics(n, m)
          /\ ValidProposal(n, m) /\ uow[n] # Nil
          /\ ~ AppliesTo(n, uow[n], m.block)
          /\ Exit(n)
       \/ /\ ~ ValidateProposalPanics(n, m)
          /\ ValidProposal(n, m) /\ uow[n] # Nil
          /\ AppliesTo(n, uow[n], m.block)
          /\ ApplyBlock(n, uow[n], m.block)
          /\ EnterView(n, m, PreCommit)
          /\ msgs' = msgs \cup Vote(n, LeaderAfter(n, m), m.height, m.round,
                                    Prepare, m.block)
          /\ UNCHANGED <<certs, pool, indexed, up>>

\* HandlePrecommitMessage and HandleCommitMessage: the vote is for m.block,
\* which need not be the block of the message.
ReplicaVotes(n, m, next) ==
    /\ ValidQC(m.qc)
    /\ EnterView(n, m, next)
    /\ msgs' = msgs \cup Vote(n, LeaderAfter(n, m), m.height, m.round,
                              m.step, block[n])
    /\ UNCHANGED <<block, pool, indexed, store, up>>

ReplicaPreCommit(n, m) ==
    /\ AsReplica(n, m, PreCommit)
    /\ \/ /\ ~ ValidQC(m.qc)
          /\ ReplicaInterrupts(n, m)
          /\ UNCHANGED block
       \/ /\ ReplicaVotes(n, m, Commit)
          /\ prepareQC' = [prepareQC EXCEPT ![n] = m.qc]
          /\ UNCHANGED lockedQC

ReplicaCommit(n, m) ==
    /\ AsReplica(n, m, Commit)
    /\ \/ /\ ~ ValidQC(m.qc)
          /\ ReplicaInterrupts(n, m)
          /\ UNCHANGED block
       \/ /\ ReplicaVotes(n, m, Decide)
          /\ lockedQC' = [lockedQC EXCEPT ![n] = m.qc]
          /\ UNCHANGED prepareQC

\* A node that missed the proposal has no block to put the certificate in.
ReplicaDecide(n, m) ==
    /\ AsReplica(n, m, Decide)
    /\ \/ /\ ~ ValidQC(m.qc)
          /\ ReplicaInterrupts(n, m)
          /\ UNCHANGED block
       \/ /\ ValidQC(m.qc) /\ block[n] = Nil
          /\ Exit(n)
       \/ /\ ValidQC(m.qc) /\ block[n] # Nil /\ uow[n] = Nil
          /\ ReplicaInterrupts(n, m)
          /\ block' = [block EXCEPT ![n] = WithCommitQC(@, m.qc)]
       \/ /\ ValidQC(m.qc) /\ block[n] # Nil /\ uow[n] # Nil
          /\ CommitAndNewHeight(n, m.qc.round, {})
          /\ UNCHANGED indexed

-----------------------------------------------------------------------------
(* What either role does *)

\* anteHandle refuses the block; the pacemaker has caught up already.
AnteHandleFails(n, m) ==
    /\ ShouldHandle(n, m)
    /\ ~ IsValidMessageBlock(n, m)
    /\ EnterView(n, m, m.step)
    /\ UNCHANGED <<block, certs, pool, indexed, store, up, msgs>>

\* The round timer expires.
Timeout(n) ==
    /\ up[n] /\ height[n] <= MaxHeight
    /\ InterruptRound(n, round[n], prepareQC[n], {})
    /\ UNCHANGED <<block, certs, indexed, tree, up>>

HandleMessage(n, m) ==
    \/ LeaderCollect(n, m)
    \/ LeaderNewRound(n, m)
    \/ LeaderPrepare(n, m)
    \/ LeaderPreCommit(n, m)
    \/ LeaderCommit(n, m)
    \/ LeaderNoQC(n, m)
    \/ ReplicaNewRound(n, m)
    \/ ReplicaPrepare(n, m)
    \/ ReplicaPreCommit(n, m)
    \/ ReplicaCommit(n, m)
    \/ ReplicaDecide(n, m)
    \/ AnteHandleFails(n, m)

\* NewHeight has just started the first round of height 1 everywhere.
Init ==
    /\ height = [n \in Node |-> 1]
    /\ round = [n \in Node |-> 0]
    /\ step = [n \in Node |-> NewRound]
    /\ leaderId = [n \in Node |-> NoLeader]
    /\ block = [n \in Node |-> Nil]
    /\ prepareQC = [n \in Node |-> Nil]
    /\ lockedQC = [n \in Node |-> Nil]
    /\ pool = [n \in Node |-> EmptyPool]
    /\ indexed = [n \in Node |-> {}]
    /\ uow = [n \in Node |-> Nil]
    /\ tree = [n \in Node |-> {}]
    /\ committed = [n \in Node |-> {}]
    /\ up = [n \in Node |-> TRUE]
    /\ msgs = {Propose(n, 1, 0, NewRound, Nil, Nil) : n \in Node}

Next ==
    \E n \in Node :
        \/ Timeout(n)
        \/ \E m \in msgs : HandleMessage(n, m)

Spec == Init /\ [][Next]_vars

-----------------------------------------------------------------------------
(* Properties *)

\* Every handler leaves the fields of the consensus module in their types;
\* in particular the step is never the 0 that ResetRound passes through.
TypeOK ==
    /\ height \in [Node -> Nat] /\ round \in [Node -> Nat]
    /\ step \in [Node -> Steps] /\ leaderId \in [Node -> 0 .. N]
    /\ block \in [Node -> Block \cup {Nil}]
    /\ prepareQC \in [Node -> QC \cup {Nil}]
    /\ lockedQC \in [Node -> QC \cup {Nil}]
    /\ pool \in [Node -> [Steps -> SUBSET Message]]
    /\ indexed \in [Node -> SUBSET Message]
    /\ uow \in [Node -> UnitOfWork \cup {Nil}]
    /\ tree \in [Node -> SUBSET Txs]
    /\ committed \in [Node -> SUBSET StoredBlock]
    /\ up \in [Node -> BOOLEAN]
    /\ msgs \in SUBSET Message

IsVote(m) == m.type = "vote"

\* The certificates that exist anywhere: sent, or held by a validator.
Certificates ==
    ({m.qc : m \in msgs} \cup {prepareQC[n] : n \in Node}
       \cup {lockedQC[n] : n \in Node}) \ {Nil}

VotersFor(h, r, s, b) ==
    {n \in Node : \E v \in msgs : IsVote(v) /\ v.src = n /\ v.height = h
                     /\ v.round = r /\ v.step = s /\ v.block = b}

CommitVoters(h, r, hash) ==
    {n \in Node : \E v \in msgs : IsVote(v) /\ v.src = n /\ v.height = h
                     /\ v.round = r /\ v.step = Commit
                     /\ v.block.stateHash = hash}

\* A validator never signs two votes for one (height, round, step): the
\* handlers only move forward, whatever the order in which messages arrive.
VoteOnce ==
    \A v, w \in msgs :
        (/\ IsVote(v) /\ IsVote(w) /\ v.src = w.src
         /\ v.height = w.height /\ v.round = w.round /\ v.step = w.step)
        => v = w

\* Two certificates that validateQuorumCertificate accepts for the same
\* height, round and step certify the same block.
UniqueQC ==
    \A c, d \in Certificates :
        (/\ ValidQC(c) /\ ValidQC(d)
         /\ c.height = d.height /\ c.round = d.round /\ c.step = d.step)
        => c.block = d.block

\* validateQuorumCertificate does not look at the certificate's step, height
\* or round.  It need not: a prepareQC is always a certificate of Prepare
\* votes and a lockedQC one of PreCommit votes, of this height and of a round
\* that the validator has reached.
QCsInPlace ==
    \A n \in Node :
        /\ prepareQC[n] # Nil =>
             /\ prepareQC[n].step = Prepare /\ prepareQC[n].height = height[n]
             /\ prepareQC[n].round <= round[n]
        /\ lockedQC[n] # Nil =>
             /\ lockedQC[n].step = PreCommit /\ lockedQC[n].height = height[n]
             /\ lockedQC[n].round <= round[n]

\* A state hash in a block store is backed by the Commit votes that more than
\* two thirds of the validators cast for it in the round of the stored
\* certificate.  The leader commits without validating the certificate it
\* made, so this rests on the checks that let a vote into its pool.
CommitCertified ==
    \A n \in Node : \A c \in committed[n] :
        c.stateHash # Nil =>
          ThresholdMet(Cardinality(CommitVoters(c.height, c.round, c.stateHash)))

\* Two validators whose stored certificates are of the same round store the
\* same state hash.
AgreementInRound ==
    \A n, k \in Node : \A c \in committed[n], d \in committed[k] :
        (/\ c.height = d.height /\ c.round = d.round
         /\ c.stateHash # Nil /\ d.stateHash # Nil)
        => c.stateHash = d.stateHash

\* Two validators that store a state hash at one height store the same one,
\* whatever the rounds they commit in.  A leader never proposes the block of
\* an older certificate again (ShouldPrepareNewBlock) and replaces its own
\* m.block, so only replicas hold on to a hash once it is certified.
Agreement ==
    \A n, k \in Node : \A c \in committed[n], d \in committed[k] :
        (c.height = d.height /\ c.stateHash # Nil /\ d.stateHash # Nil)
        => c.stateHash = d.stateHash

\* Every stored block has the state hash of the block that was agreed on, not
\* the empty one of a unit of work that applied no block.
HashStored ==
    \A n \in Node : \A c \in committed[n] : c.stateHash # Nil

\* A validator's (height, round, step) only ever grows.
ViewNeverGoesBack ==
    [][\A n \in Node :
         \/ height'[n] > height[n]
         \/ height'[n] = height[n] /\ round'[n] > round[n]
         \/ height'[n] = height[n] /\ round'[n] = round[n]
            /\ step'[n] >= step[n]]_vars

\* Validators in the same round of the same height follow the same leader.
\* Leaders are elected from the fields of whatever message moved a validator
\* into the round.
OneLeader ==
    \A n, k \in Node :
        (/\ height[n] = height[k] /\ round[n] = round[k]
         /\ leaderId[n] # NoLeader /\ leaderId[k] # NoLeader)
        => leaderId[n] = leaderId[k]

-----------------------------------------------------------------------------
(* The inductive invariant *)

\* Where a validator is once it has voted: a replica has left the step it
\* voted in, the leader is still in it.
VotesAreCast ==
    \A v \in msgs : IsVote(v) =>
        /\ v.block # Nil
        /\ v.qc = Nil
        /\ \/ v.height < height[v.src]
           \/ v.height = height[v.src] /\ v.round < round[v.src]
           \/ /\ v.height = height[v.src] /\ v.round = round[v.src]
              /\ \/ v.step < step[v.src]
                 \/ v.step = step[v.src] /\ leaderId[v.src] = v.src

\* What correct leaders put in the proposals of the last three steps.
ProposalsJustified ==
    \A m \in msgs : (~ IsVote(m) /\ m.step \in {PreCommit, Commit, Decide}) =>
        /\ m.qc # Nil
        /\ m.qc.height = m.height /\ m.qc.round = m.round
        /\ m.qc.step = m.step - 1
        /\ m.qc.block = m.block

\* Every signature that a certificate counts is one of a vote that was cast
\* for the certificate's own view and block.
QCsBacked ==
    \A c \in Certificates :
        c.signers \subseteq VotersFor(c.height, c.round, c.step, c.block)

\* hotstuffMempool[step] only holds messages of that step that were sent.
PoolSent ==
    \A n \in Node : \A s \in Steps :
        pool[n][s] \subseteq {m \in msgs : m.step = s}

\* The Commit votes that the leader of the current round has pooled are for
\* the state hash of its block.
PoolMatchesBlock ==
    \A n \in Node : \A v \in pool[n][Commit] :
        /\ v.height = height[n] /\ v.round <= round[n]
        /\ v.round = round[n] =>
             /\ step[n] >= Commit
             /\ block[n] # Nil => v.block.stateHash = block[n].stateHash

\* A unit of work that has applied a block has applied m.block: its state
\* hash, the one a commit stores, is the one the node votes for.
UOWMatchesBlock ==
    \A n \in Node :
        (uow[n] # Nil /\ uow[n].stateHash # Nil) =>
            /\ block[n] # Nil
            /\ block[n].stateHash = uow[n].stateHash

\* What every handler and every timeout preserves, whatever the messages.
IInv ==
    /\ TypeOK
    /\ VotesAreCast
    /\ VoteOnce
    /\ ProposalsJustified
    /\ QCsBacked
    /\ PoolSent
    /\ PoolMatchesBlock
    /\ UOWMatchesBlock
    /\ QCsInPlace
    /\ CommitCertified

=============================================================================
