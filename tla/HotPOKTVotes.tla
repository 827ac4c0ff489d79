---------------------------- MODULE HotPOKTVotes ----------------------------
(***************************************************************************)
(* Every step of the consensus module preserves the types of its state,    *)
(* for any number of validators, any set of transactions, any bounds and   *)
(* either kind of network.  A validator only moves forward, and votes at   *)
(* most once in a step: every handler that sends a vote leaves the step it *)
(* voted in, or is the leader and stays in it.  From the votes the         *)
(* certificates are made.                                                  *)
(***************************************************************************)
EXTENDS HotPOKT, TLAPS

USE Zenon

-----------------------------------------------------------------------------
(* Types of the operators the handlers are built from *)

LEMMA MessageFields ==
    ASSUME NEW m \in Message
    PROVE  /\ m.type \in {"propose", "vote"} /\ m.src \in Node
           /\ m.height \in Nat /\ m.round \in Nat /\ m.step \in Steps
           /\ m.block \in Block \cup {Nil} /\ m.qc \in QC \cup {Nil}
BY DEF Message

LEMMA QCFields ==
    ASSUME NEW qc \in QC
    PROVE  /\ qc.height \in Nat /\ qc.round \in Nat /\ qc.step \in Steps
           /\ qc.block \in Block \cup {Nil} /\ qc.signers \in SUBSET Node
BY DEF QC

LEMMA BlockFields ==
    ASSUME NEW b \in Block
    PROVE  /\ b.txs \in SUBSET Txs /\ b.stateHash \in SUBSET Txs
           /\ b.proposer \in Node
BY DEF Block

LEMMA StepConstants ==
    /\ NewRound \in Steps /\ Prepare \in Steps /\ PreCommit \in Steps
    /\ Commit \in Steps /\ Decide \in Steps
    /\ Node \subseteq 0 .. N /\ NoLeader \in 0 .. N /\ Everyone \in 0 .. N
BY SMT, NAssumption
DEF NewRound, Prepare, PreCommit, Commit, Decide, Steps, Node,
    NoLeader, Everyone

LEMMA ProposeType ==
    ASSUME NEW n \in Node, NEW h \in Nat, NEW r \in Nat, NEW s \in Steps,
           NEW b \in Block \cup {Nil}, NEW qc \in QC \cup {Nil}
    PROVE  Propose(n, h, r, s, b, qc) \in Message
BY StepConstants DEF Propose, Message

LEMMA VoteType ==
    ASSUME NEW n \in Node, NEW l \in 0 .. N, NEW h \in Nat, NEW r \in Nat,
           NEW s \in Steps, NEW b \in Block \cup {Nil}
    PROVE  Vote(n, l, h, r, s, b) \subseteq Message
BY SMT, StepConstants DEF Vote, Message

LEMMA LeaderType ==
    ASSUME NEW h \in Nat, NEW r \in Nat, NEW s \in Steps
    PROVE  ElectNextLeader(h, r, s) \in Node
BY SMT, NAssumption DEF ElectNextLeader, Node, Steps, NewRound, Decide

LEMMA LeaderAfterType ==
    ASSUME TypeOK, NEW n \in Node, NEW m \in msgs
    PROVE  LeaderAfter(n, m) \in 0 .. N
BY MessageFields, LeaderType, StepConstants DEF LeaderAfter, TypeOK

LEMMA NewQCType ==
    ASSUME TypeOK, NEW n \in Node, NEW m \in msgs
    PROVE  NewQC(n, m) \in QC
<1>1. m \in Message /\ pool[n][m.step] \subseteq Message
  BY SMT, MessageFields DEF TypeOK
<1>2. Votes(n, m) \subseteq Message
  BY <1>1 DEF Votes, Pooled
<1>3. {v.src : v \in {w \in Votes(n, m) : w.block = block[n]}} \subseteq Node
  BY <1>2, MessageFields
<1>4. block[n] \in Block \cup {Nil}
  BY DEF TypeOK
<1> QED
  BY <1>1, <1>3, <1>4, MessageFields DEF NewQC, QC

LEMMA TreesAfterType ==
    ASSUME TypeOK, NEW n \in Node, NEW txs \in SUBSET Txs
    PROVE  TreesAfter(n, txs) \in SUBSET Txs
BY DEF TypeOK, TreesAfter

LEMMA FreshUOWType == FreshUOW \in UnitOfWork
BY StepConstants DEF FreshUOW, UnitOfWork

LEMMA NewBlockType ==
    ASSUME TypeOK, NEW n \in Node, NEW h \in Nat, NEW txs \in SUBSET Txs,
           NEW qc \in QC \cup {Nil}
    PROVE  NewBlock(n, h, txs, qc) \in Block
<1>1. TreesAfter(n, txs) \in SUBSET Txs
  BY TreesAfterType
<1>2. CASE qc = Nil
  BY <1>1, <1>2 DEF NewBlock, Block
<1>3. CASE qc # Nil
  BY <1>1, <1>3, QCFields DEF NewBlock, Block
<1> QED
  BY <1>2, <1>3

\* The step of the message that each handler is for.
LEMMA LeaderSteps ==
    ASSUME NEW n, NEW m
    PROVE  /\ LeaderNewRound(n, m) => AsLeader(n, m, NewRound)
           /\ LeaderPrepare(n, m) => AsLeader(n, m, Prepare)
           /\ LeaderPreCommit(n, m) => AsLeader(n, m, PreCommit)
           /\ LeaderCommit(n, m) => AsLeader(n, m, Commit)
<1>1. LeaderNewRound(n, m) => AsLeader(n, m, NewRound)
  BY Zenon DEF LeaderNewRound
<1>2. LeaderPrepare(n, m) => AsLeader(n, m, Prepare)
  BY Zenon DEF LeaderPrepare, HasQuorum
<1>3. LeaderPreCommit(n, m) => AsLeader(n, m, PreCommit)
  BY Zenon DEF LeaderPreCommit, HasQuorum
<1>4. LeaderCommit(n, m) => AsLeader(n, m, Commit)
  BY Zenon DEF LeaderCommit, HasQuorum
<1> QED
  BY <1>1, <1>2, <1>3, <1>4

LEMMA ReplicaSteps ==
    ASSUME NEW n, NEW m
    PROVE  /\ ReplicaNewRound(n, m) => AsReplica(n, m, NewRound)
           /\ ReplicaPrepare(n, m) => AsReplica(n, m, Prepare)
           /\ ReplicaPreCommit(n, m) => AsReplica(n, m, PreCommit)
           /\ ReplicaCommit(n, m) => AsReplica(n, m, Commit)
           /\ ReplicaDecide(n, m) => AsReplica(n, m, Decide)
BY Zenon DEF ReplicaNewRound, ReplicaPrepare, ReplicaPreCommit, ReplicaCommit,
             ReplicaDecide

LEMMA WithCommitQCType ==
    ASSUME NEW b \in Block, NEW qc \in QC
    PROVE  WithCommitQC(b, qc) \in Block
BY QCFields DEF WithCommitQC, Block

-----------------------------------------------------------------------------
(* Types are preserved *)

\* The operators that several handlers end with.
LEMMA EnterViewType ==
    ASSUME TypeOK, NEW n \in Node, NEW m \in msgs, NEW s \in Steps,
           EnterView(n, m, s)
    PROVE  /\ height' \in [Node -> Nat] /\ round' \in [Node -> Nat]
           /\ step' \in [Node -> Steps] /\ leaderId' \in [Node -> 0 .. N]
BY MessageFields, LeaderAfterType DEF EnterView, TypeOK

LEMMA EmptyPoolType == EmptyPool \in [Steps -> SUBSET Message]
BY DEF EmptyPool

LEMMA InterruptRoundType ==
    ASSUME TypeOK, NEW n \in Node, NEW r \in Nat, NEW qc \in QC \cup {Nil},
           NEW sent \in SUBSET Message, InterruptRound(n, r, qc, sent)
    PROVE  /\ height' \in [Node -> Nat] /\ round' \in [Node -> Nat]
           /\ step' \in [Node -> Steps] /\ leaderId' \in [Node -> 0 .. N]
           /\ pool' \in [Node -> [Steps -> SUBSET Message]]
           /\ uow' \in [Node -> UnitOfWork \cup {Nil}]
           /\ committed' \in [Node -> SUBSET StoredBlock]
           /\ msgs' \in SUBSET Message
<1>0. height[n] \in Nat /\ r + 1 \in Nat
  BY SMT DEF TypeOK
<1>1. Propose(n, height[n], r + 1, NewRound, Nil, qc) \in Message
  BY <1>0, ProposeType, StepConstants
<1> QED
  BY SMT, <1>1, EmptyPoolType, StepConstants DEF InterruptRound, TypeOK

LEMMA CommitAndNewHeightType ==
    ASSUME TypeOK, NEW n \in Node, NEW r \in Nat,
           NEW sent \in SUBSET Message, uow[n] # Nil,
           CommitAndNewHeight(n, r, sent), indexed' \in [Node -> SUBSET Message]
    PROVE  TypeOK'
<1>0. height[n] + 1 \in Nat /\ 0 \in Nat
  BY SMT DEF TypeOK
<1>1. Propose(n, height[n] + 1, 0, NewRound, Nil, Nil) \in Message
  BY <1>0, ProposeType, StepConstants
<1>2. [height |-> height[n], round |-> r, stateHash |-> uow[n].stateHash,
       leaves |-> uow[n].leaves, proposer |-> uow[n].proposer] \in StoredBlock
  BY DEF TypeOK, UnitOfWork, StoredBlock
<1>3. /\ committed' \in [Node -> SUBSET StoredBlock]
      /\ msgs' \in SUBSET Message
  BY <1>1, <1>2 DEF CommitAndNewHeight, CommitBlock, TypeOK
<1>4. /\ height' \in [Node -> Nat] /\ round' \in [Node -> Nat]
      /\ step' \in [Node -> Steps] /\ leaderId' \in [Node -> 0 .. N]
  BY SMT, StepConstants DEF CommitAndNewHeight, CommitBlock, TypeOK
<1>5. /\ block' \in [Node -> Block \cup {Nil}]
      /\ prepareQC' \in [Node -> QC \cup {Nil}]
      /\ lockedQC' \in [Node -> QC \cup {Nil}]
      /\ pool' \in [Node -> [Steps -> SUBSET Message]]
      /\ uow' \in [Node -> UnitOfWork \cup {Nil}]
      /\ tree' \in [Node -> SUBSET Txs]
      /\ up' \in [Node -> BOOLEAN]
  BY EmptyPoolType DEF CommitAndNewHeight, CommitBlock, TypeOK
<1> QED
  BY <1>3, <1>4, <1>5 DEF TypeOK

LEMMA ApplyBlockType ==
    ASSUME TypeOK, NEW n \in Node, NEW u \in UnitOfWork, NEW b \in Block,
           ApplyBlock(n, u, b)
    PROVE  /\ uow' \in [Node -> UnitOfWork \cup {Nil}]
           /\ tree' \in [Node -> SUBSET Txs]
           /\ block' \in [Node -> Block \cup {Nil}]
           /\ committed' \in [Node -> SUBSET StoredBlock]
<1>1. TreesAfter(n, b.txs) \in SUBSET Txs
  BY BlockFields, TreesAfterType
<1>2. [stateHash |-> TreesAfter(n, b.txs), leaves |-> u.leaves \cup b.txs,
       proposer |-> b.proposer] \in UnitOfWork
  BY <1>1, BlockFields, StepConstants DEF UnitOfWork
<1> QED
  BY <1>1, <1>2 DEF ApplyBlock, TypeOK

LEMMA ExitType ==
    ASSUME TypeOK, NEW n \in Node, Exit(n)
    PROVE  TypeOK'
BY DEF TypeOK, Exit, view, certs, store

LEMMA PooledType ==
    ASSUME TypeOK, NEW n \in Node, NEW m \in msgs
    PROVE  /\ Pooled(n, m) \in SUBSET Message
           /\ Drain(n, m) => pool' \in [Node -> [Steps -> SUBSET Message]]
           /\ Index(n, m) => indexed' \in [Node -> SUBSET Message]
<1>1. m \in Message /\ m.step \in Steps
  BY MessageFields DEF TypeOK
<1>2. pool \in [Node -> [Steps -> SUBSET Message]]
  BY DEF TypeOK
<1>3. Pooled(n, m) \in SUBSET Message
  BY <1>1, <1>2 DEF Pooled
<1>4. Drain(n, m) => pool' \in [Node -> [Steps -> SUBSET Message]]
  BY SMT, <1>1, <1>2 DEF Drain
<1>5. Index(n, m) => indexed' \in [Node -> SUBSET Message]
  BY SMT, <1>1 DEF Index, TypeOK
<1> QED
  BY <1>3, <1>4, <1>5

LEMMA HighQCType ==
    ASSUME TypeOK, NEW n \in Node, NEW m \in msgs, NEW qc \in HighQCs(n, m)
    PROVE  qc \in QC \cup {Nil}
<1>1. m \in Message /\ pool[n][m.step] \subseteq Message
  BY SMT, MessageFields DEF TypeOK
<1>2. {x.qc : x \in pool[n][m.step] \ {m}} \subseteq QC \cup {Nil}
  BY <1>1, MessageFields
<1> QED
  BY <1>1, <1>2, MessageFields DEF HighQCs

LEMMA ProposeStepType ==
    ASSUME TypeOK, NEW n \in Node, NEW m \in msgs, NEW s \in Steps,
           NEW qc \in QC, NEW highQC \in QC \cup {Nil},
           ProposeStep(n, m, s, qc, highQC)
    PROVE  /\ height' \in [Node -> Nat] /\ round' \in [Node -> Nat]
           /\ step' \in [Node -> Steps] /\ leaderId' \in [Node -> 0 .. N]
           /\ pool' \in [Node -> [Steps -> SUBSET Message]]
           /\ uow' \in [Node -> UnitOfWork \cup {Nil}]
           /\ committed' \in [Node -> SUBSET StoredBlock]
           /\ msgs' \in SUBSET Message
<1>1. m.height \in Nat /\ m.round \in Nat
  BY MessageFields DEF TypeOK
<1>2. block[n] \in Block \cup {Nil} /\ n \in 0 .. N
  BY StepConstants DEF TypeOK
<1>3. CASE block[n] = Nil
  BY SMT, <1>1, <1>3, InterruptRoundType DEF ProposeStep
<1>4. CASE block[n] # Nil
  <2>1. /\ Propose(n, m.height, m.round, s, block[n], qc) \in Message
        /\ Vote(n, n, m.height, m.round, s, block[n]) \subseteq Message
    BY <1>1, <1>2, ProposeType, VoteType
  <2>2. EnterView(n, m, s) /\ Drain(n, m)
    BY <1>4 DEF ProposeStep
  <2>3. /\ msgs' = msgs
              \cup {Propose(n, m.height, m.round, s, block[n], qc)}
              \cup Vote(n, n, m.height, m.round, s, block[n])
        /\ UNCHANGED <<uow, committed>>
    BY <1>4 DEF ProposeStep
  <2>4. msgs' \in SUBSET Message
    BY <2>1, <2>3 DEF TypeOK
  <2> QED
    BY <2>2, <2>3, <2>4, EnterViewType, PooledType DEF TypeOK
<1> QED
  BY <1>3, <1>4

LEMMA LeaderStepType ==
    ASSUME TypeOK, NEW n \in Node, NEW m \in msgs,
           \/ LeaderCollect(n, m) \/ LeaderNewRound(n, m)
           \/ LeaderPrepare(n, m) \/ LeaderPreCommit(n, m)
           \/ LeaderCommit(n, m) \/ LeaderNoQC(n, m)
    PROVE  TypeOK'
<1>1. m \in Message /\ m.height \in Nat /\ m.round \in Nat /\ m.step \in Steps
  BY MessageFields DEF TypeOK
<1>2. NewQC(n, m) \in QC
  BY NewQCType
<1>3. prepareQC[n] \in QC \cup {Nil} /\ block[n] \in Block \cup {Nil}
  BY DEF TypeOK
<1>4. CASE LeaderCollect(n, m)
  <2>1. EnterView(n, m, m.step) /\ Index(n, m)
    BY <1>4 DEF LeaderCollect
  <2>2. pool' \in [Node -> [Steps -> SUBSET Message]]
    <3>1. pool \in [Node -> [Steps -> SUBSET Message]]
      BY DEF TypeOK
    <3>2. pool' = [pool EXCEPT ![n][m.step] = Pooled(n, m)]
      BY <1>4 DEF LeaderCollect
    <3> QED
      BY <1>1, <3>1, <3>2, PooledType
  <2> QED
    BY <1>1, <1>4, <2>1, <2>2, EnterViewType, PooledType
    DEF LeaderCollect, TypeOK, certs, store
<1>5. CASE LeaderNewRound(n, m)
  <2> PICK highQC \in HighQCs(n, m), txs \in SUBSET InMempool(n) :
        LET b == IF ShouldPrepareNewBlock(m.height, m.round, highQC)
                 THEN NewBlock(n, m.height, txs, highQC)
                 ELSE highQC.block
        IN  IF AppliesTo(n, FreshUOW, b)
            THEN /\ ApplyBlock(n, FreshUOW, b)
                 /\ EnterView(n, m, Prepare)
                 /\ Drain(n, m)
                 /\ Index(n, m)
                 /\ msgs' = msgs
                      \cup {Propose(n, m.height, m.round, Prepare, b, highQC)}
                      \cup Vote(n, n, m.height, m.round, Prepare, b)
                 /\ UNCHANGED <<certs, up>>
            ELSE Exit(n)
    BY <1>5 DEF LeaderNewRound
  <2> DEFINE b == IF ShouldPrepareNewBlock(m.height, m.round, highQC)
                  THEN NewBlock(n, m.height, txs, highQC)
                  ELSE highQC.block
  <2>1. highQC \in QC \cup {Nil} /\ txs \in SUBSET Txs
    BY HighQCType DEF InMempool
  <2>2. b \in Block
    BY <1>1, <2>1, NewBlockType, QCFields DEF ShouldPrepareNewBlock
  <2> HIDE DEF b
  <2>3. CASE AppliesTo(n, FreshUOW, b)
    <3>1. /\ Propose(n, m.height, m.round, Prepare, b, highQC) \in Message
          /\ Vote(n, n, m.height, m.round, Prepare, b) \subseteq Message
      BY <1>1, <2>1, <2>2, ProposeType, VoteType, StepConstants
    <3>2. msgs' \in SUBSET Message
      BY <2>3, <3>1 DEF b, TypeOK
    <3>3. /\ ApplyBlock(n, FreshUOW, b) /\ EnterView(n, m, Prepare)
          /\ Drain(n, m) /\ Index(n, m) /\ UNCHANGED <<certs, up>>
      BY <2>3 DEF b
    <3> QED
      BY <2>2, <3>2, <3>3, ApplyBlockType, EnterViewType, PooledType,
         FreshUOWType, StepConstants DEF TypeOK, certs
  <2>4. CASE ~ AppliesTo(n, FreshUOW, b)
    BY <2>4, ExitType DEF b
  <2> QED
    BY <2>3, <2>4
<1>6. CASE LeaderPrepare(n, m)
  <2>1. ProposeStep(n, m, PreCommit, NewQC(n, m), NewQC(n, m)) /\ Index(n, m)
    BY <1>6 DEF LeaderPrepare
  <2>2. /\ prepareQC' = [prepareQC EXCEPT ![n] = NewQC(n, m)]
        /\ UNCHANGED <<block, lockedQC, tree, up>>
    BY <1>6 DEF LeaderPrepare
  <2> QED
    BY <1>2, <2>1, <2>2, ProposeStepType, PooledType, StepConstants DEF TypeOK
<1>7. CASE LeaderPreCommit(n, m)
  <2>1. ProposeStep(n, m, Commit, NewQC(n, m), prepareQC[n]) /\ Index(n, m)
    BY <1>7 DEF LeaderPreCommit
  <2>2. /\ lockedQC' = [lockedQC EXCEPT ![n] = NewQC(n, m)]
        /\ UNCHANGED <<prepareQC, block, tree, up>>
    BY <1>7 DEF LeaderPreCommit
  <2> QED
    BY <1>2, <1>3, <2>1, <2>2, ProposeStepType, PooledType, StepConstants
    DEF TypeOK
<1>8. CASE LeaderCommit(n, m)
  <2> DEFINE qc     == NewQC(n, m)
             decide == {Propose(n, m.height, m.round, Decide, block[n], qc)}
             sent   == IF block[n] = Nil THEN {} ELSE decide
  <2>1. decide \in SUBSET Message /\ sent \in SUBSET Message
    <3>1. Propose(n, m.height, m.round, Decide, block[n], NewQC(n, m)) \in Message
      BY <1>1, <1>2, <1>3, ProposeType, StepConstants
    <3> QED
      BY <3>1
  <2>2. indexed' \in [Node -> SUBSET Message]
    BY <1>8, PooledType DEF LeaderCommit
  <2>3. CASE uow[n] # Nil /\ CommitAndNewHeight(n, m.round, decide)
    BY <1>1, <2>1, <2>2, <2>3, CommitAndNewHeightType
  <2>4. CASE /\ InterruptRound(n, m.round, prepareQC[n], sent)
             /\ block' = [block EXCEPT ![n] =
                             IF @ = Nil THEN Nil ELSE WithCommitQC(@, qc)]
             /\ UNCHANGED <<certs, tree, up>>
    <3>1. block' \in [Node -> Block \cup {Nil}]
      BY <1>2, <1>3, <2>4, WithCommitQCType DEF TypeOK
    <3> HIDE DEF sent
    <3>2. InterruptRound(n, m.round, prepareQC[n], sent)
      BY <2>4
    <3>3. /\ height' \in [Node -> Nat] /\ round' \in [Node -> Nat]
          /\ step' \in [Node -> Steps] /\ leaderId' \in [Node -> 0 .. N]
          /\ pool' \in [Node -> [Steps -> SUBSET Message]]
          /\ uow' \in [Node -> UnitOfWork \cup {Nil}]
          /\ committed' \in [Node -> SUBSET StoredBlock]
          /\ msgs' \in SUBSET Message
      BY <1>1, <1>3, <2>1, <3>2, InterruptRoundType
    <3>4. UNCHANGED <<certs, tree, up>>
      BY <2>4
    <3> QED
      BY <2>2, <3>1, <3>3, <3>4 DEF TypeOK, certs
  <2> QED
    BY <1>8, <2>3, <2>4 DEF LeaderCommit
<1>9. CASE LeaderNoQC(n, m)
  <2>1. EnterView(n, m, m.step) /\ Index(n, m) /\ Drain(n, m)
    BY <1>9 DEF LeaderNoQC
  <2> QED
    BY <1>1, <1>9, <2>1, EnterViewType, PooledType
    DEF LeaderNoQC, TypeOK, certs, store
<1> QED
  BY <1>4, <1>5, <1>6, <1>7, <1>8, <1>9

LEMMA ReplicaStepType ==
    ASSUME TypeOK, NEW n \in Node, NEW m \in msgs,
           \/ ReplicaNewRound(n, m) \/ ReplicaPrepare(n, m)
           \/ ReplicaPreCommit(n, m) \/ ReplicaCommit(n, m)
           \/ ReplicaDecide(n, m) \/ AnteHandleFails(n, m)
    PROVE  TypeOK'
<1>1. m \in Message /\ m.height \in Nat /\ m.round \in Nat /\ m.step \in Steps
  BY MessageFields DEF TypeOK
<1>2. /\ prepareQC[n] \in QC \cup {Nil} /\ block[n] \in Block \cup {Nil}
      /\ m.qc \in QC \cup {Nil} /\ m.block \in Block \cup {Nil}
      /\ uow[n] \in UnitOfWork \cup {Nil}
  BY <1>1, MessageFields DEF TypeOK
<1>3. LeaderAfter(n, m) \in 0 .. N
  BY LeaderAfterType
<1>4. ASSUME ReplicaInterrupts(n, m), block' \in [Node -> Block \cup {Nil}]
      PROVE  TypeOK'
  <2>1. {} \in SUBSET Message
    OBVIOUS
  <2>2. InterruptRound(n, m.round, prepareQC[n], {})
    BY <1>4 DEF ReplicaInterrupts
  <2>3. /\ height' \in [Node -> Nat] /\ round' \in [Node -> Nat]
        /\ step' \in [Node -> Steps] /\ leaderId' \in [Node -> 0 .. N]
        /\ pool' \in [Node -> [Steps -> SUBSET Message]]
        /\ uow' \in [Node -> UnitOfWork \cup {Nil}]
        /\ committed' \in [Node -> SUBSET StoredBlock]
        /\ msgs' \in SUBSET Message
    BY <1>1, <1>2, <2>1, <2>2, InterruptRoundType
  <2> QED
    BY <1>4, <2>3 DEF ReplicaInterrupts, TypeOK, certs
<1>5. UNCHANGED block => block' \in [Node -> Block \cup {Nil}]
  BY DEF TypeOK
<1>6. ASSUME NEW s \in Steps, NEW b \in Block \cup {Nil}
      PROVE  Vote(n, LeaderAfter(n, m), m.height, m.round, s, b)
               \subseteq Message
  BY <1>1, <1>3, VoteType
<1>7. CASE ReplicaNewRound(n, m)
  <2>1. EnterView(n, m, Prepare)
    BY <1>7 DEF ReplicaNewRound
  <2> QED
    BY <1>7, <2>1, EnterViewType, FreshUOWType, StepConstants
    DEF ReplicaNewRound, TypeOK, certs
<1>8. CASE ReplicaPrepare(n, m)
  <2>1. CASE Exit(n)
    BY <2>1, ExitType
  <2>2. CASE ReplicaInterrupts(n, m) /\ UNCHANGED block
    BY <1>4, <1>5, <2>2
  <2>3. CASE /\ uow[n] # Nil
             /\ ApplyBlock(n, uow[n], m.block)
             /\ EnterView(n, m, PreCommit)
             /\ msgs' = msgs \cup Vote(n, LeaderAfter(n, m), m.height,
                                       m.round, Prepare, m.block)
             /\ UNCHANGED <<certs, pool, indexed, up>>
    <3>1. m.block \in Block
      BY SMT, <1>2, <1>8, ReplicaSteps DEF AsReplica, IsValidMessageBlock,
                                      NewRound, Prepare
    <3>2. msgs' \in SUBSET Message
      BY <1>2, <1>6, <2>3, StepConstants DEF TypeOK
    <3> QED
      BY <1>2, <2>3, <3>1, <3>2, ApplyBlockType, EnterViewType, StepConstants
      DEF TypeOK, certs
  <2> QED
    BY <1>8, <2>1, <2>2, <2>3 DEF ReplicaPrepare
<1>9. ASSUME NEW s \in Steps, ReplicaVotes(n, m, s),
             prepareQC' \in [Node -> QC \cup {Nil}],
             lockedQC' \in [Node -> QC \cup {Nil}]
      PROVE  TypeOK'
  <2>1. msgs' \in SUBSET Message
    BY <1>1, <1>2, <1>6, <1>9 DEF ReplicaVotes, TypeOK
  <2>2. EnterView(n, m, s)
    BY <1>9 DEF ReplicaVotes
  <2> QED
    BY <1>9, <2>1, <2>2, EnterViewType DEF ReplicaVotes, TypeOK, store
<1>10. CASE ReplicaPreCommit(n, m)
  <2>1. CASE ReplicaInterrupts(n, m) /\ UNCHANGED block
    BY <1>4, <1>5, <2>1
  <2>2. CASE /\ ReplicaVotes(n, m, Commit)
             /\ prepareQC' = [prepareQC EXCEPT ![n] = m.qc]
             /\ UNCHANGED lockedQC
    <3>1. /\ prepareQC' \in [Node -> QC \cup {Nil}]
          /\ lockedQC' \in [Node -> QC \cup {Nil}]
      BY <1>2, <2>2 DEF TypeOK
    <3> QED
      BY <1>9, <2>2, <3>1, StepConstants
  <2> QED
    BY <1>10, <2>1, <2>2 DEF ReplicaPreCommit
<1>11. CASE ReplicaCommit(n, m)
  <2>1. CASE ReplicaInterrupts(n, m) /\ UNCHANGED block
    BY <1>4, <1>5, <2>1
  <2>2. CASE /\ ReplicaVotes(n, m, Decide)
             /\ lockedQC' = [lockedQC EXCEPT ![n] = m.qc]
             /\ UNCHANGED prepareQC
    <3>1. /\ prepareQC' \in [Node -> QC \cup {Nil}]
          /\ lockedQC' \in [Node -> QC \cup {Nil}]
      BY <1>2, <2>2 DEF TypeOK
    <3> QED
      BY <1>9, <2>2, <3>1, StepConstants
  <2> QED
    BY <1>11, <2>1, <2>2 DEF ReplicaCommit
<1>12. CASE ReplicaDecide(n, m)
  <2>1. CASE ReplicaInterrupts(n, m) /\ UNCHANGED block
    BY <1>4, <1>5, <2>1
  <2>2. CASE Exit(n)
    BY <2>2, ExitType
  <2>3. CASE /\ ValidQC(m.qc) /\ block[n] # Nil
             /\ ReplicaInterrupts(n, m)
             /\ block' = [block EXCEPT ![n] = WithCommitQC(@, m.qc)]
    <3>1. block' \in [Node -> Block \cup {Nil}]
      BY <1>2, <2>3, WithCommitQCType DEF ValidQC, TypeOK
    <3> QED
      BY <1>4, <2>3, <3>1
  <2>4. CASE /\ ValidQC(m.qc) /\ uow[n] # Nil
             /\ CommitAndNewHeight(n, m.qc.round, {})
             /\ UNCHANGED indexed
    <3>1. m.qc.round \in Nat
      BY <1>2, <2>4, QCFields DEF ValidQC
    <3>2. {} \in SUBSET Message /\ indexed' \in [Node -> SUBSET Message]
      BY <2>4 DEF TypeOK
    <3> QED
      BY <2>4, <3>1, <3>2, CommitAndNewHeightType
  <2> QED
    BY <1>12, <2>1, <2>2, <2>3, <2>4 DEF ReplicaDecide
<1>13. CASE AnteHandleFails(n, m)
  <2>1. EnterView(n, m, m.step)
    BY <1>13 DEF AnteHandleFails
  <2> QED
    BY <1>1, <1>13, <2>1, EnterViewType
    DEF AnteHandleFails, TypeOK, certs, store
<1> QED
  BY <1>7, <1>8, <1>10, <1>11, <1>12, <1>13

\* Type correctness is an invariant: every handler leaves the state in its
\* types, with nil blocks and nil certificates where the code can leave them.
LEMMA TypeStep ==
    ASSUME TypeOK, [Next]_vars
    PROVE  TypeOK'
<1>1. CASE UNCHANGED vars
  BY <1>1 DEF TypeOK, vars, view, certs, store
<1>2. ASSUME NEW n \in Node, Timeout(n)
      PROVE  TypeOK'
  <2>1. round[n] \in Nat /\ prepareQC[n] \in QC \cup {Nil}
        /\ {} \in SUBSET Message
    BY DEF TypeOK
  <2>2. InterruptRound(n, round[n], prepareQC[n], {})
    BY <1>2 DEF Timeout
  <2>3. UNCHANGED <<block, certs, indexed, tree, up>>
    BY <1>2 DEF Timeout
  <2>4. /\ height' \in [Node -> Nat] /\ round' \in [Node -> Nat]
        /\ step' \in [Node -> Steps] /\ leaderId' \in [Node -> 0 .. N]
        /\ pool' \in [Node -> [Steps -> SUBSET Message]]
        /\ uow' \in [Node -> UnitOfWork \cup {Nil}]
        /\ committed' \in [Node -> SUBSET StoredBlock]
        /\ msgs' \in SUBSET Message
    BY <2>1, <2>2, InterruptRoundType
  <2> QED
    BY <2>3, <2>4 DEF TypeOK, certs
<1>3. ASSUME NEW n \in Node, NEW m \in msgs, HandleMessage(n, m)
      PROVE  TypeOK'
  BY <1>3, LeaderStepType, ReplicaStepType DEF HandleMessage
<1> QED
  BY <1>1, <1>2, <1>3 DEF Next

LEMMA InitType == Init => TypeOK
<1> SUFFICES ASSUME Init PROVE TypeOK
  OBVIOUS
<1>1. \A n \in Node : Propose(n, 1, 0, NewRound, Nil, Nil) \in Message
  BY ProposeType, StepConstants
<1>2. msgs \in SUBSET Message
  BY <1>1 DEF Init
<1> QED
  BY <1>2, EmptyPoolType, StepConstants DEF Init, TypeOK

\* The type invariant holds in every state, whatever N, Txs and the bounds.
THEOREM TypeCorrect == Spec => []TypeOK
BY InitType, TypeStep, PTL DEF Spec

-----------------------------------------------------------------------------
(* A validator moves forward and votes at most once in a step *)

\* Only the view of n changes, and it grows; within a round a leader that is
\* set stays.
ViewForward(n) ==
    /\ \A k \in Node \ {n} :
         /\ height'[k] = height[k] /\ round'[k] = round[k]
         /\ step'[k] = step[k] /\ leaderId'[k] = leaderId[k]
    /\ \/ height'[n] > height[n]
       \/ height'[n] = height[n] /\ round'[n] > round[n]
       \/ /\ height'[n] = height[n] /\ round'[n] = round[n]
          /\ step'[n] >= step[n]
          /\ leaderId[n] # NoLeader => leaderId'[n] = leaderId[n]

\* n has not voted in step s of round r of its height.
Unvoted(n, r, s) ==
    \/ round[n] < r
    \/ round[n] = r /\ step[n] < s
    \/ round[n] = r /\ step[n] = s /\ leaderId[n] # n

\* The votes of a step: none, or one of n that it could still cast.
VoteStep(n) ==
    \/ \A v \in msgs' \ msgs : ~ IsVote(v)
    \/ \E s \in Steps, l \in 0 .. N, b \in Block \cup {Nil} :
         /\ \A v \in msgs' \ msgs : IsVote(v) =>
              v \in Vote(n, l, height[n], round'[n], s, b)
         /\ height'[n] = height[n]
         /\ Unvoted(n, round'[n], s)
         /\ s < step'[n] \/ (s = step'[n] /\ leaderId'[n] = n)

Forward(n) == msgs \subseteq msgs' /\ ViewForward(n) /\ VoteStep(n)

LEMMA EnterViewForward ==
    ASSUME TypeOK, NEW n \in Node, NEW m \in msgs, ShouldHandle(n, m),
           NEW s \in Steps, s >= m.step, EnterView(n, m, s)
    PROVE  /\ ViewForward(n)
           /\ height'[n] = height[n] /\ height[n] = m.height
           /\ round'[n] = m.round /\ step'[n] = s
           /\ leaderId'[n] = LeaderAfter(n, m)
<1>1. m.round \in Nat /\ m.step \in Steps
  BY MessageFields DEF TypeOK
<1>2. /\ height'[n] = height[n] /\ height[n] = m.height
      /\ round'[n] = m.round /\ step'[n] = s
      /\ leaderId'[n] = LeaderAfter(n, m)
  BY DEF EnterView, ShouldHandle, TypeOK
<1>3. ASSUME NEW k \in Node \ {n}
      PROVE  /\ height'[k] = height[k] /\ round'[k] = round[k]
             /\ step'[k] = step[k] /\ leaderId'[k] = leaderId[k]
  BY DEF EnterView, TypeOK
<1>4. \/ m.round > round[n]
      \/ m.round = round[n] /\ s >= step[n]
  BY SMT, <1>1 DEF ShouldHandle, TypeOK, Steps, NewRound, Decide
<1>5. (m.round = round[n] /\ leaderId[n] # NoLeader)
        => LeaderAfter(n, m) = leaderId[n]
  BY DEF LeaderAfter
<1> QED
  BY <1>2, <1>3, <1>4, <1>5 DEF ViewForward

LEMMA UnvotedReplica ==
    ASSUME TypeOK, NEW n \in Node, NEW m \in msgs, NEW s \in Steps,
           AsReplica(n, m, s)
    PROVE  Unvoted(n, m.round, s)
<1>1. m.round \in Nat /\ m.step \in Steps /\ m.step = s /\ n # NoLeader
  BY SMT, MessageFields DEF TypeOK, AsReplica, Node, NoLeader
<1>2. \/ m.round > round[n]
      \/ m.round = round[n] /\ m.step >= step[n]
  BY DEF AsReplica, ShouldHandle
<1>3. m.round = round[n] => leaderId[n] # n
  BY <1>1 DEF AsReplica, LeaderAfter
<1> QED
  BY SMT, <1>1, <1>2, <1>3 DEF Unvoted, TypeOK, Steps, NewRound, Decide

LEMMA UnvotedLeader ==
    ASSUME TypeOK, NEW n \in Node, NEW m \in msgs, NEW s \in Steps,
           ShouldHandle(n, m), s > m.step
    PROVE  Unvoted(n, m.round, s)
<1>1. /\ m.round \in Nat /\ round[n] \in Nat
      /\ m.step \in Int /\ s \in Int /\ step[n] \in Int
  BY SMT, MessageFields DEF TypeOK, Steps
<1>2. \/ m.round > round[n]
      \/ m.round = round[n] /\ m.step >= step[n]
  BY DEF ShouldHandle
<1> QED
  BY SMT, <1>1, <1>2 DEF Unvoted

LEMMA InterruptRoundForward ==
    ASSUME TypeOK, NEW n \in Node, NEW r \in Nat, r >= round[n],
           NEW qc, NEW sent, \A v \in sent : ~ IsVote(v),
           InterruptRound(n, r, qc, sent)
    PROVE  Forward(n)
<1>1. msgs' = msgs \cup sent
                \cup {Propose(n, height[n], r + 1, NewRound, Nil, qc)}
  BY DEF InterruptRound
<1>2. \A v \in msgs' \ msgs : ~ IsVote(v)
  BY SMT, <1>1 DEF IsVote, Propose
<1>3. ViewForward(n)
  BY SMT DEF InterruptRound, ViewForward, TypeOK
<1> QED
  BY <1>1, <1>2, <1>3 DEF Forward, VoteStep

LEMMA CommitAndNewHeightForward ==
    ASSUME TypeOK, NEW n \in Node, NEW r, NEW sent,
           \A v \in sent : ~ IsVote(v), CommitAndNewHeight(n, r, sent)
    PROVE  Forward(n)
<1>1. msgs' = msgs \cup sent
                \cup {Propose(n, height[n] + 1, 0, NewRound, Nil, Nil)}
  BY DEF CommitAndNewHeight, CommitBlock
<1>2. \A v \in msgs' \ msgs : ~ IsVote(v)
  BY SMT, <1>1 DEF IsVote, Propose
<1>3. ViewForward(n)
  BY SMT DEF CommitAndNewHeight, CommitBlock, ViewForward, TypeOK
<1> QED
  BY <1>1, <1>2, <1>3 DEF Forward, VoteStep

LEMMA ExitForward ==
    ASSUME TypeOK, NEW n \in Node, Exit(n)
    PROVE  Forward(n)
BY SMT DEF Exit, view, Forward, ViewForward, VoteStep, TypeOK, Steps, NewRound,
       Decide

\* A step that enters m's view and sends at most one proposal and one vote.
LEMMA VotingForward ==
    ASSUME TypeOK, NEW n \in Node, NEW m \in msgs, ShouldHandle(n, m),
           NEW s \in Steps, s >= m.step, EnterView(n, m, s),
           NEW v \in Steps, NEW l \in 0 .. N, NEW b \in Block \cup {Nil},
           NEW props, \A p \in props : ~ IsVote(p),
           msgs' = msgs \cup props \cup Vote(n, l, m.height, m.round, v, b),
           Unvoted(n, m.round, v),
           v < s \/ (v = s /\ LeaderAfter(n, m) = n)
    PROVE  Forward(n)
<1>1. /\ ViewForward(n)
      /\ height'[n] = height[n] /\ height[n] = m.height
      /\ round'[n] = m.round /\ step'[n] = s
      /\ leaderId'[n] = LeaderAfter(n, m)
  BY EnterViewForward
<1>2. \A x \in msgs' \ msgs : IsVote(x) =>
         x \in Vote(n, l, height[n], round'[n], v, b)
  BY <1>1
<1>3. VoteStep(n)
  BY <1>1, <1>2 DEF VoteStep
<1> QED
  BY <1>1, <1>3 DEF Forward

LEMMA ProposeStepForward ==
    ASSUME TypeOK, NEW n \in Node, NEW m \in msgs, NEW s \in Steps,
           s > m.step, NEW qc, NEW highQC, ShouldHandle(n, m),
           LeaderAfter(n, m) = n, ProposeStep(n, m, s, qc, highQC)
    PROVE  Forward(n)
<1>1. m.round \in Nat /\ m.step \in Steps /\ round[n] \in Nat /\ n \in 0 .. N
      /\ block[n] \in Block \cup {Nil}
  BY MessageFields, StepConstants DEF TypeOK
<1>2. m.round >= round[n] /\ s >= m.step
  BY SMT, <1>1 DEF ShouldHandle, Steps, NewRound, Decide
<1>3. CASE InterruptRound(n, m.round, highQC, {})
  BY SMT, <1>1, <1>2, <1>3, InterruptRoundForward
<1>4. CASE /\ EnterView(n, m, s)
           /\ msgs' = msgs
                \cup {Propose(n, m.height, m.round, s, block[n], qc)}
                \cup Vote(n, n, m.height, m.round, s, block[n])
  <2>1. \A p \in {Propose(n, m.height, m.round, s, block[n], qc)} : ~ IsVote(p)
    BY SMT DEF IsVote, Propose
  <2>2. Unvoted(n, m.round, s)
    BY UnvotedLeader
  <2> DEFINE props == {Propose(n, m.height, m.round, s, block[n], qc)}
  <2>3. \A p \in props : ~ IsVote(p)
    BY <2>1
  <2>4. msgs' = msgs \cup props \cup Vote(n, n, m.height, m.round, s, block[n])
    BY <1>4
  <2> HIDE DEF props
  <2> QED
    BY <1>1, <1>2, <1>4, <2>2, <2>3, <2>4, VotingForward
<1> QED
  BY <1>3, <1>4 DEF ProposeStep

LEMMA LeaderForward ==
    ASSUME TypeOK, NEW n \in Node, NEW m \in msgs,
           \/ LeaderCollect(n, m) \/ LeaderNewRound(n, m)
           \/ LeaderPrepare(n, m) \/ LeaderPreCommit(n, m)
           \/ LeaderCommit(n, m) \/ LeaderNoQC(n, m)
    PROVE  Forward(n)
<1>1. m.round \in Nat /\ m.step \in Steps /\ round[n] \in Nat /\ n \in 0 .. N
  BY MessageFields, StepConstants DEF TypeOK
<1>2. ShouldHandle(n, m) /\ LeaderAfter(n, m) = n
  BY DEF LeaderCollect, LeaderNewRound, LeaderPrepare, LeaderPreCommit,
         LeaderCommit, LeaderNoQC, AsLeader, HasQuorum
<1>3. m.round >= round[n] /\ m.step >= m.step
  BY SMT, <1>1, <1>2 DEF ShouldHandle, Steps, NewRound, Decide
<1>4. CASE LeaderCollect(n, m) \/ LeaderNoQC(n, m)
  <2>1. EnterView(n, m, m.step) /\ msgs' = msgs
    BY <1>4 DEF LeaderCollect, LeaderNoQC
  <2> QED
    BY <1>1, <1>2, <1>3, <2>1, EnterViewForward DEF Forward, VoteStep
<1>5. CASE LeaderNewRound(n, m)
  <2> PICK highQC \in HighQCs(n, m), txs \in SUBSET InMempool(n) :
        LET b == IF ShouldPrepareNewBlock(m.height, m.round, highQC)
                 THEN NewBlock(n, m.height, txs, highQC)
                 ELSE highQC.block
        IN  IF AppliesTo(n, FreshUOW, b)
            THEN /\ ApplyBlock(n, FreshUOW, b)
                 /\ EnterView(n, m, Prepare)
                 /\ Drain(n, m)
                 /\ Index(n, m)
                 /\ msgs' = msgs
                      \cup {Propose(n, m.height, m.round, Prepare, b, highQC)}
                      \cup Vote(n, n, m.height, m.round, Prepare, b)
                 /\ UNCHANGED <<certs, up>>
            ELSE Exit(n)
    BY <1>5 DEF LeaderNewRound
  <2> DEFINE b == IF ShouldPrepareNewBlock(m.height, m.round, highQC)
                  THEN NewBlock(n, m.height, txs, highQC)
                  ELSE highQC.block
             props == {Propose(n, m.height, m.round, Prepare, b, highQC)}
  <2>1. b \in Block
    <3>1. highQC \in QC \cup {Nil} /\ txs \in SUBSET Txs /\ m.height \in Nat
      BY HighQCType, MessageFields DEF TypeOK, InMempool
    <3> QED
      BY <3>1, NewBlockType, QCFields DEF ShouldPrepareNewBlock
  <2> HIDE DEF b
  <2>2. \A p \in props : ~ IsVote(p)
    BY SMT DEF IsVote, Propose
  <2>3. CASE AppliesTo(n, FreshUOW, b)
    <3>1. /\ EnterView(n, m, Prepare)
          /\ msgs' = msgs \cup props
                       \cup Vote(n, n, m.height, m.round, Prepare, b)
      BY <2>3 DEF b
    <3>2. Prepare > m.step /\ Prepare >= m.step
      BY SMT, <1>5, LeaderSteps DEF AsLeader, NewRound, Prepare
    <3>3. Unvoted(n, m.round, Prepare)
      BY <1>2, <3>2, UnvotedLeader, StepConstants
    <3> HIDE DEF props
    <3> QED
      BY <1>1, <1>2, <2>1, <2>2, <3>1, <3>2, <3>3, VotingForward,
         StepConstants
  <2>4. CASE ~ AppliesTo(n, FreshUOW, b)
    BY <2>4, ExitForward DEF b
  <2> QED
    BY <2>3, <2>4
<1>6. CASE LeaderPrepare(n, m)
  <2>1. ProposeStep(n, m, PreCommit, NewQC(n, m), NewQC(n, m))
    BY <1>6 DEF LeaderPrepare
  <2>2. PreCommit > m.step
    BY SMT, <1>6, LeaderSteps DEF AsLeader, Prepare, PreCommit
  <2> QED
    BY <1>2, <2>1, <2>2, ProposeStepForward, StepConstants
<1>7. CASE LeaderPreCommit(n, m)
  <2>1. ProposeStep(n, m, Commit, NewQC(n, m), prepareQC[n])
    BY <1>7 DEF LeaderPreCommit
  <2>2. Commit > m.step
    BY SMT, <1>7, LeaderSteps DEF AsLeader, PreCommit, Commit
  <2> QED
    BY <1>2, <2>1, <2>2, ProposeStepForward, StepConstants
<1>8. CASE LeaderCommit(n, m)
  <2> DEFINE decide == {Propose(n, m.height, m.round, Decide, block[n],
                                NewQC(n, m))}
             sent   == IF block[n] = Nil THEN {} ELSE decide
  <2>1. (\A v \in decide : ~ IsVote(v)) /\ (\A v \in sent : ~ IsVote(v))
    BY SMT DEF IsVote, Propose
  <2>2. \/ CommitAndNewHeight(n, m.round, decide)
        \/ InterruptRound(n, m.round, prepareQC[n], sent)
    BY <1>8 DEF LeaderCommit
  <2> HIDE DEF decide, sent
  <2> QED
    BY <1>1, <1>3, <2>1, <2>2, CommitAndNewHeightForward,
       InterruptRoundForward
<1> QED
  BY <1>4, <1>5, <1>6, <1>7, <1>8

LEMMA ReplicaForward ==
    ASSUME TypeOK, NEW n \in Node, NEW m \in msgs,
           \/ ReplicaNewRound(n, m) \/ ReplicaPrepare(n, m)
           \/ ReplicaPreCommit(n, m) \/ ReplicaCommit(n, m)
           \/ ReplicaDecide(n, m) \/ AnteHandleFails(n, m)
    PROVE  Forward(n)
<1>1. /\ m.round \in Nat /\ m.step \in Steps /\ round[n] \in Nat
      /\ m.block \in Block \cup {Nil} /\ block[n] \in Block \cup {Nil}
  BY MessageFields DEF TypeOK
<1>2. ShouldHandle(n, m)
  BY DEF ReplicaNewRound, ReplicaPrepare, ReplicaPreCommit, ReplicaCommit,
         ReplicaDecide, AnteHandleFails, AsReplica
<1>3. m.round >= round[n] /\ m.step >= m.step
  BY SMT, <1>1, <1>2 DEF ShouldHandle, Steps, NewRound, Decide
<1>4. LeaderAfter(n, m) \in 0 .. N
  BY LeaderAfterType
<1>5. ReplicaInterrupts(n, m) => Forward(n)
  BY SMT, <1>1, <1>3, InterruptRoundForward DEF ReplicaInterrupts
<1>6. ASSUME NEW s \in Steps, NEW v \in Steps, NEW b \in Block \cup {Nil},
             AsReplica(n, m, v), s > v, EnterView(n, m, s),
             msgs' = msgs \cup Vote(n, LeaderAfter(n, m), m.height, m.round,
                                    v, b)
      PROVE  Forward(n)
  <2>1. Unvoted(n, m.round, v)
    BY <1>6, UnvotedReplica
  <2>2. s >= m.step /\ v < s
    BY SMT, <1>6 DEF AsReplica, Steps, NewRound, Decide
  <2> DEFINE props == {}
  <2>3. /\ msgs' = msgs \cup props \cup Vote(n, LeaderAfter(n, m), m.height,
                                             m.round, v, b)
        /\ \A p \in props : ~ IsVote(p)
    BY <1>6
  <2>4. v < s \/ (v = s /\ LeaderAfter(n, m) = n)
    BY <2>2
  <2> HIDE DEF props
  <2> QED
    BY <1>2, <1>4, <1>6, <2>1, <2>2, <2>3, <2>4, VotingForward
<1>7. CASE ReplicaNewRound(n, m) \/ AnteHandleFails(n, m)
  <2>1. PICK s \in Steps : s >= m.step /\ EnterView(n, m, s)
    BY SMT, <1>1, <1>3, <1>7, StepConstants
    DEF ReplicaNewRound, AsReplica, AnteHandleFails, NewRound, Prepare
  <2>2. msgs' = msgs
    BY <1>7 DEF ReplicaNewRound, AnteHandleFails
  <2> QED
    BY <1>2, <2>1, <2>2, EnterViewForward DEF Forward, VoteStep
<1>8. CASE ReplicaPrepare(n, m)
  <2>1. CASE Exit(n)
    BY <2>1, ExitForward
  <2>2. CASE ReplicaInterrupts(n, m)
    BY <1>5, <2>2
  <2>3. CASE /\ EnterView(n, m, PreCommit)
             /\ msgs' = msgs \cup Vote(n, LeaderAfter(n, m), m.height,
                                       m.round, Prepare, m.block)
    <3>1. AsReplica(n, m, Prepare) /\ PreCommit > Prepare
      BY SMT, <1>8 DEF ReplicaPrepare, PreCommit, Prepare
    <3> QED
      BY <1>1, <1>6, <2>3, <3>1, StepConstants
  <2> QED
    BY <1>8, <2>1, <2>2, <2>3 DEF ReplicaPrepare
<1>9. CASE ReplicaPreCommit(n, m)
  <2>1. CASE ReplicaVotes(n, m, Commit)
    <3>1. AsReplica(n, m, PreCommit) /\ Commit > PreCommit
      BY SMT, <1>9 DEF ReplicaPreCommit, Commit, PreCommit
    <3>2. m.step = PreCommit
      BY <3>1 DEF AsReplica
    <3> QED
      BY <1>1, <1>6, <2>1, <3>1, <3>2, StepConstants DEF ReplicaVotes
  <2> QED
    BY <1>5, <1>9, <2>1 DEF ReplicaPreCommit
<1>10. CASE ReplicaCommit(n, m)
  <2>1. CASE ReplicaVotes(n, m, Decide)
    <3>1. AsReplica(n, m, Commit) /\ Decide > Commit
      BY SMT, <1>10 DEF ReplicaCommit, Commit, Decide
    <3>2. m.step = Commit
      BY <3>1 DEF AsReplica
    <3> QED
      BY <1>1, <1>6, <2>1, <3>1, <3>2, StepConstants DEF ReplicaVotes
  <2> QED
    BY <1>5, <1>10, <2>1 DEF ReplicaCommit
<1>11. CASE ReplicaDecide(n, m)
  <2>1. \A v \in {} : ~ IsVote(v)
    OBVIOUS
  <2> QED
    BY SMT, <1>5, <1>11, <2>1, ExitForward, CommitAndNewHeightForward
    DEF ReplicaDecide
<1> QED
  BY <1>7, <1>8, <1>9, <1>10, <1>11

\* Every step is a step forward of one validator.
LEMMA StepForward ==
    ASSUME TypeOK, Next
    PROVE  \E n \in Node : Forward(n)
<1>1. ASSUME NEW n \in Node, Timeout(n)
      PROVE  Forward(n)
  <2>1. InterruptRound(n, round[n], prepareQC[n], {})
    BY <1>1 DEF Timeout
  <2>2. round[n] \in Nat /\ round[n] >= round[n]
    BY SMT DEF TypeOK
  <2>3. \A v \in {} : ~ IsVote(v)
    OBVIOUS
  <2> QED
    BY SMT, <2>1, <2>2, <2>3, InterruptRoundForward
<1>2. ASSUME NEW n \in Node, NEW m \in msgs, HandleMessage(n, m)
      PROVE  Forward(n)
  BY <1>2, LeaderForward, ReplicaForward DEF HandleMessage
<1> QED
  BY <1>1, <1>2 DEF Next

\* A validator's (height, round, step) only grows, whatever messages arrive
\* in whatever order, and through timeouts, interrupts and commits.
THEOREM ViewMonotone == Spec => ViewNeverGoesBack
<1> DEFINE Up == \A n \in Node :
         \/ height'[n] > height[n]
         \/ height'[n] = height[n] /\ round'[n] > round[n]
         \/ height'[n] = height[n] /\ round'[n] = round[n]
            /\ step'[n] >= step[n]
<1>1. TypeOK /\ [Next]_vars => [Up]_vars
  <2> SUFFICES ASSUME TypeOK, Next PROVE Up
    BY DEF vars
  <2>1. PICK k \in Node : Forward(k)
    BY StepForward
  <2>2. \A n \in Node : step[n] \in Int
    BY SMT DEF TypeOK, Steps, NewRound, Decide
  <2> QED
    BY SMT, <2>1, <2>2 DEF Forward, ViewForward
<1> QED
  BY <1>1, TypeCorrect, PTL DEF Spec, ViewNeverGoesBack

LEMMA VotesStep ==
    ASSUME TypeOK, TypeOK', VotesAreCast, VoteOnce,
           NEW n \in Node, Forward(n)
    PROVE  VotesAreCast' /\ VoteOnce'
<1>1. \A v \in msgs' : /\ v.src \in Node /\ v.height \in Nat
                       /\ v.round \in Nat /\ v.step \in 1 .. 5
  BY MessageFields DEF TypeOK, Steps, NewRound, Decide
<1>2. \A k \in Node : /\ height[k] \in Nat /\ round[k] \in Nat
                      /\ step[k] \in 1 .. 5
                      /\ height'[k] \in Nat /\ round'[k] \in Nat
                      /\ step'[k] \in 1 .. 5
  BY DEF TypeOK, Steps, NewRound, Decide
<1>3. \A v \in msgs' \ msgs : IsVote(v) =>
        /\ v.src = n /\ v.height = height[n] /\ height'[n] = height[n]
        /\ v.round = round'[n] /\ v.block # Nil /\ v.qc = Nil
        /\ Unvoted(n, round'[n], v.step)
        /\ v.step < step'[n] \/ (v.step = step'[n] /\ leaderId'[n] = n)
  BY SMT DEF Forward, VoteStep, Vote
<1>4. \A v, w \in msgs' \ msgs : IsVote(v) /\ IsVote(w) => v = w
  BY DEF Forward, VoteStep, Vote
<1>5. VotesAreCast'
  <2> SUFFICES ASSUME NEW v \in msgs', IsVote(v)
               PROVE  /\ v.block # Nil /\ v.qc = Nil
                      /\ \/ v.height < height'[v.src]
                         \/ v.height = height'[v.src] /\ v.round < round'[v.src]
                         \/ /\ v.height = height'[v.src]
                            /\ v.round = round'[v.src]
                            /\ \/ v.step < step'[v.src]
                               \/ /\ v.step = step'[v.src]
                                  /\ leaderId'[v.src] = v.src
    BY DEF VotesAreCast, IsVote
  <2>1. CASE v \in msgs' \ msgs
    BY <1>3, <2>1
  <2>2. CASE v \in msgs /\ v.src # n
    BY <1>1, <2>2 DEF VotesAreCast, Forward, ViewForward
  <2>3. CASE v \in msgs /\ v.src = n
    <3>1. leaderId[n] = n => leaderId[n] # NoLeader
      BY SMT DEF Node, NoLeader
    <3>2. /\ v.block # Nil /\ v.qc = Nil
          /\ \/ v.height < height[n]
             \/ v.height = height[n] /\ v.round < round[n]
             \/ /\ v.height = height[n] /\ v.round = round[n]
                /\ \/ v.step < step[n]
                   \/ v.step = step[n] /\ leaderId[n] = n
      BY <2>3 DEF VotesAreCast
    <3>3. \/ height'[n] > height[n]
          \/ height'[n] = height[n] /\ round'[n] > round[n]
          \/ /\ height'[n] = height[n] /\ round'[n] = round[n]
             /\ step'[n] >= step[n]
             /\ leaderId[n] # NoLeader => leaderId'[n] = leaderId[n]
      BY DEF Forward, ViewForward
    <3> QED
      BY SMT, <1>1, <1>2, <2>3, <3>1, <3>2, <3>3
  <2> QED
    BY <2>1, <2>2, <2>3
<1>6. VoteOnce'
  <2>1. ASSUME NEW v \in msgs' \ msgs, NEW w \in msgs, IsVote(v), IsVote(w),
               v.src = w.src, v.height = w.height, v.round = w.round,
               v.step = w.step
        PROVE  FALSE
    <3>1. /\ w.src = n /\ w.height = height[n] /\ w.round = round'[n]
          /\ Unvoted(n, w.round, w.step)
      BY <1>3, <2>1
    <3>2. w \in msgs' /\ leaderId[n] \in 0 .. N
      BY DEF Forward, TypeOK
    <3> QED
      BY SMT, <1>1, <1>2, <2>1, <3>1, <3>2 DEF VotesAreCast, Unvoted
  <2> SUFFICES ASSUME NEW v \in msgs', NEW w \in msgs', IsVote(v), IsVote(w),
                      v.src = w.src, v.height = w.height, v.round = w.round,
                      v.step = w.step
               PROVE  v = w
    BY DEF VoteOnce, IsVote
  <2> QED
    BY <1>4, <2>1 DEF VoteOnce
<1> QED
  BY <1>5, <1>6

-----------------------------------------------------------------------------
(* Certificates: where they come from and what is sent with them.  First a *)
(* step of one validator: what it leaves alone, and what it does to that   *)
(* validator's pools, unit of work and certificates.  Then the votes are   *)
(* followed through the leader's pools into the certificates made of them. *)

\* The parts of the inductive invariant that only concern validator n.
LocalInv(n) ==
    /\ \A s \in Steps : pool[n][s] \subseteq {m \in msgs : m.step = s}
    /\ \A v \in pool[n][Commit] :
         /\ v.height = height[n] /\ v.round <= round[n]
         /\ v.round = round[n] =>
              /\ step[n] >= Commit
              /\ block[n] # Nil => v.block.stateHash = block[n].stateHash
    /\ (uow[n] # Nil /\ uow[n].stateHash # Nil) =>
         /\ block[n] # Nil
         /\ block[n].stateHash = uow[n].stateHash
    /\ prepareQC[n] # Nil =>
         /\ prepareQC[n].step = Prepare /\ prepareQC[n].height = height[n]
         /\ prepareQC[n].round <= round[n]
    /\ lockedQC[n] # Nil =>
         /\ lockedQC[n].step = PreCommit /\ lockedQC[n].height = height[n]
         /\ lockedQC[n].round <= round[n]

LEMMA LocalInvParts ==
    (\A n \in Node : LocalInv(n))
      <=> PoolSent /\ PoolMatchesBlock /\ UOWMatchesBlock /\ QCsInPlace
BY DEF LocalInv, PoolSent, PoolMatchesBlock, UOWMatchesBlock, QCsInPlace

LEMMA LocalInvPartsPrime ==
    (\A n \in Node : LocalInv(n)')
      <=> (PoolSent /\ PoolMatchesBlock /\ UOWMatchesBlock /\ QCsInPlace)'
BY DEF LocalInv, PoolSent, PoolMatchesBlock, UOWMatchesBlock, QCsInPlace

-----------------------------------------------------------------------------
(* A step of n leaves the others alone *)

Others(n) ==
    \A k \in Node \ {n} :
        /\ height'[k] = height[k] /\ round'[k] = round[k]
        /\ step'[k] = step[k] /\ block'[k] = block[k]
        /\ prepareQC'[k] = prepareQC[k] /\ lockedQC'[k] = lockedQC[k]
        /\ pool'[k] = pool[k] /\ uow'[k] = uow[k]
        /\ committed'[k] = committed[k]

LEMMA LeaderOthers ==
    ASSUME TypeOK, NEW n \in Node, NEW m \in msgs,
           \/ LeaderCollect(n, m) \/ LeaderNewRound(n, m)
           \/ LeaderPrepare(n, m) \/ LeaderPreCommit(n, m)
           \/ LeaderCommit(n, m) \/ LeaderNoQC(n, m)
    PROVE  Others(n)
<1>1. /\ height \in [Node -> Nat] /\ round \in [Node -> Nat]
      /\ step \in [Node -> Steps] /\ block \in [Node -> Block \cup {Nil}]
      /\ prepareQC \in [Node -> QC \cup {Nil}]
      /\ lockedQC \in [Node -> QC \cup {Nil}]
      /\ pool \in [Node -> [Steps -> SUBSET Message]]
      /\ uow \in [Node -> UnitOfWork \cup {Nil}]
      /\ committed \in [Node -> SUBSET StoredBlock]
  BY DEF TypeOK
<1>2. CASE LeaderCollect(n, m) \/ LeaderNoQC(n, m)
  <2>1. /\ EnterView(n, m, m.step) /\ UNCHANGED <<block, certs, store>>
        /\ \E p : pool' = [pool EXCEPT ![n][m.step] = p]
    BY <1>2 DEF LeaderCollect, LeaderNoQC, Drain
  <2> QED
    BY <1>1, <2>1 DEF EnterView, certs, store, Others
<1>3. CASE LeaderNewRound(n, m)
  <2>1. \/ Exit(n)
        \/ /\ \E b : ApplyBlock(n, FreshUOW, b)
           /\ EnterView(n, m, Prepare) /\ Drain(n, m) /\ UNCHANGED certs
    BY <1>3, Zenon DEF LeaderNewRound
  <2>2. CASE Exit(n)
    BY <2>2 DEF Exit, view, certs, store, Others
  <2>3. CASE /\ \E b : ApplyBlock(n, FreshUOW, b)
             /\ EnterView(n, m, Prepare) /\ Drain(n, m) /\ UNCHANGED certs
    <3>1. PICK b : ApplyBlock(n, FreshUOW, b)
      BY <2>3
    <3> QED
      BY <1>1, <2>3, <3>1, ZenonT(60) DEF EnterView, Drain, ApplyBlock, certs, Others
  <2> QED
    BY <2>1, <2>2, <2>3
<1>4. CASE LeaderPrepare(n, m) \/ LeaderPreCommit(n, m)
  BY <1>1, <1>4
  DEF LeaderPrepare, LeaderPreCommit, ProposeStep, EnterView, Drain,
      InterruptRound, Others
<1>5. CASE LeaderCommit(n, m)
  BY <1>1, <1>5, ZenonT(60)
  DEF LeaderCommit, CommitAndNewHeight, CommitBlock, InterruptRound, certs,
      Others
<1> QED
  BY <1>2, <1>3, <1>4, <1>5

LEMMA ReplicaOthers ==
    ASSUME TypeOK, NEW n \in Node, NEW m \in msgs,
           \/ ReplicaNewRound(n, m) \/ ReplicaPrepare(n, m)
           \/ ReplicaPreCommit(n, m) \/ ReplicaCommit(n, m)
           \/ ReplicaDecide(n, m) \/ AnteHandleFails(n, m)
    PROVE  Others(n)
<1>1. /\ height \in [Node -> Nat] /\ round \in [Node -> Nat]
      /\ step \in [Node -> Steps] /\ block \in [Node -> Block \cup {Nil}]
      /\ prepareQC \in [Node -> QC \cup {Nil}]
      /\ lockedQC \in [Node -> QC \cup {Nil}]
      /\ pool \in [Node -> [Steps -> SUBSET Message]]
      /\ uow \in [Node -> UnitOfWork \cup {Nil}]
      /\ committed \in [Node -> SUBSET StoredBlock]
  BY DEF TypeOK
<1>2. CASE ReplicaNewRound(n, m) \/ AnteHandleFails(n, m)
  BY <1>1, <1>2
  DEF ReplicaNewRound, AnteHandleFails, EnterView, certs, store, Others
<1>3. CASE ReplicaPrepare(n, m)
  BY <1>1, <1>3
  DEF ReplicaPrepare, EnterView, ApplyBlock, Exit, ReplicaInterrupts,
      InterruptRound, view, certs, store, Others
<1>4. CASE ReplicaPreCommit(n, m) \/ ReplicaCommit(n, m)
  BY <1>1, <1>4
  DEF ReplicaPreCommit, ReplicaCommit, ReplicaVotes, EnterView,
      ReplicaInterrupts, InterruptRound, certs, store, Others
<1>5. CASE ReplicaDecide(n, m)
  BY <1>1, <1>5
  DEF ReplicaDecide, CommitAndNewHeight, CommitBlock, ReplicaInterrupts,
      InterruptRound, Exit, view, certs, store, Others
<1> QED
  BY <1>2, <1>3, <1>4, <1>5

LEMMA OthersKeepInv ==
    ASSUME NEW n \in Node, Others(n), msgs \subseteq msgs',
           NEW k \in Node \ {n}, LocalInv(k)
    PROVE  LocalInv(k)'
BY ZenonT(60) DEF Others, LocalInv

-----------------------------------------------------------------------------
(* What a step does to the invariant at n itself *)

\* Handlers that stay in the round.
LEMMA EnterLocal ==
    ASSUME TypeOK, NEW n \in Node, LocalInv(n), NEW m \in msgs,
           ShouldHandle(n, m), NEW s \in Steps, s >= m.step,
           EnterView(n, m, s), msgs \subseteq msgs',
           \A t \in Steps : \A v \in pool'[n][t] :
              \/ v \in pool[n][t]
              \/ v = m /\ t = m.step /\ IsValidMessageBlock(n, m),
           block'[n] = block[n] \/ m.step < Commit,
           \/ uow'[n] = uow[n] /\ block'[n] = block[n]
           \/ uow'[n] = FreshUOW
           \/ block'[n] # Nil /\ uow'[n].stateHash = block'[n].stateHash,
           \/ prepareQC'[n] = prepareQC[n]
           \/ /\ prepareQC'[n].step = Prepare
              /\ prepareQC'[n].height = m.height
              /\ prepareQC'[n].round = m.round,
           \/ lockedQC'[n] = lockedQC[n]
           \/ /\ lockedQC'[n].step = PreCommit
              /\ lockedQC'[n].height = m.height
              /\ lockedQC'[n].round = m.round
    PROVE  LocalInv(n)'
<1>1. /\ height'[n] = height[n] /\ height[n] = m.height
      /\ round'[n] = m.round /\ step'[n] = s
  BY EnterViewForward
<1>2. /\ m.round \in Nat /\ m.step \in 1 .. 5 /\ s \in 1 .. 5
      /\ round[n] \in Nat /\ step[n] \in 1 .. 5
  BY MessageFields DEF TypeOK, Steps, NewRound, Decide
<1>3. \/ m.round > round[n]
      \/ m.round = round[n] /\ m.step >= step[n]
  BY DEF ShouldHandle
<1>4. ASSUME NEW t \in Steps
      PROVE  pool'[n][t] \subseteq {x \in msgs' : x.step = t}
  BY DEF LocalInv
<1>5. ASSUME NEW v \in pool'[n][Commit]
      PROVE  /\ v.height = height'[n] /\ v.round <= round'[n]
             /\ v.round = round'[n] =>
                  /\ step'[n] >= Commit
                  /\ block'[n] # Nil =>
                       v.block.stateHash = block'[n].stateHash
  <2>1. CASE v \in pool[n][Commit]
    <3>1. /\ v.height = height[n] /\ v.round <= round[n] /\ v.round \in Nat
          /\ v.round = round[n] =>
               /\ step[n] >= Commit
               /\ block[n] # Nil => v.block.stateHash = block[n].stateHash
      <4>1. v \in Message
        BY SMT, <2>1, StepConstants DEF TypeOK
      <4> QED
        BY <2>1, <4>1, MessageFields DEF LocalInv
    <3>2. v.round = m.round => m.step >= Commit /\ round[n] = v.round
      BY SMT, <1>2, <1>3, <3>1 DEF Commit
    <3>3. v.round = m.round => block'[n] = block[n] /\ s >= Commit
      BY SMT, <1>2, <3>2 DEF Commit
    <3> QED
      BY SMT, <1>1, <1>2, <1>3, <3>1, <3>2, <3>3
  <2>2. CASE v = m /\ Commit = m.step /\ IsValidMessageBlock(n, m)
    <3>1. block'[n] = block[n] /\ s >= Commit
      BY SMT, <1>2, <2>2 DEF Commit
    <3>2. block[n] # Nil => m.block.stateHash = block[n].stateHash
      BY SMT, <2>2 DEF IsValidMessageBlock, Commit, NewRound
    <3> QED
      BY SMT, <1>1, <1>2, <2>2, <3>1, <3>2
  <2> QED
    BY <2>1, <2>2, StepConstants
<1>6. (uow'[n] # Nil /\ uow'[n].stateHash # Nil) =>
        /\ block'[n] # Nil
        /\ block'[n].stateHash = uow'[n].stateHash
  <2>1. FreshUOW.stateHash = Nil
    BY DEF FreshUOW
  <2> QED
    BY <2>1 DEF LocalInv
<1>7. /\ prepareQC'[n] # Nil =>
           /\ prepareQC'[n].step = Prepare /\ prepareQC'[n].height = height'[n]
           /\ prepareQC'[n].round <= round'[n]
      /\ lockedQC'[n] # Nil =>
           /\ lockedQC'[n].step = PreCommit /\ lockedQC'[n].height = height'[n]
           /\ lockedQC'[n].round <= round'[n]
  <2>1. /\ prepareQC[n] # Nil => prepareQC[n].round \in Nat
        /\ lockedQC[n] # Nil => lockedQC[n].round \in Nat
    BY QCFields DEF TypeOK
  <2> QED
    BY SMT, <1>1, <1>2, <1>3, <2>1 DEF LocalInv
<1> QED
  BY <1>4, <1>5, <1>6, <1>7 DEF LocalInv

\* Handlers that give up the round, and the timer.
LEMMA InterruptLocal ==
    ASSUME TypeOK, NEW n \in Node, LocalInv(n), NEW r \in Nat, r >= round[n],
           NEW qc, NEW sent, InterruptRound(n, r, qc, sent),
           \/ prepareQC'[n] = prepareQC[n]
           \/ /\ prepareQC'[n].step = Prepare
              /\ prepareQC'[n].height = height[n]
              /\ prepareQC'[n].round = r,
           \/ lockedQC'[n] = lockedQC[n]
           \/ /\ lockedQC'[n].step = PreCommit
              /\ lockedQC'[n].height = height[n]
              /\ lockedQC'[n].round = r
    PROVE  LocalInv(n)'
<1>1. /\ height'[n] = height[n] /\ round'[n] = r + 1
      /\ pool'[n] = EmptyPool /\ uow'[n] = Nil
  BY DEF InterruptRound, TypeOK
<1>2. \A s \in Steps : pool'[n][s] = {}
  BY <1>1 DEF EmptyPool
<1>3. Commit \in Steps /\ round[n] \in Nat
  BY StepConstants DEF TypeOK
<1>4. /\ prepareQC[n] # Nil => prepareQC[n].round \in Nat
      /\ lockedQC[n] # Nil => lockedQC[n].round \in Nat
  BY QCFields DEF TypeOK
<1> QED
  BY SMT, <1>1, <1>2, <1>3, <1>4 DEF LocalInv

LEMMA CommitLocal ==
    ASSUME TypeOK, NEW n \in Node, NEW r, NEW sent,
           CommitAndNewHeight(n, r, sent)
    PROVE  LocalInv(n)'
<1>1. /\ pool'[n] = EmptyPool /\ uow'[n] = Nil
      /\ prepareQC'[n] = Nil /\ lockedQC'[n] = Nil
  BY DEF CommitAndNewHeight, CommitBlock, TypeOK
<1>2. \A s \in Steps : pool'[n][s] = {}
  BY <1>1 DEF EmptyPool
<1> QED
  BY <1>1, <1>2, StepConstants DEF LocalInv

LEMMA ExitLocal ==
    ASSUME NEW n \in Node, LocalInv(n), Exit(n)
    PROVE  LocalInv(n)'
BY DEF LocalInv, Exit, view, certs, store

LEMMA NewQCPlace ==
    ASSUME NEW n, NEW m
    PROVE  /\ NewQC(n, m).height = m.height /\ NewQC(n, m).round = m.round
           /\ NewQC(n, m).step = m.step /\ NewQC(n, m).block = block[n]
BY DEF NewQC

\* The pool of n after it pooled m or drained the pool of m's step.
LEMMA PoolAfter ==
    ASSUME TypeOK, NEW n \in Node, NEW m \in msgs, IsValidMessageBlock(n, m),
           \/ pool' = [pool EXCEPT ![n][m.step] = Pooled(n, m)]
           \/ Drain(n, m)
    PROVE  \A t \in Steps : \A v \in pool'[n][t] :
              \/ v \in pool[n][t]
              \/ v = m /\ t = m.step /\ IsValidMessageBlock(n, m)
<1>1. pool \in [Node -> [Steps -> SUBSET Message]] /\ m.step \in Steps
  BY MessageFields DEF TypeOK
<1> QED
  BY SMT, <1>1 DEF Drain, Pooled

LEMMA LeaderLocal ==
    ASSUME TypeOK, NEW n \in Node, LocalInv(n), NEW m \in msgs,
           msgs \subseteq msgs',
           \/ LeaderCollect(n, m) \/ LeaderNewRound(n, m)
           \/ LeaderPrepare(n, m) \/ LeaderPreCommit(n, m)
           \/ LeaderCommit(n, m) \/ LeaderNoQC(n, m)
    PROVE  LocalInv(n)'
<1>1. /\ m.round \in Nat /\ m.step \in Steps /\ round[n] \in Nat
      /\ m.step >= m.step
  BY SMT, MessageFields DEF TypeOK, Steps, NewRound, Decide
<1>2. ShouldHandle(n, m) /\ IsValidMessageBlock(n, m)
  BY DEF LeaderCollect, LeaderNewRound, LeaderPrepare, LeaderPreCommit,
         LeaderCommit, LeaderNoQC, AsLeader, HasQuorum
<1>3. m.round >= round[n] /\ m.height = height[n]
  BY SMT, <1>1, <1>2 DEF ShouldHandle
<1>4. CASE LeaderCollect(n, m) \/ LeaderNoQC(n, m)
  <2>1. /\ EnterView(n, m, m.step)
        /\ block'[n] = block[n] /\ uow'[n] = uow[n]
        /\ prepareQC'[n] = prepareQC[n] /\ lockedQC'[n] = lockedQC[n]
        /\ \/ pool' = [pool EXCEPT ![n][m.step] = Pooled(n, m)]
           \/ Drain(n, m)
    BY <1>4 DEF LeaderCollect, LeaderNoQC, certs, store
  <2>2. \A t \in Steps : \A v \in pool'[n][t] :
          \/ v \in pool[n][t]
          \/ v = m /\ t = m.step /\ IsValidMessageBlock(n, m)
    BY <1>2, <2>1, PoolAfter
  <2> QED
    BY <1>1, <1>2, <2>1, <2>2, EnterLocal
<1>5. CASE LeaderNewRound(n, m)
  <2>1. CASE Exit(n)
    BY <2>1, ExitLocal
  <2>2. CASE ~ Exit(n)
    <3>1. PICK highQC \in HighQCs(n, m), txs \in SUBSET InMempool(n) :
            LET b == IF ShouldPrepareNewBlock(m.height, m.round, highQC)
                     THEN NewBlock(n, m.height, txs, highQC)
                     ELSE highQC.block
            IN  /\ AppliesTo(n, FreshUOW, b)
                /\ ApplyBlock(n, FreshUOW, b)
                /\ EnterView(n, m, Prepare)
                /\ Drain(n, m)
                /\ UNCHANGED certs
      BY <1>5, <2>2 DEF LeaderNewRound
    <3> DEFINE b == IF ShouldPrepareNewBlock(m.height, m.round, highQC)
                    THEN NewBlock(n, m.height, txs, highQC)
                    ELSE highQC.block
    <3>2. b # Nil
      <4>1. highQC \in QC \cup {Nil} /\ txs \in SUBSET Txs /\ m.height \in Nat
        BY HighQCType, MessageFields DEF TypeOK, InMempool
      <4>2. CASE ShouldPrepareNewBlock(m.height, m.round, highQC)
        BY SMT, <4>1, <4>2, NewBlockType, NilAssumption
      <4>3. CASE ~ ShouldPrepareNewBlock(m.height, m.round, highQC)
        BY <4>3 DEF ShouldPrepareNewBlock
      <4> QED
        BY <4>2, <4>3
    <3> HIDE DEF b
    <3>3. /\ ApplyBlock(n, FreshUOW, b) /\ EnterView(n, m, Prepare)
          /\ Drain(n, m) /\ UNCHANGED certs
          /\ TreesAfter(n, b.txs) = b.stateHash
      BY <3>1 DEF b, AppliesTo
    <3>4. block'[n] = b /\ uow'[n].stateHash = b.stateHash
      BY <3>3 DEF ApplyBlock, TypeOK
    <3>5. \A t \in Steps : \A v \in pool'[n][t] :
            \/ v \in pool[n][t]
            \/ v = m /\ t = m.step /\ IsValidMessageBlock(n, m)
      BY <1>2, <3>3, PoolAfter
    <3>6. m.step < Commit /\ Prepare >= m.step
      BY SMT, <1>5, LeaderSteps DEF AsLeader, NewRound, Prepare, Commit
    <3>7. prepareQC'[n] = prepareQC[n] /\ lockedQC'[n] = lockedQC[n]
      BY <3>3 DEF certs
    <3> QED
      BY <1>2, <3>2, <3>3, <3>4, <3>5, <3>6, <3>7, EnterLocal, StepConstants
  <2> QED
    BY <2>1, <2>2
<1>6. ASSUME NEW s \in Steps, NEW qc, NEW highQC, s >= m.step,
             ProposeStep(n, m, s, qc, highQC), block'[n] = block[n],
             \/ prepareQC'[n] = prepareQC[n]
             \/ m.step = Prepare /\ prepareQC'[n] = NewQC(n, m),
             \/ lockedQC'[n] = lockedQC[n]
             \/ m.step = PreCommit /\ lockedQC'[n] = NewQC(n, m)
      PROVE  LocalInv(n)'
  <2>1. CASE InterruptRound(n, m.round, highQC, {})
    BY SMT, <1>1, <1>3, <1>6, <2>1, InterruptLocal, NewQCPlace
  <2>2. CASE EnterView(n, m, s) /\ Drain(n, m) /\ UNCHANGED uow
    <3>1. \A t \in Steps : \A v \in pool'[n][t] :
            \/ v \in pool[n][t]
            \/ v = m /\ t = m.step /\ IsValidMessageBlock(n, m)
      BY <1>2, <2>2, PoolAfter
    <3>2. uow'[n] = uow[n]
      BY <2>2
    <3> QED
      BY SMT, <1>2, <1>6, <2>2, <3>1, <3>2, EnterLocal, NewQCPlace
  <2> QED
    BY <1>6, <2>1, <2>2 DEF ProposeStep
<1>7. CASE LeaderPrepare(n, m)
  <2>1. /\ ProposeStep(n, m, PreCommit, NewQC(n, m), NewQC(n, m))
        /\ block'[n] = block[n] /\ lockedQC'[n] = lockedQC[n]
        /\ prepareQC'[n] = NewQC(n, m)
    BY <1>7 DEF LeaderPrepare, TypeOK
  <2>2. m.step = Prepare /\ PreCommit >= m.step
    BY SMT, <1>7, LeaderSteps DEF AsLeader, Prepare, PreCommit
  <2> QED
    BY <1>6, <2>1, <2>2, StepConstants
<1>8. CASE LeaderPreCommit(n, m)
  <2>1. /\ ProposeStep(n, m, Commit, NewQC(n, m), prepareQC[n])
        /\ block'[n] = block[n] /\ prepareQC'[n] = prepareQC[n]
        /\ lockedQC'[n] = NewQC(n, m)
    BY <1>8 DEF LeaderPreCommit, TypeOK
  <2>2. m.step = PreCommit /\ Commit >= m.step
    BY SMT, <1>8, LeaderSteps DEF AsLeader, PreCommit, Commit
  <2> QED
    BY <1>6, <2>1, <2>2, StepConstants
<1>9. CASE LeaderCommit(n, m)
  <2> DEFINE decide == {Propose(n, m.height, m.round, Decide, block[n],
                                NewQC(n, m))}
             sent   == IF block[n] = Nil THEN {} ELSE decide
  <2>1. \/ CommitAndNewHeight(n, m.round, decide)
        \/ /\ InterruptRound(n, m.round, prepareQC[n], sent)
           /\ prepareQC'[n] = prepareQC[n] /\ lockedQC'[n] = lockedQC[n]
    BY <1>9 DEF LeaderCommit, certs
  <2> HIDE DEF decide, sent
  <2> QED
    BY <1>1, <1>3, <2>1, CommitLocal, InterruptLocal
<1> QED
  BY <1>4, <1>5, <1>7, <1>8, <1>9

\* A replica only keeps a certificate that came with a proposal.
LEMMA ProposalQC ==
    ASSUME VotesAreCast, ProposalsJustified, NEW m \in msgs, ValidQC(m.qc),
           m.step \in {PreCommit, Commit, Decide}
    PROVE  /\ m.qc.height = m.height /\ m.qc.round = m.round
           /\ m.qc.step = m.step - 1 /\ m.qc.block = m.block
           /\ m.qc \in Certificates
BY DEF VotesAreCast, ProposalsJustified, ValidQC, Certificates

LEMMA ReplicaLocal ==
    ASSUME TypeOK, VotesAreCast, ProposalsJustified,
           NEW n \in Node, LocalInv(n), NEW m \in msgs, msgs \subseteq msgs',
           \/ ReplicaNewRound(n, m) \/ ReplicaPrepare(n, m)
           \/ ReplicaPreCommit(n, m) \/ ReplicaCommit(n, m)
           \/ ReplicaDecide(n, m) \/ AnteHandleFails(n, m)
    PROVE  LocalInv(n)'
<1>1. /\ m.round \in Nat /\ m.step \in Steps /\ round[n] \in Nat
      /\ m.step >= m.step
  BY SMT, MessageFields DEF TypeOK, Steps, NewRound, Decide
<1>2. ShouldHandle(n, m)
  BY DEF ReplicaNewRound, ReplicaPrepare, ReplicaPreCommit, ReplicaCommit,
         ReplicaDecide, AnteHandleFails, AsReplica
<1>3. m.round >= round[n]
  <2>1. m.round > round[n] \/ m.round = round[n]
    BY <1>2 DEF ShouldHandle
  <2> QED
    BY SMT, <1>1, <2>1
<1>4. ReplicaInterrupts(n, m) => LocalInv(n)'
  <2> SUFFICES ASSUME ReplicaInterrupts(n, m) PROVE LocalInv(n)'
    OBVIOUS
  <2>1. InterruptRound(n, m.round, prepareQC[n], {})
        /\ prepareQC'[n] = prepareQC[n] /\ lockedQC'[n] = lockedQC[n]
    BY DEF ReplicaInterrupts, certs
  <2> QED
    BY <1>1, <1>3, <2>1, InterruptLocal
<1>5. UNCHANGED pool => \A t \in Steps : \A v \in pool'[n][t] :
        \/ v \in pool[n][t]
        \/ v = m /\ t = m.step /\ IsValidMessageBlock(n, m)
  OBVIOUS
<1>6. CASE ReplicaNewRound(n, m)
  <2>1. /\ EnterView(n, m, Prepare) /\ UNCHANGED pool
        /\ uow'[n] = FreshUOW /\ block'[n] = block[n]
        /\ prepareQC'[n] = prepareQC[n] /\ lockedQC'[n] = lockedQC[n]
    BY <1>6 DEF ReplicaNewRound, certs, TypeOK
  <2>2. Prepare >= m.step
    BY SMT, <1>6 DEF ReplicaNewRound, AsReplica, NewRound, Prepare
  <2> QED
    BY <1>2, <1>5, <2>1, <2>2, EnterLocal, StepConstants
<1>7. CASE AnteHandleFails(n, m)
  <2>1. /\ EnterView(n, m, m.step) /\ UNCHANGED pool
        /\ uow'[n] = uow[n] /\ block'[n] = block[n]
        /\ prepareQC'[n] = prepareQC[n] /\ lockedQC'[n] = lockedQC[n]
    BY <1>7 DEF AnteHandleFails, certs, store
  <2> QED
    BY <1>1, <1>2, <1>5, <2>1, EnterLocal
<1>8. CASE ReplicaPrepare(n, m)
  <2>1. CASE /\ AppliesTo(n, uow[n], m.block)
             /\ ApplyBlock(n, uow[n], m.block)
             /\ EnterView(n, m, PreCommit)
             /\ UNCHANGED <<certs, pool>>
    <3>1. /\ m.step = Prepare /\ PreCommit >= m.step /\ m.step < Commit
          /\ m.block # Nil
      BY SMT, <1>8, ReplicaSteps DEF AsReplica, IsValidMessageBlock, NewRound,
                                Prepare, PreCommit, Commit
    <3>2. /\ block'[n] = m.block /\ uow'[n].stateHash = m.block.stateHash
          /\ prepareQC'[n] = prepareQC[n] /\ lockedQC'[n] = lockedQC[n]
      BY <2>1 DEF ApplyBlock, AppliesTo, TypeOK, certs
    <3>3. /\ \A t \in Steps : \A v \in pool'[n][t] :
               \/ v \in pool[n][t]
               \/ v = m /\ t = m.step /\ IsValidMessageBlock(n, m)
          /\ block'[n] # Nil /\ uow'[n].stateHash = block'[n].stateHash
      BY <1>5, <2>1, <3>1, <3>2
    <3>4. EnterView(n, m, PreCommit) /\ PreCommit \in Steps
      BY <2>1, StepConstants
    <3> QED
      BY <1>2, <3>1, <3>2, <3>3, <3>4, EnterLocal
  <2> QED
    BY <1>4, <1>8, <2>1, ExitLocal DEF ReplicaPrepare
<1>9. CASE ReplicaPreCommit(n, m) /\ ReplicaVotes(n, m, Commit)
           /\ prepareQC' = [prepareQC EXCEPT ![n] = m.qc]
           /\ UNCHANGED lockedQC
  <2>1. /\ EnterView(n, m, Commit) /\ UNCHANGED pool
        /\ uow'[n] = uow[n] /\ block'[n] = block[n]
        /\ prepareQC'[n] = m.qc /\ lockedQC'[n] = lockedQC[n]
    BY <1>9 DEF ReplicaVotes, store, TypeOK
  <2>2. m.step = PreCommit /\ Commit >= m.step /\ ValidQC(m.qc)
    BY SMT, <1>9
    DEF ReplicaPreCommit, AsReplica, ReplicaVotes, PreCommit, Commit
  <2>3. m.qc.step = Prepare /\ m.qc.height = m.height /\ m.qc.round = m.round
    BY SMT, <2>2, ProposalQC DEF Prepare, PreCommit
  <2> QED
    BY <1>2, <1>5, <2>1, <2>2, <2>3, EnterLocal, StepConstants
<1>10. CASE ReplicaCommit(n, m) /\ ReplicaVotes(n, m, Decide)
            /\ lockedQC' = [lockedQC EXCEPT ![n] = m.qc]
            /\ UNCHANGED prepareQC
  <2>1. /\ EnterView(n, m, Decide) /\ UNCHANGED pool
        /\ uow'[n] = uow[n] /\ block'[n] = block[n]
        /\ prepareQC'[n] = prepareQC[n] /\ lockedQC'[n] = m.qc
    BY <1>10 DEF ReplicaVotes, store, TypeOK
  <2>2. m.step = Commit /\ Decide >= m.step /\ ValidQC(m.qc)
    BY SMT, <1>10 DEF ReplicaCommit, AsReplica, ReplicaVotes, Decide, Commit
  <2>3. m.qc.step = PreCommit /\ m.qc.height = m.height
        /\ m.qc.round = m.round
    BY SMT, <2>2, ProposalQC DEF Commit, PreCommit
  <2> QED
    BY <1>2, <1>5, <2>1, <2>2, <2>3, EnterLocal, StepConstants
<1>11. CASE ReplicaDecide(n, m)
  BY <1>4, <1>11, ExitLocal, CommitLocal DEF ReplicaDecide
<1> QED
  BY <1>4, <1>6, <1>7, <1>8, <1>9, <1>10, <1>11
  DEF ReplicaPreCommit, ReplicaCommit

-----------------------------------------------------------------------------
(* Certificates: where they come from and what is sent with them *)

\* A step issues no certificate but those of `new', and what it proposes in
\* the last three steps carries the right one.
CertStep(new) ==
    /\ \A p \in msgs' \ msgs : p.qc \in Certificates \cup {Nil} \cup new
    /\ \A k \in Node :
         /\ prepareQC'[k] \in Certificates \cup {Nil} \cup new
         /\ lockedQC'[k] \in Certificates \cup {Nil} \cup new
    /\ \A p \in msgs' \ msgs :
         (~ IsVote(p) /\ p.step \in {PreCommit, Commit, Decide}) =>
            /\ p.qc # Nil
            /\ p.qc.height = p.height /\ p.qc.round = p.round
            /\ p.qc.step = p.step - 1
            /\ p.qc.block = p.block

LEMMA HeldAreCertificates ==
    /\ \A k \in Node : /\ prepareQC[k] \in Certificates \cup {Nil}
                       /\ lockedQC[k] \in Certificates \cup {Nil}
    /\ \A m \in msgs : m.qc \in Certificates \cup {Nil}
BY DEF Certificates

LEMMA CertStepQuiet ==
    ASSUME NEW new, msgs' = msgs, UNCHANGED certs
    PROVE  CertStep(new)
BY HeldAreCertificates DEF CertStep, certs

LEMMA CertStepInterrupt ==
    ASSUME NEW n \in Node, NEW r, NEW new,
           NEW qc \in Certificates \cup {Nil} \cup new, NEW sent,
           InterruptRound(n, r, qc, sent),
           \A p \in sent :
              /\ p.qc \in new /\ p.qc # Nil
              /\ p.qc.height = p.height /\ p.qc.round = p.round
              /\ p.qc.step = p.step - 1 /\ p.qc.block = p.block,
           \A k \in Node :
              /\ prepareQC'[k] \in {prepareQC[k]} \cup new
              /\ lockedQC'[k] \in {lockedQC[k]} \cup new
    PROVE  CertStep(new)
<1> DEFINE p1 == Propose(n, height[n], r + 1, NewRound, Nil, qc)
<1>1. msgs' = msgs \cup sent \cup {p1}
  BY DEF InterruptRound
<1>2. p1.qc = qc /\ p1.step = NewRound
  BY DEF Propose
<1>3. NewRound \notin {PreCommit, Commit, Decide}
  BY SMT DEF NewRound, PreCommit, Commit, Decide
<1> HIDE DEF p1
<1> QED
  BY <1>1, <1>2, <1>3, HeldAreCertificates DEF CertStep

LEMMA CertStepCommit ==
    ASSUME TypeOK, NEW n \in Node, NEW r, NEW new, NEW sent,
           CommitAndNewHeight(n, r, sent),
           \A p \in sent :
              /\ p.qc \in new /\ p.qc # Nil
              /\ p.qc.height = p.height /\ p.qc.round = p.round
              /\ p.qc.step = p.step - 1 /\ p.qc.block = p.block
    PROVE  CertStep(new)
<1> DEFINE p1 == Propose(n, height[n] + 1, 0, NewRound, Nil, Nil)
<1>1. msgs' = msgs \cup sent \cup {p1}
  BY DEF CommitAndNewHeight, CommitBlock
<1>2. p1.qc = Nil /\ p1.step = NewRound
  BY DEF Propose
<1>3. NewRound \notin {PreCommit, Commit, Decide}
  BY SMT DEF NewRound, PreCommit, Commit, Decide
<1>4. \A k \in Node : /\ prepareQC'[k] \in {prepareQC[k], Nil}
                      /\ lockedQC'[k] \in {lockedQC[k], Nil}
  BY DEF CommitAndNewHeight, CommitBlock, TypeOK
<1> HIDE DEF p1
<1> QED
  BY <1>1, <1>2, <1>3, <1>4, HeldAreCertificates DEF CertStep

\* A step that votes, and proposes `props'.
LEMMA CertStepVote ==
    ASSUME NEW n, NEW l, NEW h, NEW r, NEW s, NEW b, NEW new, NEW props,
           msgs' = msgs \cup props \cup Vote(n, l, h, r, s, b),
           \A p \in props :
              /\ p.qc \in Certificates \cup {Nil} \cup new
              /\ p.step \in {PreCommit, Commit, Decide} =>
                   /\ p.qc # Nil
                   /\ p.qc.height = p.height /\ p.qc.round = p.round
                   /\ p.qc.step = p.step - 1 /\ p.qc.block = p.block,
           \A k \in Node :
              /\ prepareQC'[k] \in Certificates \cup {Nil} \cup new
              /\ lockedQC'[k] \in Certificates \cup {Nil} \cup new
    PROVE  CertStep(new)
<1>1. \A p \in Vote(n, l, h, r, s, b) : IsVote(p) /\ p.qc = Nil
  BY SMT DEF Vote, IsVote
<1> QED
  BY <1>1 DEF CertStep

LEMMA NewQCNotNil ==
    ASSUME TypeOK, NEW n \in Node, NEW m \in msgs
    PROVE  NewQC(n, m) # Nil
BY NewQCType, NilAssumption

LEMMA LeaderCerts ==
    ASSUME TypeOK, PoolSent, NEW n \in Node, NEW m \in msgs,
           \/ LeaderCollect(n, m) \/ LeaderNewRound(n, m)
           \/ LeaderPrepare(n, m) \/ LeaderPreCommit(n, m)
           \/ LeaderCommit(n, m) \/ LeaderNoQC(n, m)
    PROVE  CertStep({NewQC(n, m)})
<1> DEFINE new == {NewQC(n, m)}
<1>0. NewQC(n, m) \in new
  OBVIOUS
<1> SUFFICES CertStep(new)
  OBVIOUS
<1> HIDE DEF new
<1>1. CASE LeaderCollect(n, m) \/ LeaderNoQC(n, m)
  BY <1>1, CertStepQuiet DEF LeaderCollect, LeaderNoQC
<1>2. CASE LeaderNewRound(n, m)
  <2>1. CASE Exit(n)
    BY <2>1, CertStepQuiet DEF Exit
  <2>2. CASE ~ Exit(n)
    <3>1. PICK highQC, b :
            /\ highQC \in HighQCs(n, m)
            /\ msgs' = msgs
                 \cup {Propose(n, m.height, m.round, Prepare, b, highQC)}
                 \cup Vote(n, n, m.height, m.round, Prepare, b)
            /\ UNCHANGED certs
      BY <1>2, <2>2 DEF LeaderNewRound
    <3>2. highQC \in Certificates \cup {Nil}
      <4>1. \A x \in pool[n][m.step] : x \in msgs
        BY MessageFields DEF PoolSent, TypeOK
      <4> QED
        BY <3>1, <4>1, HeldAreCertificates DEF HighQCs
    <3> DEFINE props == {Propose(n, m.height, m.round, Prepare, b, highQC)}
    <3>3. \A p \in props : p.qc = highQC /\ p.step = Prepare
      BY SMT DEF Propose
    <3>4. Prepare \notin {PreCommit, Commit, Decide}
      BY SMT DEF Prepare, PreCommit, Commit, Decide
    <3>5. msgs' = msgs \cup props
                   \cup Vote(n, n, m.height, m.round, Prepare, b)
      BY <3>1
    <3> HIDE DEF props
    <3>6. \A k \in Node : /\ prepareQC'[k] \in Certificates \cup {Nil} \cup new
                          /\ lockedQC'[k] \in Certificates \cup {Nil} \cup new
      BY <3>1, HeldAreCertificates DEF certs
    <3>7. \A p \in props :
            /\ p.qc \in Certificates \cup {Nil} \cup new
            /\ p.step \notin {PreCommit, Commit, Decide}
      BY <3>2, <3>3, <3>4
    <3> QED
      BY <3>5, <3>6, <3>7, CertStepVote
  <2> QED
    BY <2>1, <2>2
<1>3. ASSUME NEW s, s = m.step + 1, m.step \in {Prepare, PreCommit},
             NEW highQC \in Certificates \cup {Nil} \cup new,
             ProposeStep(n, m, s, NewQC(n, m), highQC),
             \A k \in Node :
                /\ prepareQC'[k] \in {prepareQC[k]} \cup new
                /\ lockedQC'[k] \in {lockedQC[k]} \cup new
      PROVE  CertStep(new)
  <2>1. CASE InterruptRound(n, m.round, highQC, {})
    <3> DEFINE none == {}
    <3>1. InterruptRound(n, m.round, highQC, none) /\ \A p \in none : FALSE
      BY <2>1
    <3> HIDE DEF none
    <3> QED
      BY <1>3, <3>1, CertStepInterrupt
  <2>2. CASE msgs' = msgs
          \cup {Propose(n, m.height, m.round, s, block[n], NewQC(n, m))}
          \cup Vote(n, n, m.height, m.round, s, block[n])
    <3> DEFINE props == {Propose(n, m.height, m.round, s, block[n],
                                 NewQC(n, m))}
    <3>1. \A p \in props : /\ p.qc = NewQC(n, m) /\ p.step = s
                           /\ p.height = m.height /\ p.round = m.round
                           /\ p.block = block[n]
      BY SMT DEF Propose
    <3>2. m.step = s - 1
      BY SMT, <1>3 DEF Prepare, PreCommit
    <3>3. msgs' = msgs \cup props
                   \cup Vote(n, n, m.height, m.round, s, block[n])
      BY <2>2
    <3> HIDE DEF props
    <3>4. \A k \in Node :
             /\ prepareQC'[k] \in Certificates \cup {Nil} \cup new
             /\ lockedQC'[k] \in Certificates \cup {Nil} \cup new
      BY <1>3, HeldAreCertificates
    <3>5. \A p \in props :
            /\ p.qc \in Certificates \cup {Nil} \cup new
            /\ p.qc # Nil
            /\ p.qc.height = p.height /\ p.qc.round = p.round
            /\ p.qc.step = p.step - 1 /\ p.qc.block = p.block
      BY SMT, <1>0, <3>1, <3>2, NewQCPlace, NewQCNotNil
    <3> QED
      BY SMT, <3>3, <3>4, <3>5, CertStepVote
  <2> QED
    BY <1>3, <2>1, <2>2 DEF ProposeStep
<1>4. CASE LeaderPrepare(n, m)
  <2>1. m.step = Prepare
    BY <1>4 DEF LeaderPrepare, HasQuorum, AsLeader
  <2>2. \A k \in Node : /\ prepareQC'[k] \in {prepareQC[k]} \cup new
                        /\ lockedQC'[k] \in {lockedQC[k]} \cup new
    BY <1>0, <1>4 DEF LeaderPrepare, TypeOK
  <2>3. PreCommit = Prepare + 1
    BY SMT DEF Prepare, PreCommit
  <2> QED
    BY <1>0, <1>3, <1>4, <2>1, <2>2, <2>3 DEF LeaderPrepare
<1>5. CASE LeaderPreCommit(n, m)
  <2>1. m.step = PreCommit
    BY <1>5 DEF LeaderPreCommit, HasQuorum, AsLeader
  <2>2. \A k \in Node : /\ prepareQC'[k] \in {prepareQC[k]} \cup new
                        /\ lockedQC'[k] \in {lockedQC[k]} \cup new
    BY <1>0, <1>5 DEF LeaderPreCommit, TypeOK
  <2>3. Commit = PreCommit + 1
    BY SMT DEF Commit, PreCommit
  <2> QED
    BY <1>3, <1>5, <2>1, <2>2, <2>3, HeldAreCertificates DEF LeaderPreCommit
<1>6. CASE LeaderCommit(n, m)
  <2> DEFINE decide == {Propose(n, m.height, m.round, Decide, block[n],
                                NewQC(n, m))}
             sent   == IF block[n] = Nil THEN {} ELSE decide
  <2>1. m.step = Commit /\ Commit = Decide - 1
    BY SMT, <1>6, LeaderSteps DEF AsLeader, Commit, Decide
  <2>2. \A p \in decide :
          /\ p.qc = NewQC(n, m) /\ p.step = Decide
          /\ p.height = m.height /\ p.round = m.round /\ p.block = block[n]
    BY SMT DEF Propose
  <2>3. \A p \in decide :
          /\ p.qc \in new /\ p.qc # Nil
          /\ p.qc.height = p.height /\ p.qc.round = p.round
          /\ p.qc.step = p.step - 1 /\ p.qc.block = p.block
    BY SMT, <1>0, <2>1, <2>2, NewQCPlace, NewQCNotNil
  <2>4. sent \subseteq decide
    OBVIOUS
  <2>5. \/ CommitAndNewHeight(n, m.round, decide)
        \/ InterruptRound(n, m.round, prepareQC[n], sent) /\ UNCHANGED certs
    BY <1>6 DEF LeaderCommit
  <2> HIDE DEF decide, sent
  <2>6. CASE CommitAndNewHeight(n, m.round, decide)
    BY <2>3, <2>6, CertStepCommit
  <2>7. CASE InterruptRound(n, m.round, prepareQC[n], sent) /\ UNCHANGED certs
    <3>1. \A k \in Node : /\ prepareQC'[k] \in {prepareQC[k]} \cup new
                          /\ lockedQC'[k] \in {lockedQC[k]} \cup new
      BY <2>7 DEF certs
    <3> QED
      BY <2>3, <2>4, <2>7, <3>1, CertStepInterrupt, HeldAreCertificates
  <2> QED
    BY <2>5, <2>6, <2>7
<1> QED
  BY <1>1, <1>2, <1>4, <1>5, <1>6

LEMMA ReplicaCerts ==
    ASSUME TypeOK, NEW n \in Node, NEW m \in msgs,
           \/ ReplicaNewRound(n, m) \/ ReplicaPrepare(n, m)
           \/ ReplicaPreCommit(n, m) \/ ReplicaCommit(n, m)
           \/ ReplicaDecide(n, m) \/ AnteHandleFails(n, m)
    PROVE  CertStep({})
<1> DEFINE none == {}
<1>0. \A p \in none : FALSE
  OBVIOUS
<1> SUFFICES CertStep(none)
  OBVIOUS
<1> HIDE DEF none
<1>1. CASE msgs' = msgs /\ UNCHANGED certs
  BY <1>1, CertStepQuiet
<1>2. CASE ReplicaInterrupts(n, m)
  <2>1. InterruptRound(n, m.round, prepareQC[n], none) /\ UNCHANGED certs
    BY <1>2 DEF ReplicaInterrupts, none
  <2>2. \A k \in Node : /\ prepareQC'[k] \in {prepareQC[k]} \cup none
                        /\ lockedQC'[k] \in {lockedQC[k]} \cup none
    BY <2>1 DEF certs
  <2>3. prepareQC[n] \in Certificates \cup {Nil} \cup none
    BY HeldAreCertificates
  <2> QED
    BY <1>0, <2>1, <2>2, <2>3, CertStepInterrupt
<1>3. CASE CommitAndNewHeight(n, m.qc.round, {})
  <2>1. CommitAndNewHeight(n, m.qc.round, none)
    BY <1>3 DEF none
  <2> QED
    BY <1>0, <2>1, CertStepCommit
<1>4. ASSUME NEW s, NEW b,
             msgs' = msgs \cup Vote(n, LeaderAfter(n, m), m.height, m.round,
                                    s, b),
             \A k \in Node : /\ prepareQC'[k] \in {prepareQC[k], m.qc}
                             /\ lockedQC'[k] \in {lockedQC[k], m.qc}
      PROVE  CertStep(none)
  <2>1. msgs' = msgs \cup none
                 \cup Vote(n, LeaderAfter(n, m), m.height, m.round, s, b)
    BY <1>4 DEF none
  <2>2. \A k \in Node :
             /\ prepareQC'[k] \in Certificates \cup {Nil} \cup none
             /\ lockedQC'[k] \in Certificates \cup {Nil} \cup none
    BY <1>4, HeldAreCertificates
  <2> QED
    BY <1>0, <2>1, <2>2, CertStepVote
<1>5. CASE ReplicaPrepare(n, m)
  BY <1>1, <1>2, <1>4, <1>5 DEF ReplicaPrepare, Exit, certs
<1>6. CASE ReplicaPreCommit(n, m) \/ ReplicaCommit(n, m)
  <2>1. prepareQC \in [Node -> QC \cup {Nil}]
        /\ lockedQC \in [Node -> QC \cup {Nil}]
    BY DEF TypeOK
  <2> QED
    BY <1>2, <1>4, <1>6, <2>1
    DEF ReplicaPreCommit, ReplicaCommit, ReplicaVotes
<1> QED
  BY <1>1, <1>2, <1>3, <1>5, <1>6
  DEF ReplicaNewRound, ReplicaDecide, AnteHandleFails, Exit

=============================================================================
