-------------------------- MODULE PersistenceProofs --------------------------
(***************************************************************************)
(* For any transactions, clients, number of heights and number of crashes: *)
(* the block store has the blocks that SQL has, each beginning with the    *)
(* transactions that were applied; the four stores of a validator          *)
(* implement the chain of BlockChain; and the mempool counts what it has.  *)
(*                                                                         *)
(* None is inductive.  What makes them hold is where the steps of Commit   *)
(* and of a start stand: a unit of work exists only while the process is   *)
(* up, above genesis; once its block is stored, the block store has its    *)
(* hash at the height that SQL lacks; and while genesis is written again   *)
(* SQL is empty (IInv).  The index of a height begins with what the unit   *)
(* of work has applied so far (HoldsInv), because a unit of work writes    *)
(* its transactions over those of an interrupted one, from the first on.   *)
(* The queue of the mempool has nothing twice (Counted).                   *)
(***************************************************************************)
EXTENDS Persistence, SequenceTheorems, FunctionTheorems, FiniteSetTheorems,
        TLAPS

USE Zenon

-----------------------------------------------------------------------------
(* The inductive invariant *)

UowInv ==
    uow # Nil =>
        /\ boot = "up" /\ 1 <= Len(sql) /\ Len(sql) <= MaxHeight
        /\ uow.stage = "stored" =>
             blockStore[Len(sql)] # Nil /\ blockStore[Len(sql)].hash = uow.hash

BootInv ==
    /\ boot \in {"cleared", "hydrating", "genesis"} => sql = <<>>
    /\ boot = "genesis" => blockStore[0] = GenesisBlock

IInv == TypeOK /\ UowInv /\ BootInv /\ ServedMatchesSQL

-----------------------------------------------------------------------------
(* Types of the operators *)

LEMMA Numbers ==
    /\ MaxHeight \in Nat /\ Word \in Nat \ {0} /\ MaxCrashes \in Nat
    /\ 0 \in Heights
<1>1. MaxHeight \in Nat /\ Word \in Nat \ {0} /\ MaxCrashes \in Nat
  BY PersistenceAssumption, LimitsAssumption
<1> QED
  BY <1>1, SMT DEF Heights

LEMMA TxsInType ==
    ASSUME NEW s \in Seq(Txs)
    PROVE  TxsIn(s) \subseteq Txs
BY SMT DEF TxsIn

LEMMA WordType ==
    ASSUME NEW x \in Int
    PROVE  x % Word \in 0 .. Word - 1
BY Numbers, SMT

LEMMA OnAddType ==
    ASSUME NEW mp \in Mempools, NEW t \in Txs
    PROVE  OnAdd(mp, t) \in Mempools /\ OnAdd(mp, t).queue = mp.queue
<1> DEFINE x == (mp.txsBytesTotal + Size(t)) % Word
           c == mp.txCount + 1
           v == [mp EXCEPT !.txCount = c]
<1>1. Size(t) \in 1 .. Word
  BY SizeAssumption
<1>2. mp.txsBytesTotal + Size(t) \in Int /\ c \in Int
  BY <1>1, Numbers, SMT DEF Mempools
<1>3. x \in 0 .. Word - 1
  BY <1>2, WordType
<1>4. OnAdd(mp, t) = [v EXCEPT !.txsBytesTotal = x]
  BY DEF OnAdd
<1> HIDE DEF x, c
<1>5. v \in Mempools /\ v.queue = mp.queue
  BY <1>2, SMT DEF Mempools
<1> HIDE DEF v
<1> QED
  BY <1>3, <1>4, <1>5, SMT DEF Mempools

LEMMA OnRemoveType ==
    ASSUME NEW mp \in Mempools, NEW t \in Txs
    PROVE  OnRemove(mp, t) \in Mempools
<1> DEFINE x == (mp.txsBytesTotal + Word - Size(t)) % Word
           c == mp.txCount - 1
           v == [mp EXCEPT !.txCount = c]
<1>1. Size(t) \in 1 .. Word
  BY SizeAssumption
<1>2. mp.txsBytesTotal + Word - Size(t) \in Int /\ c \in Int
  BY <1>1, Numbers, SMT DEF Mempools
<1>3. x \in 0 .. Word - 1
  BY <1>2, WordType
<1>4. OnRemove(mp, t) = [v EXCEPT !.txsBytesTotal = x]
  BY DEF OnRemove
<1> HIDE DEF x, c
<1>5. v \in Mempools
  BY <1>2, SMT DEF Mempools
<1> HIDE DEF v
<1> QED
  BY <1>3, <1>4, <1>5, SMT DEF Mempools

LEMMA QueueType ==
    ASSUME NEW mp \in Mempools, NEW q \in Seq(Txs)
    PROVE  [mp EXCEPT !.queue = q] \in Mempools /\ [mp EXCEPT !.queue = q].queue = q
BY SMT DEF Mempools

LEMMA AddTxType ==
    ASSUME NEW mp \in Mempools, NEW t \in Txs
    PROVE  AddTx(mp, t) \in Mempools
<1> DEFINE q == Append(mp.queue, t)
           m == [mp EXCEPT !.queue = q]
           a == OnAdd(m, t)
           r == Tail(a.queue)
           e == [a EXCEPT !.queue = r]
<1>1. q \in Seq(Txs) /\ q # <<>>
  BY SMT DEF Mempools
<1> HIDE DEF q
<1>2. m \in Mempools /\ m.queue = q
  BY <1>1, QueueType
<1> HIDE DEF m
<1>3. a \in Mempools /\ a.queue = q
  BY <1>2, OnAddType
<1> HIDE DEF a
<1>4. r \in Seq(Txs)
  BY <1>1, <1>3, SMT
<1> HIDE DEF r
<1>5. e \in Mempools
  BY <1>3, <1>4, QueueType
<1>6. OnRemove(e, t) \in Mempools
  BY <1>5, OnRemoveType
<1>7. Push(mp, t) = IF IsOverflowing(a) THEN OnRemove(e, t) ELSE a
  BY DEF Push, a, m, q, r
<1> QED
  BY <1>3, <1>6, <1>7 DEF AddTx

LEMMA PopTxType ==
    ASSUME NEW mp \in Mempools, mp.queue # <<>>
    PROVE  PopTx(mp) \in Mempools /\ Head(mp.queue) \in Txs
<1> DEFINE q == Tail(mp.queue)
           t == Head(mp.queue)
<1>1. q \in Seq(Txs) /\ t \in Txs
  BY SMT DEF Mempools
<1> HIDE DEF q, t
<1>2. [mp EXCEPT !.queue = q] \in Mempools
  BY <1>1, QueueType
<1>3. OnRemove([mp EXCEPT !.queue = q], t) \in Mempools
  BY <1>1, <1>2, OnRemoveType
<1> QED
  BY <1>1, <1>3 DEF PopTx, q, t

LEMMA RemoveTxType ==
    ASSUME NEW mp \in Mempools, NEW t \in Txs
    PROVE  RemoveTx(mp, t) \in Mempools
<1> DEFINE q == Without(mp.queue, t)
<1>1. CASE ~ Contains(mp, t)
  BY <1>1 DEF RemoveTx
<1>2. CASE Contains(mp, t)
  <2>1. PICK i \in DOMAIN mp.queue :
          q = SubSeq(mp.queue, 1, i - 1) \o SubSeq(mp.queue, i + 1, Len(mp.queue))
    BY <1>2 DEF Contains, TxsIn, Without
  <2>2. mp.queue \in Seq(Txs)
    BY DEF Mempools
  <2> HIDE DEF q
  <2>3. /\ SubSeq(mp.queue, 1, i - 1) \in Seq(Txs)
        /\ SubSeq(mp.queue, i + 1, Len(mp.queue)) \in Seq(Txs)
    BY <2>2, SMT
  <2>4. q \in Seq(Txs)
    BY <2>1, <2>3, SMT
  <2>5. [mp EXCEPT !.queue = q] \in Mempools
    BY <2>4, QueueType
  <2>6. RemoveTx(mp, t) = OnRemove([mp EXCEPT !.queue = q], t)
    BY <1>2 DEF RemoveTx, q
  <2> QED
    BY <2>5, <2>6, OnRemoveType
<1> QED
  BY <1>1, <1>2

-----------------------------------------------------------------------------
(* The unit of work, with one field replaced *)

LEMMA UowStage ==
    ASSUME NEW u \in UnitOfWork,
           NEW x \in {"fresh", "reaping", "applying", "applied", "stored"}
    PROVE  /\ [u EXCEPT !.stage = x] \in UnitOfWork
           /\ [u EXCEPT !.stage = x].stage = x
           /\ [u EXCEPT !.stage = x].hash = u.hash
BY DEF UnitOfWork

LEMMA UowTodo ==
    ASSUME NEW u \in UnitOfWork, NEW x \in Seq(Txs)
    PROVE  /\ [u EXCEPT !.todo = x] \in UnitOfWork
           /\ [u EXCEPT !.todo = x].stage = u.stage
BY DEF UnitOfWork

LEMMA UowDone ==
    ASSUME NEW u \in UnitOfWork, NEW x \in Seq(Txs)
    PROVE  /\ [u EXCEPT !.done = x] \in UnitOfWork
           /\ [u EXCEPT !.done = x].stage = u.stage
BY DEF UnitOfWork

LEMMA UowBytes ==
    ASSUME NEW u \in UnitOfWork, NEW x \in Nat
    PROVE  /\ [u EXCEPT !.bytes = x] \in UnitOfWork
           /\ [u EXCEPT !.bytes = x].stage = u.stage
BY DEF UnitOfWork

LEMMA UowExpect ==
    ASSUME NEW u \in UnitOfWork, NEW x \in Hashes
    PROVE  /\ [u EXCEPT !.expect = x] \in UnitOfWork
           /\ [u EXCEPT !.expect = x].stage = u.stage
BY DEF UnitOfWork

LEMMA UowHash ==
    ASSUME NEW u \in UnitOfWork, NEW x \in Hashes
    PROVE  /\ [u EXCEPT !.hash = x] \in UnitOfWork
           /\ [u EXCEPT !.hash = x].stage = u.stage
BY DEF UnitOfWork

LEMMA FreshUOWType == FreshUOW \in UnitOfWork /\ FreshUOW.stage = "fresh"
<1>1. <<>> \in Seq(Txs) /\ 0 \in Nat
  BY SMT
<1>2. {} \in Hashes
  BY DEF Hashes
<1> QED
  BY <1>1, <1>2, SMT DEF FreshUOW, UnitOfWork

LEMMA TreesAfterType ==
    ASSUME TypeOK, NEW d \in Seq(Txs), height \in Heights
    PROVE  TreesAfter(d) \in Hashes
<1>1. slots[height] \in Seq(Txs)
  BY DEF TypeOK
<1>2. TxsIn(d) \subseteq Txs /\ TxsIn(slots[height]) \subseteq Txs
  BY <1>1, TxsInType
<1> QED
  BY <1>2 DEF TreesAfter, Upsert, RowsAtHeight, TypeOK, Hashes

LEMMA StateType ==
    ASSUME TypeOK
    PROVE  State \subseteq Txs \cup {Genesis}
<1>1. ASSUME NEW i \in DOMAIN sql PROVE TxsIn(sql[i].txs) \subseteq Txs
  <2>1. sql[i] \in Block
    BY SMT DEF TypeOK
  <2> QED
    BY <2>1, TxsInType DEF Block
<1> QED
  BY <1>1 DEF State

\* Where a unit of work may be.
LEMMA UowFacts ==
    ASSUME IInv, uow # Nil
    PROVE  /\ uow \in UnitOfWork /\ boot = "up" /\ height \in Heights
           /\ 1 <= Len(sql) /\ Len(sql) <= MaxHeight
           /\ uow.done \in Seq(Txs) /\ uow.todo \in Seq(Txs)
           /\ uow.bytes \in Nat /\ uow.hash \in Hashes \cup {Nil}
<1>1. uow \in UnitOfWork /\ boot = "up" /\ 1 <= Len(sql) /\ Len(sql) <= MaxHeight
  BY DEF IInv, TypeOK, UowInv
<1>2. height \in Heights
  <2>1. Len(sql) \in Nat
    BY SMT DEF IInv, TypeOK
  <2> QED
    BY <1>1, <2>1, Numbers, SMT DEF height, Heights
<1> QED
  BY <1>1, <1>2 DEF UnitOfWork

LEMMA IndexType ==
    ASSUME TypeOK, height \in Heights, NEW t \in Txs, NEW i \in Nat \ {0},
           IndexTransaction(t, i)
    PROVE  byHash' \in SUBSET Txs /\ slots' \in [Heights -> Seq(Txs)]
<1> DEFINE q == slots[height]
           r == IF i <= Len(q) THEN [q EXCEPT ![i] = t] ELSE Append(q, t)
<1>1. q \in Seq(Txs)
  BY DEF TypeOK
<1>2. slots' = [slots EXCEPT ![height] = r]
  BY DEF IndexTransaction
<1> HIDE DEF q
<1>3. r \in Seq(Txs)
  BY <1>1, SMT
<1> HIDE DEF r
<1>4. slots' \in [Heights -> Seq(Txs)]
  BY <1>2, <1>3 DEF TypeOK
<1> QED
  BY <1>4 DEF IndexTransaction, TypeOK

-----------------------------------------------------------------------------
(* Steps that leave SQL and the block store alone *)

Kept == sql' = sql /\ blockStore' = blockStore

LEMMA Keeps ==
    ASSUME IInv, TypeOK', Kept,
           \/ uow' = Nil /\ boot' \in {boot, "down"}
           \/ uow' = uow /\ boot' = boot
           \/ /\ boot = "up" /\ boot' = boot /\ 1 <= Len(sql) /\ Len(sql) <= MaxHeight
              /\ uow'.stage # "stored"
    PROVE  IInv' /\ Served' = Served
<1>1. ServedMatchesSQL' /\ Served' = Served
  BY DEF IInv, ServedMatchesSQL, Kept, Served
<1>2. BootInv'
  BY DEF IInv, BootInv, Kept
<1>3. UowInv'
  BY DEF IInv, UowInv, Kept
<1> QED
  BY <1>1, <1>2, <1>3 DEF IInv

\* TypeOK' from the types of what a step of a unit of work changes.
LEMMA UowStepType ==
    ASSUME TypeOK, Kept, UNCHANGED <<client, boot, crashes>>,
           byHash' \in SUBSET Txs, slots' \in [Heights -> Seq(Txs)],
           trees' \in Hashes, mempool' \in Mempools, uow' \in UnitOfWork \cup {Nil}
    PROVE  TypeOK'
BY DEF TypeOK, Kept

LEMMA ClientSteps ==
    ASSUME IInv, NEW c \in Clients, NEW t \in Txs,
           SubmitCheckMempool(c, t) \/ SubmitCheckIndex(c) \/ SubmitAdd(c)
    PROVE  IInv' /\ Served' = Served
<1> DEFINE C == {Idle} \cup [pc : {"index", "add"}, tx : Txs]
<1>0. client \in [Clients -> C] /\ client[c] \in C /\ mempool \in Mempools
  BY DEF IInv, TypeOK
<1>1. Idle \in C /\ Idle.pc = "idle"
  BY DEF Idle
<1>a. client[c].pc # "idle" => client[c] \in [pc : {"index", "add"}, tx : Txs]
  BY <1>0, <1>1
<1>2. CASE SubmitCheckMempool(c, t)
  <2>1. [pc |-> "index", tx |-> t] \in C
    OBVIOUS
  <2>2. client' \in [Clients -> C]
    BY <1>0, <1>2, <2>1 DEF SubmitCheckMempool
  <2>3. TypeOK' /\ Kept
    BY <1>2, <2>2 DEF SubmitCheckMempool, IInv, TypeOK, Kept, disk
  <2> QED
    BY <1>2, <2>3, Keeps DEF SubmitCheckMempool
<1>3. CASE SubmitCheckIndex(c)
  <2>0. client[c] \in [pc : {"index", "add"}, tx : Txs]
    BY <1>3, <1>a DEF SubmitCheckIndex
  <2>1. [client[c] EXCEPT !.pc = "add"] \in C
    BY <2>0
  <2>2. client' \in [Clients -> C]
    BY <1>0, <1>1, <1>3, <2>1 DEF SubmitCheckIndex
  <2>3. TypeOK' /\ Kept
    BY <1>3, <2>2 DEF SubmitCheckIndex, IInv, TypeOK, Kept, disk
  <2> QED
    BY <1>3, <2>3, Keeps DEF SubmitCheckIndex
<1>4. CASE SubmitAdd(c)
  <2>1. client' \in [Clients -> C]
    BY <1>0, <1>1, <1>4 DEF SubmitAdd
  <2>2. mempool' \in Mempools
    <3>1. client[c].tx \in Txs
      BY <1>4, <1>a DEF SubmitAdd
    <3> QED
      BY <1>0, <1>4, <3>1, AddTxType DEF SubmitAdd
  <2>3. TypeOK' /\ Kept
    BY <1>4, <2>1, <2>2 DEF SubmitAdd, IInv, TypeOK, Kept, disk
  <2> QED
    BY <1>4, <2>3, Keeps DEF SubmitAdd
<1> QED
  BY <1>2, <1>3, <1>4

LEMMA EmptyMempoolType == EmptyMempool \in Mempools
<1>1. <<>> \in Seq(Txs) /\ 0 \in Int /\ 0 \in 0 .. Word - 1
  BY Numbers, SMT
<1> QED
  BY <1>1 DEF EmptyMempool, Mempools

LEMMA ProcessEndsStep ==
    ASSUME IInv, ProcessEnds
    PROVE  IInv' /\ Served' = Served
<1>1. crashes' \in 0 .. MaxCrashes
  BY Numbers, SMT DEF ProcessEnds, IInv, TypeOK
<1>2. trees' \in Hashes
  BY DEF ProcessEnds, EmptyTrees, Hashes
<1>3. client' \in [Clients -> {Idle} \cup [pc : {"index", "add"}, tx : Txs]]
  BY DEF ProcessEnds
<1>4. TypeOK' /\ Kept
  BY <1>1, <1>2, <1>3, EmptyMempoolType DEF ProcessEnds, IInv, TypeOK, Kept, disk
<1> QED
  BY <1>4, Keeps DEF ProcessEnds

LEMMA RefreshStep ==
    ASSUME IInv, RefreshUOW \/ ReleaseUOW \/ BeginProposal
    PROVE  IInv' /\ Served' = Served
<1>1. CASE RefreshUOW
  <2>1. TypeOK' /\ Kept
    BY <1>1, FreshUOWType, UowStepType DEF RefreshUOW, IInv, TypeOK, Kept, disk
  <2>2. uow'.stage # "stored"
    BY <1>1, FreshUOWType DEF RefreshUOW
  <2> QED
    BY <1>1, <2>1, <2>2, Keeps DEF RefreshUOW, Up, height
<1>2. CASE ReleaseUOW
  <2>1. TypeOK' /\ Kept
    BY <1>2, UowStepType DEF ReleaseUOW, IInv, TypeOK, Kept, disk
  <2> QED
    BY <1>2, <2>1, Keeps DEF ReleaseUOW
<1>3. CASE BeginProposal
  <2>1. uow' \in UnitOfWork /\ uow'.stage = "reaping"
    BY <1>3, UowFacts, UowStage DEF BeginProposal
  <2>2. TypeOK' /\ Kept
    BY <1>3, <2>1, UowStepType DEF BeginProposal, IInv, TypeOK, Kept, disk
  <2> QED
    BY <1>3, <2>1, <2>2, UowFacts, Keeps DEF BeginProposal
<1> QED
  BY <1>1, <1>2, <1>3

LEMMA NextPlace ==
    ASSUME NEW d \in Seq(Txs), NEW t \in Txs
    PROVE  Len(d) + 1 \in Nat \ {0} /\ Append(d, t) \in Seq(Txs)
BY SMT

LEMMA ReapTxStep ==
    ASSUME IInv, NEW ok \in BOOLEAN, ReapTx(ok)
    PROVE  IInv' /\ Served' = Served
<1> DEFINE t == Head(mempool.queue)
           b == uow.bytes + Size(t)
           d == Append(uow.done, t)
           v == [uow EXCEPT !.done = d]
<1>0. mempool \in Mempools /\ uow # Nil /\ uow.stage = "reaping" /\ mempool.queue # <<>>
  BY DEF ReapTx, IInv, TypeOK
<1>1. mempool' \in Mempools /\ t \in Txs
  BY <1>0, PopTxType DEF ReapTx
<1>2. /\ Kept /\ UNCHANGED <<client, boot, crashes, trees>>
      /\ \/ /\ IndexTransaction(t, Len(uow.done) + 1)
            /\ uow' = [v EXCEPT !.bytes = b]
         \/ UNCHANGED <<slots, byHash, uow>>
  BY DEF ReapTx, Kept
<1>3. Size(t) \in 1 .. Word
  BY <1>1, SizeAssumption
<1> HIDE DEF t
<1>4. b \in Nat
  BY <1>0, <1>3, UowFacts, SMT
<1>5. d \in Seq(Txs) /\ Len(uow.done) + 1 \in Nat \ {0}
  BY <1>0, <1>1, UowFacts, NextPlace
<1> HIDE DEF b, d
<1>6. v \in UnitOfWork /\ v.stage = "reaping"
  BY <1>0, <1>5, UowFacts, UowDone
<1> HIDE DEF v
<1>7. CASE IndexTransaction(t, Len(uow.done) + 1) /\ uow' = [v EXCEPT !.bytes = b]
  <2>1. uow' \in UnitOfWork /\ uow'.stage = "reaping"
    BY <1>4, <1>6, <1>7, UowBytes
  <2>2. byHash' \in SUBSET Txs /\ slots' \in [Heights -> Seq(Txs)]
    BY <1>0, <1>1, <1>5, <1>7, UowFacts, IndexType DEF IInv
  <2>3. TypeOK'
    BY <1>1, <1>2, <2>1, <2>2, UowStepType DEF IInv, TypeOK
  <2> QED
    BY <1>0, <1>2, <2>1, <2>3, UowFacts, Keeps
<1>8. CASE UNCHANGED <<slots, byHash, uow>>
  <2>1. TypeOK'
    BY <1>1, <1>2, <1>8, UowStepType DEF IInv, TypeOK
  <2> QED
    BY <1>2, <1>8, <2>1, Keeps
<1> QED
  BY <1>2, <1>7, <1>8

LEMMA EndProposalStep ==
    ASSUME IInv, EndProposal
    PROVE  IInv' /\ Served' = Served
<1> DEFINE h == TreesAfter(uow.done)
           v == [uow EXCEPT !.stage = "applied"]
<1>0. mempool \in Mempools /\ uow # Nil
  BY DEF EndProposal, IInv, TypeOK
<1>1. mempool' \in Mempools
  <2>1. CASE mempool.queue = <<>> /\ UNCHANGED mempool
    BY <1>0, <2>1
  <2>2. CASE mempool.queue # <<>> /\ mempool' = AddTx(PopTx(mempool), Head(mempool.queue))
    <3>1. PopTx(mempool) \in Mempools /\ Head(mempool.queue) \in Txs
      BY <1>0, <2>2, PopTxType
    <3> QED
      BY <2>2, <3>1, AddTxType
  <2> QED
    BY <2>1, <2>2 DEF EndProposal
<1>2. h \in Hashes
  BY <1>0, UowFacts, TreesAfterType DEF IInv
<1>3. /\ Kept /\ UNCHANGED <<slots, byHash, client, boot, crashes>>
      /\ trees' = h /\ uow' = [v EXCEPT !.hash = h]
  BY DEF EndProposal, Kept, disk
<1> HIDE DEF h
<1>4. v \in UnitOfWork /\ v.stage = "applied"
  BY <1>0, UowFacts, UowStage
<1> HIDE DEF v
<1>5. uow' \in UnitOfWork /\ uow'.stage = "applied"
  BY <1>2, <1>3, <1>4, UowHash
<1>6. TypeOK'
  BY <1>1, <1>2, <1>3, <1>5, UowStepType DEF IInv, TypeOK
<1> QED
  BY <1>0, <1>3, <1>5, <1>6, UowFacts, Keeps

LEMMA ProposalsType == Proposals \subseteq Seq(Txs)
<1> SUFFICES ASSUME NEW p \in Proposals PROVE p \in Seq(Txs)
  OBVIOUS
<1>1. CASE p = <<>>
  BY <1>1, SMT
<1>2. CASE \E t \in Txs : p = <<t>>
  BY <1>2, SMT
<1>3. CASE \E q \in Txs \X Txs : p = <<q[1], q[2]>>
  <2>1. PICK q \in Txs \X Txs : p = <<q[1], q[2]>>
    BY <1>3
  <2>2. q[1] \in Txs /\ q[2] \in Txs
    OBVIOUS
  <2> QED
    BY <2>1, <2>2, SMT
<1> QED
  BY <1>1, <1>2, <1>3 DEF Proposals

LEMMA BeginApplyStep ==
    ASSUME IInv, NEW txs \in Proposals, BeginApply(txs)
    PROVE  IInv' /\ Served' = Served
<1> DEFINE e == State \cup TxsIn(txs)
           v == [uow EXCEPT !.stage = "applying"]
           w == [v EXCEPT !.todo = txs]
<1>0. uow # Nil /\ txs \in Seq(Txs)
  BY ProposalsType DEF BeginApply
<1>1. e \in Hashes
  BY <1>0, StateType, TxsInType DEF IInv, Hashes
<1>2. /\ Kept /\ UNCHANGED <<slots, byHash, client, boot, crashes, trees, mempool>>
      /\ uow' = [w EXCEPT !.expect = e]
  BY DEF BeginApply, Kept, disk
<1> HIDE DEF e
<1>3. v \in UnitOfWork /\ v.stage = "applying"
  BY <1>0, UowFacts, UowStage
<1> HIDE DEF v
<1>4. w \in UnitOfWork /\ w.stage = "applying"
  BY <1>0, <1>3, UowTodo
<1> HIDE DEF w
<1>5. uow' \in UnitOfWork /\ uow'.stage = "applying"
  BY <1>1, <1>2, <1>4, UowExpect
<1>6. TypeOK'
  BY <1>2, <1>5, UowStepType DEF IInv, TypeOK
<1> QED
  BY <1>0, <1>2, <1>5, <1>6, UowFacts, Keeps

LEMMA ApplyTxStep ==
    ASSUME IInv, ApplyTx
    PROVE  IInv' /\ Served' = Served
<1> DEFINE t == Head(uow.todo)
           r == Tail(uow.todo)
           d == Append(uow.done, t)
           v == [uow EXCEPT !.todo = r]
<1>0. mempool \in Mempools /\ uow # Nil /\ uow.stage = "applying" /\ uow.todo # <<>>
  BY DEF ApplyTx, IInv, TypeOK
<1>1. /\ Kept /\ UNCHANGED <<client, boot, crashes, trees>>
      /\ IndexTransaction(t, Len(uow.done) + 1)
      /\ mempool' = RemoveTx(mempool, t)
      /\ uow' = [v EXCEPT !.done = d]
  BY DEF ApplyTx, Kept
<1>2. t \in Txs /\ r \in Seq(Txs)
  <2>1. uow.todo \in Seq(Txs)
    BY <1>0, UowFacts
  <2> QED
    BY <1>0, <2>1, SMT
<1> HIDE DEF t, r
<1>3. mempool' \in Mempools
  BY <1>0, <1>1, <1>2, RemoveTxType
<1>4. d \in Seq(Txs) /\ Len(uow.done) + 1 \in Nat \ {0}
  BY <1>0, <1>2, UowFacts, NextPlace
<1> HIDE DEF d
<1>5. v \in UnitOfWork /\ v.stage = "applying"
  BY <1>0, <1>2, UowFacts, UowTodo
<1> HIDE DEF v
<1>6. uow' \in UnitOfWork /\ uow'.stage = "applying"
  BY <1>1, <1>4, <1>5, UowDone
<1>7. byHash' \in SUBSET Txs /\ slots' \in [Heights -> Seq(Txs)]
  BY <1>0, <1>1, <1>2, <1>4, UowFacts, IndexType DEF IInv
<1>8. TypeOK'
  BY <1>1, <1>3, <1>6, <1>7, UowStepType DEF IInv, TypeOK
<1> QED
  BY <1>0, <1>1, <1>6, <1>8, UowFacts, Keeps

LEMMA EndApplyStep ==
    ASSUME IInv, EndApply
    PROVE  IInv' /\ Served' = Served
<1> DEFINE h == TreesAfter(uow.done)
           v == [uow EXCEPT !.stage = "applied"]
<1>0. uow # Nil
  BY DEF EndApply
<1>1. \/ ProcessEnds
      \/ /\ trees' = h /\ uow' = [v EXCEPT !.hash = h]
         /\ UNCHANGED <<disk, mempool, client, boot, crashes>>
  BY DEF EndApply
<1>2. h \in Hashes
  BY <1>0, UowFacts, TreesAfterType DEF IInv
<1> HIDE DEF h
<1>3. v \in UnitOfWork /\ v.stage = "applied"
  BY <1>0, UowFacts, UowStage
<1> HIDE DEF v
<1>4. CASE /\ trees' = h /\ uow' = [v EXCEPT !.hash = h]
           /\ UNCHANGED <<disk, mempool, client, boot, crashes>>
  <2>1. uow' \in UnitOfWork /\ uow'.stage = "applied"
    BY <1>2, <1>3, <1>4, UowHash
  <2>2. Kept
    BY <1>4 DEF Kept, disk
  <2>3. TypeOK'
    BY <1>2, <1>4, <2>1, <2>2, UowStepType DEF IInv, TypeOK, disk
  <2> QED
    BY <1>0, <1>4, <2>1, <2>2, <2>3, UowFacts, Keeps
<1> QED
  BY <1>1, <1>4, ProcessEndsStep

LEMMA TimerStep ==
    ASSUME IInv, TimerReleasesUOW \/ Crash
    PROVE  IInv' /\ Served' = Served
<1>1. CASE uow' = Nil /\ UNCHANGED <<disk, trees, mempool, client, boot, crashes>>
  <2>1. TypeOK' /\ Kept
    BY <1>1 DEF IInv, TypeOK, Kept, disk
  <2> QED
    BY <1>1, <2>1, Keeps
<1> QED
  BY <1>1, ProcessEndsStep DEF TimerReleasesUOW, Crash

-----------------------------------------------------------------------------
(* The steps of Commit *)

LEMMA SqlFacts ==
    ASSUME TypeOK
    PROVE  /\ Len(sql) \in Nat /\ Len(sql) <= MaxHeight + 1
           /\ \A h \in 0 .. Len(sql) - 1 : h \in Heights /\ sql[h + 1] \in Block
           /\ \A h \in 1 .. Len(sql) - 1 : h \in 0 .. Len(sql) - 1
BY Numbers, SMT DEF TypeOK, Heights

LEMMA StoreBlockStep ==
    ASSUME IInv, StoreBlock
    PROVE  IInv' /\ Served' = Served
<1> DEFINE n == Len(sql)
           b == [txs |-> slots[n], hash |-> uow.hash]
<1>0. /\ uow # Nil /\ sql' = sql
      /\ blockStore' = [blockStore EXCEPT ![n] = b]
      /\ uow' = [uow EXCEPT !.stage = "stored"]
      /\ UNCHANGED <<slots, byHash, trees, mempool, client, boot, crashes>>
  BY DEF StoreBlock, Decided, height
<1>1. n \in Heights /\ n \in Nat /\ 1 <= n /\ n <= MaxHeight /\ boot = "up"
  BY <1>0, UowFacts, SqlFacts DEF IInv, height
<1>2. b \in Block /\ b.hash = uow.hash
  BY <1>0, <1>1, UowFacts DEF IInv, TypeOK, Block
<1>3. b # Nil
  BY <1>2, NilAssumption
<1>4. uow' \in UnitOfWork /\ uow'.stage = "stored" /\ uow'.hash = uow.hash
  BY <1>0, UowFacts, UowStage
<1>5. blockStore \in [Heights -> Block \cup {Nil}]
  BY DEF IInv, TypeOK
<1> HIDE DEF b
<1>6. /\ blockStore' \in [Heights -> Block \cup {Nil}]
      /\ blockStore'[n] = b
      /\ \A h \in Heights : h # n => blockStore'[h] = blockStore[h]
  BY <1>0, <1>1, <1>2, <1>5
<1>7. \A h \in 0 .. n - 1 : h \in Heights /\ h # n
  BY <1>1, Numbers, SMT DEF Heights
<1>8. TypeOK'
  BY <1>0, <1>4, <1>6 DEF IInv, TypeOK
<1>9. UowInv'
  BY <1>0, <1>1, <1>2, <1>3, <1>4, <1>6 DEF UowInv
<1>10. BootInv'
  BY <1>0, <1>1 DEF BootInv
<1>11. ServedMatchesSQL'
  BY <1>0, <1>6, <1>7 DEF IInv, ServedMatchesSQL
<1>12. \A h \in 1 .. n - 1 : blockStore'[h] = blockStore[h]
  BY <1>6, <1>7, SqlFacts DEF IInv
<1>13. Served' = Served
  <2>1. [h \in 1 .. n - 1 |-> blockStore'[h].hash] = [h \in 1 .. n - 1 |-> blockStore[h].hash]
    BY <1>12
  <2> QED
    BY <1>0, <2>1 DEF Served
<1> QED
  BY <1>8, <1>9, <1>10, <1>11, <1>13 DEF IInv

LEMMA FunSeq ==
    ASSUME NEW S, NEW n \in Nat, NEW f \in [1 .. n -> S]
    PROVE  f \in Seq(S) /\ Len(f) = n
<1>1. f \in Seq(S)
  BY SeqDef
<1>2. Len(f) \in Nat /\ DOMAIN f = 1 .. Len(f)
  BY <1>1, SMT
<1>3. DOMAIN f = 1 .. n
  OBVIOUS
<1> QED
  BY <1>1, <1>2, <1>3, SMT

CommitBlock == \E hash \in Hashes \cup {Nil} : Served' = Append(Served, hash)

LEMMA CommitSQLStep ==
    ASSUME IInv, CommitSQL
    PROVE  IInv' /\ CommitBlock
<1> DEFINE n == Len(sql)
           b == [txs |-> uow.done, hash |-> uow.hash]
           S == Hashes \cup {Nil}
<1>0. /\ uow # Nil /\ uow.stage = "stored"
      /\ sql' = Append(sql, b) /\ uow' = Nil
      /\ UNCHANGED <<blockStore, slots, byHash, trees, mempool, client, boot, crashes>>
  BY DEF CommitSQL
<1>1. /\ n \in Nat /\ 1 <= n /\ n <= MaxHeight /\ boot = "up"
      /\ blockStore[n] # Nil /\ blockStore[n].hash = uow.hash /\ uow.hash \in S
  BY <1>0, UowFacts, SqlFacts DEF IInv, UowInv
<1>2. b \in Block /\ b.hash = uow.hash
  BY <1>0, UowFacts DEF Block
<1> HIDE DEF b
<1>3. sql \in Seq(Block) /\ blockStore \in [Heights -> Block \cup {Nil}]
  BY DEF IInv, TypeOK
<1>4. /\ sql' \in Seq(Block) /\ Len(sql') = n + 1
      /\ sql'[n + 1] = b /\ \A i \in 1 .. n : sql'[i] = sql[i]
  BY <1>0, <1>2, <1>3, SMT
<1>5. Len(sql') <= MaxHeight + 1
  BY <1>1, <1>4, Numbers, SMT
<1>6. TypeOK'
  BY <1>0, <1>4, <1>5 DEF IInv, TypeOK
<1>7. UowInv' /\ BootInv'
  BY <1>0, <1>1 DEF UowInv, BootInv
<1>8. ServedMatchesSQL'
  <2> SUFFICES ASSUME NEW h \in 0 .. Len(sql') - 1
               PROVE  blockStore[h] # Nil /\ blockStore[h].hash = sql'[h + 1].hash
    BY <1>0 DEF ServedMatchesSQL
  <2>1. h = n \/ (h \in 0 .. n - 1 /\ h + 1 \in 1 .. n)
    BY <1>1, <1>4, SMT
  <2>2. CASE h = n
    BY <1>1, <1>2, <1>4, <2>2
  <2>3. CASE h \in 0 .. n - 1 /\ h + 1 \in 1 .. n
    BY <1>4, <2>3 DEF IInv, ServedMatchesSQL
  <2> QED
    BY <2>1, <2>2, <2>3
<1>9. CommitBlock
  <2>1. \A h \in 1 .. n : blockStore[h].hash \in S
    <3> TAKE h \in 1 .. n
    <3>1. h = n \/ h \in 0 .. n - 1
      BY <1>1, SMT
    <3>2. CASE h \in 0 .. n - 1
      <4>1. blockStore[h] \in Block
        BY <3>2, <1>3, SqlFacts DEF IInv, ServedMatchesSQL
      <4> QED
        BY <4>1 DEF Block
    <3> QED
      BY <1>1, <3>1, <3>2
  <2>2. n - 1 \in Nat /\ n - 1 + 1 = n /\ 1 .. n - 1 \subseteq 1 .. n
        /\ n + 1 - 1 = n
    BY <1>1, SMT
  <2>3. Served \in [1 .. n - 1 -> S]
    BY <2>1, <2>2 DEF Served
  <2>4. Served' = [h \in 1 .. n |-> blockStore[h].hash] /\ Served' \in [1 .. n -> S]
    <3>1. Len(sql') - 1 = n
      BY <1>1, <1>4, SMT
    <3>2. Served' = [h \in 1 .. n |-> blockStore[h].hash]
      BY <1>0, <3>1 DEF Served
    <3> HIDE DEF S
    <3> QED
      BY <2>1, <3>2
  <2>5. Served \in Seq(S) /\ Len(Served) = n - 1
    BY <2>2, <2>3, FunSeq
  <2>6. Served' \in Seq(S) /\ Len(Served') = n
    BY <1>1, <2>4, FunSeq, ZenonT(60)
  <2> DEFINE A == Append(Served, uow.hash)
  <2>7. /\ A \in Seq(S) /\ Len(A) = n /\ A[n] = uow.hash
        /\ \A i \in 1 .. n - 1 : A[i] = Served[i]
    <3>1. /\ A \in Seq(S) /\ Len(A) = Len(Served) + 1 /\ A[Len(Served) + 1] = uow.hash
          /\ \A i \in 1 .. Len(Served) : A[i] = Served[i]
      <4>1. A = Append(Served, uow.hash) /\ uow.hash \in S /\ Served \in Seq(S)
        BY <1>1, <2>5
      <4> HIDE DEF A, S
      <4> QED
        BY <4>1, SMT
    <3> QED
      BY <2>2, <2>5, <3>1
  <2> HIDE DEF A
  <2>8. ASSUME NEW i \in 1 .. n PROVE Served'[i] = A[i]
    <3>1. i = n \/ i \in 1 .. n - 1
      BY <1>1, SMT
    <3>2. CASE i \in 1 .. n - 1
      BY <2>4, <2>7, <3>2 DEF Served
    <3>3. CASE i = n
      BY <1>1, <2>4, <2>7, <3>3
    <3> QED
      BY <3>1, <3>2, <3>3
  <2>9. Served' = A
    BY <2>6, <2>7, <2>8, SeqEqual
  <2> QED
    BY <1>1, <2>9 DEF CommitBlock, A
<1> QED
  BY <1>6, <1>7, <1>8, <1>9 DEF IInv

-----------------------------------------------------------------------------
(* Starting the process *)

\* With genesis or less in SQL nothing is served above genesis.
LEMMA NothingServed ==
    /\ sql = <<>> \/ Len(sql) = 1 => Served = <<>>
    /\ (sql = <<>> \/ Len(sql) = 1 => Served = <<>>)'
<1>1. ASSUME NEW q, q = <<>> \/ Len(q) = 1
      PROVE  1 .. Len(q) - 1 = {}
  <2>1. q = <<>> => Len(q) = 0
    BY SMT
  <2>2. 1 .. 0 - 1 = {} /\ 1 .. 1 - 1 = {}
    BY SMT
  <2> QED
    BY <1>1, <2>1, <2>2
<1>2. <<>> = [i \in {} |-> i]
  BY SMT
<1>3. ASSUME NEW q, q = <<>> \/ Len(q) = 1, NEW bs
      PROVE  [h \in 1 .. Len(q) - 1 |-> bs[h].hash] = <<>>
  <2>1. [h \in {} |-> bs[h].hash] = [i \in {} |-> i]
    OBVIOUS
  <2> QED
    BY <1>1, <1>2, <1>3, <2>1
<1> QED
  BY <1>3 DEF Served

LEMMA GenesisBlockType == GenesisBlock \in Block
<1>1. <<>> \in Seq(Txs)
  BY SMT
<1>2. {Genesis} \in Hashes \cup {Nil}
  BY DEF Hashes
<1> QED
  BY <1>1, <1>2 DEF GenesisBlock, Block

LEMMA StartStep ==
    ASSUME IInv, Start
    PROVE  IInv' /\ Served' = Served
<1>0. /\ boot = "down" /\ uow = Nil
      /\ UNCHANGED <<blockStore, slots, byHash, trees, mempool, uow, client, crashes>>
  BY DEF Start, IInv, UowInv
<1>1. CASE Len(sql) > 1 /\ boot' = "up" /\ UNCHANGED sql
  <2>1. TypeOK'
    BY <1>0, <1>1 DEF IInv, TypeOK
  <2>2. UowInv' /\ BootInv' /\ ServedMatchesSQL' /\ Served' = Served
    BY <1>0, <1>1 DEF IInv, UowInv, BootInv, ServedMatchesSQL, Served
  <2> QED
    BY <2>1, <2>2 DEF IInv
<1>2. CASE (Len(sql) = 1 \/ sql = <<>>) /\ boot' \in {"cleared", "hydrating"} /\ sql' = <<>>
  <2>1. sql' \in Seq(Block) /\ Len(sql') <= MaxHeight + 1 /\ 0 .. Len(sql') - 1 = {}
    BY <1>2, Numbers, SMT
  <2>2. TypeOK'
    BY <1>0, <1>2, <2>1 DEF IInv, TypeOK
  <2>3. UowInv' /\ BootInv' /\ ServedMatchesSQL'
    BY <1>0, <1>2, <2>1 DEF UowInv, BootInv, ServedMatchesSQL
  <2>4. Served' = Served
    BY <1>2, NothingServed
  <2> QED
    BY <2>2, <2>3, <2>4 DEF IInv
<1>3. Len(sql) = 0 => sql = <<>>
  BY SMT DEF IInv, TypeOK
<1> QED
  BY <1>1, <1>2, <1>3 DEF Start, shouldHydrateGenesisDb

LEMMA GenesisSteps ==
    ASSUME IInv, ClearBlockStore \/ PopulateGenesis
    PROVE  IInv' /\ Served' = Served
<1>0. /\ sql = <<>> /\ sql' = sql /\ boot # "up" /\ uow = Nil
      /\ UNCHANGED <<slots, byHash, mempool, uow, client, crashes>>
  BY DEF ClearBlockStore, PopulateGenesis, IInv, BootInv, UowInv
<1>1. /\ blockStore' \in [Heights -> Block \cup {Nil}]
      /\ boot' \in {"hydrating", "genesis"}
      /\ boot' = "genesis" => blockStore'[0] = GenesisBlock
  <2>1. CASE ClearBlockStore
    BY <2>1 DEF ClearBlockStore
  <2>2. CASE PopulateGenesis
    BY <2>2, GenesisBlockType, Numbers DEF PopulateGenesis, IInv, TypeOK
  <2> QED
    BY <2>1, <2>2
<1>2. trees' \in Hashes
  <2>1. CASE ClearBlockStore
    BY <2>1 DEF ClearBlockStore, IInv, TypeOK
  <2>2. CASE PopulateGenesis
    BY <2>2 DEF PopulateGenesis, Hashes
  <2> QED
    BY <2>1, <2>2
<1>3. 0 .. Len(sql') - 1 = {}
  BY <1>0, SMT
<1>4. TypeOK'
  BY <1>0, <1>1, <1>2 DEF IInv, TypeOK
<1>5. UowInv' /\ BootInv' /\ ServedMatchesSQL'
  BY <1>0, <1>1, <1>3 DEF UowInv, BootInv, ServedMatchesSQL
<1>6. Served' = Served
  BY <1>0, NothingServed
<1> QED
  BY <1>4, <1>5, <1>6 DEF IInv

LEMMA CommitGenesisStep ==
    ASSUME IInv, CommitGenesis
    PROVE  IInv' /\ Served' = Served
<1>0. /\ sql = <<>> /\ sql' = <<GenesisBlock>> /\ boot' = "up" /\ uow = Nil
      /\ blockStore[0] = GenesisBlock
      /\ UNCHANGED <<blockStore, slots, byHash, trees, mempool, uow, client, crashes>>
  BY DEF CommitGenesis, IInv, BootInv, UowInv
<1>1. /\ sql' \in Seq(Block) /\ Len(sql') = 1 /\ sql'[1] = GenesisBlock
      /\ Len(sql') <= MaxHeight + 1
  <2> HIDE DEF GenesisBlock
  <2> QED
    BY <1>0, GenesisBlockType, Numbers, SMT
<1>2. TypeOK'
  BY <1>0, <1>1 DEF IInv, TypeOK
<1>3. ServedMatchesSQL'
  <2> SUFFICES ASSUME NEW h \in 0 .. Len(sql') - 1
               PROVE  blockStore[h] # Nil /\ blockStore[h].hash = sql'[h + 1].hash
    BY <1>0 DEF ServedMatchesSQL
  <2>1. h = 0 /\ h + 1 = 1
    BY <1>1, SMT
  <2>2. GenesisBlock # Nil
    BY GenesisBlockType, NilAssumption
  <2> QED
    BY <1>0, <1>1, <2>1, <2>2
<1>4. UowInv' /\ BootInv'
  BY <1>0 DEF UowInv, BootInv
<1>5. Served' = Served
  BY <1>0, <1>1, NothingServed
<1> QED
  BY <1>2, <1>3, <1>4, <1>5 DEF IInv

-----------------------------------------------------------------------------
(* The mempool: its counter is the length of its list, which has nothing    *)
(* twice.                                                                   *)

Distinct(q) == \A i, j \in 1 .. Len(q) : q[i] = q[j] => i = j

Counted(mp) ==
    /\ mp \in Mempools
    /\ mp.txCount = Len(mp.queue) /\ mp.txCount <= MaxTxs
    /\ Distinct(mp.queue)

\* A list without repetitions has as many transactions as places.
LEMMA DistinctCardinality ==
    ASSUME NEW q \in Seq(Txs), Distinct(q)
    PROVE  Cardinality(TxsIn(q)) = Len(q)
<1>1. Len(q) \in Nat /\ DOMAIN q = 1 .. Len(q) /\ q \in [1 .. Len(q) -> Txs]
  BY SMT
<1>2. q \in [1 .. Len(q) -> TxsIn(q)]
  BY <1>1 DEF TxsIn
<1>3. \A t \in TxsIn(q) : \E i \in 1 .. Len(q) : q[i] = t
  BY <1>1 DEF TxsIn
<1>4. q \in Bijection(1 .. Len(q), TxsIn(q))
  BY <1>2, <1>3, Fun_IsBij DEF Distinct
<1>5. ExistsBijection(1 .. Len(q), TxsIn(q))
  BY <1>4 DEF ExistsBijection
<1>6. IsFiniteSet(1 .. Len(q)) /\ Cardinality(1 .. Len(q)) = Len(q)
  <2>1. 1 \in Int /\ Len(q) \in Int
    BY <1>1, SMT
  <2>2. /\ IsFiniteSet(1 .. Len(q))
        /\ Cardinality(1 .. Len(q)) = IF 1 > Len(q) THEN 0 ELSE Len(q) - 1 + 1
    BY <2>1, FS_Interval
  <2> QED
    BY <1>1, <2>2, SMT
<1> QED
  BY <1>5, <1>6, FS_Bijection

LEMMA OnAddFields ==
    ASSUME NEW mp \in Mempools, NEW t \in Txs
    PROVE  /\ OnAdd(mp, t) \in Mempools /\ OnAdd(mp, t).queue = mp.queue
           /\ OnAdd(mp, t).txCount = mp.txCount + 1
<1> DEFINE x == (mp.txsBytesTotal + Size(t)) % Word
           c == mp.txCount + 1
<1>1. OnAdd(mp, t) = [[mp EXCEPT !.txCount = c] EXCEPT !.txsBytesTotal = x]
  BY DEF OnAdd
<1> HIDE DEF x, c
<1>2. OnAdd(mp, t).txCount = c
  BY <1>1 DEF Mempools
<1> QED
  BY <1>2, OnAddType DEF c

LEMMA OnRemoveFields ==
    ASSUME NEW mp \in Mempools, NEW t \in Txs
    PROVE  /\ OnRemove(mp, t) \in Mempools /\ OnRemove(mp, t).queue = mp.queue
           /\ OnRemove(mp, t).txCount = mp.txCount - 1
<1> DEFINE x == (mp.txsBytesTotal + Word - Size(t)) % Word
           c == mp.txCount - 1
<1>1. OnRemove(mp, t) = [[mp EXCEPT !.txCount = c] EXCEPT !.txsBytesTotal = x]
  BY DEF OnRemove
<1> HIDE DEF x, c
<1>2. OnRemove(mp, t).txCount = c /\ OnRemove(mp, t).queue = mp.queue
  BY <1>1 DEF Mempools
<1> QED
  BY <1>2, OnRemoveType DEF c

\* A list and the same list with another transaction behind it, and then
\* without its front.
LEMMA DistinctAppend ==
    ASSUME NEW q \in Seq(Txs), NEW t \in Txs, Distinct(q), t \notin TxsIn(q)
    PROVE  /\ Append(q, t) \in Seq(Txs) /\ Len(Append(q, t)) = Len(q) + 1
           /\ Append(q, t) # <<>> /\ Distinct(Append(q, t))
<1> DEFINE r == Append(q, t)
<1>1. /\ r \in Seq(Txs) /\ Len(r) = Len(q) + 1 /\ r # <<>> /\ Len(q) \in Nat
      /\ r[Len(q) + 1] = t /\ \A i \in 1 .. Len(q) : r[i] = q[i]
  BY SMT
<1>2. \A i \in 1 .. Len(q) : q[i] # t
  <2>1. DOMAIN q = 1 .. Len(q)
    BY SMT
  <2> QED
    BY <2>1 DEF TxsIn
<1> HIDE DEF r
<1>3. ASSUME NEW i \in 1 .. Len(r), NEW j \in 1 .. Len(r), r[i] = r[j]
      PROVE  i = j
  <2>1. /\ i = Len(q) + 1 \/ i \in 1 .. Len(q)
        /\ j = Len(q) + 1 \/ j \in 1 .. Len(q)
    BY <1>1, SMT
  <2> QED
    BY <1>1, <1>2, <1>3, <2>1 DEF Distinct
<1> QED
  BY <1>1, <1>3 DEF Distinct, r

LEMMA DistinctTail ==
    ASSUME NEW q \in Seq(Txs), q # <<>>, Distinct(q)
    PROVE  /\ Tail(q) \in Seq(Txs) /\ Len(Tail(q)) = Len(q) - 1
           /\ Head(q) \in Txs /\ Head(q) \notin TxsIn(Tail(q)) /\ Distinct(Tail(q))
<1> DEFINE r == Tail(q)
<1>1. /\ r \in Seq(Txs) /\ Len(r) = Len(q) - 1 /\ Len(q) \in Nat \ {0}
      /\ Head(q) = q[1] /\ q[1] \in Txs /\ DOMAIN r = 1 .. Len(r)
      /\ \A i \in 1 .. Len(r) : r[i] = q[i + 1]
  <2>1. Len(q) \in Nat \ {0} /\ Head(q) = q[1] /\ q[1] \in Txs
    BY SMT
  <2>2. /\ r \in Seq(Txs) /\ Len(r) = Len(q) - 1
        /\ \A i \in 1 .. Len(r) : r[i] = q[i + 1]
    BY HeadTailProperties
  <2>3. DOMAIN r = 1 .. Len(r)
    BY <2>2, SMT
  <2> QED
    BY <2>1, <2>2, <2>3
<1> HIDE DEF r
<1>2. ASSUME NEW i \in 1 .. Len(r)
      PROVE  i + 1 \in 1 .. Len(q) /\ 1 \in 1 .. Len(q) /\ i + 1 # 1
  BY <1>1, SMT
<1>3. Head(q) \notin TxsIn(r)
  <2>1. ASSUME NEW i \in 1 .. Len(r) PROVE r[i] # q[1]
    BY <1>1, <1>2 DEF Distinct
  <2> QED
    BY <1>1, <2>1 DEF TxsIn
<1>4. ASSUME NEW i \in 1 .. Len(r), NEW j \in 1 .. Len(r), r[i] = r[j]
      PROVE  i = j
  <2>1. i + 1 = j + 1
    BY <1>1, <1>2, <1>4 DEF Distinct
  <2> QED
    BY <2>1, SMT
<1> QED
  BY <1>1, <1>3, <1>4 DEF Distinct, r

LEMMA DistinctWithout ==
    ASSUME NEW q \in Seq(Txs), NEW t \in TxsIn(q), Distinct(q)
    PROVE  /\ Without(q, t) \in Seq(Txs) /\ Len(Without(q, t)) = Len(q) - 1
           /\ Distinct(Without(q, t))
<1> DEFINE r == Without(q, t)
<1>1. PICK k \in DOMAIN q :
        r = SubSeq(q, 1, k - 1) \o SubSeq(q, k + 1, Len(q))
  BY DEF TxsIn, Without
<1> HIDE DEF r
<1>2. k \in 1 .. Len(q) /\ Len(q) \in Nat
  BY SMT
<1> DEFINE a == SubSeq(q, 1, k - 1)
           b == SubSeq(q, k + 1, Len(q))
<1>3. /\ a \in Seq(Txs) /\ Len(a) = k - 1
      /\ \A i \in 1 .. k - 1 : a[i] = q[i]
  BY <1>2, SMT
<1>4. /\ b \in Seq(Txs) /\ Len(b) = Len(q) - k
      /\ \A i \in 1 .. Len(q) - k : b[i] = q[k + i]
  BY <1>2, SMT
<1>5. r = a \o b
  BY <1>1
<1> HIDE DEF a, b
<1>6. /\ r \in Seq(Txs) /\ Len(r) = Len(q) - 1
      /\ \A i \in 1 .. k - 1 : r[i] = q[i]
      /\ \A i \in k .. Len(q) - 1 : r[i] = q[i + 1]
  <2>1. /\ r \in Seq(Txs) /\ Len(r) = Len(a) + Len(b)
        /\ \A i \in 1 .. Len(a) + Len(b) :
             r[i] = IF i <= Len(a) THEN a[i] ELSE b[i - Len(a)]
    BY <1>3, <1>4, <1>5, ConcatProperties
  <2>2. Len(r) = Len(q) - 1 /\ Len(a) + Len(b) = Len(q) - 1
    BY <1>2, <1>3, <1>4, <2>1, SMT
  <2>3. ASSUME NEW i \in 1 .. k - 1 PROVE r[i] = q[i]
    <3>1. i \in 1 .. Len(a) + Len(b) /\ i <= Len(a)
      BY <1>2, <1>3, <2>2, SMT
    <3> QED
      BY <1>3, <2>1, <3>1
  <2>4. ASSUME NEW i \in k .. Len(q) - 1 PROVE r[i] = q[i + 1]
    <3>1. /\ i \in 1 .. Len(a) + Len(b) /\ ~ i <= Len(a)
          /\ i - Len(a) \in 1 .. Len(q) - k /\ k + (i - Len(a)) = i + 1
      BY <1>2, <1>3, <2>2, SMT
    <3> QED
      BY <1>4, <2>1, <3>1
  <2> QED
    BY <2>1, <2>2, <2>3, <2>4
<1> DEFINE p(i) == IF i <= k - 1 THEN i ELSE i + 1
<1>7. ASSUME NEW i \in 1 .. Len(r)
      PROVE  p(i) \in 1 .. Len(q) /\ r[i] = q[p(i)]
  BY <1>2, <1>6, SMT
<1>8. ASSUME NEW i \in 1 .. Len(r), NEW j \in 1 .. Len(r), p(i) = p(j)
      PROVE  i = j
  BY <1>2, <1>6, <1>8, SMT
<1> HIDE DEF p
<1>9. ASSUME NEW i \in 1 .. Len(r), NEW j \in 1 .. Len(r), r[i] = r[j]
      PROVE  i = j
  BY <1>7, <1>8, <1>9 DEF Distinct
<1> QED
  BY <1>6, <1>9 DEF Distinct, r

LEMMA AddTxCounted ==
    ASSUME NEW mp, NEW t \in Txs, Counted(mp)
    PROVE  Counted(AddTx(mp, t))
<1>1. CASE Contains(mp, t)
  BY <1>1 DEF AddTx
<1>2. CASE ~ Contains(mp, t)
  <2> DEFINE q == Append(mp.queue, t)
             m == [mp EXCEPT !.queue = q]
             a == OnAdd(m, t)
             r == Tail(q)
             e == [a EXCEPT !.queue = r]
             f == OnRemove(e, t)
  <2>0. /\ mp \in Mempools /\ mp.queue \in Seq(Txs) /\ Distinct(mp.queue)
        /\ mp.txCount = Len(mp.queue) /\ mp.txCount <= MaxTxs
        /\ t \notin TxsIn(mp.queue)
    BY <1>2 DEF Counted, Mempools, Contains
  <2>1. q \in Seq(Txs) /\ q # <<>> /\ Len(q) = Len(mp.queue) + 1 /\ Distinct(q)
    BY <2>0, DistinctAppend
  <2> HIDE DEF q
  <2>2. m \in Mempools /\ m.queue = q /\ m.txCount = mp.txCount
    BY <2>0, <2>1, QueueType DEF Mempools
  <2> HIDE DEF m
  <2>3. a \in Mempools /\ a.queue = q /\ a.txCount = mp.txCount + 1
    BY <2>2, OnAddFields
  <2> HIDE DEF a
  <2>4. r \in Seq(Txs) /\ Len(r) = Len(q) - 1 /\ Distinct(r)
    BY <2>1, DistinctTail
  <2> HIDE DEF r
  <2>5. e \in Mempools /\ e.queue = r /\ e.txCount = a.txCount
    BY <2>3, <2>4, QueueType DEF Mempools
  <2> HIDE DEF e
  <2>6. f \in Mempools /\ f.queue = r /\ f.txCount = e.txCount - 1
    BY <2>5, OnRemoveFields
  <2> HIDE DEF f
  <2>7. AddTx(mp, t) = IF IsOverflowing(a) THEN f ELSE a
    BY <1>2, <2>3 DEF AddTx, Push, a, m, q, r, e, f
  <2>8. Counted(f)
    <3>1. f.txCount = Len(r) /\ f.txCount <= MaxTxs
      BY <2>0, <2>1, <2>3, <2>4, <2>5, <2>6, LimitsAssumption, SMT DEF Mempools
    <3> QED
      BY <2>4, <2>6, <3>1 DEF Counted
  <2>9. ~ IsOverflowing(a) => Counted(a)
    <3>1. a.txCount = Len(q)
      BY <2>0, <2>1, <2>3, SMT
    <3>2. ~ IsOverflowing(a) => a.txCount <= MaxTxs
      BY <2>3, LimitsAssumption, SMT DEF IsOverflowing, Mempools
    <3> QED
      BY <2>1, <2>3, <3>1, <3>2 DEF Counted
  <2> QED
    BY <2>7, <2>8, <2>9
<1> QED
  BY <1>1, <1>2

LEMMA PopTxCounted ==
    ASSUME NEW mp, Counted(mp), mp.queue # <<>>
    PROVE  Counted(PopTx(mp)) /\ Head(mp.queue) \in Txs
<1> DEFINE r == Tail(mp.queue)
           t == Head(mp.queue)
           e == [mp EXCEPT !.queue = r]
           f == OnRemove(e, t)
<1>0. /\ mp \in Mempools /\ mp.queue \in Seq(Txs) /\ Distinct(mp.queue)
      /\ mp.txCount = Len(mp.queue) /\ mp.txCount <= MaxTxs
  BY DEF Counted, Mempools
<1>1. r \in Seq(Txs) /\ Len(r) = Len(mp.queue) - 1 /\ Distinct(r) /\ t \in Txs
  BY <1>0, DistinctTail
<1>2. f = PopTx(mp)
  BY DEF PopTx
<1> HIDE DEF r, t
<1>3. e \in Mempools /\ e.queue = r /\ e.txCount = mp.txCount
  BY <1>0, <1>1, QueueType DEF Mempools
<1> HIDE DEF e
<1>4. f \in Mempools /\ f.queue = r /\ f.txCount = mp.txCount - 1
  BY <1>1, <1>3, OnRemoveFields
<1> HIDE DEF f
<1>5. f.txCount = Len(r) /\ f.txCount <= MaxTxs
  BY <1>0, <1>1, <1>4, LimitsAssumption, SMT DEF Mempools
<1> QED
  BY <1>1, <1>2, <1>4, <1>5 DEF Counted, t

LEMMA RemoveTxCounted ==
    ASSUME NEW mp, NEW t \in Txs, Counted(mp)
    PROVE  Counted(RemoveTx(mp, t))
<1>1. CASE ~ Contains(mp, t)
  BY <1>1 DEF RemoveTx
<1>2. CASE Contains(mp, t)
  <2> DEFINE r == Without(mp.queue, t)
             e == [mp EXCEPT !.queue = r]
             f == OnRemove(e, t)
  <2>0. /\ mp \in Mempools /\ mp.queue \in Seq(Txs) /\ Distinct(mp.queue)
        /\ mp.txCount = Len(mp.queue) /\ mp.txCount <= MaxTxs
        /\ t \in TxsIn(mp.queue)
    BY <1>2 DEF Counted, Mempools, Contains
  <2>1. r \in Seq(Txs) /\ Len(r) = Len(mp.queue) - 1 /\ Distinct(r)
    BY <2>0, DistinctWithout
  <2>2. f = RemoveTx(mp, t)
    BY <1>2 DEF RemoveTx
  <2> HIDE DEF r
  <2>3. e \in Mempools /\ e.queue = r /\ e.txCount = mp.txCount
    BY <2>0, <2>1, QueueType DEF Mempools
  <2> HIDE DEF e
  <2>4. f \in Mempools /\ f.queue = r /\ f.txCount = mp.txCount - 1
    BY <2>1, <2>3, OnRemoveFields
  <2> HIDE DEF f
  <2>5. f.txCount = Len(r) /\ f.txCount <= MaxTxs
    BY <2>0, <2>1, <2>4, LimitsAssumption, SMT DEF Mempools
  <2> QED
    BY <2>1, <2>2, <2>4, <2>5 DEF Counted
<1> QED
  BY <1>1, <1>2

LEMMA EmptyMempoolCounted == Counted(EmptyMempool)
<1>1. EmptyMempool.queue = <<>> /\ EmptyMempool.txCount = 0
  BY DEF EmptyMempool
<1>2. Len(<<>>) = 0 /\ 0 <= MaxTxs /\ 1 .. 0 = {}
  BY LimitsAssumption, SMT
<1>3. Distinct(<<>>)
  BY <1>2 DEF Distinct
<1> QED
  BY <1>1, <1>2, <1>3, EmptyMempoolType DEF Counted

\* Every step of a client, of a unit of work or of the process leaves the
\* mempool counted.
LEMMA MempoolStep ==
    ASSUME IInv, Counted(mempool), [Next]_vars
    PROVE  Counted(mempool')
<1>1. CASE UNCHANGED mempool \/ mempool' = EmptyMempool
  BY <1>1, EmptyMempoolCounted
<1>2. ASSUME NEW c \in Clients, SubmitAdd(c)
      PROVE  Counted(mempool')
  <2>1. client[c] \in [pc : {"index", "add"}, tx : Txs]
    <3>1. Idle.pc = "idle" /\ client[c].pc # "idle"
      BY <1>2 DEF Idle, SubmitAdd
    <3> QED
      BY <3>1 DEF IInv, TypeOK
  <2>2. client[c].tx \in Txs
    BY <2>1
  <2> QED
    BY <1>2, <2>2, AddTxCounted DEF SubmitAdd
<1>3. ASSUME NEW ok \in BOOLEAN, ReapTx(ok)
      PROVE  Counted(mempool')
  BY <1>3, PopTxCounted DEF ReapTx
<1>4. CASE EndProposal
  BY <1>1, <1>4, PopTxCounted, AddTxCounted DEF EndProposal
<1>5. CASE ApplyTx
  <2>1. uow.todo \in Seq(Txs) /\ uow.todo # <<>>
    BY <1>5, UowFacts DEF ApplyTx
  <2>2. Head(uow.todo) \in Txs
    BY <2>1, SMT
  <2> QED
    BY <1>5, <2>2, RemoveTxCounted DEF ApplyTx
<1>6. CASE UNCHANGED vars
  BY <1>1, <1>6 DEF vars
<1>7. ASSUME NEW c \in Clients, NEW t \in Txs,
             SubmitCheckMempool(c, t) \/ SubmitCheckIndex(c)
      PROVE  UNCHANGED mempool
  BY <1>7 DEF SubmitCheckMempool, SubmitCheckIndex
<1>8. ASSUME NEW txs \in Proposals,
             \/ RefreshUOW \/ ReleaseUOW \/ BeginProposal \/ BeginApply(txs)
             \/ StoreBlock \/ CommitSQL
             \/ Start \/ ClearBlockStore \/ PopulateGenesis \/ CommitGenesis
      PROVE  UNCHANGED mempool
  BY <1>8 DEF RefreshUOW, ReleaseUOW, BeginProposal, BeginApply, StoreBlock,
     CommitSQL, Start, ClearBlockStore, PopulateGenesis, CommitGenesis
<1>9. CASE EndApply \/ TimerReleasesUOW \/ Crash
  BY <1>1, <1>9 DEF EndApply, TimerReleasesUOW, Crash, ProcessEnds
<1>10. ASSUME NEW c \in Clients, SubmitCheckIndex(c)
       PROVE  UNCHANGED mempool
  BY <1>10 DEF SubmitCheckIndex
<1>11. <<>> \in Proposals
  BY DEF Proposals
<1> QED
  BY <1>1, <1>2, <1>3, <1>4, <1>5, <1>6, <1>7, <1>8, <1>9, <1>10, <1>11 DEF Next

-----------------------------------------------------------------------------
(* What a block holds: the transactions that the unit of work has done so   *)
(* far stand at the front of the index of the height, hence of the block.   *)

BeginsWith(s, d) == Len(d) <= Len(s) /\ \A i \in 1 .. Len(d) : s[i] = d[i]

HoldsInv ==
    /\ \A h \in 0 .. Len(sql) - 1 : BeginsWith(blockStore[h].txs, sql[h + 1].txs)
    /\ uow # Nil =>
         /\ BeginsWith(slots[Len(sql)], uow.done)
         /\ uow.stage = "stored" => BeginsWith(blockStore[Len(sql)].txs, uow.done)

LEMMA EmptyFront ==
    ASSUME NEW s \in Seq(Txs)
    PROVE  BeginsWith(s, <<>>)
<1>1. Len(<<>>) = 0 /\ 0 <= Len(s) /\ 1 .. 0 = {}
  BY SMT
<1> QED
  BY <1>1 DEF BeginsWith

\* What begins with d has d as its first Len(d) elements.
LEMMA FrontIsSubSeq ==
    ASSUME NEW s \in Seq(Txs), NEW d \in Seq(Txs), BeginsWith(s, d)
    PROVE  d = SubSeq(s, 1, Len(d))
<1>1. /\ Len(d) \in Nat /\ Len(s) \in Nat /\ Len(d) <= Len(s)
      /\ \A i \in 1 .. Len(d) : s[i] = d[i]
  BY SMT DEF BeginsWith
<1> DEFINE q == SubSeq(s, 1, Len(d))
<1>2. /\ q \in Seq(Txs) /\ Len(q) = Len(d)
      /\ \A i \in 1 .. Len(d) : q[i] = s[i]
  BY <1>1, SMT
<1> HIDE DEF q
<1>3. q = d
  BY <1>1, <1>2, SeqEqual
<1> QED
  BY <1>3 DEF q

\* IndexTransaction at the place behind what is done keeps what is done at
\* the front, whatever an interrupted round has left behind it.
LEMMA IndexFront ==
    ASSUME TypeOK, Len(sql) \in Heights, NEW t \in Txs, NEW d \in Seq(Txs),
           BeginsWith(slots[Len(sql)], d), IndexTransaction(t, Len(d) + 1)
    PROVE  BeginsWith(slots'[Len(sql)], Append(d, t))
<1> DEFINE q == slots[Len(sql)]
           k == Len(d) + 1
           r == IF k <= Len(q) THEN [q EXCEPT ![k] = t] ELSE Append(q, t)
           e == Append(d, t)
<1>1. slots'[Len(sql)] = r
  BY DEF IndexTransaction, TypeOK, height
<1>2. q \in Seq(Txs) /\ Len(q) \in Nat /\ Len(d) \in Nat
  <2>1. q \in Seq(Txs)
    BY DEF TypeOK
  <2> HIDE DEF q
  <2> QED
    BY <2>1, SMT
<1>3. Len(d) <= Len(q) /\ \A i \in 1 .. Len(d) : q[i] = d[i]
  BY DEF BeginsWith
<1> HIDE DEF q
<1>4. /\ e \in Seq(Txs) /\ Len(e) = k /\ e[k] = t
      /\ \A i \in 1 .. Len(d) : e[i] = d[i]
  BY SMT
<1>5. /\ k <= Len(r) /\ r[k] = t
      /\ \A i \in 1 .. Len(d) : r[i] = q[i]
  <2>1. CASE k <= Len(q)
    <3> DEFINE x == [q EXCEPT ![k] = t]
    <3>1. x \in Seq(Txs) /\ Len(x) = Len(q) /\ r = x
      BY <1>2, <2>1, SMT
    <3>2. x[k] = t /\ \A i \in 1 .. Len(d) : x[i] = q[i]
      BY <1>2, <2>1, SMT
    <3> HIDE DEF x
    <3> QED
      BY <2>1, <3>1, <3>2
  <2>2. CASE ~ k <= Len(q)
    <3>1. Len(q) = Len(d) /\ r = Append(q, t)
      BY <1>2, <1>3, <2>2, SMT
    <3>2. /\ Len(Append(q, t)) = Len(q) + 1 /\ Append(q, t)[Len(q) + 1] = t
          /\ \A i \in 1 .. Len(q) : Append(q, t)[i] = q[i]
      BY <1>2, SMT
    <3>3. k <= Len(q) + 1 /\ k = Len(q) + 1
      BY <1>2, <3>1, SMT
    <3> HIDE DEF r
    <3> QED
      BY <3>1, <3>2, <3>3
  <2> QED
    BY <2>1, <2>2
<1> HIDE DEF r, e
<1>6. ASSUME NEW i \in 1 .. Len(e) PROVE r[i] = e[i]
  <2>1. i = k \/ i \in 1 .. Len(d)
    BY <1>2, <1>4, SMT
  <2> QED
    BY <1>3, <1>4, <1>5, <2>1
<1> QED
  BY <1>1, <1>4, <1>5, <1>6 DEF BeginsWith, e

\* Steps that leave SQL, the block store and the index alone.
LEMMA HoldsKept ==
    ASSUME HoldsInv, Kept, slots' = slots,
           \/ uow' = Nil
           \/ uow # Nil /\ uow'.done = uow.done /\ (uow'.stage = "stored" => uow.stage = "stored")
    PROVE  HoldsInv'
BY DEF HoldsInv, Kept

\* One turn of the loops of reapMempool and processProposalBlockTransactions.
LEMMA HoldsIndexed ==
    ASSUME IInv, HoldsInv, uow # Nil, Kept, NEW t \in Txs,
           IndexTransaction(t, Len(uow.done) + 1),
           uow'.done = Append(uow.done, t), uow'.stage # "stored"
    PROVE  HoldsInv'
<1>1. Len(sql) \in Heights /\ uow.done \in Seq(Txs)
  BY UowFacts DEF height
<1>2. BeginsWith(slots'[Len(sql)], Append(uow.done, t))
  BY <1>1, IndexFront DEF IInv, HoldsInv
<1> QED
  BY <1>2 DEF HoldsInv, Kept

LEMMA HoldsStep ==
    ASSUME IInv, HoldsInv, [Next]_vars
    PROVE  HoldsInv'
<1>1. CASE UNCHANGED vars
  BY <1>1 DEF vars, disk, HoldsInv
<1>2. ASSUME NEW c \in Clients, NEW t \in Txs,
             SubmitCheckMempool(c, t) \/ SubmitCheckIndex(c) \/ SubmitAdd(c)
      PROVE  HoldsInv'
  BY <1>2, HoldsKept DEF SubmitCheckMempool, SubmitCheckIndex, SubmitAdd, disk, HoldsInv
<1>2a. ASSUME NEW c \in Clients, SubmitCheckIndex(c) \/ SubmitAdd(c)
       PROVE  HoldsInv'
  BY <1>2a DEF SubmitCheckIndex, SubmitAdd, disk, HoldsInv
<1>3. CASE RefreshUOW
  <2>1. FreshUOW.done = <<>> /\ FreshUOW.stage = "fresh"
    BY DEF FreshUOW
  <2>2. slots[Len(sql)] \in Seq(Txs)
    <3>1. Len(sql) \in Heights
      <4>1. 1 <= Len(sql) /\ Len(sql) <= MaxHeight /\ Len(sql) \in Nat
        BY <1>3, SqlFacts DEF RefreshUOW, height, IInv
      <4> QED
        BY <4>1, Numbers, SMT DEF Heights
    <3> QED
      BY <3>1 DEF IInv, TypeOK
  <2> QED
    BY <1>3, <2>1, <2>2, EmptyFront DEF RefreshUOW, disk, HoldsInv
<1>4. CASE ReleaseUOW \/ TimerReleasesUOW \/ Crash
  BY <1>4, HoldsKept DEF ReleaseUOW, TimerReleasesUOW, Crash, ProcessEnds, disk, Kept
<1>5. CASE BeginProposal \/ EndProposal \/ EndApply
  <2>1. /\ Kept /\ slots' = slots /\ uow # Nil
        /\ uow' = Nil \/ (uow'.done = uow.done /\ uow'.stage # "stored")
    <3>1. uow # Nil
      BY <1>5 DEF BeginProposal, EndProposal, EndApply
    <3>2. ASSUME NEW x \in Hashes
          PROVE  LET u == [uow EXCEPT !.stage = "applied", !.hash = x]
                 IN  u.done = uow.done /\ u.stage # "stored"
      BY <3>1, UowFacts DEF UnitOfWork
    <3>3. LET u == [uow EXCEPT !.stage = "reaping"]
          IN  u.done = uow.done /\ u.stage # "stored"
      BY <3>1, UowFacts DEF UnitOfWork
    <3>4. TreesAfter(uow.done) \in Hashes
      BY <3>1, UowFacts, TreesAfterType DEF IInv
    <3> QED
      BY <1>5, <3>1, <3>2, <3>3, <3>4
         DEF BeginProposal, EndProposal, EndApply, ProcessEnds, Kept, disk
  <2> QED
    BY <2>1, HoldsKept
<1>6. ASSUME NEW txs \in Proposals, BeginApply(txs)
      PROVE  HoldsInv'
  <2>1. uow # Nil /\ uow.stage = "fresh" /\ Kept /\ slots' = slots
    BY <1>6 DEF BeginApply, Kept, disk
  <2>2. uow'.done = uow.done /\ uow'.stage = "applying"
    <3>1. uow \in UnitOfWork
      BY <2>1, UowFacts
    <3> QED
      BY <1>6, <3>1 DEF BeginApply, UnitOfWork
  <2> QED
    BY <2>1, <2>2, HoldsKept
<1>7. ASSUME NEW ok \in BOOLEAN, ReapTx(ok)
      PROVE  HoldsInv'
  <2>0. uow # Nil /\ uow.stage = "reaping" /\ Kept /\ mempool.queue # <<>>
    BY <1>7 DEF ReapTx, Kept
  <2>1. Head(mempool.queue) \in Txs
    BY <2>0, PopTxType DEF IInv, TypeOK
  <2> DEFINE t == Head(mempool.queue)
             b == uow.bytes + Size(t)
             d == Append(uow.done, t)
  <2>2. \/ /\ IndexTransaction(t, Len(uow.done) + 1)
           /\ uow' = [[uow EXCEPT !.done = d] EXCEPT !.bytes = b]
        \/ UNCHANGED <<slots, byHash, uow>>
    BY <1>7 DEF ReapTx
  <2> HIDE DEF t, b
  <2>3. CASE UNCHANGED <<slots, byHash, uow>>
    BY <2>0, <2>3, HoldsKept
  <2>4. CASE /\ IndexTransaction(t, Len(uow.done) + 1)
             /\ uow' = [[uow EXCEPT !.done = d] EXCEPT !.bytes = b]
    <3> HIDE DEF d
    <3>1. uow'.done = d /\ uow'.stage = "reaping"
      BY <2>0, <2>4, UowFacts DEF UnitOfWork
    <3> QED
      BY <2>0, <2>1, <2>4, <3>1, HoldsIndexed DEF t, d
  <2> QED
    BY <2>2, <2>3, <2>4
<1>8. CASE ApplyTx
  <2>0. uow # Nil /\ uow.stage = "applying" /\ Kept /\ uow.todo # <<>>
    BY <1>8 DEF ApplyTx, Kept
  <2>1. Head(uow.todo) \in Txs
    <3>1. uow.todo \in Seq(Txs)
      BY <2>0, UowFacts
    <3> QED
      BY <2>0, <3>1, SMT
  <2> DEFINE t == Head(uow.todo)
             r == Tail(uow.todo)
             d == Append(uow.done, t)
  <2>2. /\ IndexTransaction(t, Len(uow.done) + 1)
        /\ uow' = [[uow EXCEPT !.todo = r] EXCEPT !.done = d]
    BY <1>8 DEF ApplyTx
  <2> HIDE DEF t, r, d
  <2>3. uow'.done = d /\ uow'.stage = "applying"
    BY <2>0, <2>2, UowFacts DEF UnitOfWork
  <2> QED
    BY <2>0, <2>1, <2>2, <2>3, HoldsIndexed DEF t, d
<1>9. CASE StoreBlock
  <2> DEFINE n == Len(sql)
             b == [txs |-> slots[n], hash |-> uow.hash]
  <2>0. /\ uow # Nil /\ sql' = sql /\ slots' = slots
        /\ blockStore' = [blockStore EXCEPT ![n] = b]
        /\ uow' = [uow EXCEPT !.stage = "stored"]
    BY <1>9 DEF StoreBlock, Decided, height
  <2>1. n \in Heights /\ n \in Nat
    BY <2>0, UowFacts, SqlFacts DEF IInv, height
  <2>2. b.txs = slots[n]
    OBVIOUS
  <2> HIDE DEF b
  <2>3. /\ blockStore'[n].txs = slots[n]
        /\ \A h \in Heights : h # n => blockStore'[h] = blockStore[h]
    BY <2>0, <2>1, <2>2 DEF IInv, TypeOK
  <2>4. \A h \in 0 .. n - 1 : h \in Heights /\ h # n
    <3>1. n <= MaxHeight
      BY <2>0, UowFacts
    <3> QED
      BY <2>1, <3>1, Numbers, SMT DEF Heights
  <2>5. uow'.done = uow.done
    BY <2>0, UowFacts DEF UnitOfWork
  <2> HIDE DEF n
  <2>6. HoldsInv'
    BY <2>0, <2>3, <2>4, <2>5 DEF HoldsInv, n
  <2> QED
    BY <2>6
<1>10. CASE CommitSQL
  <2> DEFINE n == Len(sql)
             b == [txs |-> uow.done, hash |-> uow.hash]
  <2>0. /\ uow # Nil /\ uow.stage = "stored"
        /\ sql' = Append(sql, b) /\ uow' = Nil /\ blockStore' = blockStore
    BY <1>10 DEF CommitSQL
  <2>1. n \in Nat /\ b \in Block /\ b.txs = uow.done /\ sql \in Seq(Block)
    BY <2>0, UowFacts, SqlFacts DEF Block, IInv, TypeOK
  <2> HIDE DEF b
  <2>2. /\ Len(sql') = n + 1 /\ sql'[n + 1] = b
        /\ \A i \in 1 .. n : sql'[i] = sql[i]
    BY <2>0, <2>1, SMT
  <2> SUFFICES ASSUME NEW h \in 0 .. Len(sql') - 1
               PROVE  BeginsWith(blockStore[h].txs, sql'[h + 1].txs)
    BY <2>0 DEF HoldsInv
  <2>3. h = n \/ (h \in 0 .. n - 1 /\ h + 1 \in 1 .. n)
    BY <2>1, <2>2, SMT
  <2>4. CASE h = n
    BY <2>0, <2>1, <2>2, <2>4 DEF HoldsInv
  <2>5. CASE h \in 0 .. n - 1 /\ h + 1 \in 1 .. n
    BY <2>2, <2>5 DEF HoldsInv
  <2> QED
    BY <2>3, <2>4, <2>5
<1>11. CASE Start
  <2>1. uow' = Nil /\ (Kept \/ sql' = <<>>) /\ slots' = slots
    BY <1>11 DEF Start, shouldHydrateGenesisDb, IInv, UowInv, Kept
  <2>2. CASE sql' = <<>> /\ uow' = Nil
    <3>1. 0 .. Len(sql') - 1 = {}
      BY <2>2, SMT
    <3> QED
      BY <2>2, <3>1 DEF HoldsInv
  <2> QED
    BY <2>1, <2>2, HoldsKept
<1>12. CASE ClearBlockStore \/ PopulateGenesis
  <2>1. sql' = <<>> /\ uow' = Nil
    BY <1>12 DEF ClearBlockStore, PopulateGenesis, IInv, BootInv, UowInv
  <2>2. 0 .. Len(sql') - 1 = {}
    BY <2>1, SMT
  <2> QED
    BY <2>1, <2>2 DEF HoldsInv
<1>13. CASE CommitGenesis
  <2>0. /\ sql' = <<GenesisBlock>> /\ uow' = Nil
        /\ blockStore'[0] = GenesisBlock /\ GenesisBlock.txs = <<>>
    BY <1>13 DEF CommitGenesis, IInv, BootInv, UowInv, GenesisBlock
  <2>1. Len(sql') = 1 /\ sql'[1] = GenesisBlock
    <3> HIDE DEF GenesisBlock
    <3> QED
      BY <2>0, SMT
  <2>2. \A h \in 0 .. Len(sql') - 1 : h = 0 /\ h + 1 = 1
    BY <2>1, SMT
  <2>3. BeginsWith(<<>>, <<>>)
    <3>1. <<>> \in Seq(Txs)
      BY SMT
    <3> QED
      BY <3>1, EmptyFront
  <2> QED
    BY <2>0, <2>1, <2>2, <2>3 DEF HoldsInv
<1> QED
  BY <1>1, <1>2, <1>2a, <1>3, <1>4, <1>5, <1>6, <1>7, <1>8, <1>9, <1>10, <1>11,
     <1>12, <1>13 DEF Next

-----------------------------------------------------------------------------
(* The theorems *)

LEMMA InitIInv == Init => IInv /\ Served = <<>>
<1> SUFFICES ASSUME Init PROVE IInv /\ Served = <<>>
  OBVIOUS
<1>1. /\ sql \in Seq(Block) /\ Len(sql) <= MaxHeight + 1 /\ 0 .. Len(sql) - 1 = {}
      /\ <<>> \in Seq(Txs) /\ crashes \in 0 .. MaxCrashes
  BY Numbers, SMT DEF Init
<1>2. TypeOK
  BY <1>1, EmptyMempoolType DEF Init, EmptyTrees, TypeOK, Hashes
<1>3. UowInv /\ BootInv /\ ServedMatchesSQL
  BY <1>1 DEF Init, UowInv, BootInv, ServedMatchesSQL
<1>4. Served = <<>>
  BY NothingServed DEF Init
<1> QED
  BY <1>2, <1>3, <1>4 DEF IInv

LEMMA NextIInv == IInv /\ [Next]_vars => IInv' /\ (CommitBlock \/ Served' = Served)
<1> SUFFICES ASSUME IInv, [Next]_vars PROVE IInv' /\ (CommitBlock \/ Served' = Served)
  OBVIOUS
<1>1. CASE UNCHANGED vars
  BY <1>1 DEF vars, disk, IInv, TypeOK, UowInv, BootInv, ServedMatchesSQL, Served
<1>2. ASSUME NEW c \in Clients, SubmitCheckIndex(c) \/ SubmitAdd(c)
      PROVE  IInv' /\ Served' = Served
  <2>1. client[c] \in [pc : {"index", "add"}, tx : Txs]
    <3>1. Idle.pc = "idle" /\ client[c].pc # "idle"
      BY <1>2 DEF Idle, SubmitCheckIndex, SubmitAdd
    <3> QED
      BY <3>1 DEF IInv, TypeOK
  <2>2. client[c].tx \in Txs
    BY <2>1
  <2> QED
    BY <1>2, <2>2, ClientSteps
<1>3. CASE Next
  BY <1>2, <1>3, ClientSteps, RefreshStep, ReapTxStep, EndProposalStep,
     BeginApplyStep, ApplyTxStep, EndApplyStep, StoreBlockStep, CommitSQLStep,
     TimerStep, StartStep, GenesisSteps, CommitGenesisStep DEF Next
<1> QED
  BY <1>1, <1>3

\* Every state of the stores is of its type, wherever the process ends
\* (all operations of the persistence module and of the unit of work).
THEOREM TypeCorrect == Spec => []TypeOK
<1>1. IInv => TypeOK
  BY DEF IInv
<1> QED
  BY <1>1, InitIInv, NextIInv, PTL DEF Spec

\* Wherever the process ends between StoreBlock and the commit of the SQL
\* transaction in PostgresContext.Commit, the block store has, at every height
\* that SQL has, the block with the hash that SQL has.
THEOREM BlockStoreMatchesSQL == Spec => []ServedMatchesSQL
<1>1. IInv => ServedMatchesSQL
  BY DEF IInv
<1> QED
  BY <1>1, InitIInv, NextIInv, PTL DEF Spec

\* The block store, the SQL database, the index and the trees, written one
\* after the other by PostgresContext.Commit, implement one chain that only
\* grows.
THEOREM StoresImplementChain == Spec => AtomicStore
<1>1. Init => Chain!Init
  BY InitIInv DEF Chain!Init
<1>2. IInv /\ [Next]_vars => [Chain!CommitBlock]_Served
  BY NextIInv DEF Chain!CommitBlock, CommitBlock
<1> QED
  BY <1>1, <1>2, InitIInv, NextIInv, PTL DEF Spec, AtomicStore, Chain!Spec

\* The transactions of a stored block are read from the index of its height,
\* into which interrupted rounds have written too (prepareBlock).  Every block
\* that SQL has begins with the transactions that were applied, in order.
THEOREM BlocksHoldApplied == Spec => []BlockHoldsApplied
<1>1. Init => HoldsInv
  <2> SUFFICES ASSUME Init PROVE HoldsInv
    OBVIOUS
  <2>1. 0 .. Len(sql) - 1 = {} /\ uow = Nil
    BY SMT DEF Init
  <2> QED
    BY <2>1 DEF HoldsInv
<1>2. IInv /\ HoldsInv /\ [Next]_vars => HoldsInv'
  BY HoldsStep
<1>3. IInv /\ HoldsInv => BlockHoldsApplied
  <2> SUFFICES ASSUME IInv, HoldsInv, NEW h \in 0 .. Len(sql) - 1
               PROVE  /\ Len(sql[h + 1].txs) <= Len(blockStore[h].txs)
                      /\ sql[h + 1].txs = SubSeq(blockStore[h].txs, 1, Len(sql[h + 1].txs))
    BY DEF BlockHoldsApplied
  <2>1. BeginsWith(blockStore[h].txs, sql[h + 1].txs)
    BY DEF HoldsInv
  <2>2. sql[h + 1] \in Block /\ blockStore[h] \in Block
    BY SqlFacts DEF IInv, TypeOK, ServedMatchesSQL
  <2>3. sql[h + 1].txs \in Seq(Txs) /\ blockStore[h].txs \in Seq(Txs)
    BY <2>2 DEF Block
  <2> QED
    BY <2>1, <2>3, FrontIsSubSeq DEF BeginsWith
<1> QED
  BY <1>1, <1>2, <1>3, InitIInv, NextIInv, PTL DEF Spec

\* Whatever mixture of pushes, evictions, pops, returns and removals clients
\* and units of work make of it, the mempool has nothing twice, counts what it
\* has, and has at most MaxTxs transactions (txFIFOMempool).
THEOREM MempoolStaysCounted == Spec => []MempoolCounted
<1>1. Init => Counted(mempool)
  BY EmptyMempoolCounted DEF Init
<1>2. IInv /\ Counted(mempool) /\ [Next]_vars => Counted(mempool)'
  BY MempoolStep
<1>3. Counted(mempool) => MempoolCounted
  <2> SUFFICES ASSUME Counted(mempool) PROVE MempoolCounted
    OBVIOUS
  <2>1. mempool.queue \in Seq(Txs) /\ Distinct(mempool.queue)
    BY DEF Counted, Mempools
  <2> QED
    BY <2>1, DistinctCardinality DEF Counted, MempoolCounted
<1> QED
  BY <1>1, <1>2, <1>3, InitIInv, NextIInv, PTL DEF Spec
=============================================================================
