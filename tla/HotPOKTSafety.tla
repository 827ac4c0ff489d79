--------------------------- MODULE HotPOKTSafety ----------------------------
(***************************************************************************)
(* The inductive invariant of HotPOKT and what follows from it: votes and  *)
(* certificates are unique, and what a validator stores is backed by a     *)
(* quorum of Commit votes.                                                 *)
(***************************************************************************)
EXTENDS HotPOKTVotes, FiniteSetTheorems

USE Zenon

-----------------------------------------------------------------------------
(* Certificates and stored blocks are backed by votes *)

LEMMA VotersGrow ==
    ASSUME msgs \subseteq msgs', NEW h, NEW r, NEW s, NEW b
    PROVE  /\ VotersFor(h, r, s, b) \subseteq VotersFor(h, r, s, b)'
           /\ CommitVoters(h, r, b) \subseteq CommitVoters(h, r, b)'
BY DEF VotersFor, CommitVoters, IsVote

LEMMA NewQCBacked ==
    ASSUME TypeOK, PoolSent, NEW n \in Node, NEW m \in msgs
    PROVE  NewQC(n, m).signers
             \subseteq VotersFor(m.height, m.round, m.step, block[n])
<1>1. \A v \in Votes(n, m) :
        /\ v \in msgs /\ IsVote(v) /\ v.step = m.step
        /\ v.height = m.height /\ v.round = m.round /\ v.src \in Node
  <2>1. m.step \in Steps
    BY MessageFields DEF TypeOK
  <2>2. \A v \in Pooled(n, m) : v \in msgs /\ v.step = m.step
    BY <2>1 DEF PoolSent, Pooled
  <2> QED
    BY <2>2, MessageFields DEF Votes, IsVote, TypeOK
<1>2. NewQC(n, m).signers
        = {v.src : v \in {w \in Votes(n, m) : w.block = block[n]}}
  BY DEF NewQC
<1> QED
  BY <1>1, <1>2 DEF VotersFor

LEMMA CertsStep ==
    ASSUME TypeOK, PoolSent, ProposalsJustified, QCsBacked,
           msgs \subseteq msgs', NEW n \in Node, NEW m \in msgs,
           CertStep({NewQC(n, m)}) \/ CertStep({})
    PROVE  QCsBacked' /\ ProposalsJustified'
<1>1. ASSUME NEW c \in Certificates'
      PROVE  c \in Certificates \/ c = NewQC(n, m)
  <2>1. \A p \in msgs' : p.qc \in Certificates \cup {Nil, NewQC(n, m)}
    BY HeldAreCertificates DEF CertStep
  <2>2. \A k \in Node :
          /\ prepareQC'[k] \in Certificates \cup {Nil, NewQC(n, m)}
          /\ lockedQC'[k] \in Certificates \cup {Nil, NewQC(n, m)}
    BY DEF CertStep
  <2>3. c # Nil
    BY DEF Certificates
  <2>4. \/ \E p \in msgs' : c = p.qc
        \/ \E k \in Node : c = prepareQC'[k] \/ c = lockedQC'[k]
    BY DEF Certificates
  <2> QED
    BY <2>1, <2>2, <2>3, <2>4
<1>2. ASSUME NEW c \in Certificates'
      PROVE  c.signers \subseteq VotersFor(c.height, c.round, c.step, c.block)
  BY SMT, <1>1, NewQCBacked, NewQCPlace DEF QCsBacked
<1>3. QCsBacked'
  <2> SUFFICES ASSUME NEW c \in Certificates'
               PROVE  c.signers \subseteq
                        VotersFor(c.height, c.round, c.step, c.block)'
    BY DEF QCsBacked
  <2> QED
    BY <1>2, VotersGrow
<1>4. ProposalsJustified'
  <2> SUFFICES ASSUME NEW p \in msgs', ~ IsVote(p),
                      p.step \in {PreCommit, Commit, Decide}
               PROVE  /\ p.qc # Nil
                      /\ p.qc.height = p.height /\ p.qc.round = p.round
                      /\ p.qc.step = p.step - 1
                      /\ p.qc.block = p.block
    BY DEF ProposalsJustified, IsVote
  <2> QED
    BY DEF ProposalsJustified, CertStep
<1> QED
  BY <1>3, <1>4

LEMMA NodeFinite == IsFiniteSet(Node) /\ Cardinality(Node) = N
BY SMT, FS_Interval, NAssumption DEF Node

LEMMA ThresholdGrows ==
    ASSUME NEW S, NEW T, S \subseteq T, T \subseteq Node,
           ThresholdMet(Cardinality(S))
    PROVE  ThresholdMet(Cardinality(T))
<1>1. IsFiniteSet(T)
  BY NodeFinite, FS_Subset
<1>2. /\ Cardinality(S) <= Cardinality(T)
      /\ Cardinality(S) \in Nat /\ Cardinality(T) \in Nat
  BY <1>1, FS_Subset, FS_CardinalityType
<1> QED
  BY SMT, <1>2, NAssumption DEF ThresholdMet

\* Two sets of more than two thirds of the validators have one in common.
LEMMA QuorumsIntersect ==
    ASSUME NEW S \in SUBSET Node, NEW T \in SUBSET Node,
           ThresholdMet(Cardinality(S)), ThresholdMet(Cardinality(T))
    PROVE  \E n \in Node : n \in S /\ n \in T
<1>1. Cardinality(S) \in Nat /\ Cardinality(T) \in Nat
  BY NodeFinite, FS_Subset, FS_CardinalityType
<1>2. Cardinality(S) + Cardinality(T) > Cardinality(Node)
  BY SMT, <1>1, NodeFinite, NAssumption DEF ThresholdMet
<1> QED
  BY <1>2, NodeFinite, FS_MajoritiesIntersect

\* The leader counts messages; its Commit votes are of different validators
\* and for the state hash of its block.
LEMMA LeaderCommitVoters ==
    ASSUME TypeOK, VoteOnce, NEW n \in Node, LocalInv(n), NEW m \in msgs,
           HasQuorum(n, m, Commit), block[n] # Nil
    PROVE  ThresholdMet(Cardinality(
             CommitVoters(m.height, m.round, block[n].stateHash)))
<1> DEFINE V == Votes(n, m)
           S == CommitVoters(m.height, m.round, block[n].stateHash)
           f == [v \in V |-> v.src]
<1>1. /\ m.round \in Nat /\ m.step = Commit /\ round[n] \in Nat
      /\ m.round >= round[n] /\ IsValidMessageBlock(n, m)
      /\ ThresholdMet(Cardinality(V))
  <2>1. m.round > round[n] \/ m.round = round[n]
    BY DEF HasQuorum, AsLeader, ShouldHandle
  <2>2. m.round \in Nat /\ round[n] \in Nat
    BY MessageFields DEF TypeOK
  <2> QED
    BY SMT, <2>1, <2>2 DEF HasQuorum, AsLeader
<1>2. ASSUME NEW v \in V
      PROVE  /\ v \in msgs /\ IsVote(v) /\ v.step = Commit
             /\ v.height = m.height /\ v.round = m.round /\ v.src \in Node
             /\ v.block.stateHash = block[n].stateHash
  <2>1. v \in Pooled(n, m) /\ IsVote(v) /\ v.height = m.height
        /\ v.round = m.round
    BY DEF Votes, IsVote
  <2>2. CASE v = m
    BY SMT, <1>1, <2>1, <2>2, MessageFields
    DEF IsValidMessageBlock, Commit, NewRound, TypeOK
  <2>3. CASE v \in pool[n][Commit]
    <3>1. v \in msgs /\ v.step = Commit /\ v.round <= round[n]
          /\ (v.round = round[n] => v.block.stateHash = block[n].stateHash)
      BY <2>3, StepConstants DEF LocalInv
    <3>2. v.round = round[n]
      BY SMT, <1>1, <2>1, <3>1
    <3>3. v.src \in Node
      BY <3>1, MessageFields DEF TypeOK
    <3> QED
      BY <2>1, <3>1, <3>2, <3>3
  <2> QED
    BY <1>1, <2>1, <2>2, <2>3 DEF Pooled
<1>3. f \in [V -> S]
  BY <1>2 DEF CommitVoters
<1>4. ASSUME NEW v \in V, NEW w \in V, f[v] = f[w]
      PROVE  v = w
  BY <1>2, <1>4 DEF VoteOnce
<1>5. S \subseteq Node /\ IsFiniteSet(S)
  <2>1. S \subseteq Node
    BY DEF CommitVoters
  <2> QED
    BY <2>1, NodeFinite, FS_Subset
<1> HIDE DEF V, S, f
<1>6. f \in Injection(V, S)
  BY <1>3, <1>4 DEF Injection, IsInjective
<1>7. IsFiniteSet(V) /\ Cardinality(V) <= Cardinality(S)
  BY <1>5, <1>6, FS_Injection
<1>8. Cardinality(V) \in Nat /\ Cardinality(S) \in Nat
  BY <1>5, <1>7, FS_CardinalityType
<1>9. ThresholdMet(Cardinality(S))
  BY SMT, <1>1, <1>7, <1>8, NAssumption DEF ThresholdMet
<1> QED
  BY <1>9 DEF S

LEMMA ReplicaDecideVoters ==
    ASSUME TypeOK, VotesAreCast, ProposalsJustified, QCsBacked,
           NEW n \in Node, NEW m \in msgs, AsReplica(n, m, Decide),
           ValidQC(m.qc), block[n] # Nil
    PROVE  ThresholdMet(Cardinality(
             CommitVoters(m.height, m.qc.round, block[n].stateHash)))
<1>1. m.step = Decide /\ IsValidMessageBlock(n, m)
  BY DEF AsReplica
<1>2. /\ m.qc.height = m.height /\ m.qc.step = Commit
      /\ m.qc.block = m.block /\ m.qc \in Certificates
  BY SMT, <1>1, ProposalQC DEF Decide, Commit
<1>3. m.block.stateHash = block[n].stateHash
  BY SMT, <1>1 DEF IsValidMessageBlock, Decide, NewRound
<1>4. m.qc.signers \subseteq VotersFor(m.height, m.qc.round, Commit, m.block)
  BY <1>2 DEF QCsBacked
<1>5. VotersFor(m.height, m.qc.round, Commit, m.block)
        \subseteq CommitVoters(m.height, m.qc.round, block[n].stateHash)
  BY <1>3 DEF VotersFor, CommitVoters
<1>6. CommitVoters(m.height, m.qc.round, block[n].stateHash) \subseteq Node
  BY DEF CommitVoters
<1> QED
  BY <1>4, <1>5, <1>6, ThresholdGrows DEF ValidQC

\* What a step stores is certified; everything stored before stays so.
LEMMA CommitsStep ==
    ASSUME TypeOK, msgs \subseteq msgs', CommitCertified, NEW n \in Node,
           NEW r, NEW sent, LocalInv(n), Others(n),
           \/ committed'[n] = committed[n]
           \/ /\ CommitAndNewHeight(n, r, sent)
              /\ block[n] # Nil /\ uow[n] # Nil
              /\ ThresholdMet(Cardinality(
                   CommitVoters(height[n], r, block[n].stateHash)))
    PROVE  CommitCertified'
<1> SUFFICES ASSUME NEW k \in Node, NEW c \in committed'[k], c.stateHash # Nil
             PROVE  ThresholdMet(Cardinality(
                      CommitVoters(c.height, c.round, c.stateHash)'))
  BY DEF CommitCertified
<1>1. ThresholdMet(Cardinality(CommitVoters(c.height, c.round, c.stateHash)))
  <2>1. CASE c \in committed[k]
    BY <2>1 DEF CommitCertified
  <2>2. CASE c \notin committed[k]
    <3>1. k = n /\ CommitAndNewHeight(n, r, sent)
      BY <2>2 DEF Others
    <3> DEFINE new == [height |-> height[n], round |-> r,
                       stateHash |-> uow[n].stateHash,
                       leaves |-> uow[n].leaves, proposer |-> uow[n].proposer]
    <3>a. committed'[n] = committed[n] \cup {new}
      BY <3>1 DEF CommitAndNewHeight, CommitBlock, TypeOK
    <3>2. c = new
      BY <2>2, <3>1, <3>a
    <3>3. c.height = height[n] /\ c.round = r
          /\ c.stateHash = uow[n].stateHash
      BY <3>2
    <3>4. committed'[n] # committed[n]
      BY <2>2, <3>1
    <3>5. block[n].stateHash = c.stateHash
      BY <3>3, <3>4 DEF LocalInv
    <3> QED
      BY <3>3, <3>4, <3>5
  <2> QED
    BY <2>1, <2>2
<1>2. CommitVoters(c.height, c.round, c.stateHash)
        \subseteq CommitVoters(c.height, c.round, c.stateHash)'
  BY VotersGrow
<1>3. CommitVoters(c.height, c.round, c.stateHash)' \subseteq Node
  BY DEF CommitVoters
<1> QED
  BY <1>1, <1>2, <1>3, ThresholdGrows

LEMMA HandleCommits ==
    ASSUME IInv, NEW n \in Node, LocalInv(n), NEW m \in msgs,
           HandleMessage(n, m), msgs \subseteq msgs', Others(n)
    PROVE  CommitCertified'
<1>1. TypeOK /\ CommitCertified /\ VoteOnce
      /\ VotesAreCast /\ ProposalsJustified /\ QCsBacked
  BY DEF IInv
<1>2. CASE committed'[n] = committed[n]
  BY <1>1, <1>2, CommitsStep
<1>3. CASE LeaderCommit(n, m) /\ committed'[n] # committed[n]
  <2> DEFINE decide == {Propose(n, m.height, m.round, Decide, block[n],
                                NewQC(n, m))}
  <2>1. /\ HasQuorum(n, m, Commit) /\ block[n] # Nil /\ uow[n] # Nil
        /\ CommitAndNewHeight(n, m.round, decide)
    BY <1>3 DEF LeaderCommit, InterruptRound
  <2>2. m.height = height[n]
    BY <2>1 DEF HasQuorum, AsLeader, ShouldHandle
  <2>3. ThresholdMet(Cardinality(
          CommitVoters(height[n], m.round, block[n].stateHash)))
    BY <1>1, <2>1, <2>2, LeaderCommitVoters
  <2> HIDE DEF decide
  <2> QED
    BY <1>1, <2>1, <2>3, CommitsStep
<1>4. CASE ReplicaDecide(n, m) /\ committed'[n] # committed[n]
  <2>1. /\ AsReplica(n, m, Decide) /\ ValidQC(m.qc)
        /\ block[n] # Nil /\ uow[n] # Nil
        /\ CommitAndNewHeight(n, m.qc.round, {})
    BY <1>4 DEF ReplicaDecide, ReplicaInterrupts, InterruptRound, Exit, store
  <2>2. m.height = height[n]
    BY <2>1 DEF AsReplica, ShouldHandle
  <2>3. ThresholdMet(Cardinality(
          CommitVoters(height[n], m.qc.round, block[n].stateHash)))
    BY <1>1, <2>1, <2>2, ReplicaDecideVoters
  <2> QED
    BY <1>1, <2>1, <2>3, CommitsStep
<1>5. (~ LeaderCommit(n, m) /\ ~ ReplicaDecide(n, m)) => UNCHANGED committed
  <2>1. (LeaderCollect(n, m) \/ LeaderNoQC(n, m) \/ AnteHandleFails(n, m)
          \/ ReplicaNewRound(n, m)) => UNCHANGED committed
    BY DEF LeaderCollect, LeaderNoQC, AnteHandleFails, ReplicaNewRound, store
  <2>2. LeaderNewRound(n, m) => UNCHANGED committed
    BY DEF LeaderNewRound, ApplyBlock, Exit, store
  <2>3. (LeaderPrepare(n, m) \/ LeaderPreCommit(n, m)) => UNCHANGED committed
    BY DEF LeaderPrepare, LeaderPreCommit, ProposeStep, InterruptRound
  <2>4. ReplicaPrepare(n, m) => UNCHANGED committed
    BY DEF ReplicaPrepare, ReplicaInterrupts, InterruptRound, ApplyBlock, Exit,
           store
  <2>5. (ReplicaPreCommit(n, m) \/ ReplicaCommit(n, m)) => UNCHANGED committed
    BY DEF ReplicaPreCommit, ReplicaCommit, ReplicaVotes, ReplicaInterrupts,
           InterruptRound, store
  <2> QED
    BY <2>1, <2>2, <2>3, <2>4, <2>5 DEF HandleMessage
<1> QED
  BY <1>2, <1>3, <1>4, <1>5

-----------------------------------------------------------------------------
(* The inductive invariant *)

LEMMA HandleInv ==
    ASSUME IInv, TypeOK', NEW n \in Node, NEW m \in msgs, HandleMessage(n, m)
    PROVE  IInv'
<1>1. /\ TypeOK /\ VotesAreCast /\ VoteOnce /\ ProposalsJustified
      /\ QCsBacked /\ PoolSent /\ PoolMatchesBlock /\ UOWMatchesBlock
      /\ QCsInPlace /\ CommitCertified
  BY DEF IInv
<1>2. \A k \in Node : LocalInv(k)
  BY <1>1, LocalInvParts
<1>3. Forward(n)
  BY <1>1, LeaderForward, ReplicaForward DEF HandleMessage
<1>4. msgs \subseteq msgs'
  BY <1>3 DEF Forward
<1>5. Others(n)
  BY <1>1, LeaderOthers, ReplicaOthers DEF HandleMessage
<1>6. LocalInv(n)'
  BY <1>1, <1>2, <1>4, LeaderLocal, ReplicaLocal DEF HandleMessage
<1>7. \A k \in Node : LocalInv(k)'
  BY <1>2, <1>4, <1>5, <1>6, OthersKeepInv
<1>8. CertStep({NewQC(n, m)}) \/ CertStep({})
  BY <1>1, LeaderCerts, ReplicaCerts DEF HandleMessage
<1>9. QCsBacked' /\ ProposalsJustified'
  BY <1>1, <1>4, <1>8, CertsStep
<1>10. CommitCertified'
  BY <1>2, <1>4, <1>5, HandleCommits
<1>11. VotesAreCast' /\ VoteOnce'
  BY <1>1, <1>3, VotesStep
<1>12. PoolSent' /\ PoolMatchesBlock' /\ UOWMatchesBlock' /\ QCsInPlace'
  BY <1>7, LocalInvPartsPrime
<1> QED
  BY <1>9, <1>10, <1>11, <1>12 DEF IInv

LEMMA TimeoutInv ==
    ASSUME IInv, TypeOK', NEW n \in Node, Timeout(n)
    PROVE  IInv'
<1>1. /\ TypeOK /\ VotesAreCast /\ VoteOnce /\ ProposalsJustified
      /\ QCsBacked /\ PoolSent /\ PoolMatchesBlock /\ UOWMatchesBlock
      /\ QCsInPlace /\ CommitCertified
  BY DEF IInv
<1>2. \A k \in Node : LocalInv(k)
  BY <1>1, LocalInvParts
<1> DEFINE none == {}
           p1 == Propose(n, height[n], round[n] + 1, NewRound, Nil,
                         prepareQC[n])
<1>3. /\ InterruptRound(n, round[n], prepareQC[n], none)
      /\ UNCHANGED certs /\ UNCHANGED block
  BY DEF Timeout
<1>4. \A p \in none : FALSE
  OBVIOUS
<1>5. msgs' = msgs \cup {p1}
  BY <1>3 DEF InterruptRound
<1> HIDE DEF none, p1
<1>6. round[n] \in Nat /\ round[n] >= round[n]
  BY SMT, <1>1 DEF TypeOK
<1>7. Forward(n)
  BY <1>1, <1>3, <1>4, <1>6, InterruptRoundForward
<1>8. msgs \subseteq msgs'
  BY <1>5
<1>9. Others(n)
  BY SMT, <1>1, <1>3 DEF InterruptRound, Others, TypeOK, certs
<1>10. LocalInv(n)'
  <2>1. prepareQC'[n] = prepareQC[n] /\ lockedQC'[n] = lockedQC[n]
    BY <1>3 DEF certs
  <2> QED
    BY <1>1, <1>2, <1>3, <1>6, <2>1, InterruptLocal
<1>11. \A k \in Node : LocalInv(k)'
  BY <1>2, <1>8, <1>9, <1>10, OthersKeepInv
<1>12. CertStep(none)
  <2>1. prepareQC[n] \in Certificates \cup {Nil} \cup none
    BY HeldAreCertificates
  <2>2. \A k \in Node : /\ prepareQC'[k] \in {prepareQC[k]} \cup none
                        /\ lockedQC'[k] \in {lockedQC[k]} \cup none
    BY <1>3 DEF certs
  <2> QED
    BY <1>3, <1>4, <2>1, <2>2, CertStepInterrupt
<1>13. QCsBacked' /\ ProposalsJustified'
  <2>1. \A c \in Certificates' : c \in Certificates
    BY SMT, <1>4, <1>12, HeldAreCertificates DEF CertStep, Certificates
  <2>2. QCsBacked'
    <3> SUFFICES ASSUME NEW c \in Certificates'
                 PROVE  c.signers \subseteq
                          VotersFor(c.height, c.round, c.step, c.block)'
      BY DEF QCsBacked
    <3> QED
      BY <1>1, <1>8, <2>1, VotersGrow DEF QCsBacked
  <2>3. ProposalsJustified'
    BY <1>1, <1>12 DEF ProposalsJustified, CertStep, IsVote
  <2> QED
    BY <2>2, <2>3
<1>14. CommitCertified'
  <2>1. committed'[n] = committed[n]
    BY <1>3 DEF InterruptRound
  <2> QED
    BY <1>1, <1>2, <1>8, <1>9, <2>1, CommitsStep
<1>15. VotesAreCast' /\ VoteOnce'
  BY <1>1, <1>7, VotesStep
<1>16. PoolSent' /\ PoolMatchesBlock' /\ UOWMatchesBlock' /\ QCsInPlace'
  BY <1>11, LocalInvPartsPrime
<1> QED
  BY <1>13, <1>14, <1>15, <1>16 DEF IInv

LEMMA InvStep ==
    ASSUME IInv, [Next]_vars
    PROVE  IInv'
<1>1. TypeOK'
  BY TypeStep DEF IInv
<1>2. CASE UNCHANGED vars
  BY SMT, <1>1, <1>2
  DEF IInv, vars, view, certs, store, VotesAreCast, VoteOnce,
      ProposalsJustified, QCsBacked, Certificates, VotersFor, PoolSent,
      PoolMatchesBlock, UOWMatchesBlock, QCsInPlace, CommitCertified,
      CommitVoters
<1>3. CASE Next
  BY <1>1, <1>3, HandleInv, TimeoutInv DEF Next
<1> QED
  BY <1>2, <1>3

LEMMA InitInv == Init => IInv
<1> SUFFICES ASSUME Init PROVE IInv
  OBVIOUS
<1>1. \A m \in msgs : ~ IsVote(m) /\ m.step = NewRound /\ m.qc = Nil
  BY SMT DEF Init, Propose, IsVote
<1>2. VotesAreCast /\ VoteOnce
  BY <1>1 DEF VotesAreCast, VoteOnce
<1>3. ProposalsJustified
  BY SMT, <1>1 DEF ProposalsJustified, NewRound, PreCommit, Commit, Decide
<1>4. QCsBacked
  BY <1>1 DEF QCsBacked, Certificates, Init
<1>5. PoolSent /\ PoolMatchesBlock
  BY StepConstants DEF PoolSent, PoolMatchesBlock, Init, EmptyPool
<1>6. UOWMatchesBlock /\ QCsInPlace /\ CommitCertified
  BY DEF UOWMatchesBlock, QCsInPlace, CommitCertified, Init
<1> QED
  BY <1>2, <1>3, <1>4, <1>5, <1>6, InitType DEF IInv

LEMMA InvCorrect == Spec => []IInv
BY InitInv, InvStep, PTL DEF Spec

\* No validator ever signs two votes for one (height, round, step), however
\* messages are delayed, reordered or lost and however often it times out.
THEOREM VotesAreUnique == Spec => []VoteOnce
<1>1. IInv => VoteOnce
  BY DEF IInv
<1> QED
  BY <1>1, InvCorrect, PTL

\* validateQuorumCertificate never checks the step, height or round of a
\* certificate; the prepareQC and the lockedQC are of the right ones anyway.
THEOREM CertificatesInPlace == Spec => []QCsInPlace
<1>1. IInv => QCsInPlace
  BY DEF IInv
<1> QED
  BY <1>1, InvCorrect, PTL

LEMMA UniqueQCFromInv == IInv => UniqueQC
<1> SUFFICES ASSUME IInv, NEW c \in Certificates, NEW d \in Certificates,
                    ValidQC(c), ValidQC(d), c.height = d.height,
                    c.round = d.round, c.step = d.step
             PROVE  c.block = d.block
  BY DEF UniqueQC
<1>1. /\ c.signers \subseteq VotersFor(c.height, c.round, c.step, c.block)
      /\ d.signers \subseteq VotersFor(c.height, c.round, c.step, d.block)
  BY DEF IInv, QCsBacked
<1>2. c.signers \in SUBSET Node /\ d.signers \in SUBSET Node
  BY <1>1 DEF VotersFor
<1>3. PICK n \in Node : n \in c.signers /\ n \in d.signers
  BY <1>2, QuorumsIntersect DEF ValidQC
<1>4. PICK v \in msgs : IsVote(v) /\ v.src = n /\ v.height = c.height
        /\ v.round = c.round /\ v.step = c.step /\ v.block = c.block
  BY <1>1, <1>3 DEF VotersFor
<1>5. PICK w \in msgs : IsVote(w) /\ w.src = n /\ w.height = c.height
        /\ w.round = c.round /\ w.step = c.step /\ w.block = d.block
  BY <1>1, <1>3 DEF VotersFor
<1>6. v = w
  BY <1>4, <1>5 DEF IInv, VoteOnce
<1> QED
  BY <1>4, <1>5, <1>6

\* Two certificates that validateQuorumCertificate accepts for one height,
\* round and step are for the same block, for any number of validators.
THEOREM CertificatesAreUnique == Spec => []UniqueQC
BY UniqueQCFromInv, InvCorrect, PTL

\* A state hash that commitBlock stores was voted for, in the Commit step of
\* the round of the stored certificate, by more than two thirds of all
\* validators; for the leader, which never validates the certificate it
\* makes, as well as for the replicas.
THEOREM CommitsAreCertified == Spec => []CommitCertified
<1>1. IInv => CommitCertified
  BY DEF IInv
<1> QED
  BY <1>1, InvCorrect, PTL

LEMMA AgreementFromInv == IInv => AgreementInRound
<1> SUFFICES ASSUME IInv, NEW n \in Node, NEW k \in Node,
                    NEW c \in committed[n], NEW d \in committed[k],
                    c.height = d.height, c.round = d.round,
                    c.stateHash # Nil, d.stateHash # Nil
             PROVE  c.stateHash = d.stateHash
  BY SMT DEF AgreementInRound
<1> DEFINE S == CommitVoters(c.height, c.round, c.stateHash)
           T == CommitVoters(c.height, c.round, d.stateHash)
<1>1. ThresholdMet(Cardinality(S)) /\ ThresholdMet(Cardinality(T))
  BY DEF IInv, CommitCertified
<1>2. S \in SUBSET Node /\ T \in SUBSET Node
  BY DEF CommitVoters
<1>3. PICK x \in Node : x \in S /\ x \in T
  <2> HIDE DEF S, T
  <2> QED
    BY <1>1, <1>2, QuorumsIntersect
<1>4. PICK v \in msgs : IsVote(v) /\ v.src = x /\ v.height = c.height
        /\ v.round = c.round /\ v.step = Commit
        /\ v.block.stateHash = c.stateHash
  BY <1>3 DEF CommitVoters
<1>5. PICK w \in msgs : IsVote(w) /\ w.src = x /\ w.height = c.height
        /\ w.round = c.round /\ w.step = Commit
        /\ w.block.stateHash = d.stateHash
  BY <1>3 DEF CommitVoters
<1>6. v = w
  BY <1>4, <1>5 DEF IInv, VoteOnce
<1> QED
  BY <1>4, <1>5, <1>6

\* Validators that stored a certificate of the same round at one height
\* stored the same state hash, for any number of validators and rounds.
THEOREM RoundAgreement == Spec => []AgreementInRound
BY AgreementFromInv, InvCorrect, PTL

=============================================================================
