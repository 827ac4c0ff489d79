---------------------------- MODULE LedgerProofs ----------------------------
(***************************************************************************)
(* What holds of the ledger for any set of accounts, actors, messages and  *)
(* parameters and any number of blocks.                                    *)
(*                                                                         *)
(*  - NoOverdraftHolds, TypeCorrect.  A message takes from a balance that  *)
(*    it checked on the committed ledger and writes it to a working copy,  *)
(*    so the induction (IInv) is over both: every ledger has natural       *)
(*    balances, parameters of which at least the genesis value can be      *)
(*    read, a proposer's cut of at most 100 percent and fees that are not  *)
(*    negative; and a working copy has every row of the committed ledger.  *)
(*  - StakesReturned.  A committed ledger has rows of the past only, and a *)
(*    working copy differs from it at its own height only (History); a     *)
(*    stake that is due has been returned or is still to come (PaidInv).   *)
(*  - SessionsFixed.  What a session is computed from lies below the       *)
(*    height under construction, where no later block writes.              *)
(*  - ReplicasAgree.  There is a run of the block's transactions that both *)
(*    units of work follow, and a table, indexed by sets of actors, of the *)
(*    ledgers that the return of their stakes leads to in any order        *)
(*    (SameInv).                                                           *)
(***************************************************************************)
EXTENDS Ledger, FiniteSetTheorems, WellFoundedInduction, TLAPS

USE Zenon

-----------------------------------------------------------------------------
(* The inductive invariant *)

Stages == {"reap", "wait", "apply", "unbond", "done", "failed"}

SoundType ==
    [acc : [Addrs -> Nat], pool : [Pools -> Int],
     rows : [Actors -> Table(Row)], params : [ParamKeys -> Table(Nat)]]

Sound(l) ==
    /\ l \in SoundType
    /\ l.pool["FeeCollector"] >= 0
    /\ \A k \in ParamKeys : l.params[k][0] # Nil
    /\ \A h \in Heights : l.params[CutKey][h] # Nil => l.params[CutKey][h] <= 100
    /\ \A h \in Heights : l.params[BlocksKey][h] # Nil => l.params[BlocksKey][h] > 0

\* w has a row wherever l has one, and none above height h.
Covers(w, l, h) ==
    \A a \in Actors, g \in Heights :
        /\ l.rows[a][g] # Nil => w.rows[a][g] # Nil
        /\ w.rows[a][g] # Nil => g <= h

UowOK(u, l, h) ==
    /\ u \in [stage : Stages, w : SoundType, next : Nat \ {0}, todo : SUBSET Actors]
    /\ Sound(u.w)
    /\ Covers(u.w, l, h)
    /\ \A a \in u.todo : Exists(l, a, MaxHeight)

IInv ==
    /\ Sound(ledger)
    /\ height \in 1 .. MaxHeight
    /\ DOMAIN uow = Nodes
    /\ uow \in [Nodes -> [stage : Stages, w : SoundType, next : Nat \ {0}, todo : SUBSET Actors]]
    /\ \A n \in Nodes : UowOK(uow[n], ledger, height)
    /\ block \in Seq(Msgs)

-----------------------------------------------------------------------------
(* Tables of rows by height *)

LEMMA HeightFacts ==
    /\ MaxHeight \in Nat \ {0}
    /\ 0 \in Heights /\ MaxHeight \in Heights
    /\ \A h \in 1 .. MaxHeight : h \in Heights /\ h \in Nat
    /\ \A h \in Heights : h \in Nat /\ 0 <= h /\ h <= MaxHeight
<1>1. MaxHeight \in Nat \ {0}
  BY LedgerAssumption
<1> QED
  BY <1>1, SMT DEF Heights

\* The naturals are well founded.
LEMMA LeastNat ==
    ASSUME NEW T, T \subseteq Nat, T # {}
    PROVE  \E n \in T : \A m \in T : ~(m < n)
<1>1. PICK x \in T : \A y \in T : <<y, x>> \notin OpToRel(<, Nat)
  BY WFMin, NatLessThanWellFounded
<1>2. \A y \in T : ~(y < x)
  <2> TAKE y \in T
  <2>1. <<y, x>> \in Nat \X Nat /\ <<y, x>>[1] = y /\ <<y, x>>[2] = x
    BY SMT
  <2> QED
    BY <1>1, <2>1 DEF OpToRel
<1> QED
  BY <1>2

\* A set of naturals below a bound has a greatest element.
LEMMA GreatestUpTo ==
    ASSUME NEW N \in Nat, NEW S, S \subseteq 0 .. N, S # {}
    PROVE  \E g \in S : \A k \in S : k <= g
<1> DEFINE T == {N - g : g \in S}
<1>a. \A g \in S : N - g \in Nat
  BY SMT
<1>1. T \subseteq Nat /\ T # {}
  BY <1>a
<1> HIDE DEF T
<1>2. PICK x \in T : \A y \in T : ~(y < x)
  BY <1>1, LeastNat
<1>4. PICK g \in S : x = N - g
  BY DEF T
<1>5. \A k \in S : ~(N - k < N - g)
  BY <1>2, <1>4 DEF T
<1>6. \A k \in S : k <= g
  BY <1>5, SMT
<1> QED
  BY <1>6

LEMMA Greatest ==
    ASSUME NEW S, S \subseteq Heights, S # {}
    PROVE  \E g \in S : \A k \in S : k <= g
BY GreatestUpTo, HeightFacts DEF Heights

\* A read of a table that has a row finds one, at or below its height.
LEMMA SelectRow ==
    ASSUME NEW S, NEW t \in Table(S), NEW h, RowHeights(t, h) # {}
    PROVE  /\ RowHeight(t, h) \in Heights
           /\ t[RowHeight(t, h)] # Nil
           /\ Select(t, h) \in S
<1>1. RowHeights(t, h) \subseteq Heights
  BY DEF RowHeights
<1>2. RowHeight(t, h) \in RowHeights(t, h)
  BY <1>1, Greatest DEF RowHeight
<1> QED
  BY <1>2 DEF RowHeights, Table, Select

\* Every parameter has a value at every height.
LEMMA ParamValue ==
    ASSUME NEW l, Sound(l), NEW k \in ParamKeys, NEW h \in Heights
    PROVE  /\ GetParam(l, k, h) \in Nat
           /\ k = CutKey => GetParam(l, k, h) <= 100
           /\ k = BlocksKey => GetParam(l, k, h) > 0
<1>1. l.params[k] \in Table(Nat)
  BY DEF Sound, SoundType
<1>2. 0 \in RowHeights(l.params[k], h)
  BY HeightFacts DEF RowHeights, Sound
<1>3. /\ RowHeight(l.params[k], h) \in Heights
      /\ l.params[k][RowHeight(l.params[k], h)] # Nil
      /\ Select(l.params[k], h) \in Nat
  BY <1>1, <1>2, SelectRow
<1> QED
  BY <1>3 DEF GetParam, Select, Sound

\* The row of an actor that exists.
LEMMA ActorRow ==
    ASSUME NEW l, Sound(l), NEW a \in Actors, NEW h, Exists(l, a, h)
    PROVE  Select(l.rows[a], h) \in Row
BY SelectRow DEF Exists, Sound, SoundType

LEMMA ExistsInCopy ==
    ASSUME NEW l, NEW w, NEW h, Covers(w, l, h), NEW a \in Actors, NEW k, Exists(l, a, k)
    PROVE  Exists(w, a, k)
BY DEF Covers, Exists, RowHeights

-----------------------------------------------------------------------------
(* The writes keep a ledger sound and keep its rows *)

LEMMA SetAccSound ==
    ASSUME NEW w, Sound(w), NEW a \in Addrs, NEW x \in Nat
    PROVE  /\ Sound(SetAcc(w, a, x)) /\ SetAcc(w, a, x).rows = w.rows
           /\ SetAcc(w, a, x).params = w.params
<1> DEFINE v == SetAcc(w, a, x)
<1>1. /\ v.acc = [w.acc EXCEPT ![a] = x] /\ v.pool = w.pool
      /\ v.rows = w.rows /\ v.params = w.params /\ v \in SoundType
  BY SMT DEF SetAcc, Sound, SoundType
<1> QED
  BY <1>1 DEF Sound

LEMMA AddAccSound ==
    ASSUME NEW w, Sound(w), NEW a \in Addrs, NEW x \in Nat
    PROVE  /\ Sound(AddAcc(w, a, x)) /\ AddAcc(w, a, x).rows = w.rows
           /\ AddAcc(w, a, x).params = w.params
<1> DEFINE v == AddAcc(w, a, x)
<1>1. /\ v.acc = [w.acc EXCEPT ![a] = w.acc[a] + x] /\ v.pool = w.pool
      /\ v.rows = w.rows /\ v.params = w.params /\ v \in SoundType
  BY SMT DEF AddAcc, Sound, SoundType
<1> QED
  BY <1>1 DEF Sound

LEMMA AddPoolSound ==
    ASSUME NEW w, Sound(w), NEW p \in Pools, NEW x \in Int,
           p = "FeeCollector" => x >= 0
    PROVE  /\ Sound(AddPool(w, p, x)) /\ AddPool(w, p, x).rows = w.rows
           /\ AddPool(w, p, x).params = w.params
<1> DEFINE v == AddPool(w, p, x)
<1>1. /\ v.pool = [w.pool EXCEPT ![p] = w.pool[p] + x] /\ v.acc = w.acc
      /\ v.rows = w.rows /\ v.params = w.params /\ v \in SoundType
  BY SMT DEF AddPool, Sound, SoundType
<1>2. "FeeCollector" \in Pools
  BY DEF Pools
<1>3. v.pool["FeeCollector"] >= 0
  BY <1>1, <1>2, SMT DEF Sound, SoundType
<1> QED
  BY <1>1, <1>3 DEF Sound

\* A row written to the table of an actor.
WriteRow(w, a, h, row) == [w EXCEPT !.rows[a][h] = row]

LEMMA WriteRowFields ==
    ASSUME NEW w, Sound(w), NEW h \in Heights, NEW a \in Actors, NEW row \in Row
    PROVE  /\ WriteRow(w, a, h, row).rows
                = [w.rows EXCEPT ![a] = [w.rows[a] EXCEPT ![h] = row]]
           /\ WriteRow(w, a, h, row).acc = w.acc
           /\ WriteRow(w, a, h, row).pool = w.pool
           /\ WriteRow(w, a, h, row).params = w.params
           /\ WriteRow(w, a, h, row) \in SoundType
<1> DEFINE v == WriteRow(w, a, h, row)
<1> DEFINE t == [w.rows[a] EXCEPT ![h] = row]
           r == [w.rows EXCEPT ![a] = t]
<1>1. w.rows[a] \in Table(Row) /\ w.rows \in [Actors -> Table(Row)]
  BY DEF Sound, SoundType
<1>2. t \in Table(Row)
  BY <1>1 DEF Table
<1> HIDE DEF t
<1>3. r \in [Actors -> Table(Row)]
  BY <1>1, <1>2
<1>4. v = [w EXCEPT !.rows = r]
  BY DEF t, WriteRow
<1> HIDE DEF r, v
<1>5. /\ v.rows = r /\ v.acc = w.acc /\ v.pool = w.pool
      /\ v.params = w.params /\ v \in SoundType
  BY <1>3, <1>4, SMT DEF Sound, SoundType
<1> QED
  BY <1>5 DEF r, t, v

LEMMA WriteRowSound ==
    ASSUME NEW w, Sound(w), NEW l, NEW h \in Heights, Covers(w, l, h),
           NEW a \in Actors, NEW row \in Row
    PROVE  /\ Sound(WriteRow(w, a, h, row))
           /\ Covers(WriteRow(w, a, h, row), l, h)
<1> DEFINE v == WriteRow(w, a, h, row)
<1>1. /\ v.rows = [w.rows EXCEPT ![a] = [w.rows[a] EXCEPT ![h] = row]]
      /\ v.acc = w.acc /\ v.pool = w.pool /\ v.params = w.params
      /\ v \in SoundType
  BY WriteRowFields, SMT
<1>2. Sound(v)
  BY <1>1 DEF Sound
<1>3. row # Nil
  BY LedgerAssumption
<1>4. ASSUME NEW b \in Actors, NEW g \in Heights, l.rows[b][g] # Nil
      PROVE  v.rows[b][g] # Nil
  <2>1. w.rows[b][g] # Nil /\ w.rows \in [Actors -> [Heights -> Row \cup {Nil}]]
    BY <1>4 DEF Covers, Sound, SoundType, Table
  <2> QED
    BY <1>1, <1>3, <2>1, SMT
<1>5. ASSUME NEW b \in Actors, NEW g \in Heights, v.rows[b][g] # Nil
      PROVE  g <= h
  <2>1. /\ w.rows \in [Actors -> [Heights -> Row \cup {Nil}]]
        /\ w.rows[b][g] # Nil => g <= h
    BY DEF Covers, Sound, SoundType, Table
  <2>2. g = h => g <= h
    BY HeightFacts, SMT
  <2>3. w.rows[b][g] # Nil \/ g = h
    BY <1>1, <1>5, <2>1, SMT
  <2> QED
    BY <2>1, <2>2, <2>3
<1> QED
  BY <1>2, <1>4, <1>5 DEF Covers

LEMMA WriteRowAt ==
    ASSUME NEW w, Sound(w), NEW h \in Heights, NEW a \in Actors, NEW row \in Row
    PROVE  /\ WriteRow(w, a, h, row).rows[a][h] = row
           /\ \A g \in Heights : g # h => WriteRow(w, a, h, row).rows[a][g] = w.rows[a][g]
           /\ \A b \in Actors : b # a => WriteRow(w, a, h, row).rows[b] = w.rows[b]
           /\ WriteRow(w, a, h, row).params = w.params
<1> DEFINE v == WriteRow(w, a, h, row)
<1>1. v.rows = [w.rows EXCEPT ![a] = [w.rows[a] EXCEPT ![h] = row]] /\ v.params = w.params
  BY WriteRowFields, SMT
<1> HIDE DEF v
<1>2. w.rows \in [Actors -> Table(Row)] /\ w.rows[a] \in [Heights -> Row \cup {Nil}]
  BY DEF Sound, SoundType, Table
<1>3. /\ v.rows[a] = [w.rows[a] EXCEPT ![h] = row]
      /\ \A b \in Actors : b # a => v.rows[b] = w.rows[b]
  BY <1>1, <1>2
<1> QED
  BY <1>1, <1>2, <1>3 DEF v

\* An update of a column writes a row of which the other columns, except for
\* the chains, are those of the last row.
LEMMA UpdateRowFacts ==
    ASSUME NEW w, Sound(w), NEW h \in Heights, NEW a \in Actors, Exists(w, a, h),
           NEW col \in {"paused", "unstaking"}, NEW x \in {NotUsed} \cup Nat
    PROVE  \E row \in Row :
             /\ UpdateRow(w, a, h, col, x) = WriteRow(w, a, h, row)
             /\ row.unstaking = IF col = "unstaking" THEN x
                                ELSE Select(w.rows[a], h).unstaking
<1> DEFINE old == Select(w.rows[a], h)
           new == [old EXCEPT ![col] = x]
           row == IF w.rows[a][h] # Nil THEN new ELSE [new EXCEPT !.chains = {}]
<1>1. old \in Row
  BY ActorRow
<1> HIDE DEF old
<1>2. new \in Row /\ new.unstaking = IF col = "unstaking" THEN x ELSE old.unstaking
  BY <1>1, SMT DEF Row
<1> HIDE DEF new
<1>3. row \in Row /\ row.unstaking = new.unstaking
  <2>1. [new EXCEPT !.chains = {}] \in Row
        /\ [new EXCEPT !.chains = {}].unstaking = new.unstaking
    BY <1>2, SMT DEF Row
  <2> QED
    BY <1>2, <2>1
<1>4. UpdateRow(w, a, h, col, x) = WriteRow(w, a, h, row)
  BY DEF UpdateRow, WriteRow, old, new
<1> HIDE DEF row
<1> QED
  BY <1>2, <1>3, <1>4 DEF old

LEMMA UpdateRowSound ==
    ASSUME NEW w, Sound(w), NEW l, NEW h \in Heights, Covers(w, l, h),
           NEW a \in Actors, Exists(w, a, h),
           NEW col \in {"paused", "unstaking"}, NEW x \in {NotUsed} \cup Nat
    PROVE  Sound(UpdateRow(w, a, h, col, x)) /\ Covers(UpdateRow(w, a, h, col, x), l, h)
<1>1. PICK row \in Row : UpdateRow(w, a, h, col, x) = WriteRow(w, a, h, row)
  BY UpdateRowFacts
<1>2. Sound(WriteRow(w, a, h, row)) /\ Covers(WriteRow(w, a, h, row), l, h)
  BY WriteRowSound
<1> QED
  BY <1>1, <1>2

\* Parameters are written at height h, or are the same below it.
OtherHeights(v, w, h) ==
    \A k \in ParamKeys, g \in Heights : g # h => v.params[k][g] = w.params[k][g]

SameBelow(v, w, h) ==
    \A k \in ParamKeys, g \in Heights : g < h => v.params[k][g] = w.params[k][g]

LEMMA WriteParamSound ==
    ASSUME NEW w, Sound(w), NEW h \in Heights, NEW m,
           m.key \in ParamKeys, m.value \in Nat, m.key = CutKey => m.value <= 100,
           m.key = BlocksKey => m.value > 0
    PROVE  /\ Sound(handleMessageChangeParameter(w, m, h))
           /\ handleMessageChangeParameter(w, m, h).rows = w.rows
           /\ OtherHeights(handleMessageChangeParameter(w, m, h), w, h)
<1> DEFINE k == m.key
           x == m.value
           v == [w EXCEPT !.params[k][h] = x]
<1>a. handleMessageChangeParameter(w, m, h) = v
  BY DEF handleMessageChangeParameter, updateParam, SetParam
<1>b. /\ k \in ParamKeys /\ x \in Nat /\ (k = CutKey => x <= 100)
      /\ k = BlocksKey => x > 0
  OBVIOUS
<1> HIDE DEF k, x
<1>1. /\ v.params = [w.params EXCEPT ![k] = [w.params[k] EXCEPT ![h] = x]]
      /\ v.acc = w.acc /\ v.pool = w.pool /\ v.rows = w.rows
      /\ v \in SoundType
  <2> DEFINE t == [w.params[k] EXCEPT ![h] = x]
             q == [w.params EXCEPT ![k] = t]
  <2>1. w.params[k] \in Table(Nat) /\ w.params \in [ParamKeys -> Table(Nat)]
    BY <1>b DEF Sound, SoundType
  <2>2. t \in Table(Nat)
    BY <1>b, <2>1 DEF Table
  <2> HIDE DEF t
  <2>3. q \in [ParamKeys -> Table(Nat)]
    BY <1>b, <2>1, <2>2
  <2>4. v = [w EXCEPT !.params = q]
    BY DEF t
  <2> HIDE DEF q, v
  <2>5. /\ v.params = q /\ v.acc = w.acc /\ v.pool = w.pool
        /\ v.rows = w.rows /\ v \in SoundType
    BY <2>3, <2>4, SMT DEF Sound, SoundType
  <2> QED
    BY <2>5 DEF q, t
<1>2. x # Nil
  BY <1>b, LedgerAssumption
<1>3. w.params \in [ParamKeys -> [Heights -> Nat \cup {Nil}]]
  BY DEF Sound, SoundType, Table
<1>4. \A j \in ParamKeys : v.params[j][0] # Nil
  BY <1>b, <1>1, <1>2, <1>3, HeightFacts, SMT DEF Sound
<1>5. \A g \in Heights : v.params[CutKey][g] # Nil => v.params[CutKey][g] <= 100
  <2>1. CutKey \in ParamKeys
    BY LedgerAssumption
  <2> HIDE DEF CutKey
  <2> QED
    BY <1>b, <1>1, <1>3, <2>1, SMT DEF Sound
<1>6. \A g \in Heights : v.params[BlocksKey][g] # Nil => v.params[BlocksKey][g] > 0
  <2>1. BlocksKey \in ParamKeys
    BY LedgerAssumption
  <2> HIDE DEF BlocksKey
  <2> QED
    BY <1>b, <1>1, <1>3, <2>1, SMT DEF Sound
<1>7. OtherHeights(v, w, h)
  BY <1>b, <1>1, <1>3, SMT DEF OtherHeights
<1>8. Sound(v)
  BY <1>1, <1>4, <1>5, <1>6 DEF Sound
<1> HIDE DEF v
<1> QED
  BY <1>a, <1>1, <1>7, <1>8

\* The rows of the actors and the parameters stay as they are.
SameTables(v, w) == v.rows = w.rows /\ v.params = w.params

LEMMA SameRowsCover ==
    ASSUME NEW l, NEW w, NEW h, Covers(w, l, h), NEW v, v.rows = w.rows
    PROVE  Covers(v, l, h)
BY DEF Covers

-----------------------------------------------------------------------------
(* Transactions *)

LEMMA TypeKeys ==
    ASSUME NEW a \in Actors
    PROVE  /\ ActorType[a] \in Types
           /\ StakePool[ActorType[a]] \in Pools
           /\ StakePool[ActorType[a]] # "FeeCollector"
           /\ \A k \in {"min_stake", "max_chains", "unstaking_blocks",
                        "min_pause_blocks", "max_pause_blocks"} :
                <<k, ActorType[a]>> \in ParamKeys
<1>1. ActorType[a] \in Types
  BY DEF Types
<1>2. {"min_stake", "max_chains", "unstaking_blocks", "min_pause_blocks",
       "max_pause_blocks"} \X Types \subseteq ParamKeys
  BY LedgerAssumption
<1>3. \A t \in Types : StakePool[t] # "FeeCollector"
  BY LedgerAssumption
<1>4. StakePool[ActorType[a]] \in Pools
  BY <1>1 DEF Pools
<1> QED
  BY <1>1, <1>2, <1>3, <1>4, SMT

LEMMA PoolNames ==
    "FeeCollector" \in Pools /\ "DAO" \in Pools /\ AppStakePool \in Pools
BY DEF Pools

LEMMA DeductFeeSound ==
    ASSUME NEW c, Sound(c), NEW w, Sound(w), NEW h \in Heights, Covers(w, c, h),
           NEW m \in Msgs, ValidTx(c, m, h)
    PROVE  /\ Sound(DeductFee(c, w, m, h)) /\ Covers(DeductFee(c, w, m, h), c, h)
           /\ SameTables(DeductFee(c, w, m, h), w)
<1> DEFINE fee == GetParam(c, FeeKey, h)
           v   == SetAcc(w, m.signer, c.acc[m.signer] - fee)
<1>1. m.signer \in Addrs
  BY MsgsAssumption
<1>2. fee \in Nat
  BY ParamValue, LedgerAssumption
<1>3. c.acc[m.signer] \in Nat /\ c.acc[m.signer] >= fee
  BY <1>1 DEF ValidTx, Sound, SoundType
<1> HIDE DEF fee
<1>4. c.acc[m.signer] - fee \in Nat
  BY <1>2, <1>3, SMT
<1>5. Sound(v) /\ SameTables(v, w)
  BY <1>1, <1>4, SetAccSound DEF SameTables
<1> HIDE DEF v
<1>6. fee \in Int /\ fee >= 0
  BY <1>2, SMT
<1>7. Sound(AddPool(v, "FeeCollector", fee)) /\ SameTables(AddPool(v, "FeeCollector", fee), v)
  BY <1>5, <1>6, PoolNames, AddPoolSound DEF SameTables
<1>8. DeductFee(c, w, m, h) = AddPool(v, "FeeCollector", fee)
  BY DEF DeductFee, fee, v
<1> QED
  BY <1>5, <1>7, <1>8, SameRowsCover DEF SameTables

LEMMA SendSound ==
    ASSUME NEW c, Sound(c), NEW w, Sound(w), NEW h \in Heights, Covers(w, c, h),
           NEW m \in Msgs, m.type = "send"
    PROVE  /\ Sound(handleMessageSend(c, w, m)) /\ Covers(handleMessageSend(c, w, m), c, h)
           /\ SameTables(handleMessageSend(c, w, m), w)
<1>1. m.from \in Addrs /\ m.to \in Addrs /\ m.amount \in Nat
  BY MsgsAssumption
<1>2. c.acc[m.from] \in Nat
  BY <1>1 DEF Sound, SoundType
<1>3. CASE c.acc[m.from] < m.amount
  BY <1>3 DEF handleMessageSend, SameTables
<1>4. CASE ~(c.acc[m.from] < m.amount)
  <2> DEFINE v == AddAcc(w, m.to, m.amount)
             u == SetAcc(v, m.from, c.acc[m.from] - m.amount)
  <2>1. c.acc[m.from] - m.amount \in Nat
    BY <1>1, <1>2, <1>4, SMT
  <2>2. Sound(v) /\ SameTables(v, w)
    BY <1>1, AddAccSound DEF SameTables
  <2> HIDE DEF v
  <2>3. Sound(u) /\ SameTables(u, v)
    BY <1>1, <2>1, <2>2, SetAccSound DEF SameTables
  <2>4. handleMessageSend(c, w, m) = u
    BY <1>4 DEF handleMessageSend, v
  <2> QED
    BY <2>2, <2>3, <2>4, SameRowsCover DEF SameTables
<1> QED
  BY <1>3, <1>4

\* A stake message writes the row of an actor that is not unstaking, or nothing.
LEMMA StakeFacts ==
    ASSUME NEW c, Sound(c), NEW w, Sound(w), NEW h \in Heights,
           NEW m \in Msgs, m.type = "stake"
    PROVE  \/ handleStakeMessage(c, w, m, h) = w
           \/ \E v, row :
                /\ handleStakeMessage(c, w, m, h) = WriteRow(v, m.actor, h, row)
                /\ Sound(v) /\ v.rows = w.rows /\ v.params = w.params
                /\ row \in Row /\ row.unstaking = NotUsed /\ m.actor \in Actors
<1> DEFINE type == ActorType[m.actor]
           ok   == /\ checkAboveMinStake(c, m, h)
                   /\ c.acc[m.signer] >= m.amount
                   /\ checkBelowMaxChains(c, m, h)
                   /\ ~ Exists(c, m.actor, h)
           row  == [stake |-> m.amount, output |-> m.output, paused |-> NotUsed,
                    unstaking |-> NotUsed,
                    chains |-> IF type = "validator" THEN {} ELSE m.chains]
           v == SetAcc(w, m.signer, c.acc[m.signer] - m.amount)
           p == AddPool(v, AppStakePool, m.amount)
           u == InsertActor(p, m.actor, h, row)
<1>1. /\ m.signer \in Addrs /\ m.actor \in Actors /\ m.output \in Addrs
      /\ m.amount \in Nat /\ m.chains \subseteq Chains
  BY MsgsAssumption
<1>2. handleStakeMessage(c, w, m, h) = IF ok THEN u ELSE w
  BY DEF handleStakeMessage
<1>3. CASE ~ ok
  BY <1>2, <1>3
<1>4. CASE ok
  <2>1. c.acc[m.signer] \in Nat
    BY <1>1 DEF Sound, SoundType
  <2>2. c.acc[m.signer] - m.amount \in Nat /\ m.amount \in Int /\ m.amount >= 0
    BY <1>1, <1>4, <2>1, SMT
  <2>3. Sound(v) /\ v.rows = w.rows /\ v.params = w.params
    BY <1>1, <2>2, SetAccSound
  <2> HIDE DEF v
  <2>4. Sound(p) /\ p.rows = w.rows /\ p.params = w.params
    BY <2>2, <2>3, PoolNames, AddPoolSound
  <2> HIDE DEF p
  <2>5. row \in Row /\ row.unstaking = NotUsed
    BY <1>1, SMT DEF Row
  <2> HIDE DEF row
  <2>6. u = WriteRow(p, m.actor, h, row)
    BY DEF InsertActor, WriteRow
  <2>7. handleStakeMessage(c, w, m, h) = WriteRow(p, m.actor, h, row)
    BY <1>2, <1>4, <2>6
  <2> QED
    BY <1>1, <2>4, <2>5, <2>7
<1> QED
  BY <1>3, <1>4

LEMMA StakeSound ==
    ASSUME NEW c, Sound(c), NEW w, Sound(w), NEW h \in Heights, Covers(w, c, h),
           NEW m \in Msgs, m.type = "stake"
    PROVE  /\ Sound(handleStakeMessage(c, w, m, h))
           /\ Covers(handleStakeMessage(c, w, m, h), c, h)
<1>1. CASE handleStakeMessage(c, w, m, h) = w
  BY <1>1
<1>2. CASE handleStakeMessage(c, w, m, h) # w
  <2>1. PICK v, row :
          /\ handleStakeMessage(c, w, m, h) = WriteRow(v, m.actor, h, row)
          /\ Sound(v) /\ v.rows = w.rows /\ v.params = w.params
          /\ row \in Row /\ row.unstaking = NotUsed /\ m.actor \in Actors
    BY <1>2, StakeFacts, ZenonT(60)
  <2>2. Covers(v, c, h)
    BY <2>1, SameRowsCover
  <2>3. Sound(WriteRow(v, m.actor, h, row)) /\ Covers(WriteRow(v, m.actor, h, row), c, h)
    BY <2>1, <2>2, WriteRowSound
  <2> QED
    BY <2>1, <2>3
<1> QED
  BY <1>1, <1>2

LEMMA UnbondingHeightNat ==
    ASSUME NEW c, Sound(c), NEW a \in Actors, NEW h \in Heights
    PROVE  getUnbondingHeight(c, ActorType[a], h) \in Nat
<1>1. <<"unstaking_blocks", ActorType[a]>> \in ParamKeys
  BY TypeKeys
<1>2. GetParam(c, <<"unstaking_blocks", ActorType[a]>>, h) \in Nat
  BY <1>1, ParamValue
<1>3. h \in Nat
  BY HeightFacts
<1> QED
  BY <1>2, <1>3, SMT DEF getUnbondingHeight

\* The actor of a valid unstake or unpause message exists.
LEMMA SignerExists ==
    ASSUME NEW c, NEW m \in Msgs, NEW h, ValidTx(c, m, h),
           m.type \in {"unstake", "unpause"}
    PROVE  m.actor \in Actors /\ Exists(c, m.actor, h)
<1>1. m.actor \in Actors
  BY MsgsAssumption
<1>2. SignerCandidates(c, m, h) =
        IF Exists(c, m.actor, h)
        THEN {Select(c.rows[m.actor], h).output, m.actor} ELSE {}
  BY SMT DEF SignerCandidates, getActorOutputAddress
<1> QED
  BY <1>1, <1>2 DEF ValidTx

LEMMA UnstakeSound ==
    ASSUME NEW c, Sound(c), NEW w, Sound(w), NEW h \in Heights, Covers(w, c, h), NEW m \in Msgs,
           m.actor \in Actors, Exists(c, m.actor, h)
    PROVE  /\ Sound(handleUnstakeMessage(c, w, m, h))
           /\ Covers(handleUnstakeMessage(c, w, m, h), c, h)
<1> DEFINE x == getUnbondingHeight(c, ActorType[m.actor], h)
           u == UpdateRow(w, m.actor, h, "unstaking", x)
<1>1. x \in {NotUsed} \cup Nat
  BY UnbondingHeightNat
<1>2. Exists(w, m.actor, h)
  BY ExistsInCopy
<1> HIDE DEF x
<1>3. Sound(u) /\ Covers(u, c, h)
  BY <1>1, <1>2, UpdateRowSound
<1>4. handleUnstakeMessage(c, w, m, h) = u \/ handleUnstakeMessage(c, w, m, h) = w
  BY DEF handleUnstakeMessage, setActorUnbondingHeight, x
<1> QED
  BY <1>3, <1>4

LEMMA UnpauseSound ==
    ASSUME NEW c, Sound(c), NEW w, Sound(w), NEW h \in Heights, Covers(w, c, h), NEW m \in Msgs,
           m.actor \in Actors, Exists(c, m.actor, h)
    PROVE  /\ Sound(handleUnpauseMessage(c, w, m, h))
           /\ Covers(handleUnpauseMessage(c, w, m, h), c, h)
<1> DEFINE u == UpdateRow(w, m.actor, h, "paused", NotUsed)
<1>1. Exists(w, m.actor, h)
  BY ExistsInCopy
<1>2. Sound(u) /\ Covers(u, c, h)
  BY <1>1, UpdateRowSound
<1>3. handleUnpauseMessage(c, w, m, h) = u \/ handleUnpauseMessage(c, w, m, h) = w
  BY DEF handleUnpauseMessage, setActorPausedHeight
<1> QED
  BY <1>2, <1>3

LEMMA HandleTransactionSound ==
    ASSUME NEW c, Sound(c), NEW w, Sound(w), NEW h \in Heights, Covers(w, c, h),
           NEW m \in Msgs, ValidTx(c, m, h)
    PROVE  /\ Sound(HandleTransaction(c, w, m, h))
           /\ Covers(HandleTransaction(c, w, m, h), c, h)
<1> DEFINE v == DeductFee(c, w, m, h)
           u == handleMessage(c, v, m, h)
<1>1. Sound(v) /\ Covers(v, c, h)
  BY DeductFeeSound
<1> HIDE DEF v
<1>2. CASE m.type = "send"
  <2>1. u = handleMessageSend(c, v, m)
    BY <1>2, SMT DEF handleMessage
  <2> QED
    BY <1>1, <1>2, <2>1, SendSound DEF HandleTransaction, v
<1>3. CASE m.type = "stake"
  <2>1. u = handleStakeMessage(c, v, m, h)
    BY <1>3, SMT DEF handleMessage
  <2> QED
    BY <1>1, <1>3, <2>1, StakeSound DEF HandleTransaction, v
<1>4. CASE m.type = "unstake"
  <2>1. u = handleUnstakeMessage(c, v, m, h)
    BY <1>4, SMT DEF handleMessage
  <2> QED
    BY <1>1, <1>4, <2>1, SignerExists, UnstakeSound DEF HandleTransaction, v
<1>5. CASE m.type = "unpause"
  <2>1. u = handleUnpauseMessage(c, v, m, h)
    BY <1>5, SMT DEF handleMessage
  <2> QED
    BY <1>1, <1>5, <2>1, SignerExists, UnpauseSound DEF HandleTransaction, v
<1>6. CASE m.type = "change_parameter"
  <2>1. u = handleMessageChangeParameter(v, m, h)
    BY <1>6, SMT DEF handleMessage
  <2>2. /\ m.key \in ParamKeys /\ m.value \in Nat /\ (m.key = CutKey => m.value <= 100)
        /\ m.key = BlocksKey => m.value > 0
    BY <1>6, MsgsAssumption
  <2> HIDE DEF u
  <2>a. /\ Sound(handleMessageChangeParameter(v, m, h))
        /\ handleMessageChangeParameter(v, m, h).rows = v.rows
    BY <1>1, <2>2, WriteParamSound
  <2>3. Sound(u) /\ u.rows = v.rows
    BY <2>1, <2>a
  <2> QED
    BY <1>1, <2>3, SameRowsCover DEF HandleTransaction, v, u
<1>7. CASE m.type = "edit_stake"
  <2>1. SignerCandidates(c, m, h) = {}
    BY <1>7, SMT DEF SignerCandidates
  <2> QED
    BY <2>1 DEF ValidTx
<1>8. CASE m.type \notin {"send", "stake", "edit_stake", "unstake", "unpause",
                        "change_parameter"}
  <2>1. u = v
    BY <1>8, SMT DEF handleMessage
  <2> QED
    BY <1>1, <2>1 DEF HandleTransaction, v
<1> QED
  BY <1>2, <1>3, <1>4, <1>5, <1>6, <1>7, <1>8

-----------------------------------------------------------------------------
(* The end of a block *)

\* A cut of at most 100 percent leaves something that is not negative.
LEMMA CutBound ==
    ASSUME NEW x \in Nat, NEW p \in Nat, p <= 100
    PROVE  (x * p) \div 100 \in Nat /\ x - ((x * p) \div 100) \in Int
BY SMT

LEMMA RewardsSound ==
    ASSUME NEW c, Sound(c), NEW w, Sound(w), NEW h \in Heights, Covers(w, c, h)
    PROVE  /\ Sound(handleProposerRewards(c, w, h))
           /\ Covers(handleProposerRewards(c, w, h), c, h)
           /\ SameTables(handleProposerRewards(c, w, h), w)
<1> DEFINE x   == c.pool["FeeCollector"]
           pct == GetParam(c, CutKey, h)
           cut == (x * pct) \div 100
           z   == [w EXCEPT !.pool["FeeCollector"] = 0]
           v   == AddAcc(z, Proposer, cut)
           u   == AddPool(v, "DAO", x - cut)
<1>1. x \in Nat
  BY SMT, PoolNames DEF Sound, SoundType
<1>2. pct \in Nat /\ pct <= 100
  BY ParamValue, LedgerAssumption
<1>3. cut \in Nat /\ x - cut \in Int
  <2> HIDE DEF x, pct
  <2> QED
    BY <1>1, <1>2, CutBound
<1>4. Sound(z) /\ SameTables(z, w)
  <2>1. /\ z.pool = [w.pool EXCEPT !["FeeCollector"] = 0] /\ z.acc = w.acc
        /\ z.rows = w.rows /\ z.params = w.params /\ z \in SoundType
    BY SMT DEF Sound, SoundType
  <2>2. z.pool["FeeCollector"] >= 0
    BY <2>1, PoolNames, SMT DEF Sound, SoundType
  <2> QED
    BY <2>1, <2>2 DEF Sound, SameTables
<1>5. handleProposerRewards(c, w, h) = u
  BY DEF handleProposerRewards
<1> HIDE DEF z, cut, x
<1>6. Proposer \in Addrs
  BY LedgerAssumption
<1>7. Sound(v) /\ SameTables(v, z)
  BY <1>3, <1>4, <1>6, AddAccSound DEF SameTables
<1> HIDE DEF v
<1>8. Sound(u) /\ SameTables(u, v)
  BY <1>3, <1>7, PoolNames, AddPoolSound DEF SameTables
<1> QED
  BY <1>4, <1>5, <1>7, <1>8, SameRowsCover DEF SameTables

LEMMA UnbondSound ==
    ASSUME NEW c, Sound(c), NEW w, Sound(w), NEW h \in Heights, Covers(w, c, h),
           NEW a \in Actors, Exists(c, a, MaxHeight)
    PROVE  /\ Sound(Unbond(c, w, a, h)) /\ Covers(Unbond(c, w, a, h), c, h)
           /\ SameTables(Unbond(c, w, a, h), w)
<1> DEFINE row == Select(c.rows[a], MaxHeight)
           p   == StakePool[ActorType[a]]
           v   == AddPool(w, p, 0 - row.stake)
           u   == AddAcc(v, row.output, row.stake)
<1>1. row \in Row
  BY ActorRow
<1>2. row.stake \in Nat /\ row.output \in Addrs
  BY <1>1 DEF Row
<1>3. Unbond(c, w, a, h) = u
  BY DEF Unbond
<1> HIDE DEF row
<1>4. 0 - row.stake \in Int
  BY <1>2, SMT
<1>5. Sound(v) /\ SameTables(v, w)
  BY <1>4, TypeKeys, AddPoolSound DEF SameTables
<1> HIDE DEF v
<1>6. Sound(u) /\ SameTables(u, v)
  BY <1>2, <1>5, AddAccSound DEF SameTables
<1> QED
  BY <1>3, <1>5, <1>6, SameRowsCover DEF SameTables

\* In a working copy the rows at or below its height are all the rows.
LEMMA ExistsNow ==
    ASSUME NEW w, NEW l, NEW h \in Heights, Covers(w, l, h),
           NEW a \in Actors, NEW k, Exists(w, a, k)
    PROVE  Exists(w, a, h)
BY DEF Covers, Exists, RowHeights

\* An actor has been paused for too long and is to unstake, or nothing changes
\* for it.
PausedRows(v, c, w, h) ==
    \A a \in Actors :
        \/ v.rows[a] = w.rows[a]
        \/ /\ Exists(w, a, MaxHeight)
           /\ v.rows[a] = UpdateRow(w, a, h, "unstaking",
                                    getUnbondingHeight(c, ActorType[a], h)).rows[a]

LEMMA MaxPausedSound ==
    ASSUME NEW c, Sound(c), NEW w, Sound(w), NEW h \in Heights, Covers(w, c, h)
    PROVE  /\ Sound(beginUnstakingMaxPausedActors(c, w, h))
           /\ Covers(beginUnstakingMaxPausedActors(c, w, h), c, h)
           /\ beginUnstakingMaxPausedActors(c, w, h).params = w.params
           /\ PausedRows(beginUnstakingMaxPausedActors(c, w, h), c, w, h)
<1> DEFINE u == beginUnstakingMaxPausedActors(c, w, h)
           new(a) == UpdateRow(w, a, h, "unstaking", getUnbondingHeight(c, ActorType[a], h))
           limit(a)  == h - getMaxAllowedPausedBlocks(c, ActorType[a], h)
           before(a) == IF limit(a) < 0 THEN 0 ELSE limit(a)
           paused == {a \in Actors : PausedBefore(w, a, before(a))}
           r == [a \in Actors |-> IF a \in paused THEN new(a).rows[a] ELSE w.rows[a]]
<1>0. u = [w EXCEPT !.rows = r]
  BY DEF beginUnstakingMaxPausedActors, setActorUnbondingHeight
<1>1. /\ u = [w EXCEPT !.rows = r]
      /\ r = [a \in Actors |-> r[a]]
      /\ \A a \in Actors :
           r[a] = w.rows[a] \/ (Exists(w, a, MaxHeight) /\ r[a] = new(a).rows[a])
  <2>1. \A a \in paused : Exists(w, a, MaxHeight)
    BY DEF PausedBefore
  <2> HIDE DEF paused, new, u
  <2>2. \A a \in Actors : r[a] = IF a \in paused THEN new(a).rows[a] ELSE w.rows[a]
    OBVIOUS
  <2>3. r = [a \in Actors |-> r[a]]
    BY <2>2
  <2> HIDE DEF r
  <2>4. ASSUME NEW a \in Actors
        PROVE  r[a] = w.rows[a] \/ (Exists(w, a, MaxHeight) /\ r[a] = new(a).rows[a])
    <3>1. CASE a \in paused
      BY <2>1, <2>2, <3>1
    <3>2. CASE a \notin paused
      BY <2>2, <3>2
    <3> QED
      BY <3>1, <3>2
  <2> QED
    BY <1>0, <2>3, <2>4
<1> HIDE DEF r
<1>2. ASSUME NEW a \in Actors
      PROVE  /\ r[a] \in Table(Row)
             /\ \A g \in Heights : /\ c.rows[a][g] # Nil => r[a][g] # Nil
                                   /\ r[a][g] # Nil => g <= h
  <2>1. CASE r[a] = w.rows[a]
    BY <2>1 DEF Sound, SoundType, Covers
  <2>2. CASE Exists(w, a, MaxHeight) /\ r[a] = new(a).rows[a]
    <3>1. Exists(w, a, h)
      BY <2>2, ExistsNow
    <3>2. getUnbondingHeight(c, ActorType[a], h) \in {NotUsed} \cup Nat
      BY UnbondingHeightNat
    <3>3. Sound(new(a)) /\ Covers(new(a), c, h)
      BY <3>1, <3>2, UpdateRowSound
    <3> HIDE DEF new
    <3> QED
      BY <2>2, <3>3 DEF Sound, SoundType, Covers
  <2> QED
    BY <1>1, <2>1, <2>2
<1> HIDE DEF u
<1>3. r \in [Actors -> Table(Row)]
  BY <1>1, <1>2
<1>4. /\ u.rows = r /\ u.acc = w.acc /\ u.pool = w.pool
      /\ u.params = w.params /\ u \in SoundType
  BY <1>1, <1>3, SMT DEF Sound, SoundType
<1>5. Sound(u) /\ Covers(u, c, h)
  BY <1>2, <1>4 DEF Sound, Covers
<1>6. PausedRows(u, c, w, h)
  BY <1>1, <1>4 DEF PausedRows
<1> QED
  BY <1>4, <1>5, <1>6 DEF u

-----------------------------------------------------------------------------
(* The steps *)

LEMMA AtGenesisAt ==
    ASSUME NEW v, NEW h \in Heights
    PROVE  AtGenesis(v)[h] = IF h = 0 THEN v ELSE Nil
BY DEF AtGenesis

LEMMA GenesisSound == Sound(GenesisLedger) /\ Covers(GenesisLedger, GenesisLedger, 1)
<1>1. /\ GenesisAcc \in [Addrs -> Nat] /\ GenesisRows \in [Actors -> Row \cup {Nil}]
      /\ GenesisParams \in [ParamKeys -> Nat] /\ GenesisParams[CutKey] <= 100
      /\ CutKey \in ParamKeys /\ Nil \notin Nat
      /\ GenesisParams[BlocksKey] > 0 /\ BlocksKey \in ParamKeys
  BY LedgerAssumption
<1>2. \A a \in Actors : AtGenesis(GenesisRows[a]) \in Table(Row)
  BY <1>1 DEF AtGenesis, Table
<1>3. \A k \in ParamKeys : AtGenesis(GenesisParams[k]) \in Table(Nat)
  BY <1>1 DEF AtGenesis, Table
<1>4. /\ GenesisLedger.acc = GenesisAcc
      /\ GenesisLedger.pool = [p \in Pools |-> 0]
      /\ GenesisLedger.rows = [a \in Actors |-> AtGenesis(GenesisRows[a])]
      /\ GenesisLedger.params = [k \in ParamKeys |-> AtGenesis(GenesisParams[k])]
  BY DEF GenesisLedger
<1>5. GenesisLedger \in SoundType
  <2>1. [p \in Pools |-> 0] \in [Pools -> Int]
    BY SMT
  <2> QED
    BY <1>1, <1>2, <1>3, <2>1 DEF GenesisLedger, SoundType
<1>6. GenesisLedger.pool["FeeCollector"] >= 0
  BY <1>4, PoolNames, SMT
<1>7. \A k \in ParamKeys : GenesisLedger.params[k][0] # Nil
  <2> TAKE k \in ParamKeys
  <2>1. GenesisLedger.params[k] = AtGenesis(GenesisParams[k]) /\ GenesisParams[k] \in Nat
    BY <1>1, <1>4
  <2>2. AtGenesis(GenesisParams[k])[0] = GenesisParams[k]
    BY HeightFacts, AtGenesisAt
  <2> QED
    BY <1>1, <2>1, <2>2
<1>8. \A h \in Heights : GenesisLedger.params[CutKey][h] # Nil
                           => GenesisLedger.params[CutKey][h] <= 100
  <2> TAKE h \in Heights
  <2>1. GenesisLedger.params[CutKey] = AtGenesis(GenesisParams[CutKey])
    BY <1>1, <1>4
  <2> QED
    BY <1>1, <2>1, AtGenesisAt, ZenonT(60)
<1>a. \A h \in Heights : GenesisLedger.params[BlocksKey][h] # Nil
                           => GenesisLedger.params[BlocksKey][h] > 0
  <2> TAKE h \in Heights
  <2>1. GenesisLedger.params[BlocksKey] = AtGenesis(GenesisParams[BlocksKey])
    BY <1>1, <1>4
  <2> QED
    BY <1>1, <2>1, AtGenesisAt, ZenonT(60)
<1>9. Covers(GenesisLedger, GenesisLedger, 1)
  <2>1. 0 <= 1
    BY SMT
  <2>2. ASSUME NEW a \in Actors, NEW g \in Heights, GenesisLedger.rows[a][g] # Nil
        PROVE  g <= 1
    <3>1. GenesisLedger.rows[a] = AtGenesis(GenesisRows[a])
      BY <1>4
    <3>2. g = 0
      BY <2>2, <3>1, AtGenesisAt
    <3> QED
      BY <2>1, <3>2
  <2> QED
    BY <2>2 DEF Covers
<1> QED
  BY <1>5, <1>6, <1>7, <1>8, <1>9, <1>a DEF Sound

LEMMA NewUnitOfWorkOK ==
    ASSUME NEW l, Sound(l), NEW n \in Nodes
    PROVE  /\ NewUnitOfWork(l)[n] \in [stage : Stages, w : SoundType, next : Nat \ {0},
                                       todo : SUBSET Actors]
           /\ NewUnitOfWork(l)[n].w = l
           /\ NewUnitOfWork(l)[n].todo = {}
<1> DEFINE s == IF n = "leader" THEN "reap" ELSE "wait"
<1>1. s \in Stages
  BY DEF Stages
<1>2. NewUnitOfWork(l)[n] = [stage |-> s, w |-> l, next |-> 1, todo |-> {}]
  BY DEF NewUnitOfWork
<1> HIDE DEF s
<1>3. 1 \in Nat \ {0} /\ l \in SoundType
  BY SMT DEF Sound
<1>4. {} \in SUBSET Actors
  OBVIOUS
<1>5. [stage |-> s, w |-> l, next |-> 1, todo |-> {}] \in
        [stage : Stages, w : SoundType, next : Nat \ {0}, todo : SUBSET Actors]
  BY <1>1, <1>3, <1>4, SMT
<1>6. NewUnitOfWork(l)[n].w = l /\ NewUnitOfWork(l)[n].todo = {}
  BY <1>2, SMT
<1> QED
  BY <1>2, <1>5, <1>6

LEMMA InitIInv == Init => IInv
<1> SUFFICES ASSUME Init PROVE IInv
  OBVIOUS
<1> USE DEF Init
<1>1. Sound(ledger) /\ Covers(ledger, ledger, height)
  BY GenesisSound
<1>2. height \in 1 .. MaxHeight
  BY HeightFacts, SMT
<1>3. \A n \in Nodes : UowOK(uow[n], ledger, height)
  BY <1>1, GenesisSound, NewUnitOfWorkOK DEF UowOK
<1>4. uow = [n \in Nodes |-> uow[n]]
  BY DEF NewUnitOfWork
<1>5. block \in Seq(Msgs)
  BY SMT
<1> QED
  BY <1>1, <1>2, <1>3, <1>4, <1>5 DEF IInv, UowOK

\* A unit of work whose working copy is replaced by a sound one.
LEMMA StepOfNode ==
    ASSUME IInv, NEW n \in Nodes, NEW u, UowOK(u, ledger, height),
           uow' = [uow EXCEPT ![n] = u],
           ledger' = ledger, height' = height, block' \in Seq(Msgs)
    PROVE  IInv'
<1>1. uow' = [m \in Nodes |-> IF m = n THEN u ELSE uow[m]]
  BY DEF IInv
<1>2. \A m \in Nodes : UowOK(uow'[m], ledger, height)
  BY <1>1 DEF IInv
<1> QED
  BY <1>1, <1>2 DEF IInv, UowOK

\* The fields of a unit of work, and one of which some fields are replaced.
LEMMA UowFields ==
    ASSUME IInv, NEW n \in Nodes
    PROVE  /\ uow[n].stage \in Stages /\ Sound(uow[n].w) /\ uow[n].next \in Nat \ {0}
           /\ uow[n].todo \subseteq Actors /\ Covers(uow[n].w, ledger, height)
           /\ \A a \in uow[n].todo : Exists(ledger, a, MaxHeight)
           /\ uow[n] \in [stage : Stages, w : SoundType, next : Nat \ {0}, todo : SUBSET Actors]
           /\ UowOK(uow[n], ledger, height)
           /\ Sound(ledger) /\ height \in Heights
BY HeightFacts DEF IInv, UowOK

\* A unit of work of which one field is replaced.
LEMMA UowStage ==
    ASSUME NEW u, NEW l, NEW h, UowOK(u, l, h), NEW s \in Stages
    PROVE  UowOK([u EXCEPT !.stage = s], l, h)
<1> DEFINE v == [u EXCEPT !.stage = s]
<1>1. /\ v \in [stage : Stages, w : SoundType, next : Nat \ {0}, todo : SUBSET Actors]
      /\ v.w = u.w /\ v.todo = u.todo
  BY SMT DEF UowOK
<1> QED
  BY <1>1 DEF UowOK

LEMMA UowCopy ==
    ASSUME NEW u, NEW l, NEW h, UowOK(u, l, h), NEW x, Sound(x), Covers(x, l, h)
    PROVE  UowOK([u EXCEPT !.w = x], l, h)
<1> DEFINE v == [u EXCEPT !.w = x]
<1>0. x \in SoundType
  BY DEF Sound
<1>1. /\ v \in [stage : Stages, w : SoundType, next : Nat \ {0}, todo : SUBSET Actors]
      /\ v.w = x /\ v.todo = u.todo
  BY <1>0, SMT DEF UowOK
<1> QED
  BY <1>1 DEF UowOK

LEMMA UowNext ==
    ASSUME NEW u, NEW l, NEW h, UowOK(u, l, h), NEW k \in Nat \ {0}
    PROVE  UowOK([u EXCEPT !.next = k], l, h)
<1> DEFINE v == [u EXCEPT !.next = k]
<1>1. /\ v \in [stage : Stages, w : SoundType, next : Nat \ {0}, todo : SUBSET Actors]
      /\ v.w = u.w /\ v.todo = u.todo
  BY SMT DEF UowOK
<1> QED
  BY <1>1 DEF UowOK

LEMMA UowTodo ==
    ASSUME NEW u, NEW l, NEW h, UowOK(u, l, h), NEW t, t \subseteq Actors,
           \A a \in t : Exists(l, a, MaxHeight)
    PROVE  UowOK([u EXCEPT !.todo = t], l, h)
<1> DEFINE v == [u EXCEPT !.todo = t]
<1>1. /\ v \in [stage : Stages, w : SoundType, next : Nat \ {0}, todo : SUBSET Actors]
      /\ v.w = u.w /\ v.todo = t
  BY SMT DEF UowOK
<1> QED
  BY <1>1 DEF UowOK

LEMMA ReapTxIInv ==
    ASSUME IInv, NEW m \in Msgs, ReapTx(m)
    PROVE  IInv'
<1> DEFINE n == "leader"
           v == HandleTransaction(ledger, uow[n].w, m, height)
           u == [uow[n] EXCEPT !.w = v]
<1>0. n \in Nodes
  BY DEF Nodes
<1> HIDE DEF n
<1>1. CASE ~ ValidTx(ledger, m, height)
  BY <1>1 DEF ReapTx, IInv
<1>2. CASE ValidTx(ledger, m, height)
  <2>1. Sound(v) /\ Covers(v, ledger, height)
    BY <1>0, <1>2, UowFields, HandleTransactionSound
  <2>2. uow' = [uow EXCEPT ![n] = u] /\ block' = Append(block, m)
        /\ ledger' = ledger /\ height' = height
    BY <1>2 DEF ReapTx, n
  <2> HIDE DEF v
  <2>4. UowOK(u, ledger, height)
    BY <1>0, <2>1, UowFields, UowCopy
  <2>5. block' \in Seq(Msgs)
    BY <2>2, SMT DEF IInv
  <2> HIDE DEF u
  <2> QED
    BY <1>0, <2>2, <2>4, <2>5, StepOfNode
<1> QED
  BY <1>1, <1>2

LEMMA ApplyTxIInv ==
    ASSUME IInv, ApplyTx
    PROVE  IInv'
<1> DEFINE n == "replica"
           m == block[uow[n].next]
           v == HandleTransaction(ledger, uow[n].w, m, height)
           u == IF ValidTx(ledger, m, height)
                THEN [uow[n] EXCEPT !.w = v, !.next = uow[n].next + 1]
                ELSE [uow[n] EXCEPT !.stage = "failed"]
<1>0. n \in Nodes
  BY DEF Nodes
<1>1. /\ uow' = [uow EXCEPT ![n] = u] /\ block' = block
      /\ ledger' = ledger /\ height' = height
      /\ uow[n].next <= Len(block)
  BY DEF ApplyTx
<1> HIDE DEF n
<1>2. uow[n].next \in Nat \ {0}
  BY <1>0, UowFields
<1>3. UowOK(u, ledger, height)
  <2>1. CASE ~ ValidTx(ledger, m, height)
    <3>1. u = [uow[n] EXCEPT !.stage = "failed"]
      BY <2>1
    <3>2. "failed" \in Stages
      BY DEF Stages
    <3> HIDE DEF u, m, v
    <3> QED
      BY <1>0, <3>1, <3>2, UowFields, UowStage
  <2>2. CASE ValidTx(ledger, m, height)
    <3> DEFINE k == uow[n].next + 1
           o == [uow[n] EXCEPT !.w = v]
    <3>1. u = [o EXCEPT !.next = k]
      BY <2>2
    <3>2. m \in Msgs
      BY <1>0, <1>1, <1>2, SMT DEF IInv
    <3> HIDE DEF u, m
    <3>3. Sound(v) /\ Covers(v, ledger, height)
      BY <1>0, <2>2, <3>2, UowFields, HandleTransactionSound
    <3>4. k \in Nat \ {0}
      BY <1>2, SMT
    <3> HIDE DEF v, k
    <3>5. UowOK(o, ledger, height)
      BY <1>0, <3>3, UowFields, UowCopy
    <3> HIDE DEF o
    <3> QED
      BY <3>1, <3>4, <3>5, UowNext
  <2> QED
    BY <2>1, <2>2
<1> HIDE DEF u
<1> QED
  BY <1>0, <1>1, <1>3, StepOfNode DEF IInv

LEMMA BeginEndBlockIInv ==
    ASSUME IInv, NEW n \in Nodes, BeginEndBlock(n)
    PROVE  IInv'
<1> DEFINE v == handleProposerRewards(ledger, uow[n].w, height)
           t == ReadyToUnstake(ledger, height)
           p == [uow[n] EXCEPT !.stage = "unbond"]
           q == [p EXCEPT !.w = v]
           u == [q EXCEPT !.todo = t]
<1>1. /\ uow' = [uow EXCEPT ![n] = u] /\ block' = block
      /\ ledger' = ledger /\ height' = height
  BY DEF BeginEndBlock
<1>2. Sound(v) /\ Covers(v, ledger, height)
  BY UowFields, RewardsSound
<1>3. t \subseteq Actors /\ \A a \in t : Exists(ledger, a, MaxHeight)
  BY DEF ReadyToUnstake
<1>4. UowOK(p, ledger, height)
  BY UowFields, UowStage DEF Stages
<1> HIDE DEF v, t, p
<1>5. UowOK(q, ledger, height)
  BY <1>2, <1>4, UowCopy
<1> HIDE DEF q
<1>6. UowOK(u, ledger, height)
  BY <1>3, <1>5, UowTodo
<1> HIDE DEF u
<1> QED
  BY <1>1, <1>6, StepOfNode DEF IInv

LEMMA UnbondActorIInv ==
    ASSUME IInv, NEW n \in Nodes, NEW a \in Actors, UnbondActor(n, a)
    PROVE  IInv'
<1> DEFINE v == Unbond(ledger, uow[n].w, a, height)
           t == uow[n].todo \ {a}
           q == [uow[n] EXCEPT !.w = v]
           u == [q EXCEPT !.todo = t]
<1>1. /\ uow' = [uow EXCEPT ![n] = u] /\ block' = block
      /\ ledger' = ledger /\ height' = height /\ a \in uow[n].todo
  BY DEF UnbondActor
<1>2. Sound(v) /\ Covers(v, ledger, height)
  BY <1>1, UowFields, UnbondSound
<1>3. t \subseteq Actors /\ \A b \in t : Exists(ledger, b, MaxHeight)
  BY UowFields
<1> HIDE DEF v, t
<1>5. UowOK(q, ledger, height)
  BY <1>2, UowFields, UowCopy
<1> HIDE DEF q
<1>6. UowOK(u, ledger, height)
  BY <1>3, <1>5, UowTodo
<1> HIDE DEF u
<1> QED
  BY <1>1, <1>6, StepOfNode DEF IInv

LEMMA FinishEndBlockIInv ==
    ASSUME IInv, NEW n \in Nodes, FinishEndBlock(n)
    PROVE  IInv'
<1> DEFINE v == beginUnstakingMaxPausedActors(ledger, uow[n].w, height)
           p == [uow[n] EXCEPT !.stage = "done"]
           u == [p EXCEPT !.w = v]
           s(m) == IF n = "leader" THEN "apply" ELSE uow[m].stage
           o(m) == [uow[m] EXCEPT !.stage = s(m)]
<1>1. /\ uow' = [m \in Nodes |-> IF m = n THEN u ELSE o(m)]
      /\ block' = block /\ ledger' = ledger /\ height' = height
  BY DEF FinishEndBlock
<1>2. Sound(v) /\ Covers(v, ledger, height)
  BY UowFields, MaxPausedSound
<1>3. UowOK(p, ledger, height)
  BY UowFields, UowStage DEF Stages
<1> HIDE DEF v, p
<1>4. UowOK(u, ledger, height)
  BY <1>2, <1>3, UowCopy
<1>5. ASSUME NEW m \in Nodes PROVE UowOK(o(m), ledger, height)
  <2>1. s(m) \in Stages
    BY UowFields DEF Stages
  <2> HIDE DEF s
  <2> QED
    BY <2>1, UowFields, UowStage
<1> HIDE DEF u, o
<1>6. \A m \in Nodes : UowOK(uow'[m], ledger, height)
  BY <1>1, <1>4, <1>5
<1> QED
  BY <1>1, <1>6 DEF IInv, UowOK

LEMMA CommitIInv ==
    ASSUME IInv, Commit
    PROVE  IInv'
<1> DEFINE v == uow["replica"].w
<1>1. /\ ledger' = v /\ height' = height + 1 /\ uow' = NewUnitOfWork(v)
      /\ block' = <<>> /\ height < MaxHeight
  BY DEF Commit
<1>2. Sound(v) /\ Covers(v, ledger, height)
  BY UowFields DEF Nodes
<1> HIDE DEF v
<1>3. height + 1 \in 1 .. MaxHeight /\ \A g \in Heights : g <= height => g <= height + 1
  BY <1>1, HeightFacts, SMT DEF IInv
<1>4. Covers(v, v, height + 1)
  BY <1>2, <1>3 DEF Covers
<1>5. \A n \in Nodes : UowOK(NewUnitOfWork(v)[n], v, height + 1)
  BY <1>2, <1>4, NewUnitOfWorkOK DEF UowOK
<1>6. NewUnitOfWork(v) = [n \in Nodes |-> NewUnitOfWork(v)[n]]
  BY DEF NewUnitOfWork
<1>7. <<>> \in Seq(Msgs)
  BY SMT
<1> QED
  BY <1>1, <1>2, <1>3, <1>5, <1>6, <1>7 DEF IInv, UowOK

LEMMA NextIInv == IInv /\ [Next]_vars => IInv'
<1> SUFFICES ASSUME IInv, [Next]_vars PROVE IInv'
  OBVIOUS
<1>1. CASE UNCHANGED vars
  BY <1>1 DEF vars, IInv
<1>2. CASE Next
  BY <1>2, ReapTxIInv, ApplyTxIInv, BeginEndBlockIInv, UnbondActorIInv,
     FinishEndBlockIInv, CommitIInv DEF Next
<1> QED
  BY <1>1, <1>2

\* No account is overdrawn, committed or in a working copy, although every
\* transaction of a block is checked against the balances of the block before
\* (handleMessageSend, handleStakeMessage and validateAndDeductTxFees set a
\* balance computed from the one they checked).
THEOREM NoOverdraftHolds == Spec => []NoOverdraft
<1>1. IInv => NoOverdraft
  <2> SUFFICES ASSUME IInv, NEW a \in Addrs
               PROVE  /\ ledger.acc[a] >= 0
                      /\ \A n \in Nodes : uow[n].w.acc[a] >= 0
    BY DEF NoOverdraft
  <2>1. ledger.acc[a] \in Nat /\ \A n \in Nodes : uow[n].w.acc[a] \in Nat
    BY DEF IInv, UowOK, Sound, SoundType
  <2> QED
    BY <2>1, SMT
<1> QED
  BY <1>1, InitIInv, NextIInv, PTL DEF Spec
-----------------------------------------------------------------------------
(* Blocks write at their own height: what is below it stays *)

\* The committed ledger has nothing at the height under construction.
Past(l, h) ==
    /\ \A a \in Actors, g \in Heights : l.rows[a][g] # Nil => g < h
    /\ \A k \in ParamKeys, g \in Heights : l.params[k][g] # Nil => g < h

ParamCopy(w, c, h) ==
    \A k \in ParamKeys, g \in Heights :
        /\ g < h => w.params[k][g] = c.params[k][g]
        /\ w.params[k][g] # Nil => g <= h

\* What a row says about unstaking is due to it or to an earlier row.
RowDue(w, a, g) ==
    w.rows[a][g] # Nil /\ w.rows[a][g].unstaking # NotUsed
      => \E f \in 0 .. g : Due(w, a, f, w.rows[a][g].unstaking)

ActorCopy(w, c, h, a) ==
    \A g \in Heights : /\ g < h => w.rows[a][g] = c.rows[a][g]
                       /\ RowDue(w, a, g)

\* The block that makes w of the committed ledger c writes that a's stake goes
\* back at u: at no height, after the unstaking period, or when it was due.
MayWrite(w, c, h, a, u) ==
    \/ u = NotUsed
    \/ u = getUnbondingHeight(c, ActorType[a], h)
    \/ \E f \in 0 .. h : Due(w, a, f, u)

Copy(w, c, h) == ParamCopy(w, c, h) /\ \A a \in Actors : ActorCopy(w, c, h, a)

\* A read sees nothing but what is at or below its height.
LEMMA SameReads ==
    ASSUME NEW t, NEW u, NEW h, \A g \in Heights : g <= h => t[g] = u[g]
    PROVE  /\ RowHeights(t, h) = RowHeights(u, h)
           /\ RowHeight(t, h) = RowHeight(u, h)
           /\ RowHeights(t, h) # {} => Select(t, h) = Select(u, h)
<1>1. RowHeights(t, h) = RowHeights(u, h)
  BY DEF RowHeights
<1>2. RowHeight(t, h) = RowHeight(u, h)
  BY <1>1 DEF RowHeight
<1>3. ASSUME RowHeights(t, h) # {} PROVE Select(t, h) = Select(u, h)
  <2>1. RowHeights(t, h) \subseteq Heights
    BY DEF RowHeights
  <2>2. RowHeight(t, h) \in RowHeights(t, h)
    BY <1>3, <2>1, Greatest DEF RowHeight
  <2> QED
    BY <1>2, <2>2 DEF RowHeights, Select
<1> QED
  BY <1>1, <1>2, <1>3

\* Nor does it matter how far above the last row a read is.
LEMMA ReadsAbove ==
    ASSUME NEW t, NEW h, NEW k, \A g \in Heights : t[g] # Nil => g <= h /\ g <= k
    PROVE  /\ RowHeights(t, h) = RowHeights(t, k)
           /\ Select(t, h) = Select(t, k)
<1>1. RowHeights(t, h) = RowHeights(t, k)
  BY DEF RowHeights
<1> QED
  BY <1>1 DEF Select, RowHeight

LEMMA SameParam ==
    ASSUME NEW l, Sound(l), NEW v, NEW k \in ParamKeys, NEW h \in Heights,
           \A g \in Heights : g <= h => v.params[k][g] = l.params[k][g]
    PROVE  GetParam(v, k, h) = GetParam(l, k, h)
<1>1. 0 \in RowHeights(l.params[k], h)
  BY HeightFacts DEF RowHeights, Sound
<1>2. Select(l.params[k], h) = Select(v.params[k], h)
  <2> DEFINE t == l.params[k]
             u == v.params[k]
  <2>1. \A g \in Heights : g <= h => t[g] = u[g]
    OBVIOUS
  <2>2. RowHeights(t, h) # {}
    BY <1>1
  <2> HIDE DEF t, u
  <2>3. Select(t, h) = Select(u, h)
    BY <2>1, <2>2, SameReads
  <2> QED
    BY <2>3 DEF t, u
<1> QED
  BY <1>2 DEF GetParam

LEMMA DueKept ==
    ASSUME NEW l, Sound(l), NEW v, NEW a \in Actors, NEW f \in Heights, NEW u, Due(l, a, f, u),
           v.rows[a][f] # Nil, v.rows[a][f].unstaking = u,
           SameBelow(v, l, f)
    PROVE  Due(v, a, f, u)
<1> DEFINE k == <<"unstaking_blocks", ActorType[a]>>
<1>1. k \in ParamKeys
  BY TypeKeys
<1> HIDE DEF k
<1>2. ASSUME f > 0 PROVE GetParam(v, k, f - 1) = GetParam(l, k, f - 1)
  <2>1. f - 1 \in Heights /\ \A g \in Heights : g <= f - 1 => g < f
    BY <1>2, HeightFacts, SMT DEF Heights
  <2> QED
    <3>1. \A g \in Heights : g <= f - 1 => v.params[k][g] = l.params[k][g]
      BY <1>1, <2>1 DEF SameBelow
    <3> QED
      BY <1>1, <2>1, <3>1, SameParam
<1> QED
  BY <1>2 DEF Due, k

\* The height that a block has a stake returned at
LEMMA DueNow ==
    ASSUME NEW c, Sound(c), NEW w, NEW h \in 1 .. MaxHeight, Past(c, h),
           ParamCopy(w, c, h), NEW a \in Actors,
           w.rows[a][h] # Nil,
           w.rows[a][h].unstaking = getUnbondingHeight(c, ActorType[a], h)
    PROVE  Due(w, a, h, w.rows[a][h].unstaking)
<1> DEFINE k == <<"unstaking_blocks", ActorType[a]>>
<1>1. k \in ParamKeys
  BY TypeKeys
<1> HIDE DEF k
<1>2. h - 1 \in Heights /\ \A g \in Heights : (g < h => g <= h - 1 /\ g <= h)
                                             /\ (g <= h - 1 => g < h)
  BY HeightFacts, SMT DEF Heights
<1>3. GetParam(c, k, h) = GetParam(c, k, h - 1)
  <2>1. \A g \in Heights : c.params[k][g] # Nil => g <= h /\ g <= h - 1
    BY <1>1, <1>2 DEF Past
  <2> QED
    BY <2>1, ReadsAbove DEF GetParam
<1>4. GetParam(w, k, h - 1) = GetParam(c, k, h - 1)
  BY <1>1, <1>2, SameParam, ZenonT(60) DEF ParamCopy
<1> QED
  BY <1>3, <1>4 DEF Due, getUnbondingHeight, k

\* A row that a block writes for an actor
LEMMA WriteActor ==
    ASSUME NEW c, Sound(c), NEW w, Sound(w), NEW v, NEW h \in 1 .. MaxHeight, Past(c, h),
           Covers(w, c, h), ParamCopy(w, c, h), NEW a \in Actors, ActorCopy(w, c, h, a),
           NEW row \in Row, v.rows[a][h] = row, v.params = w.params,
           \A g \in Heights : g # h => v.rows[a][g] = w.rows[a][g],
           MayWrite(w, c, h, a, row.unstaking)
    PROVE  ActorCopy(v, c, h, a)
<1>0. h \in Heights /\ h \in Nat
  BY HeightFacts
<1>1. /\ v.rows[a][h] = row /\ row # Nil
      /\ \A g \in Heights : g # h => v.rows[a][g] = w.rows[a][g]
  BY LedgerAssumption
<1>2. ASSUME NEW g \in Heights, g < h PROVE v.rows[a][g] = c.rows[a][g]
  <2>1. g # h
    BY <1>2, <1>0, SMT
  <2> QED
    BY <1>1, <1>2, <2>1 DEF ActorCopy
\* an earlier row that something is due to
<1>3. ASSUME NEW f \in 0 .. h, NEW u, Due(w, a, f, u), f = h => row.unstaking = u
      PROVE  Due(v, a, f, u)
  <2>1. f \in Heights
    BY <1>0, HeightFacts, SMT DEF Heights
  <2>2. v.rows[a][f] # Nil /\ v.rows[a][f].unstaking = u
    BY <1>1, <1>3, <2>1 DEF Due
  <2>3. SameBelow(v, w, f)
    BY DEF SameBelow
  <2> QED
    BY <1>3, <2>1, <2>2, <2>3, DueKept
<1>4. RowDue(v, a, h)
  <2>1. CASE row.unstaking = NotUsed
    BY <1>1, <2>1 DEF RowDue
  <2>2. CASE row.unstaking = getUnbondingHeight(c, ActorType[a], h)
    <3>1. ParamCopy(v, c, h)
      BY DEF ParamCopy
    <3>2. Due(v, a, h, row.unstaking)
      BY <1>1, <2>2, <3>1, DueNow
    <3>3. h \in 0 .. h
      BY <1>0, SMT
    <3> QED
      BY <1>1, <3>2, <3>3 DEF RowDue
  <2>3. CASE \E f \in 0 .. h : Due(w, a, f, row.unstaking)
    BY <1>1, <1>3, <2>3 DEF RowDue
  <2> QED
    BY <2>1, <2>2, <2>3 DEF MayWrite
<1>5. ASSUME NEW g \in Heights, g # h PROVE RowDue(v, a, g)
  <2>1. CASE v.rows[a][g] # Nil /\ v.rows[a][g].unstaking # NotUsed
    <3>1. v.rows[a][g] = w.rows[a][g] /\ g <= h
      BY <1>1, <1>5, <2>1 DEF Covers
    <3>2. PICK f \in 0 .. g : Due(w, a, f, w.rows[a][g].unstaking)
      BY <2>1, <3>1 DEF ActorCopy, RowDue
    <3>3. f \in 0 .. h /\ f # h
      BY <1>0, <1>5, <3>1, HeightFacts, SMT
    <3>4. Due(v, a, f, w.rows[a][g].unstaking)
      BY <1>3, <3>2, <3>3
    <3> QED
      BY <3>1, <3>4 DEF RowDue
  <2> QED
    BY <2>1 DEF RowDue
<1> QED
  BY <1>2, <1>4, <1>5 DEF ActorCopy

LEMMA SameActor ==
    ASSUME NEW w, NEW c, NEW h, NEW a, ActorCopy(w, c, h, a), NEW v,
           v.rows[a] = w.rows[a], v.params = w.params
    PROVE  ActorCopy(v, c, h, a)
BY DEF ActorCopy, RowDue, Due, GetParam

LEMMA SameCopy ==
    ASSUME NEW w, NEW c, NEW h, Copy(w, c, h), NEW v, SameTables(v, w)
    PROVE  Copy(v, c, h)
<1>1. ParamCopy(v, c, h)
  BY DEF Copy, ParamCopy, SameTables
<1>2. \A a \in Actors : ActorCopy(v, c, h, a)
  BY SameActor DEF Copy, SameTables
<1> QED
  BY <1>1, <1>2 DEF Copy

LEMMA WriteRowCopy ==
    ASSUME NEW c, Sound(c), NEW w, Sound(w), NEW h \in 1 .. MaxHeight, Past(c, h),
           Covers(w, c, h), Copy(w, c, h), NEW a \in Actors, NEW row \in Row,
           MayWrite(w, c, h, a, row.unstaking)
    PROVE  Copy(WriteRow(w, a, h, row), c, h)
<1> DEFINE v == WriteRow(w, a, h, row)
<1>0. h \in Heights
  BY HeightFacts
<1>2. /\ v.rows[a][h] = row
      /\ \A g \in Heights : g # h => v.rows[a][g] = w.rows[a][g]
      /\ \A b \in Actors : b # a => v.rows[b] = w.rows[b]
      /\ v.params = w.params
  BY <1>0, WriteRowAt, SMT
<1> HIDE DEF v
<1>3. ParamCopy(w, c, h) /\ \A b \in Actors : ActorCopy(w, c, h, b)
  BY DEF Copy
<1>4. ParamCopy(v, c, h)
  <2>1. v.params = w.params
    BY <1>2
  <2> QED
    BY <1>3, <2>1 DEF ParamCopy
<1>5. ActorCopy(v, c, h, a)
  BY <1>2, <1>3, WriteActor
<1>6. \A b \in Actors : b # a => ActorCopy(v, c, h, b)
  BY <1>2, <1>3, SameActor
<1> QED
  BY <1>4, <1>5, <1>6 DEF Copy, v

\* What the last row says about unstaking is due to it or to an earlier one.
LEMMA LastRowDue ==
    ASSUME NEW w, NEW k, NEW a \in Actors,
           \A g \in Heights : RowDue(w, a, g), Exists(w, a, k), NEW u,
           u = Select(w.rows[a], k).unstaking, u # NotUsed
    PROVE  \E g \in RowHeights(w.rows[a], k) : \E f \in 0 .. g : Due(w, a, f, u)
<1> DEFINE g == RowHeight(w.rows[a], k)
<1>1. g \in RowHeights(w.rows[a], k)
  <2>1. RowHeights(w.rows[a], k) \subseteq Heights /\ RowHeights(w.rows[a], k) # {}
    BY DEF RowHeights, Exists
  <2> QED
    BY <2>1, Greatest DEF RowHeight
<1>2. u = w.rows[a][g].unstaking
  BY DEF Select
<1> HIDE DEF g
<1>3. g \in Heights /\ w.rows[a][g] # Nil
  BY <1>1 DEF RowHeights
<1>4. \E f \in 0 .. g : Due(w, a, f, u)
  BY <1>2, <1>3 DEF RowDue
<1> QED
  BY <1>1, <1>4

LEMMA UpdateRowCopy ==
    ASSUME NEW c, Sound(c), NEW w, Sound(w), NEW h \in 1 .. MaxHeight, Past(c, h),
           Covers(w, c, h), Copy(w, c, h), NEW a \in Actors, Exists(w, a, h),
           NEW col, NEW x \in {NotUsed} \cup Nat,
           \/ col = "unstaking" /\ x = getUnbondingHeight(c, ActorType[a], h)
           \/ col = "paused"
    PROVE  Copy(UpdateRow(w, a, h, col, x), c, h)
<1>0. h \in Heights /\ col \in {"paused", "unstaking"}
  BY HeightFacts
<1>1. PICK row \in Row :
        /\ UpdateRow(w, a, h, col, x) = WriteRow(w, a, h, row)
        /\ row.unstaking = IF col = "unstaking" THEN x ELSE Select(w.rows[a], h).unstaking
  BY <1>0, UpdateRowFacts, ZenonT(60)
<1>2. MayWrite(w, c, h, a, row.unstaking)
  <2>1. CASE col = "unstaking"
    BY <1>1, <2>1 DEF MayWrite
  <2>2. CASE col = "paused"
    <3>1. row.unstaking = Select(w.rows[a], h).unstaking
      BY <1>1, <2>2
    <3>2. CASE row.unstaking # NotUsed
      <4>1. \A g \in Heights : RowDue(w, a, g)
        BY DEF Copy, ActorCopy
      <4>2. PICK g \in RowHeights(w.rows[a], h) : \E f \in 0 .. g : Due(w, a, f, row.unstaking)
        BY <3>1, <3>2, <4>1, LastRowDue
      <4>3. g \in Heights /\ g <= h
        BY DEF RowHeights
      <4>4. \A f \in 0 .. g : f \in 0 .. h
        BY <1>0, <4>3, HeightFacts, SMT
      <4> QED
        BY <4>2, <4>4 DEF MayWrite
    <3> QED
      BY <3>2 DEF MayWrite
  <2> QED
    BY <2>1, <2>2
<1>3. Copy(WriteRow(w, a, h, row), c, h)
  BY <1>2, WriteRowCopy
<1> QED
  BY <1>1, <1>3

LEMMA WriteParamCopy ==
    ASSUME NEW c, NEW w, Sound(w), NEW h \in 1 .. MaxHeight,
           Covers(w, c, h), Copy(w, c, h), NEW v, v.rows = w.rows,
           OtherHeights(v, w, h)
    PROVE  Copy(v, c, h)
<1>0. h \in Heights /\ h \in Nat
  BY HeightFacts
<1>1. \A k \in ParamKeys, g \in Heights : g # h => v.params[k][g] = w.params[k][g]
  BY DEF OtherHeights
<1>2. ParamCopy(v, c, h)
  <2>1. \A g \in Heights : (g < h => g # h) /\ (g = h => g <= h)
    BY <1>0, SMT
  <2>2. ASSUME NEW k \in ParamKeys, NEW g \in Heights
        PROVE  /\ g < h => v.params[k][g] = c.params[k][g]
               /\ v.params[k][g] # Nil => g <= h
    <3>1. /\ g < h => w.params[k][g] = c.params[k][g]
          /\ w.params[k][g] # Nil => g <= h
      BY DEF Copy, ParamCopy
    <3>2. g # h => v.params[k][g] = w.params[k][g]
      BY <1>1
    <3> QED
      BY <2>1, <3>1, <3>2
  <2> QED
    BY <2>2 DEF ParamCopy
<1>3. ASSUME NEW a \in Actors, NEW g \in Heights PROVE RowDue(v, a, g)
  <2>1. CASE w.rows[a][g] # Nil /\ w.rows[a][g].unstaking # NotUsed
    <3>1. PICK f \in 0 .. g : Due(w, a, f, w.rows[a][g].unstaking)
      BY <2>1 DEF Copy, ActorCopy, RowDue
    <3>2. g <= h
      BY <2>1 DEF Covers
    <3>3. f \in Heights /\ \A k \in Heights : k < f => k # h
      BY <1>0, <3>2, HeightFacts, SMT DEF Heights
    <3>4. Due(v, a, f, w.rows[a][g].unstaking)
      <4>1. v.rows[a][f] # Nil /\ v.rows[a][f].unstaking = w.rows[a][g].unstaking
        BY <3>1 DEF Due
      <4>2. SameBelow(v, w, f)
        BY <1>1, <3>3 DEF SameBelow
      <4> QED
        BY <3>1, <3>3, <4>1, <4>2, DueKept
    <3> QED
      BY <3>4 DEF RowDue
  <2> QED
    BY <2>1 DEF RowDue
<1>4. \A a \in Actors : ActorCopy(v, c, h, a)
  BY <1>3 DEF Copy, ActorCopy
<1> QED
  BY <1>2, <1>4 DEF Copy

\* A block under construction on a committed ledger
Base(c, h) == Sound(c) /\ h \in 1 .. MaxHeight /\ Past(c, h)

Builds(w, c, h) == Sound(w) /\ Covers(w, c, h) /\ Copy(w, c, h)

LEMMA BaseHeight ==
    ASSUME NEW c, NEW h, Base(c, h)
    PROVE  h \in Heights
BY HeightFacts DEF Base

LEMMA SameTablesBuild ==
    ASSUME NEW c, NEW h, NEW w, Builds(w, c, h), NEW v, Sound(v), SameTables(v, w)
    PROVE  Builds(v, c, h)
<1>1. Covers(v, c, h)
  BY SameRowsCover DEF Builds, SameTables
<1>2. Copy(v, c, h)
  BY SameCopy DEF Builds
<1> QED
  BY <1>1, <1>2 DEF Builds

LEMMA StakeBuilds ==
    ASSUME NEW c, NEW h, Base(c, h), NEW w, Builds(w, c, h), NEW m \in Msgs, m.type = "stake"
    PROVE  Builds(handleStakeMessage(c, w, m, h), c, h)
<1>0. Sound(c) /\ Sound(w) /\ h \in Heights /\ h \in 1 .. MaxHeight /\ Past(c, h)
  BY BaseHeight DEF Base, Builds
<1>1. CASE handleStakeMessage(c, w, m, h) = w
  BY <1>1
<1>2. CASE handleStakeMessage(c, w, m, h) # w
  <2>1. PICK v, row :
          /\ handleStakeMessage(c, w, m, h) = WriteRow(v, m.actor, h, row)
          /\ Sound(v) /\ v.rows = w.rows /\ v.params = w.params
          /\ row \in Row /\ row.unstaking = NotUsed /\ m.actor \in Actors
    BY <1>0, <1>2, StakeFacts, ZenonT(60)
  <2>2. Builds(v, c, h)
    BY <2>1, SameTablesBuild DEF SameTables
  <2>3. Covers(v, c, h) /\ Copy(v, c, h) /\ MayWrite(v, c, h, m.actor, row.unstaking)
    BY <2>1, <2>2 DEF Builds, MayWrite
  <2>4. Sound(WriteRow(v, m.actor, h, row)) /\ Covers(WriteRow(v, m.actor, h, row), c, h)
    BY <1>0, <2>1, <2>3, WriteRowSound
  <2>5. Copy(WriteRow(v, m.actor, h, row), c, h)
    BY <1>0, <2>1, <2>3, WriteRowCopy
  <2> QED
    BY <2>1, <2>4, <2>5 DEF Builds
<1> QED
  BY <1>1, <1>2

\* Unstaking and unpausing write to the row of an actor that exists.
LEMMA UpdateBuilds ==
    ASSUME NEW c, NEW h, Base(c, h), NEW w, Builds(w, c, h), NEW a \in Actors, Exists(w, a, h),
           NEW col, NEW x,
           \/ col = "unstaking" /\ x = getUnbondingHeight(c, ActorType[a], h)
           \/ col = "paused" /\ x = NotUsed
    PROVE  Builds(UpdateRow(w, a, h, col, x), c, h)
<1>0. /\ Sound(c) /\ h \in Heights /\ h \in 1 .. MaxHeight /\ Past(c, h)
      /\ Sound(w) /\ Covers(w, c, h) /\ Copy(w, c, h)
  BY BaseHeight DEF Base, Builds
<1>1. col \in {"paused", "unstaking"} /\ x \in {NotUsed} \cup Nat
  BY <1>0, UnbondingHeightNat
<1>2. \/ col = "unstaking" /\ x = getUnbondingHeight(c, ActorType[a], h)
      \/ col = "paused"
  OBVIOUS
<1>3. Sound(UpdateRow(w, a, h, col, x)) /\ Covers(UpdateRow(w, a, h, col, x), c, h)
  BY <1>0, <1>1, UpdateRowSound
<1>4. Copy(UpdateRow(w, a, h, col, x), c, h)
  BY <1>0, <1>1, <1>2, UpdateRowCopy
<1> QED
  BY <1>3, <1>4 DEF Builds

LEMMA TransactionBuilds ==
    ASSUME NEW c, NEW h, Base(c, h), NEW w, Builds(w, c, h), NEW m \in Msgs, ValidTx(c, m, h)
    PROVE  Builds(HandleTransaction(c, w, m, h), c, h)
<1> DEFINE v == DeductFee(c, w, m, h)
           u == handleMessage(c, v, m, h)
<1>0. /\ Sound(c) /\ h \in Heights /\ h \in 1 .. MaxHeight
      /\ Sound(w) /\ Covers(w, c, h)
  BY BaseHeight DEF Base, Builds
<1>1. Builds(v, c, h)
  BY <1>0, DeductFeeSound, SameTablesBuild
<1>a. Sound(v) /\ Covers(v, c, h) /\ HandleTransaction(c, w, m, h) = u
  BY <1>1 DEF Builds, HandleTransaction
<1> HIDE DEF v
<1> SUFFICES Builds(u, c, h)
  BY <1>a
<1>2. CASE m.type = "send"
  <2>1. u = handleMessageSend(c, v, m)
    BY <1>2, SMT DEF handleMessage
  <2>2. Sound(handleMessageSend(c, v, m)) /\ SameTables(handleMessageSend(c, v, m), v)
    BY <1>0, <1>2, <1>a, SendSound
  <2> QED
    BY <1>1, <2>1, <2>2, SameTablesBuild
<1>3. CASE m.type = "stake"
  <2>1. u = handleStakeMessage(c, v, m, h)
    BY <1>3, SMT DEF handleMessage
  <2> QED
    BY <1>1, <1>3, <2>1, StakeBuilds
<1>4. CASE m.type \in {"unstake", "unpause"}
  <2>1. m.actor \in Actors /\ Exists(v, m.actor, h)
    BY <1>4, <1>a, SignerExists, ExistsInCopy
  <2>2. CASE m.type = "unstake"
    <3> DEFINE x == getUnbondingHeight(c, ActorType[m.actor], h)
    <3>1. u = handleUnstakeMessage(c, v, m, h)
      BY <2>2, SMT DEF handleMessage
    <3>2. u = UpdateRow(v, m.actor, h, "unstaking", x) \/ u = v
      BY <3>1 DEF handleUnstakeMessage, setActorUnbondingHeight
    <3> HIDE DEF u
    <3>3. Builds(UpdateRow(v, m.actor, h, "unstaking", x), c, h)
      BY <1>1, <2>1, UpdateBuilds
    <3> QED
      BY <1>1, <3>2, <3>3
  <2>3. CASE m.type = "unpause"
    <3>1. u = handleUnpauseMessage(c, v, m, h)
      BY <2>3, SMT DEF handleMessage
    <3>2. u = UpdateRow(v, m.actor, h, "paused", NotUsed) \/ u = v
      BY <3>1 DEF handleUnpauseMessage, setActorPausedHeight
    <3> HIDE DEF u
    <3>3. Builds(UpdateRow(v, m.actor, h, "paused", NotUsed), c, h)
      BY <1>1, <2>1, UpdateBuilds
    <3> QED
      BY <1>1, <3>2, <3>3
  <2> QED
    BY <1>4, <2>2, <2>3
<1>6. CASE m.type = "change_parameter"
  <2> DEFINE p == handleMessageChangeParameter(v, m, h)
  <2>1. u = p
    BY <1>6, SMT DEF handleMessage
  <2>2. /\ m.key \in ParamKeys /\ m.value \in Nat /\ (m.key = CutKey => m.value <= 100)
        /\ m.key = BlocksKey => m.value > 0
    BY <1>6, MsgsAssumption
  <2>3. Sound(p) /\ p.rows = v.rows
        /\ OtherHeights(p, v, h)
    BY <1>0, <1>a, <2>2, WriteParamSound
  <2> HIDE DEF p
  <2>4. Copy(v, c, h)
    BY <1>1 DEF Builds
  <2>5. Copy(p, c, h)
    BY <1>0, <1>a, <2>2, <2>3, <2>4, WriteParamCopy
  <2>6. Covers(p, c, h)
    BY <1>a, <2>3, SameRowsCover
  <2> QED
    BY <2>1, <2>3, <2>5, <2>6 DEF Builds
<1>7. CASE m.type = "edit_stake"
  <2>1. SignerCandidates(c, m, h) = {}
    BY <1>7, SMT DEF SignerCandidates
  <2> QED
    BY <2>1 DEF ValidTx
<1>8. CASE m.type \notin {"send", "stake", "edit_stake", "unstake", "unpause",
                        "change_parameter"}
  <2>1. u = v
    BY <1>8, SMT DEF handleMessage
  <2> QED
    BY <1>1, <2>1
<1> QED
  BY <1>2, <1>3, <1>4, <1>6, <1>7, <1>8

LEMMA RewardsBuild ==
    ASSUME NEW c, NEW h, Base(c, h), NEW w, Builds(w, c, h)
    PROVE  Builds(handleProposerRewards(c, w, h), c, h)
<1>1. Sound(c) /\ Sound(w) /\ h \in Heights /\ Covers(w, c, h)
  BY BaseHeight DEF Base, Builds
<1>2. /\ Sound(handleProposerRewards(c, w, h))
      /\ SameTables(handleProposerRewards(c, w, h), w)
  BY <1>1, RewardsSound
<1> QED
  BY <1>2, SameTablesBuild

LEMMA UnbondBuilds ==
    ASSUME NEW c, NEW h, Base(c, h), NEW w, Builds(w, c, h),
           NEW a \in Actors, Exists(c, a, MaxHeight)
    PROVE  Builds(Unbond(c, w, a, h), c, h)
<1>1. Sound(c) /\ Sound(w) /\ h \in Heights /\ Covers(w, c, h)
  BY BaseHeight DEF Base, Builds
<1>2. Sound(Unbond(c, w, a, h)) /\ SameTables(Unbond(c, w, a, h), w)
  BY <1>1, UnbondSound
<1> QED
  BY <1>2, SameTablesBuild

LEMMA MaxPausedBuilds ==
    ASSUME NEW c, NEW h, Base(c, h), NEW w, Builds(w, c, h)
    PROVE  Builds(beginUnstakingMaxPausedActors(c, w, h), c, h)
<1> DEFINE u == beginUnstakingMaxPausedActors(c, w, h)
<1>0. /\ Sound(c) /\ h \in Heights /\ h \in 1 .. MaxHeight /\ Past(c, h)
      /\ Sound(w) /\ Covers(w, c, h) /\ Copy(w, c, h)
  BY BaseHeight DEF Base, Builds
<1>1. Sound(u) /\ Covers(u, c, h) /\ u.params = w.params /\ PausedRows(u, c, w, h)
  BY <1>0, MaxPausedSound
<1> HIDE DEF u
<1>2. ParamCopy(u, c, h)
  BY <1>0, <1>1 DEF Copy, ParamCopy
<1>3. ASSUME NEW a \in Actors PROVE ActorCopy(u, c, h, a)
  <2> DEFINE v == UpdateRow(w, a, h, "unstaking", getUnbondingHeight(c, ActorType[a], h))
  <2>1. ActorCopy(w, c, h, a)
    BY <1>0 DEF Copy
  <2>2. CASE u.rows[a] = w.rows[a]
    BY <1>1, <2>1, <2>2, SameActor
  <2>3. CASE Exists(w, a, MaxHeight) /\ u.rows[a] = v.rows[a]
    <3>1. Exists(w, a, h)
      BY <1>0, <2>3, ExistsNow
    <3>2. getUnbondingHeight(c, ActorType[a], h) \in {NotUsed} \cup Nat
      BY <1>0, UnbondingHeightNat
    <3>3. PICK row \in Row :
            /\ v = WriteRow(w, a, h, row)
            /\ row.unstaking = getUnbondingHeight(c, ActorType[a], h)
      BY <1>0, <3>1, <3>2, UpdateRowFacts, ZenonT(60)
    <3> HIDE DEF v
    <3>4. /\ u.rows[a][h] = row
          /\ \A g \in Heights : g # h => u.rows[a][g] = w.rows[a][g]
      <4>1. /\ WriteRow(w, a, h, row).rows[a][h] = row
            /\ \A g \in Heights : g # h => WriteRow(w, a, h, row).rows[a][g] = w.rows[a][g]
        BY <1>0, WriteRowAt, SMT
      <4> QED
        BY <2>3, <3>3, <4>1
    <3>5. ParamCopy(w, c, h) /\ MayWrite(w, c, h, a, row.unstaking)
      BY <1>0, <3>3 DEF Copy, MayWrite
    <3> QED
      BY <1>0, <1>1, <2>1, <3>4, <3>5, WriteActor
  <2> QED
    BY <1>1, <2>2, <2>3 DEF PausedRows
<1>4. Copy(u, c, h)
  BY <1>2, <1>3 DEF Copy
<1> QED
  BY <1>1, <1>4 DEF Builds, u

-----------------------------------------------------------------------------
(* What the steps do to the units of work *)

LEMMA OneNode ==
    ASSUME IInv, NEW n \in Nodes, NEW u, uow' = [uow EXCEPT ![n] = u]
    PROVE  uow'[n] = u /\ \A k \in Nodes : k # n => uow'[k] = uow[k]
BY DEF IInv

LEMMA NodeNames == "leader" \in Nodes /\ "replica" \in Nodes /\ "leader" # "replica"
BY DEF Nodes

LEMMA UowRecord ==
    ASSUME IInv, NEW n \in Nodes
    PROVE  uow[n] \in [stage : Stages, w : SoundType, next : Nat \ {0}, todo : SUBSET Actors]
BY DEF IInv, UowOK

SameLedger == ledger' = ledger /\ height' = height

LEMMA ReapTxEffect ==
    ASSUME IInv, NEW m \in Msgs, ReapTx(m)
    PROVE  /\ SameLedger /\ paid' = paid
           /\ uow["leader"].stage = "reap" /\ uow'["leader"].stage = "reap"
           /\ uow'["replica"] = uow["replica"]
           /\ \/ block' = block /\ uow' = uow
              \/ /\ ValidTx(ledger, m, height) /\ block' = Append(block, m)
                 /\ uow'["leader"].w = HandleTransaction(ledger, uow["leader"].w, m, height)
<1> DEFINE n == "leader"
           v == HandleTransaction(ledger, uow[n].w, m, height)
           u == [uow[n] EXCEPT !.w = v]
<1>1. SameLedger /\ paid' = paid /\ uow[n].stage = "reap"
  BY DEF ReapTx, SameLedger
<1>2. CASE ~ ValidTx(ledger, m, height)
  <2>1. block' = block /\ uow' = uow
    BY <1>2 DEF ReapTx
  <2> QED
    BY <1>1, <2>1
<1>3. CASE ValidTx(ledger, m, height)
  <2>1. uow' = [uow EXCEPT ![n] = u] /\ block' = Append(block, m)
    BY <1>3 DEF ReapTx
  <2> HIDE DEF v, u
  <2>2. uow'[n] = u /\ uow'["replica"] = uow["replica"]
    BY <2>1, NodeNames, OneNode
  <2>3. u.w = v /\ u.stage = uow[n].stage
    BY NodeNames, UowRecord, SMT DEF u
  <2> QED
    BY <1>1, <1>3, <2>1, <2>2, <2>3 DEF v
<1> QED
  BY <1>2, <1>3

LEMMA ApplyTxEffect ==
    ASSUME IInv, ApplyTx
    PROVE  /\ SameLedger /\ paid' = paid /\ block' = block
           /\ uow["replica"].stage = "apply" /\ uow["replica"].next \in 1 .. Len(block)
           /\ uow'["leader"] = uow["leader"]
           /\ \/ /\ ~ ValidTx(ledger, block[uow["replica"].next], height)
                 /\ uow'["replica"].stage = "failed" /\ uow'["replica"].w = uow["replica"].w
              \/ /\ ValidTx(ledger, block[uow["replica"].next], height)
                 /\ uow'["replica"].stage = "apply"
                 /\ uow'["replica"].next = uow["replica"].next + 1
                 /\ uow'["replica"].w = HandleTransaction(ledger, uow["replica"].w,
                                          block[uow["replica"].next], height)
<1> DEFINE n == "replica"
           k == uow[n].next
           m == block[k]
           v == HandleTransaction(ledger, uow[n].w, m, height)
           u == IF ValidTx(ledger, m, height)
                THEN [uow[n] EXCEPT !.w = v, !.next = k + 1]
                ELSE [uow[n] EXCEPT !.stage = "failed"]
<1>1. /\ uow' = [uow EXCEPT ![n] = u] /\ block' = block /\ paid' = paid
      /\ SameLedger /\ k <= Len(block) /\ uow[n].stage = "apply"
  BY DEF ApplyTx, SameLedger
<1>2. k \in Nat \ {0} /\ Len(block) \in Nat
  <2>1. k \in Nat \ {0}
    BY NodeNames, UowFields
  <2>2. Len(block) \in Nat
    BY SMT DEF IInv
  <2> QED
    BY <2>1, <2>2
<1> HIDE DEF k
<1>3. k \in 1 .. Len(block)
  BY <1>1, <1>2, SMT
<1>4. uow'[n] = u /\ uow'["leader"] = uow["leader"]
  <2> HIDE DEF u
  <2> QED
    BY <1>1, NodeNames, OneNode
<1>5. CASE ~ ValidTx(ledger, m, height)
  <2>1. u = [uow[n] EXCEPT !.stage = "failed"]
    BY <1>5
  <2> HIDE DEF u
  <2>2. u.stage = "failed" /\ u.w = uow[n].w
    BY <2>1, NodeNames, UowRecord, SMT
  <2> QED
    BY <1>1, <1>3, <1>4, <1>5, <2>2 DEF k
<1>6. CASE ValidTx(ledger, m, height)
  <2>1. u = [uow[n] EXCEPT !.w = v, !.next = k + 1]
    BY <1>6
  <2> HIDE DEF u, v, m
  <2>2. u.stage = uow[n].stage /\ u.w = v /\ u.next = k + 1
    BY <2>1, NodeNames, UowRecord, SMT
  <2> QED
    BY <1>1, <1>3, <1>4, <1>6, <2>2 DEF k, v, m
<1> QED
  BY <1>5, <1>6

LEMMA BeginEffect ==
    ASSUME IInv, NEW n \in Nodes, BeginEndBlock(n)
    PROVE  /\ SameLedger /\ paid' = paid /\ block' = block
           /\ \/ n = "leader" /\ uow[n].stage = "reap"
              \/ n = "replica" /\ uow[n].stage = "apply" /\ uow[n].next > Len(block)
           /\ uow'[n].stage = "unbond"
           /\ uow'[n].w = handleProposerRewards(ledger, uow[n].w, height)
           /\ uow'[n].todo = ReadyToUnstake(ledger, height)
           /\ \A k \in Nodes : k # n => uow'[k] = uow[k]
<1> DEFINE v == handleProposerRewards(ledger, uow[n].w, height)
           t == ReadyToUnstake(ledger, height)
           u == [uow[n] EXCEPT !.stage = "unbond", !.w = v, !.todo = t]
<1>1. /\ uow' = [uow EXCEPT ![n] = u] /\ block' = block /\ paid' = paid /\ SameLedger
      /\ \/ n = "leader" /\ uow[n].stage = "reap"
         \/ n = "replica" /\ uow[n].stage = "apply" /\ uow[n].next > Len(block)
  BY DEF BeginEndBlock, SameLedger
<1> HIDE DEF v, t
<1>2. u.stage = "unbond" /\ u.w = v /\ u.todo = t
  BY UowRecord, SMT
<1> HIDE DEF u
<1>3. uow'[n] = u /\ \A k \in Nodes : k # n => uow'[k] = uow[k]
  BY <1>1, OneNode
<1> QED
  BY <1>1, <1>2, <1>3 DEF v, t

LEMMA UnbondEffect ==
    ASSUME IInv, NEW n \in Nodes, NEW a \in Actors, UnbondActor(n, a)
    PROVE  /\ SameLedger /\ block' = block
           /\ paid' = IF n = "leader" THEN [paid EXCEPT ![a] = @ \cup {height}] ELSE paid
           /\ uow[n].stage = "unbond" /\ a \in uow[n].todo
           /\ uow'[n].stage = "unbond" /\ uow'[n].todo = uow[n].todo \ {a}
           /\ uow'[n].w = Unbond(ledger, uow[n].w, a, height)
           /\ \A k \in Nodes : k # n => uow'[k] = uow[k]
<1> DEFINE v == Unbond(ledger, uow[n].w, a, height)
           t == uow[n].todo \ {a}
           u == [uow[n] EXCEPT !.w = v, !.todo = t]
<1>1. /\ uow' = [uow EXCEPT ![n] = u] /\ block' = block /\ SameLedger
      /\ paid' = IF n = "leader" THEN [paid EXCEPT ![a] = @ \cup {height}] ELSE paid
      /\ uow[n].stage = "unbond" /\ a \in uow[n].todo
  BY DEF UnbondActor, SameLedger
<1> HIDE DEF v, t
<1>2. u.stage = uow[n].stage /\ u.w = v /\ u.todo = t
  BY UowRecord, SMT
<1> HIDE DEF u
<1>3. uow'[n] = u /\ \A k \in Nodes : k # n => uow'[k] = uow[k]
  BY <1>1, OneNode
<1> QED
  BY <1>1, <1>2, <1>3 DEF v, t

LEMMA FinishEffect ==
    ASSUME IInv, NEW n \in Nodes, FinishEndBlock(n)
    PROVE  /\ SameLedger /\ paid' = paid /\ block' = block
           /\ uow[n].stage = "unbond" /\ uow[n].todo = {}
           /\ uow'[n].stage = "done"
           /\ uow'[n].w = beginUnstakingMaxPausedActors(ledger, uow[n].w, height)
           /\ \A k \in Nodes : k # n =>
                /\ n = "leader" => uow'[k].stage = "apply"
                /\ n = "replica" => uow'[k].stage = uow[k].stage
                /\ uow'[k].w = uow[k].w /\ uow'[k].next = uow[k].next
                /\ uow'[k].todo = uow[k].todo
<1> DEFINE v == beginUnstakingMaxPausedActors(ledger, uow[n].w, height)
           u == [uow[n] EXCEPT !.stage = "done", !.w = v]
           s(k) == IF n = "leader" THEN "apply" ELSE uow[k].stage
           o(k) == [uow[k] EXCEPT !.stage = s(k)]
<1>1. /\ uow' = [k \in Nodes |-> IF k = n THEN u ELSE o(k)]
      /\ block' = block /\ SameLedger /\ paid' = paid
      /\ uow[n].stage = "unbond" /\ uow[n].todo = {}
  BY DEF FinishEndBlock, SameLedger
<1> HIDE DEF v
<1>2. u.stage = "done" /\ u.w = v
  BY UowRecord, SMT
<1> HIDE DEF u
<1>3. ASSUME NEW k \in Nodes
      PROVE  /\ o(k).stage = s(k) /\ o(k).w = uow[k].w /\ o(k).next = uow[k].next
             /\ o(k).todo = uow[k].todo
  <2> HIDE DEF s
  <2> QED
    BY UowRecord, SMT
<1> HIDE DEF o
<1>4. uow'[n] = u /\ \A k \in Nodes : k # n => uow'[k] = o(k)
  BY <1>1
<1>5. \A k \in Nodes : k # n =>
        /\ uow'[k].stage = s(k) /\ uow'[k].w = uow[k].w /\ uow'[k].next = uow[k].next
        /\ uow'[k].todo = uow[k].todo
  BY <1>3, <1>4
<1> QED
  BY <1>1, <1>2, <1>4, <1>5, NodeNames DEF v, s

LEMMA CommitEffect ==
    ASSUME IInv, Commit
    PROVE  /\ height < MaxHeight /\ height' = height + 1
           /\ \A n \in Nodes : uow[n].stage = "done"
           /\ ledger' = uow["replica"].w /\ block' = <<>> /\ paid' = paid
           /\ uow'["leader"].stage = "reap" /\ uow'["replica"].stage = "wait"
           /\ \A n \in Nodes : /\ uow'[n].w = ledger' /\ uow'[n].next = 1
                               /\ uow'[n].todo = {}
<1>1. /\ height < MaxHeight /\ height' = height + 1
      /\ \A n \in Nodes : uow[n].stage = "done"
      /\ ledger' = uow["replica"].w /\ block' = <<>> /\ paid' = paid
      /\ uow' = NewUnitOfWork(ledger')
  BY DEF Commit
<1>2. ASSUME NEW n \in Nodes
      PROVE  uow'[n] = [stage |-> IF n = "leader" THEN "reap" ELSE "wait",
                        w |-> ledger', next |-> 1, todo |-> {}]
  BY <1>1 DEF NewUnitOfWork
<1>3. ASSUME NEW n \in Nodes
      PROVE  /\ uow'[n].stage = IF n = "leader" THEN "reap" ELSE "wait"
             /\ uow'[n].w = ledger' /\ uow'[n].next = 1 /\ uow'[n].todo = {}
  <2> DEFINE s == IF n = "leader" THEN "reap" ELSE "wait"
  <2>1. uow'[n] = [stage |-> s, w |-> ledger', next |-> 1, todo |-> {}]
    BY <1>2
  <2> HIDE DEF s
  <2>2. /\ uow'[n].stage = s /\ uow'[n].w = ledger' /\ uow'[n].next = 1
        /\ uow'[n].todo = {}
    BY <2>1, SMT
  <2> QED
    BY <2>2 DEF s
<1> QED
  BY <1>1, <1>3, NodeNames

-----------------------------------------------------------------------------
(* The history of the ledger *)

History ==
    /\ Base(ledger, height)
    /\ Builds(ledger, ledger, height)
    /\ \A n \in Nodes : Builds(uow[n].w, ledger, height)

LEMMA HistoryInit == Init => History
<1> SUFFICES ASSUME Init PROVE History
  OBVIOUS
<1> DEFINE l == GenesisLedger
<1>1. /\ \A a \in Actors, g \in Heights : l.rows[a][g] = IF g = 0 THEN GenesisRows[a] ELSE Nil
      /\ \A k \in ParamKeys, g \in Heights :
           l.params[k][g] = IF g = 0 THEN GenesisParams[k] ELSE Nil
  BY AtGenesisAt DEF GenesisLedger
<1>2. ledger = l /\ height = 1 /\ \A n \in Nodes : uow[n].w = l
  BY GenesisSound, NewUnitOfWorkOK DEF Init
<1>3. Sound(l) /\ Covers(l, l, 1)
  BY GenesisSound
<1> HIDE DEF l
<1>4. 1 \in 1 .. MaxHeight /\ 0 < 1 /\ 0 <= 1 /\ 0 \in 0 .. 0 /\ ~(0 > 0)
  BY HeightFacts, SMT
<1>5. Past(l, 1)
  BY <1>1, <1>4 DEF Past
<1>6. ParamCopy(l, l, 1)
  BY <1>1, <1>4 DEF ParamCopy
<1>7. ASSUME NEW a \in Actors PROVE ActorCopy(l, l, 1, a)
  <2>1. ASSUME NEW g \in Heights, l.rows[a][g] # Nil
        PROVE  g = 0 /\ Due(l, a, 0, l.rows[a][0].unstaking)
    BY <1>1, <1>4, <2>1 DEF Due
  <2>2. \A g \in Heights : RowDue(l, a, g)
    BY <1>4, <2>1 DEF RowDue
  <2> QED
    BY <2>2 DEF ActorCopy
<1>8. Copy(l, l, 1)
  BY <1>6, <1>7 DEF Copy
<1> QED
  BY <1>2, <1>3, <1>4, <1>5, <1>8 DEF History, Base, Builds

\* A block is committed: its working copy is the ledger of the next height.
LEMMA HistoryCommit ==
    ASSUME NEW c, NEW h, Base(c, h), NEW w, Builds(w, c, h), h < MaxHeight
    PROVE  Base(w, h + 1) /\ Builds(w, w, h + 1)
<1>1. h + 1 \in 1 .. MaxHeight /\ \A g \in Heights : g <= h => g < h + 1 /\ g <= h + 1
  BY HeightFacts, SMT DEF Base
<1>2. Sound(w) /\ Covers(w, c, h) /\ ParamCopy(w, c, h)
      /\ \A a \in Actors : ActorCopy(w, c, h, a)
  BY DEF Builds, Copy
<1>3. Past(w, h + 1)
  BY <1>1, <1>2 DEF Past, Covers, ParamCopy
<1>4. Covers(w, w, h + 1)
  BY <1>1, <1>2 DEF Covers
<1>5. ParamCopy(w, w, h + 1)
  BY <1>1, <1>2 DEF ParamCopy
<1>6. \A a \in Actors : ActorCopy(w, w, h + 1, a)
  BY <1>2 DEF ActorCopy
<1> QED
  BY <1>1, <1>2, <1>3, <1>4, <1>5, <1>6 DEF Base, Builds, Copy

LEMMA HistorySame ==
    ASSUME History, SameLedger, \A n \in Nodes : Builds(uow'[n].w, ledger, height)
    PROVE  History'
BY DEF History, SameLedger

LEMMA HistoryNext == IInv /\ History /\ [Next]_vars => History'
<1> SUFFICES ASSUME IInv, History, [Next]_vars PROVE History'
  OBVIOUS
<1>0. Base(ledger, height) /\ \A n \in Nodes : Builds(uow[n].w, ledger, height)
  BY DEF History
<1>a. \A n \in Nodes : n = "leader" \/ n = "replica"
  BY DEF Nodes
<1>1. ASSUME NEW m \in Msgs, ReapTx(m) PROVE History'
  <2>1. Builds(HandleTransaction(ledger, uow["leader"].w, m, height), ledger, height)
        \/ ~ ValidTx(ledger, m, height)
    BY <1>0, NodeNames, TransactionBuilds
  <2>2. \A n \in Nodes : Builds(uow'[n].w, ledger, height)
    BY <1>0, <1>1, <1>a, <2>1, ReapTxEffect
  <2> QED
    BY <1>1, <2>2, ReapTxEffect, HistorySame
<1>2. CASE ApplyTx
  <2> DEFINE m == block[uow["replica"].next]
  <2>1. m \in Msgs
    BY <1>2, ApplyTxEffect, SMT DEF IInv
  <2>2. Builds(HandleTransaction(ledger, uow["replica"].w, m, height), ledger, height)
        \/ ~ ValidTx(ledger, m, height)
    <3> HIDE DEF m
    <3> QED
      BY <1>0, <2>1, NodeNames, TransactionBuilds
  <2>3. \A n \in Nodes : Builds(uow'[n].w, ledger, height)
    BY <1>0, <1>2, <1>a, <2>2, ApplyTxEffect
  <2> QED
    BY <1>2, <2>3, ApplyTxEffect, HistorySame
<1>3. ASSUME NEW n \in Nodes, BeginEndBlock(n) PROVE History'
  <2>1. Builds(handleProposerRewards(ledger, uow[n].w, height), ledger, height)
    BY <1>0, RewardsBuild
  <2>2. \A k \in Nodes : Builds(uow'[k].w, ledger, height)
    <3>1. /\ uow'[n].w = handleProposerRewards(ledger, uow[n].w, height)
          /\ \A k \in Nodes : k # n => uow'[k] = uow[k]
      BY <1>3, BeginEffect
    <3>2. Builds(uow'[n].w, ledger, height)
      BY <2>1, <3>1
    <3> QED
      BY <1>0, <3>1, <3>2
  <2> QED
    BY <1>3, <2>2, BeginEffect, HistorySame
<1>4. ASSUME NEW n \in Nodes, NEW a \in Actors, UnbondActor(n, a) PROVE History'
  <2>1. Exists(ledger, a, MaxHeight)
    BY <1>4, UnbondEffect, UowFields
  <2>2. Builds(Unbond(ledger, uow[n].w, a, height), ledger, height)
    BY <1>0, <2>1, UnbondBuilds
  <2>3. \A k \in Nodes : Builds(uow'[k].w, ledger, height)
    <3>1. /\ uow'[n].w = Unbond(ledger, uow[n].w, a, height)
          /\ \A k \in Nodes : k # n => uow'[k] = uow[k]
      BY <1>4, UnbondEffect
    <3>2. Builds(uow'[n].w, ledger, height)
      BY <2>2, <3>1
    <3> QED
      BY <1>0, <3>1, <3>2
  <2> QED
    BY <1>4, <2>3, UnbondEffect, HistorySame
<1>5. ASSUME NEW n \in Nodes, FinishEndBlock(n) PROVE History'
  <2>1. Builds(beginUnstakingMaxPausedActors(ledger, uow[n].w, height), ledger, height)
    BY <1>0, MaxPausedBuilds
  <2>2. \A k \in Nodes : Builds(uow'[k].w, ledger, height)
    <3>1. /\ uow'[n].w = beginUnstakingMaxPausedActors(ledger, uow[n].w, height)
          /\ \A k \in Nodes : k # n => uow'[k].w = uow[k].w
      BY <1>5, FinishEffect
    <3>2. Builds(uow'[n].w, ledger, height)
      BY <2>1, <3>1
    <3> QED
      BY <1>0, <3>1, <3>2
  <2> QED
    BY <1>5, <2>2, FinishEffect, HistorySame
<1>6. CASE Commit
  <2>1. Base(ledger', height') /\ Builds(ledger', ledger', height')
    BY <1>0, <1>6, NodeNames, CommitEffect, HistoryCommit
  <2>2. \A n \in Nodes : uow'[n].w = ledger'
    BY <1>6, CommitEffect
  <2> QED
    BY <2>1, <2>2 DEF History
<1>7. CASE UNCHANGED vars
  BY <1>7 DEF vars, History
<1> QED
  BY <1>1, <1>2, <1>3, <1>4, <1>5, <1>6, <1>7 DEF Next

-----------------------------------------------------------------------------
(* Stakes are returned when they are due *)

ReturnsDue(l, h) ==
    \A a \in Actors : \A u \in paid[a] :
        u \in 1 .. h /\ \E f \in 0 .. u - 1 : Due(l, a, f, u)

Waiting(l, a, g) == Exists(l, a, g) /\ Select(l.rows[a], g).unstaking = g + 1

Returned(l, h) ==
    \A a \in Actors : \A g \in 0 .. h - 1 :
        Waiting(l, a, g) /\ g + 1 < h => g + 1 \in paid[a]

\* The stakes that the leader is to return at this height
LeaderReturns(u, l, h) ==
    /\ u.stage = "unbond" =>
         /\ u.todo \subseteq ReadyToUnstake(l, h)
         /\ \A a \in ReadyToUnstake(l, h) : a \in u.todo \/ h \in paid[a]
    /\ u.stage = "done" => \A a \in ReadyToUnstake(l, h) : h \in paid[a]

PaidInv ==
    /\ pending \subseteq Msgs
    /\ paid \in [Actors -> SUBSET Heights]
    /\ ReturnsDue(ledger, height)
    /\ Returned(ledger, height)
    /\ LeaderReturns(uow["leader"], ledger, height)

\* An actor whose stake goes back now was given this height below it.
LEMMA ReadyDue ==
    ASSUME NEW l, NEW h, Base(l, h), Builds(l, l, h), NEW a \in ReadyToUnstake(l, h)
    PROVE  \E f \in 0 .. h - 1 : Due(l, a, f, h)
<1>1. /\ a \in Actors /\ Exists(l, a, MaxHeight)
      /\ Select(l.rows[a], MaxHeight).unstaking = h
  BY DEF ReadyToUnstake
<1>2. h \in Nat /\ h # NotUsed
  BY HeightFacts, SMT DEF Base, NotUsed
<1>3. \A g \in Heights : RowDue(l, a, g)
  BY <1>1 DEF Builds, Copy, ActorCopy
<1>4. PICK g \in RowHeights(l.rows[a], MaxHeight) : \E f \in 0 .. g : Due(l, a, f, h)
  BY <1>1, <1>2, <1>3, LastRowDue
<1>5. g \in Heights /\ g < h
  BY <1>1 DEF RowHeights, Base, Past
<1>6. \A f \in 0 .. g : f \in 0 .. h - 1
  BY <1>2, <1>5, HeightFacts, SMT
<1> QED
  BY <1>4, <1>6

\* An actor that waited for this height is among those whose stake goes back.
LEMMA WaitingReady ==
    ASSUME NEW l, NEW h, Base(l, h), NEW a \in Actors, Waiting(l, a, h - 1)
    PROVE  a \in ReadyToUnstake(l, h)
<1>1. /\ h - 1 + 1 = h
      /\ \A g \in Heights : g < h => g <= h - 1 /\ g <= MaxHeight
  BY HeightFacts, SMT DEF Base
<1>2. \A g \in Heights : l.rows[a][g] # Nil => g <= h - 1 /\ g <= MaxHeight
  BY <1>1 DEF Base, Past
<1> DEFINE t == l.rows[a]
           k == h - 1
<1>3. \A g \in Heights : t[g] # Nil => g <= k /\ g <= MaxHeight
  BY <1>2
<1>4. RowHeights(t, k) # {} /\ Select(t, k).unstaking = h
  BY <1>1 DEF Waiting, Exists
<1> HIDE DEF t, k
<1>5. RowHeights(t, MaxHeight) # {} /\ Select(t, MaxHeight).unstaking = h
  BY <1>3, <1>4, ReadsAbove
<1> QED
  BY <1>5 DEF ReadyToUnstake, Exists, t

LEMMA PaidInit == Init => PaidInv
<1> SUFFICES ASSUME Init PROVE PaidInv
  OBVIOUS
<1>1. pending \subseteq Msgs /\ paid \in [Actors -> SUBSET Heights]
      /\ \A a \in Actors : paid[a] = {}
  BY DEF Init
<1>2. height = 1 /\ \A g \in 0 .. height - 1 : ~(g + 1 < height)
  BY SMT DEF Init
<1>3. uow["leader"].stage = "reap"
  <2>1. uow["leader"] = [stage |-> "reap", w |-> GenesisLedger, next |-> 1, todo |-> {}]
    BY NodeNames DEF Init, NewUnitOfWork
  <2> QED
    BY <2>1, SMT
<1>4. ReturnsDue(ledger, height) /\ Returned(ledger, height)
  BY <1>1, <1>2 DEF ReturnsDue, Returned
<1>5. LeaderReturns(uow["leader"], ledger, height)
  BY <1>3 DEF LeaderReturns
<1> QED
  BY <1>1, <1>4, <1>5 DEF PaidInv

LEMMA PaidSame ==
    ASSUME PaidInv, SameLedger, paid' = paid, pending' \subseteq Msgs,
           LeaderReturns(uow["leader"], ledger, height)'
    PROVE  PaidInv'
BY DEF PaidInv, SameLedger, ReturnsDue, Returned

\* A block leaves what is due below its height.
LEMMA DueStays ==
    ASSUME NEW c, NEW h, Base(c, h), NEW w, Builds(w, c, h), NEW a \in Actors,
           NEW f \in Heights, f < h, NEW u, Due(c, a, f, u)
    PROVE  Due(w, a, f, u)
<1>1. Sound(c) /\ ParamCopy(w, c, h) /\ ActorCopy(w, c, h, a)
  BY DEF Base, Builds, Copy
<1>2. w.rows[a][f] # Nil /\ w.rows[a][f].unstaking = u
  BY <1>1 DEF ActorCopy, Due
<1>a. h \in Heights
  BY BaseHeight
<1>3. \A g \in Heights : g < f => g < h
  BY <1>a, HeightFacts, SMT
<1>4. SameBelow(w, c, f)
  BY <1>1, <1>3 DEF SameBelow, ParamCopy
<1> QED
  BY <1>1, <1>2, <1>4, DueKept

\* Nor does it change what is read below its height.
LEMMA WaitingStays ==
    ASSUME NEW c, NEW h, Base(c, h), NEW w, Builds(w, c, h), NEW a \in Actors,
           NEW g \in Heights, g < h, Waiting(w, a, g)
    PROVE  Waiting(c, a, g)
<1> DEFINE t == w.rows[a]
           u == c.rows[a]
<1>0. h \in Heights
  BY BaseHeight
<1>1. \A k \in Heights : k <= g => k < h
  BY <1>0, HeightFacts, SMT
<1>2. \A k \in Heights : k <= g => t[k] = u[k]
  BY <1>1 DEF Builds, Copy, ActorCopy
<1>3. RowHeights(t, g) # {} /\ Select(t, g).unstaking = g + 1
  BY DEF Waiting, Exists
<1> HIDE DEF t, u
<1>4. RowHeights(u, g) # {} /\ Select(u, g).unstaking = g + 1
  BY <1>2, <1>3, SameReads
<1> QED
  BY <1>4 DEF Waiting, Exists, u

LEMMA PaidCommit ==
    ASSUME IInv, History, PaidInv, Commit
    PROVE  PaidInv'
<1> DEFINE w == uow["replica"].w
<1>1. /\ ledger' = w /\ height' = height + 1 /\ paid' = paid /\ pending' = pending
      /\ uow["leader"].stage = "done" /\ uow'["leader"].stage = "reap"
  BY NodeNames, CommitEffect DEF Commit
<1>2. Base(ledger, height) /\ Builds(w, ledger, height)
  BY NodeNames DEF History
<1>3. height \in Nat \ {0} /\ height \in Heights
  BY <1>2, BaseHeight, HeightFacts, SMT DEF Base
<1> HIDE DEF w
<1>4. ASSUME NEW a \in Actors, NEW u \in paid[a]
      PROVE  u \in 1 .. height + 1 /\ \E f \in 0 .. u - 1 : Due(w, a, f, u)
  <2>1. u \in 1 .. height
    BY DEF PaidInv, ReturnsDue
  <2>2. PICK f \in 0 .. u - 1 : Due(ledger, a, f, u)
    BY DEF PaidInv, ReturnsDue
  <2>3. u \in 1 .. height + 1 /\ f \in Heights /\ f < height
    BY <1>3, <2>1, HeightFacts, SMT DEF Heights
  <2>4. Due(w, a, f, u)
    BY <1>2, <2>2, <2>3, DueStays
  <2> QED
    BY <2>3, <2>4
<1>5. ASSUME NEW a \in Actors, NEW g \in 0 .. height + 1 - 1,
             Waiting(w, a, g), g + 1 < height + 1
      PROVE  g + 1 \in paid[a]
  <2>1. g \in Heights /\ g < height /\ g \in 0 .. height - 1
    BY <1>3, <1>5, HeightFacts, SMT DEF Heights
  <2>2. Waiting(ledger, a, g)
    BY <1>2, <1>5, <2>1, WaitingStays
  <2>3. CASE g + 1 < height
    BY <2>1, <2>2, <2>3 DEF PaidInv, Returned
  <2>4. CASE g + 1 = height
    <3>1. g = height - 1
      BY <1>3, <2>1, <2>4, HeightFacts, SMT
    <3>2. a \in ReadyToUnstake(ledger, height)
      BY <1>2, <2>2, <3>1, WaitingReady
    <3> QED
      BY <1>1, <2>4, <3>2 DEF PaidInv, LeaderReturns
  <2> QED
    BY <1>3, <2>1, <2>3, <2>4, HeightFacts, SMT
<1>6. ReturnsDue(ledger, height)'
  BY <1>1, <1>4 DEF ReturnsDue
<1>7. Returned(ledger, height)'
  <2>1. ASSUME NEW a \in Actors, NEW g \in 0 .. height' - 1,
               Waiting(ledger', a, g), g + 1 < height'
        PROVE  g + 1 \in paid'[a]
    <3>1. g \in 0 .. height + 1 - 1 /\ g + 1 < height + 1
      BY <1>1, <1>3, <2>1, SMT
    <3>2. Waiting(w, a, g)
      BY <1>1, <2>1
    <3> QED
      BY <1>1, <1>5, <3>1, <3>2
  <2> QED
    BY <2>1 DEF Returned
<1>8. LeaderReturns(uow["leader"], ledger, height)'
  BY <1>1 DEF LeaderReturns
<1> QED
  BY <1>1, <1>6, <1>7, <1>8 DEF PaidInv

LEMMA PaidNext == IInv /\ History /\ PaidInv /\ [Next]_vars => PaidInv'
<1> SUFFICES ASSUME IInv, History, PaidInv, [Next]_vars PROVE PaidInv'
  OBVIOUS
<1> DEFINE R == ReadyToUnstake(ledger, height)
<1>0. /\ pending \subseteq Msgs /\ paid \in [Actors -> SUBSET Heights]
      /\ LeaderReturns(uow["leader"], ledger, height)
  BY DEF PaidInv
<1>a. \A n \in Nodes : n # "leader" => n = "replica"
  BY DEF Nodes
<1>b. R \subseteq Actors
  BY DEF ReadyToUnstake
<1>1. ASSUME NEW m \in Msgs, ReapTx(m) PROVE PaidInv'
  <2>1. SameLedger /\ paid' = paid /\ uow'["leader"].stage = "reap"
    BY <1>1, ReapTxEffect
  <2>2. pending' \subseteq Msgs
    BY <1>0, <1>1 DEF ReapTx
  <2>3. LeaderReturns(uow["leader"], ledger, height)'
    BY <2>1 DEF LeaderReturns
  <2> QED
    BY <2>1, <2>2, <2>3, PaidSame
<1>2. CASE ApplyTx
  <2>1. SameLedger /\ paid' = paid /\ uow'["leader"] = uow["leader"]
    BY <1>2, ApplyTxEffect
  <2>2. pending' \subseteq Msgs
    BY <1>0, <1>2 DEF ApplyTx
  <2>3. LeaderReturns(uow["leader"], ledger, height)'
    BY <1>0, <2>1 DEF LeaderReturns, SameLedger
  <2> QED
    BY <2>1, <2>2, <2>3, PaidSame
<1>3. ASSUME NEW n \in Nodes, BeginEndBlock(n) PROVE PaidInv'
  <2>1. SameLedger /\ paid' = paid
    BY <1>3, BeginEffect
  <2>2. pending' \subseteq Msgs
    BY <1>0, <1>3 DEF BeginEndBlock
  <2>3. \/ uow'["leader"] = uow["leader"]
        \/ uow'["leader"].stage = "unbond" /\ uow'["leader"].todo = R
    BY <1>3, NodeNames, BeginEffect
  <2>4. LeaderReturns(uow["leader"], ledger, height)'
    BY <1>0, <2>1, <2>3 DEF LeaderReturns, SameLedger
  <2> QED
    BY <2>1, <2>2, <2>4, PaidSame
<1>4. ASSUME NEW n \in Nodes, NEW a \in Actors, UnbondActor(n, a) PROVE PaidInv'
  <2>1. SameLedger /\ pending' = pending
    BY <1>4, UnbondEffect DEF UnbondActor
  <2>2. CASE n = "replica"
    <3>1. paid' = paid /\ uow'["leader"] = uow["leader"]
      <4>1. /\ paid' = IF n = "leader" THEN [paid EXCEPT ![a] = @ \cup {height}] ELSE paid
            /\ \A k \in Nodes : k # n => uow'[k] = uow[k]
        BY <1>4, UnbondEffect
      <4> QED
        BY <2>2, <4>1, NodeNames
    <3>2. LeaderReturns(uow["leader"], ledger, height)'
      BY <1>0, <2>1, <3>1 DEF LeaderReturns, SameLedger
    <3> QED
      BY <1>0, <2>1, <3>1, <3>2, PaidSame
  <2>3. CASE n = "leader"
    <3>1. /\ paid' = [paid EXCEPT ![a] = paid[a] \cup {height}]
          /\ uow[n].stage = "unbond" /\ a \in uow[n].todo
          /\ uow'[n].stage = "unbond" /\ uow'[n].todo = uow[n].todo \ {a}
      BY <1>4, <2>3, UnbondEffect
    <3>2. /\ uow[n].todo \subseteq R
          /\ \A b \in R : b \in uow[n].todo \/ height \in paid[b]
      BY <1>0, <2>3, <3>1 DEF LeaderReturns
    <3>3. /\ paid'[a] = paid[a] \cup {height}
          /\ \A b \in Actors : b # a => paid'[b] = paid[b]
      BY <1>0, <3>1
    <3>4. height \in Heights /\ height \in 1 .. height
      <4>1. Base(ledger, height) /\ height \in Heights
        BY BaseHeight DEF History
      <4> QED
        BY <4>1, SMT DEF Base
    <3>5. paid' \in [Actors -> SUBSET Heights]
      <4>1. paid[a] \cup {height} \in SUBSET Heights
        BY <1>0, <3>4
      <4> QED
        BY <1>0, <3>1, <4>1
    <3>6. \E f \in 0 .. height - 1 : Due(ledger, a, f, height)
      BY <3>1, <3>2, ReadyDue DEF History
    <3>7. ReturnsDue(ledger, height)'
      <4>1. ASSUME NEW b \in Actors, NEW u \in paid'[b]
            PROVE  u \in 1 .. height /\ \E f \in 0 .. u - 1 : Due(ledger, b, f, u)
        <5>1. CASE u \in paid[b]
          BY <5>1 DEF PaidInv, ReturnsDue
        <5>2. CASE u \notin paid[b]
          <6>1. b = a /\ u = height
            BY <3>3, <5>2
          <6> QED
            BY <3>4, <3>6, <6>1
        <5> QED
          BY <5>1, <5>2
      <4> QED
        BY <2>1, <4>1 DEF ReturnsDue, SameLedger
    <3>8. \A b \in Actors : paid[b] \subseteq paid'[b]
      BY <3>3
    <3>9. Returned(ledger, height)'
      BY <2>1, <3>8 DEF PaidInv, Returned, SameLedger
    <3>10. LeaderReturns(uow["leader"], ledger, height)'
      <4>1. uow'[n].todo \subseteq R
        BY <3>1, <3>2
      <4>2. \A b \in R : b \in uow'[n].todo \/ height \in paid'[b]
        BY <1>b, <3>1, <3>2, <3>3, <3>8
      <4> QED
        BY <2>1, <2>3, <3>1, <4>1, <4>2 DEF LeaderReturns, SameLedger
    <3> QED
      BY <1>0, <2>1, <3>5, <3>7, <3>9, <3>10 DEF PaidInv
  <2> QED
    BY <1>a, <2>2, <2>3
<1>5. ASSUME NEW n \in Nodes, FinishEndBlock(n) PROVE PaidInv'
  <2>1. SameLedger /\ paid' = paid
    BY <1>5, FinishEffect
  <2>2. pending' \subseteq Msgs
    BY <1>0, <1>5 DEF FinishEndBlock
  <2>3. CASE n = "leader"
    <3>1. /\ uow["leader"].stage = "unbond" /\ uow["leader"].todo = {}
          /\ uow'["leader"].stage = "done"
      BY <1>5, <2>3, FinishEffect
    <3>2. \A b \in R : height \in paid[b]
      BY <1>0, <3>1 DEF LeaderReturns
    <3>3. LeaderReturns(uow["leader"], ledger, height)'
      BY <2>1, <3>1, <3>2 DEF LeaderReturns, SameLedger
    <3> QED
      BY <2>1, <2>2, <3>3, PaidSame
  <2>4. CASE n = "replica"
    <3>1. /\ uow'["leader"].stage = uow["leader"].stage
          /\ uow'["leader"].todo = uow["leader"].todo
      BY <1>5, <2>4, NodeNames, FinishEffect
    <3>2. LeaderReturns(uow["leader"], ledger, height)'
      BY <1>0, <2>1, <3>1 DEF LeaderReturns, SameLedger
    <3> QED
      BY <2>1, <2>2, <3>2, PaidSame
  <2> QED
    BY <1>a, <2>3, <2>4
<1>6. CASE Commit
  BY <1>6, PaidCommit
<1>7. CASE UNCHANGED vars
  <2>1. SameLedger /\ paid' = paid /\ pending' = pending /\ uow' = uow
    BY <1>7 DEF vars, SameLedger
  <2>2. LeaderReturns(uow["leader"], ledger, height)'
    BY <1>0, <2>1 DEF LeaderReturns, SameLedger
  <2> QED
    BY <1>0, <2>1, <2>2, PaidSame
<1> QED
  BY <1>1, <1>2, <1>3, <1>4, <1>5, <1>6, <1>7 DEF Next

LEMMA LedgerInvariant == Spec => [](IInv /\ History /\ PaidInv)
BY InitIInv, NextIInv, HistoryInit, HistoryNext, PaidInit, PaidNext, PTL DEF Spec

\* The committed ledger and the working copies keep their shape: balances,
\* rows of actors by height and parameters by height, whatever the
\* transactions of the blocks write.
THEOREM TypeCorrect == Spec => []TypeOK
<1>1. IInv /\ PaidInv => TypeOK
  <2> SUFFICES ASSUME IInv, PaidInv PROVE TypeOK
    OBVIOUS
  <2>1. \A l \in SoundType : l \in LedgerType
    BY SMT DEF SoundType, LedgerType
  <2>2. ledger \in LedgerType /\ height \in Heights /\ block \in Seq(Msgs)
    BY <2>1, HeightFacts DEF IInv, Sound
  <2>3. ASSUME NEW n \in Nodes PROVE uow[n] \in UnitOfWork
    <3>1. uow[n].w \in LedgerType
      BY <2>1, UowFields DEF Sound
    <3> QED
      BY <3>1, UowRecord, SMT DEF UnitOfWork, Stages
  <2>4. uow \in [Nodes -> UnitOfWork]
    BY <2>3 DEF IInv
  <2> QED
    BY <2>2, <2>4 DEF TypeOK, PaidInv
<1> QED
  BY <1>1, LedgerInvariant, PTL

\* A stake is returned at the height its actor was waiting for and at no
\* other (unbondUnstakingActors, with the heights that handleUnstakeMessage,
\* beginUnstakingMaxPausedActors and the genesis file write), and by then
\* nobody who waited is left out.
THEOREM StakesReturned == Spec => []StakeReturnedWhenDue
<1>1. PaidInv => StakeReturnedWhenDue
  BY DEF PaidInv, ReturnsDue, Returned, Waiting, StakeReturnedWhenDue
<1> QED
  BY <1>1, LedgerInvariant, PTL

-----------------------------------------------------------------------------
(* Sessions *)

\* A read at height k, of a block under construction and of the ledger below it
Below(w, c, n, k) == Base(c, n) /\ Builds(w, c, n) /\ k \in Heights /\ k < n

LEMMA BelowHeights ==
    ASSUME NEW w, NEW c, NEW n, NEW k, Below(w, c, n, k)
    PROVE  /\ n \in Heights /\ k \in Heights /\ k < n
           /\ \A g \in Heights : g <= k => g < n /\ Below(w, c, n, g)
<1>1. n \in Heights /\ k \in Heights /\ k < n
  BY BaseHeight DEF Below
<1>2. \A g \in Heights : g <= k => g < n
  BY <1>1, HeightFacts, SMT
<1> QED
  BY <1>1, <1>2 DEF Below

\* A block leaves what is read of an actor or a parameter below its height.
LEMMA RowsRead ==
    ASSUME NEW w, NEW c, NEW n, NEW k, Below(w, c, n, k), NEW a \in Actors
    PROVE  /\ RowHeights(w.rows[a], k) = RowHeights(c.rows[a], k)
           /\ Exists(w, a, k) <=> Exists(c, a, k)
           /\ RowHeight(w.rows[a], k) = RowHeight(c.rows[a], k)
           /\ Exists(c, a, k) => Select(w.rows[a], k) = Select(c.rows[a], k)
<1> DEFINE t == w.rows[a]
           u == c.rows[a]
<1>2. \A g \in Heights : g <= k => t[g] = u[g]
  <2>1. ActorCopy(w, c, n, a)
    BY DEF Below, Builds, Copy
  <2> QED
    BY <2>1, BelowHeights DEF ActorCopy
<1> HIDE DEF t, u
<1>3. /\ RowHeights(t, k) = RowHeights(u, k) /\ RowHeight(t, k) = RowHeight(u, k)
      /\ RowHeights(t, k) # {} => Select(t, k) = Select(u, k)
  BY <1>2, SameReads
<1> QED
  BY <1>3 DEF Exists, t, u

LEMMA ParamRead ==
    ASSUME NEW w, NEW c, NEW n, NEW k, Below(w, c, n, k), NEW key \in ParamKeys
    PROVE  GetParam(w, key, k) = GetParam(c, key, k)
<1>1. Sound(c) /\ k \in Heights
  BY DEF Below, Base
<1>2. \A g \in Heights : g <= k => w.params[key][g] = c.params[key][g]
  BY BelowHeights DEF Below, Builds, Copy, ParamCopy
<1> QED
  BY <1>1, <1>2, SameParam

LEMMA SameGetAll ==
    ASSUME NEW w, NEW c, NEW n, NEW k, Below(w, c, n, k), NEW type
    PROVE  GetAll(w, type, k) = GetAll(c, type, k)
BY RowsRead DEF GetAll

LEMMA ReadLastIn ==
    ASSUME NEW S, S \subseteq Actors, NEW a \in S
    PROVE  ReadLast(S) \in S
<1> DEFINE listed == {i \in DOMAIN Order : Order[i] \in S}
           end == CHOOSE i \in listed : \A j \in listed : j <= i
<1>1. Order \in Seq(Actors) /\ \A x \in Actors : \E i \in DOMAIN Order : Order[i] = x
  BY LedgerAssumption
<1>2. Len(Order) \in Nat /\ DOMAIN Order = 1 .. Len(Order)
  BY <1>1, SMT
<1>3. 1 .. Len(Order) \subseteq 0 .. Len(Order)
  BY <1>2, SMT
<1>4. listed \subseteq 0 .. Len(Order) /\ listed # {}
  BY <1>1, <1>2, <1>3
<1>5. end \in listed
  <2> HIDE DEF listed
  <2>1. \E i \in listed : \A j \in listed : j <= i
    BY <1>2, <1>4, GreatestUpTo
  <2> QED
    BY <2>1
<1>6. ReadLast(S) = Order[end]
  BY DEF ReadLast
<1> HIDE DEF end
<1> QED
  BY <1>5, <1>6

\* The chains of the actors of a type are those at the height of a row of one
\* of them, hence not above the height of the request.
LEMMA SameChains ==
    ASSUME NEW w, NEW c, NEW n, NEW k, Below(w, c, n, k), NEW type, NEW a \in GetAll(c, type, k)
    PROVE  ListedChains(w, type, k, a) = ListedChains(c, type, k, a)
<1> DEFINE all == GetAll(c, type, k)
           b == ReadLast(all)
           last(l) == RowHeight(l.rows[b], k)
           chains(l) == IF Exists(l, a, last(l)) THEN Select(l.rows[a], last(l)).chains ELSE {}
<1>1. GetAll(w, type, k) = all
  BY SameGetAll, SMT
<1>2. ListedChains(w, type, k, a) = chains(w) /\ ListedChains(c, type, k, a) = chains(c)
  <2>1. ListedChains(c, type, k, a) = chains(c)
    BY DEF ListedChains
  <2>2. ListedChains(w, type, k, a) = chains(w)
    <3> HIDE DEF all
    <3> QED
      BY <1>1, SMT DEF ListedChains
  <2> QED
    BY <2>1, <2>2
<1>3. a \in Actors /\ all \subseteq Actors /\ \A x \in all : Exists(c, x, k)
  BY DEF GetAll
<1>4. b \in all
  BY ReadLastIn, <1>3
<1>6. b \in Actors /\ Exists(c, b, k)
  BY <1>3, <1>4
<1> HIDE DEF b
<1>7. last(w) = last(c)
  BY <1>6, RowsRead, SMT
<1>8. Below(w, c, n, last(c))
  <2>1. last(c) \in RowHeights(c.rows[b], k)
    <3>1. RowHeights(c.rows[b], k) \subseteq Heights /\ RowHeights(c.rows[b], k) # {}
      BY <1>6 DEF RowHeights, Exists
    <3> QED
      BY <3>1, Greatest DEF RowHeight
  <2>2. last(c) \in Heights /\ last(c) <= k
    BY <2>1 DEF RowHeights
  <2> HIDE DEF last
  <2> QED
    BY <2>2, BelowHeights
<1> HIDE DEF last
<1>9. chains(w) = chains(c)
  <2> DEFINE g == last(c)
  <2>1. last(w) = g /\ Below(w, c, n, g)
    BY <1>7, <1>8
  <2> HIDE DEF g
  <2>2. /\ Exists(w, a, g) <=> Exists(c, a, g)
        /\ Exists(c, a, g) => Select(w.rows[a], g) = Select(c.rows[a], g)
    BY <1>3, <2>1, RowsRead, SMT
  <2>3. chains(c) = IF Exists(c, a, g) THEN Select(c.rows[a], g).chains ELSE {}
    BY DEF g
  <2>4. chains(w) = IF Exists(w, a, g) THEN Select(w.rows[a], g).chains ELSE {}
    BY <2>1
  <2> QED
    BY <2>2, <2>3, <2>4
<1> HIDE DEF chains
<1> QED
  BY <1>2, <1>9, SMT

LEMMA SameHydrate ==
    ASSUME NEW w, NEW c, NEW n, NEW k, Below(w, c, n, k), NEW type \in {"servicer", "fisherman"}, NEW chain
    PROVE  HydrateActors(w, type, chain, k) = HydrateActors(c, type, chain, k)
<1> DEFINE all == GetAll(c, type, k)
           of(l) == {a \in all : chain \in ListedChains(l, type, k, a)}
           ok(l) == \A a \in all : Active(Select(l.rows[a], k))
           per(l) == GetParam(l, <<"per_session", type>>, k)
           hydrated(l) == IF ok(l)
                          THEN [ok |-> TRUE, actors |-> pseudoRandomSelection(of(l), per(l))]
                          ELSE [ok |-> FALSE, actors |-> {}]
<1>1. GetAll(w, type, k) = all /\ all \subseteq Actors /\ \A x \in all : Exists(c, x, k)
  <2>1. GetAll(w, type, k) = GetAll(c, type, k)
    BY SameGetAll, SMT
  <2> QED
    BY <2>1 DEF GetAll
<1>2. HydrateActors(w, type, chain, k) = hydrated(w)
      /\ HydrateActors(c, type, chain, k) = hydrated(c)
  BY <1>1 DEF HydrateActors
<1>3. of(w) = of(c)
  <2>1. \A a \in all : ListedChains(w, type, k, a) = ListedChains(c, type, k, a)
    BY SameChains, SMT
  <2> QED
    BY <2>1
<1>4. per(w) = per(c)
  <2>1. <<"per_session", type>> \in PerSession
    BY SMT DEF PerSession
  <2>2. <<"per_session", type>> \in ParamKeys
    BY <2>1, LedgerAssumption
  <2> QED
    BY <2>2, ParamRead, SMT
<1> HIDE DEF all
<1>5. ok(w) <=> ok(c)
  <2>1. \A a \in all : Select(w.rows[a], k) = Select(c.rows[a], k)
    BY <1>1, RowsRead, SMT
  <2> QED
    BY <2>1
<1> HIDE DEF of, per, ok
<1>6. hydrated(w) = hydrated(c)
  BY <1>3, <1>4, <1>5
<1> HIDE DEF hydrated
<1> QED
  BY <1>2, <1>6, SMT

LEMMA SameSession ==
    ASSUME NEW c, NEW n, Base(c, n), NEW w, Builds(w, c, n), NEW app \in Actors, NEW chain,
           NEW h \in Heights, SessionHeight(c, h) < n,
           h < n \/ GetParam(w, BlocksKey, h) = GetParam(c, BlocksKey, h)
    PROVE  GetSession(w, n + 1, app, chain, h) = GetSession(c, n, app, chain, h)
<1> DEFINE start == SessionHeight(c, h)
           blocks == GetParam(c, BlocksKey, h)
           s(l) == HydrateActors(l, "servicer", chain, start)
           f(l) == HydrateActors(l, "fisherman", chain, start)
           ok(l, now) == /\ Exists(l, app, start)
                         /\ chain \in Select(l.rows[app], start).chains
                         /\ Active(Select(l.rows[app], start))
                         /\ HasSessionID(now, start)
                         /\ s(l).ok /\ f(l).ok
           session(l, now) == IF ok(l, now)
                              THEN [number |-> h \div blocks, height |-> start,
                                    servicers |-> s(l).actors, fishermen |-> f(l).actors]
                              ELSE Nil
<1>0. BlocksKey \in ParamKeys /\ Sound(c)
  BY LedgerAssumption DEF Base
<1>1. GetParam(w, BlocksKey, h) = blocks
  <2>1. CASE h < n
    <3>1. Below(w, c, n, h)
      BY <2>1 DEF Below
    <3> QED
      BY <1>0, <3>1, ParamRead, SMT
  <2> QED
    BY <2>1
<1>2. blocks \in Nat /\ blocks > 0
  BY <1>0, ParamValue
<1>3. SessionHeight(w, h) = start
  BY <1>1 DEF SessionHeight
<1>4. start = h - (h % blocks)
  BY DEF SessionHeight
<1>5. GetSession(w, n + 1, app, chain, h) = session(w, n + 1)
      /\ GetSession(c, n, app, chain, h) = session(c, n)
  BY <1>1, <1>3 DEF GetSession
<1>a. start < n /\ n \in 1 .. MaxHeight
  BY DEF Base
<1> HIDE DEF blocks, start
<1>6. start \in 0 .. h
  BY <1>2, <1>4, HeightFacts, SMT
<1>7. start \in Heights
  BY <1>6, HeightFacts, SMT DEF Heights
<1>8. HasSessionID(n, start) /\ HasSessionID(n + 1, start)
  BY <1>7, <1>a, HeightFacts, SMT DEF HasSessionID
<1>b. Below(w, c, n, start)
  BY <1>7, <1>a DEF Below
<1>9. s(w) = s(c) /\ f(w) = f(c)
  BY <1>b, SameHydrate, SMT
<1> HIDE DEF s, f
<1>10. ok(w, n + 1) <=> ok(c, n)
  <2>1. Exists(w, app, start) <=> Exists(c, app, start)
    BY <1>b, RowsRead
  <2>2. Exists(c, app, start) => Select(w.rows[app], start) = Select(c.rows[app], start)
    BY <1>b, RowsRead, SMT
  <2> QED
    BY <1>8, <1>9, <2>1, <2>2
<1> HIDE DEF ok
<1>11. session(w, n + 1) = session(c, n)
  BY <1>9, <1>10
<1> HIDE DEF session
<1> QED
  BY <1>5, <1>11, SMT

\* Once the first block of a session is committed, every later request for
\* that session gets the same servicers and fishermen (GetSession reads the
\* rows and the parameters at the first height of the session, and no block
\* writes below its own height).
THEOREM SessionsFixed == Spec => SessionFixed
<1> DEFINE P == \A app \in Apps, chain \in Chains, h \in Heights :
                  /\ SessionHeight(ledger, h) < height
                  /\ h < height
                       \/ GetParam(ledger', BlocksKey, h) = GetParam(ledger, BlocksKey, h)
                  => GetSession(ledger', height', app, chain, h)
                       = GetSession(ledger, height, app, chain, h)
<1>1. IInv /\ History /\ [Next]_vars => [P]_vars
  <2> SUFFICES ASSUME IInv, History, Next PROVE P
    OBVIOUS
  <2>1. SameLedger \/ Commit
    BY ReapTxEffect, ApplyTxEffect, BeginEffect, UnbondEffect, FinishEffect DEF Next
  <2>2. CASE SameLedger
    BY <2>2 DEF SameLedger
  <2>3. CASE Commit
    <3> DEFINE w == uow["replica"].w
    <3>1. ledger' = w /\ height' = height + 1
      BY <2>3, CommitEffect
    <3>2. Base(ledger, height) /\ Builds(w, ledger, height)
      BY NodeNames DEF History
    <3> HIDE DEF w
    <3>3. ASSUME NEW app \in Apps, NEW chain \in Chains, NEW h \in Heights,
                 SessionHeight(ledger, h) < height,
                 h < height \/ GetParam(w, BlocksKey, h) = GetParam(ledger, BlocksKey, h)
          PROVE  GetSession(w, height + 1, app, chain, h)
                   = GetSession(ledger, height, app, chain, h)
      <4>1. app \in Actors
        BY DEF Apps
      <4> QED
        BY <3>2, <3>3, <4>1, SameSession, SMT
    <3> QED
      BY <3>1, <3>3
  <2> QED
    BY <2>1, <2>2, <2>3
<1> QED
  BY <1>1, LedgerInvariant, PTL DEF Spec, SessionFixed

-----------------------------------------------------------------------------
(* Stakes go back in any order *)

Plus(f, a, x) == [f EXCEPT ![a] = f[a] + x]

\* A stake s goes from pool p to account o.
Move(w, o, p, s) == AddAcc(AddPool(w, p, 0 - s), o, s)

LEMMA MoveFields ==
    ASSUME NEW w \in SoundType, NEW o \in Addrs, NEW p \in Pools, NEW s \in Nat
    PROVE  /\ Move(w, o, p, s) \in SoundType
           /\ Move(w, o, p, s).acc = Plus(w.acc, o, s)
           /\ Move(w, o, p, s).pool = Plus(w.pool, p, 0 - s)
           /\ Move(w, o, p, s).rows = w.rows /\ Move(w, o, p, s).params = w.params
<1> DEFINE v == AddPool(w, p, 0 - s)
           u == AddAcc(v, o, s)
<1>1. /\ v.pool = Plus(w.pool, p, 0 - s) /\ v.acc = w.acc
      /\ v.rows = w.rows /\ v.params = w.params /\ v \in SoundType
  BY SMT DEF AddPool, SoundType, Plus
<1> HIDE DEF v
<1>2. /\ u.acc = Plus(v.acc, o, s) /\ u.pool = v.pool
      /\ u.rows = v.rows /\ u.params = v.params /\ u \in SoundType
  BY <1>1, SMT DEF AddAcc, SoundType, Plus
<1>3. Move(w, o, p, s) = u
  BY DEF Move, v
<1> HIDE DEF u
<1> QED
  BY <1>1, <1>2, <1>3, SMT

LEMMA SameFields ==
    ASSUME NEW v \in SoundType, NEW w \in SoundType, v.acc = w.acc, v.pool = w.pool,
           v.rows = w.rows, v.params = w.params
    PROVE  v = w
BY SMT DEF SoundType

LEMMA SameValues ==
    ASSUME NEW S, NEW f \in [S -> Int], NEW g \in [S -> Int], \A z \in S : f[z] = g[z]
    PROVE  f = g
BY SMT

LEMMA PlusCommutes ==
    ASSUME NEW S, NEW f \in [S -> Int], NEW a \in S, NEW b \in S, NEW x \in Int, NEW y \in Int
    PROVE  Plus(Plus(f, a, x), b, y) = Plus(Plus(f, b, y), a, x)
<1> DEFINE g == Plus(f, a, x)
           k == Plus(f, b, y)
           m == Plus(g, b, y)
           n == Plus(k, a, x)
<1>1. g \in [S -> Int] /\ \A z \in S : g[z] = IF z = a THEN f[z] + x ELSE f[z]
  BY SMT DEF g, k, Plus
<1>2. k \in [S -> Int] /\ \A z \in S : k[z] = IF z = b THEN f[z] + y ELSE f[z]
  BY SMT DEF g, k, Plus
<1> HIDE DEF g, k
<1>3. m \in [S -> Int] /\ \A z \in S : m[z] = IF z = b THEN g[z] + y ELSE g[z]
  BY <1>1, SMT DEF m, Plus
<1>4. n \in [S -> Int] /\ \A z \in S : n[z] = IF z = a THEN k[z] + x ELSE k[z]
  BY <1>2, SMT DEF n, Plus
<1> HIDE DEF m, n
<1>5. ASSUME NEW z \in S
      PROVE  m[z] = n[z]
  <2>1. f[z] \in Int
    OBVIOUS
  <2> QED
    BY <1>1, <1>2, <1>3, <1>4, <2>1, SMT
<1>6. m = n
  BY <1>3, <1>4, <1>5, SameValues, SMT
<1> QED
  BY <1>6 DEF m, n, g, k

LEMMA MoveCommutes ==
    ASSUME NEW w \in SoundType, NEW o \in Addrs, NEW p \in Pools, NEW s \in Nat,
           NEW q \in Addrs, NEW r \in Pools, NEW t \in Nat
    PROVE  Move(Move(w, o, p, s), q, r, t) = Move(Move(w, q, r, t), o, p, s)
<1> DEFINE u == Move(w, o, p, s)
           v == Move(w, q, r, t)
           x == Move(u, q, r, t)
           y == Move(v, o, p, s)
<1>1. /\ u \in SoundType /\ u.acc = Plus(w.acc, o, s)
      /\ u.pool = Plus(w.pool, p, 0 - s)
      /\ u.rows = w.rows /\ u.params = w.params
  BY MoveFields, SMT
<1>2. /\ v \in SoundType /\ v.acc = Plus(w.acc, q, t)
      /\ v.pool = Plus(w.pool, r, 0 - t)
      /\ v.rows = w.rows /\ v.params = w.params
  BY MoveFields, SMT
<1> HIDE DEF u, v
<1>3. /\ x \in SoundType /\ x.acc = Plus(u.acc, q, t)
      /\ x.pool = Plus(u.pool, r, 0 - t)
      /\ x.rows = u.rows /\ x.params = u.params
  BY <1>1, MoveFields, SMT
<1>4. /\ y \in SoundType /\ y.acc = Plus(v.acc, o, s)
      /\ y.pool = Plus(v.pool, p, 0 - s)
      /\ y.rows = v.rows /\ y.params = v.params
  BY <1>2, MoveFields, SMT
<1> HIDE DEF x, y
<1>5. w.acc \in [Addrs -> Int] /\ w.pool \in [Pools -> Int]
  BY SMT DEF SoundType
<1>6. s \in Int /\ t \in Int /\ 0 - s \in Int /\ 0 - t \in Int
  BY SMT
<1>7. x.acc = y.acc
  BY <1>1, <1>2, <1>3, <1>4, <1>5, <1>6, PlusCommutes, SMT
<1>8. x.pool = y.pool
  BY <1>1, <1>2, <1>3, <1>4, <1>5, <1>6, PlusCommutes, SMT
<1>9. x.rows = y.rows /\ x.params = y.params
  BY <1>1, <1>2, <1>3, <1>4, SMT
<1>10. x = y
  BY <1>3, <1>4, <1>7, <1>8, <1>9, SameFields
<1> QED
  BY <1>10 DEF x, y, u, v

\* One turn of unbondUnstakingActors moves a stake.
LEMMA UnbondMoves ==
    ASSUME NEW c, Sound(c), NEW h, NEW a \in ReadyToUnstake(c, h)
    PROVE  \E o \in Addrs, p \in Pools, s \in Nat :
             \A w : Unbond(c, w, a, h) = Move(w, o, p, s)
<1> DEFINE row == Select(c.rows[a], MaxHeight)
<1>1. a \in Actors /\ Exists(c, a, MaxHeight)
  BY DEF ReadyToUnstake
<1>2. row \in Row
  BY <1>1, ActorRow
<1>3. row.output \in Addrs /\ row.stake \in Nat /\ StakePool[ActorType[a]] \in Pools
  BY <1>1, <1>2, TypeKeys DEF Row
<1>4. \A w : Unbond(c, w, a, h) = Move(w, row.output, StakePool[ActorType[a]], row.stake)
  BY DEF Unbond, Move
<1> HIDE DEF row
<1> QED
  BY <1>3, <1>4

LEMMA UnbondCommutes ==
    ASSUME NEW c, Sound(c), NEW h, NEW a \in ReadyToUnstake(c, h),
           NEW b \in ReadyToUnstake(c, h), NEW w \in SoundType
    PROVE  /\ Unbond(c, w, a, h) \in SoundType
           /\ Unbond(c, Unbond(c, w, a, h), b, h) = Unbond(c, Unbond(c, w, b, h), a, h)
<1>1. PICK o \in Addrs, p \in Pools, s \in Nat : \A x : Unbond(c, x, a, h) = Move(x, o, p, s)
  BY UnbondMoves
<1>2. PICK q \in Addrs, r \in Pools, t \in Nat : \A x : Unbond(c, x, b, h) = Move(x, q, r, t)
  BY UnbondMoves
<1>3. Move(w, o, p, s) \in SoundType
  BY MoveFields
<1>4. Move(Move(w, o, p, s), q, r, t) = Move(Move(w, q, r, t), o, p, s)
  BY MoveCommutes, SMT
<1> QED
  BY <1>1, <1>2, <1>3, <1>4, SMT

\* F gives, for every set of the actors in S, the working copy after their
\* stakes went back, whatever the order, starting at r.
UnbondTable(F, S, c, r, h) ==
    /\ F \in [SUBSET S -> SoundType]
    /\ F[{}] = r
    /\ \A D \in SUBSET S : \A a \in S \ D : F[D \cup {a}] = Unbond(c, F[D], a, h)

LEMMA TableOfNone ==
    ASSUME NEW c, NEW r \in SoundType, NEW h
    PROVE  \E F : UnbondTable(F, {}, c, r, h)
<1> DEFINE F == [D \in SUBSET {} |-> r]
<1>1. UnbondTable(F, {}, c, r, h)
  BY SMT DEF UnbondTable
<1> QED
  BY <1>1

LEMMA TableOfOneMore ==
    ASSUME NEW c, Sound(c), NEW r \in SoundType, NEW h, NEW S, S \subseteq ReadyToUnstake(c, h),
           NEW a \in S, NEW F, UnbondTable(F, S \ {a}, c, r, h)
    PROVE  \E G : UnbondTable(G, S, c, r, h)
<1> DEFINE G == [E \in SUBSET S |-> IF a \in E THEN Unbond(c, F[E \ {a}], a, h) ELSE F[E]]
           U(w, b) == Unbond(c, w, b, h)
<1>1. /\ F \in [SUBSET (S \ {a}) -> SoundType] /\ F[{}] = r
      /\ \A D \in SUBSET (S \ {a}) : \A b \in (S \ {a}) \ D : F[D \cup {b}] = U(F[D], b)
  BY DEF UnbondTable
<1>2. ASSUME NEW w \in SoundType, NEW b \in S, NEW d \in S
      PROVE  U(w, b) \in SoundType /\ U(U(w, b), d) = U(U(w, d), b)
  <2>1. b \in ReadyToUnstake(c, h) /\ d \in ReadyToUnstake(c, h)
    OBVIOUS
  <2> QED
    BY <2>1, UnbondCommutes, SMT
<1>3. /\ \A E \in SUBSET S : a \in E => G[E] = U(F[E \ {a}], a)
      /\ \A E \in SUBSET S : a \notin E => G[E] = F[E]
  BY SMT
<1> HIDE DEF U
<1>4. G \in [SUBSET S -> SoundType]
  <2> SUFFICES ASSUME NEW E \in SUBSET S
               PROVE  G[E] \in SoundType
    OBVIOUS
  <2>1. CASE a \in E
    <3>1. E \ {a} \in SUBSET (S \ {a})
      BY <2>1
    <3>2. F[E \ {a}] \in SoundType
      BY <3>1, <1>1
    <3> QED
      BY <3>2, <2>1, <1>2, <1>3
  <2>2. CASE a \notin E
    <3>1. E \in SUBSET (S \ {a})
      BY <2>2
    <3> QED
      BY <3>1, <2>2, <1>1, <1>3
  <2> QED
    BY <2>1, <2>2
<1> HIDE DEF G
<1>5. G[{}] = r
  BY <1>1, <1>3
<1>6. ASSUME NEW E \in SUBSET S, NEW b \in S \ E
      PROVE  G[E \cup {b}] = U(G[E], b)
  <2>1. E \cup {b} \in SUBSET S
    OBVIOUS
  <2>2. CASE b = a
    <3>1. (E \cup {b}) \ {a} = E /\ a \notin E
      BY <2>2
    <3>2. G[E \cup {b}] = U(F[E], a)
      <4>1. a \in E \cup {b}
        BY <2>2
      <4>2. G[E \cup {b}] = U(F[(E \cup {b}) \ {a}], a)
        BY <2>1, <4>1, <1>3
      <4> QED
        BY <4>2, <3>1
    <3>3. G[E] = F[E]
      BY <3>1, <1>3
    <3> QED
      BY <3>2, <3>3, <2>2
  <2>3. CASE b # a /\ a \notin E
    <3>1. E \in SUBSET (S \ {a}) /\ b \in (S \ {a}) \ E /\ a \notin E \cup {b}
      BY <2>3
    <3>2. G[E \cup {b}] = F[E \cup {b}]
      BY <2>1, <3>1, <1>3, SMT
    <3>3. G[E] = F[E]
      BY <2>3, <1>3
    <3>4. F[E \cup {b}] = U(F[E], b)
      BY <3>1, <1>1
    <3> QED
      BY <3>2, <3>3, <3>4, SMT
  <2>4. CASE b # a /\ a \in E
    <3> DEFINE D == E \ {a}
    <3>1. D \in SUBSET (S \ {a}) /\ b \in (S \ {a}) \ D /\ (E \cup {b}) \ {a} = D \cup {b}
      BY <2>4
    <3>2. a \in E \cup {b}
      BY <2>4
    <3>3. G[E \cup {b}] = U(F[(E \cup {b}) \ {a}], a)
      BY <2>1, <3>2, <1>3
    <3>4. G[E] = U(F[D], a)
      BY <2>4, <1>3
    <3>5. F[D \cup {b}] = U(F[D], b)
      BY <3>1, <1>1
    <3>6. F[D] \in SoundType
      BY <3>1, <1>1
    <3> HIDE DEF D
    <3>7. U(U(F[D], b), a) = U(U(F[D], a), b)
      BY <3>6, <1>2, SMT
    <3> QED
      BY <3>1, <3>3, <3>4, <3>5, <3>7, SMT
  <2> QED
    BY <2>2, <2>3, <2>4
<1>7. UnbondTable(G, S, c, r, h)
  BY <1>4, <1>5, <1>6 DEF UnbondTable, U
<1> QED
  BY <1>7

\* The table exists, by induction on the number of actors.
LEMMA TableExists ==
    ASSUME NEW c, Sound(c), NEW r \in SoundType, NEW h
    PROVE  \E F : UnbondTable(F, ReadyToUnstake(c, h), c, r, h)
<1> DEFINE R == ReadyToUnstake(c, h)
           Has(S) == \E F : UnbondTable(F, S, c, r, h)
           Bad == {n \in Nat : \E S \in SUBSET R : Cardinality(S) = n /\ ~Has(S)}
<1>1. R \subseteq Actors
  BY DEF ReadyToUnstake
<1>2. ASSUME NEW S \in SUBSET R
      PROVE  IsFiniteSet(S) /\ Cardinality(S) \in Nat
  <2>1. S \in SUBSET Actors /\ IsFiniteSet(Actors)
    BY <1>1, LedgerAssumption
  <2>2. IsFiniteSet(S)
    BY <2>1, FS_Subset
  <2> QED
    BY <2>2, FS_CardinalityType
<1>3. Has({})
  BY TableOfNone
<1>4. ASSUME NEW S \in SUBSET R, NEW a \in S, Has(S \ {a})
      PROVE  Has(S)
  BY <1>4, TableOfOneMore
<1> HIDE DEF R, Has
<1>5. Bad = {}
  <2> SUFFICES ASSUME Bad # {}
               PROVE  FALSE
    OBVIOUS
  <2>1. Bad \subseteq Nat
    OBVIOUS
  <2>2. PICK n \in Bad : \A m \in Bad : ~(m < n)
    <3> HIDE DEF Bad
    <3> QED
      BY <2>1, LeastNat
  <2>3. PICK S \in SUBSET R : Cardinality(S) = n /\ ~Has(S)
    OBVIOUS
  <2>4. PICK a \in S : TRUE
    BY <1>3, <2>3
  <2>5. ~Has(S \ {a}) /\ S \ {a} \in SUBSET R
    BY <1>4, <2>3
  <2>6. Cardinality(S) \in Nat /\ Cardinality(S \ {a}) \in Nat
    BY <1>2, <2>5
  <2>7. Cardinality(S \ {a}) \in Bad
    BY <2>5, <2>6
  <2>8. Cardinality(S \ {a}) = Cardinality(S) - 1
    BY <1>2, FS_RemoveElement, SMT
  <2>9. Cardinality(S \ {a}) < n
    BY <2>3, <2>6, <2>8, SMT
  <2> QED
    BY <2>2, <2>7, <2>9
<1>6. Cardinality(R) \in Nat /\ R \in SUBSET R
  BY <1>2
<1>7. Has(R)
  BY <1>5, <1>6
<1> QED
  BY <1>7 DEF Has, R

-----------------------------------------------------------------------------
(* The leader's ledger and the replica's *)

\* The transactions of block b are valid, and f[i] is the working copy after
\* the first i of them.
Run(f, b, c, h) ==
    /\ f[0] = c
    /\ \A i \in 1 .. Len(b) : /\ ValidTx(c, b[i], h)
                              /\ f[i] = HandleTransaction(c, f[i - 1], b[i], h)

\* The table of unbondUnstakingActors after a block whose transactions left w.
Unbonded(c, w, h) ==
    CHOOSE F : UnbondTable(F, ReadyToUnstake(c, h), c, handleProposerRewards(c, w, h), h)

\* A unit of work u in endBlock, after transactions that left w.
InEndBlock(u, w, c, h) ==
    /\ u.stage = "unbond" =>
         /\ u.todo \subseteq ReadyToUnstake(c, h)
         /\ u.w = Unbonded(c, w, h)[ReadyToUnstake(c, h) \ u.todo]
    /\ u.stage = "done" =>
         u.w = beginUnstakingMaxPausedActors(c, Unbonded(c, w, h)[ReadyToUnstake(c, h)], h)

LeaderRuns(u, w, c, h) ==
    /\ u.stage \in {"reap", "unbond", "done"}
    /\ u.stage = "reap" => u.w = w
    /\ InEndBlock(u, w, c, h)

ReplicaRuns(u, f, b, c, h) ==
    /\ u.stage \in {"wait", "apply", "unbond", "done"}
    /\ u.stage = "wait" => u.w = c /\ u.next = 1
    /\ u.stage = "apply" => u.next \in 1 .. Len(b) + 1 /\ u.w = f[u.next - 1]
    /\ InEndBlock(u, f[Len(b)], c, h)

Agrees(f) ==
    /\ Run(f, block, ledger, height)
    /\ Sound(f[Len(block)]) /\ Covers(f[Len(block)], ledger, height)
    /\ LeaderRuns(uow["leader"], f[Len(block)], ledger, height)
    /\ ReplicaRuns(uow["replica"], f, block, ledger, height)
    /\ uow["leader"].stage # "done" => uow["replica"].stage = "wait"

SameInv == \E f : Agrees(f)

LEMMA UnbondedTable ==
    ASSUME NEW c, Sound(c), NEW w, Sound(w), NEW h \in Heights, Covers(w, c, h)
    PROVE  UnbondTable(Unbonded(c, w, h), ReadyToUnstake(c, h), c,
                       handleProposerRewards(c, w, h), h)
<1>1. handleProposerRewards(c, w, h) \in SoundType
  BY RewardsSound DEF Sound
<1>2. \E F : UnbondTable(F, ReadyToUnstake(c, h), c, handleProposerRewards(c, w, h), h)
  BY <1>1, TableExists
<1> QED
  BY <1>2 DEF Unbonded

LEMMA EndBlockBegins ==
    ASSUME NEW c, Sound(c), NEW w, Sound(w), NEW h \in Heights, Covers(w, c, h),
           NEW u, u.stage = "unbond", u.w = handleProposerRewards(c, w, h),
           u.todo = ReadyToUnstake(c, h)
    PROVE  InEndBlock(u, w, c, h)
<1> DEFINE R == ReadyToUnstake(c, h)
<1>1. Unbonded(c, w, h)[{}] = handleProposerRewards(c, w, h)
  BY UnbondedTable DEF UnbondTable
<1>2. R \ R = {}
  OBVIOUS
<1> HIDE DEF R
<1>3. Unbonded(c, w, h)[R \ R] = handleProposerRewards(c, w, h)
  BY <1>1, <1>2
<1> QED
  BY <1>3 DEF InEndBlock, R

LEMMA EndBlockGoesOn ==
    ASSUME NEW c, Sound(c), NEW w, Sound(w), NEW h \in Heights, Covers(w, c, h),
           NEW u, InEndBlock(u, w, c, h), u.stage = "unbond", NEW a \in u.todo,
           NEW v, v.stage = "unbond", v.todo = u.todo \ {a}, v.w = Unbond(c, u.w, a, h)
    PROVE  InEndBlock(v, w, c, h)
<1> DEFINE R == ReadyToUnstake(c, h)
           F == Unbonded(c, w, h)
           D == R \ u.todo
<1>1. u.todo \subseteq R /\ u.w = F[D]
  BY DEF InEndBlock
<1>2. \A E \in SUBSET R : \A b \in R \ E : F[E \cup {b}] = Unbond(c, F[E], b, h)
  <2>1. UnbondTable(F, R, c, handleProposerRewards(c, w, h), h)
    BY UnbondedTable
  <2> HIDE DEF F, R
  <2> QED
    BY <2>1 DEF UnbondTable
<1>3. D \in SUBSET R /\ a \in R \ D /\ D \cup {a} = R \ v.todo /\ v.todo \subseteq R
  <2> DEFINE t == u.todo
  <2>1. t \subseteq R /\ a \in t /\ v.todo = t \ {a} /\ D = R \ t
    BY <1>1
  <2> HIDE DEF t, D, R
  <2> QED
    BY <2>1, SMT
<1> HIDE DEF R, F, D
<1>4. F[D \cup {a}] = Unbond(c, F[D], a, h)
  BY <1>2, <1>3
<1>5. v.w = F[R \ v.todo]
  BY <1>1, <1>3, <1>4
<1> QED
  BY <1>3, <1>5 DEF InEndBlock, R, F

LEMMA EndBlockEnds ==
    ASSUME NEW c, NEW w, NEW h, NEW u, InEndBlock(u, w, c, h), u.stage = "unbond", u.todo = {},
           NEW v, v.stage = "done", v.w = beginUnstakingMaxPausedActors(c, u.w, h)
    PROVE  InEndBlock(v, w, c, h)
<1> DEFINE R == ReadyToUnstake(c, h)
           F == Unbonded(c, w, h)
<1>1. u.w = F[R \ {}]
  BY DEF InEndBlock
<1>2. R \ {} = R
  OBVIOUS
<1> HIDE DEF R, F
<1>3. u.w = F[R]
  BY <1>1, <1>2
<1> QED
  BY <1>3 DEF InEndBlock, R, F

LEMMA NotInEndBlock ==
    ASSUME NEW u, u.stage # "unbond", u.stage # "done", NEW w, NEW c, NEW h
    PROVE  InEndBlock(u, w, c, h)
BY DEF InEndBlock

\* A new block: both start from the committed ledger.
LEMMA SameStart ==
    ASSUME NEW c, Sound(c), NEW h, Covers(c, c, h),
           NEW u, u.stage = "reap", u.w = c, NEW v, v.stage = "wait", v.w = c, v.next = 1
    PROVE  \E f : /\ Run(f, <<>>, c, h)
                  /\ Sound(f[Len(<<>>)]) /\ Covers(f[Len(<<>>)], c, h)
                  /\ LeaderRuns(u, f[Len(<<>>)], c, h)
                  /\ ReplicaRuns(v, f, <<>>, c, h)
<1> DEFINE f == [i \in {0} |-> c]
<1>1. f[0] = c
  OBVIOUS
<1> HIDE DEF f
<1>2. Len(<<>>) = 0 /\ 1 .. Len(<<>>) = {}
  BY SMT
<1>3. Run(f, <<>>, c, h)
  BY <1>1, <1>2 DEF Run
<1>4. LeaderRuns(u, c, c, h)
  BY NotInEndBlock DEF LeaderRuns
<1>5. ReplicaRuns(v, f, <<>>, c, h)
  BY NotInEndBlock DEF ReplicaRuns
<1> QED
  BY <1>1, <1>2, <1>3, <1>4, <1>5

LEMMA SameInit == Init => SameInv
<1> SUFFICES ASSUME Init PROVE SameInv
  OBVIOUS
<1>1. Sound(ledger) /\ Covers(ledger, ledger, height) /\ block = <<>>
  BY GenesisSound DEF Init
<1>2. \A n \in Nodes : uow[n] = [stage |-> IF n = "leader" THEN "reap" ELSE "wait",
                                 w |-> ledger, next |-> 1, todo |-> {}]
  BY DEF Init, NewUnitOfWork
<1>3. uow["leader"].stage = "reap" /\ uow["leader"].w = ledger
  <2>1. uow["leader"] = [stage |-> "reap", w |-> ledger, next |-> 1, todo |-> {}]
    BY <1>2, NodeNames
  <2> QED
    BY <2>1, SMT
<1>4. /\ uow["replica"].stage = "wait" /\ uow["replica"].w = ledger
      /\ uow["replica"].next = 1
  <2>1. uow["replica"] = [stage |-> "wait", w |-> ledger, next |-> 1, todo |-> {}]
    BY <1>2, NodeNames
  <2> QED
    BY <2>1, SMT
<1> QED
  BY <1>1, <1>3, <1>4, SameStart DEF SameInv, Agrees

\* The leader adds a transaction to its block.
LEMMA RunGrows ==
    ASSUME NEW b \in Seq(Msgs), NEW m \in Msgs, NEW c, NEW h, NEW f, Run(f, b, c, h),
           ValidTx(c, m, h)
    PROVE  \E g : /\ Run(g, Append(b, m), c, h)
                  /\ Len(Append(b, m)) = Len(b) + 1
                  /\ g[Len(b) + 1] = HandleTransaction(c, f[Len(b)], m, h)
<1> DEFINE n == Len(b)
           v == HandleTransaction(c, f[n], m, h)
           B == Append(b, m)
           g == [i \in 0 .. n + 1 |-> IF i = n + 1 THEN v ELSE f[i]]
<1>1. /\ n \in Nat /\ Len(B) = n + 1 /\ B[n + 1] = m
      /\ \A i \in 1 .. n : B[i] = b[i]
  BY SMT
<1> HIDE DEF n, v, B
<1>2. g[n + 1] = v /\ \A i \in 0 .. n : g[i] = f[i]
  BY <1>1, SMT
<1> HIDE DEF g
<1>3. 0 \in 0 .. n /\ (n + 1) - 1 = n /\ n \in 0 .. n
  BY <1>1, SMT
<1>4. ASSUME NEW i \in 1 .. n + 1
      PROVE  ValidTx(c, B[i], h) /\ g[i] = HandleTransaction(c, g[i - 1], B[i], h)
  <2>1. CASE i = n + 1
    <3>1. g[i - 1] = f[n]
      BY <1>2, <1>3, <2>1
    <3> QED
      BY <1>1, <1>2, <2>1, <3>1 DEF v
  <2>2. CASE i # n + 1
    <3>1. i \in 1 .. n /\ i \in 0 .. n /\ i - 1 \in 0 .. n
      BY <1>1, <2>2, SMT
    <3>2. ValidTx(c, b[i], h) /\ f[i] = HandleTransaction(c, f[i - 1], b[i], h)
      BY <3>1 DEF Run, n
    <3>3. B[i] = b[i] /\ g[i] = f[i] /\ g[i - 1] = f[i - 1]
      BY <1>1, <1>2, <3>1
    <3> QED
      BY <3>2, <3>3, SMT
  <2> QED
    BY <2>1, <2>2
<1>5. g[0] = c
  BY <1>2, <1>3 DEF Run
<1>6. Run(g, B, c, h)
  BY <1>1, <1>4, <1>5 DEF Run
<1> QED
  BY <1>1, <1>2, <1>6 DEF n, v, B

LEMMA SameReap ==
    ASSUME IInv, IInv', SameInv, NEW m \in Msgs, ReapTx(m)
    PROVE  SameInv'
<1>1. /\ SameLedger /\ uow["leader"].stage = "reap" /\ uow'["leader"].stage = "reap"
      /\ uow'["replica"] = uow["replica"]
      /\ \/ block' = block /\ uow' = uow
         \/ /\ ValidTx(ledger, m, height) /\ block' = Append(block, m)
            /\ uow'["leader"].w = HandleTransaction(ledger, uow["leader"].w, m, height)
  BY ReapTxEffect
<1>2. PICK f : Agrees(f)
  BY DEF SameInv
<1>3. CASE block' = block /\ uow' = uow
  BY <1>1, <1>2, <1>3 DEF SameInv, Agrees, SameLedger
<1>4. CASE /\ ValidTx(ledger, m, height) /\ block' = Append(block, m)
           /\ uow'["leader"].w = HandleTransaction(ledger, uow["leader"].w, m, height)
  <2>1. block \in Seq(Msgs)
    BY DEF IInv
  <2>2. PICK g : /\ Run(g, Append(block, m), ledger, height)
                 /\ Len(Append(block, m)) = Len(block) + 1
                 /\ g[Len(block) + 1] = HandleTransaction(ledger, f[Len(block)], m, height)
    <3>1. Run(f, block, ledger, height)
      BY <1>2 DEF Agrees
    <3> QED
      BY <1>4, <2>1, <3>1, RunGrows, SMT
  <2>3. uow["leader"].w = f[Len(block)] /\ uow["replica"].stage = "wait"
    BY <1>1, <1>2 DEF Agrees, LeaderRuns
  <2>4. uow'["leader"].w = g[Len(block')]
    BY <1>4, <2>2, <2>3
  <2>5. Sound(uow'["leader"].w) /\ Covers(uow'["leader"].w, ledger', height')
    BY NodeNames DEF IInv, UowOK
  <2>6. LeaderRuns(uow'["leader"], g[Len(block')], ledger', height')
    BY <1>1, <2>4, NotInEndBlock DEF LeaderRuns
  <2>7. uow["replica"].w = ledger /\ uow["replica"].next = 1
    BY <1>2, <2>3 DEF Agrees, ReplicaRuns
  <2>8. ReplicaRuns(uow'["replica"], g, block', ledger', height')
    BY <1>1, <2>3, <2>7, NotInEndBlock DEF ReplicaRuns, SameLedger
  <2>9. Run(g, block', ledger', height')
    BY <1>1, <1>4, <2>2 DEF SameLedger
  <2> QED
    BY <1>1, <2>3, <2>4, <2>5, <2>6, <2>8, <2>9 DEF SameInv, Agrees
<1> QED
  BY <1>1, <1>3, <1>4

\* The replica applies a transaction of the block: it is valid, as it was for
\* the leader.
LEMMA SameApply ==
    ASSUME IInv, SameInv, ApplyTx
    PROVE  SameInv'
<1> DEFINE k == uow["replica"].next
           n == Len(block)
<1>1. /\ SameLedger /\ block' = block
      /\ uow["replica"].stage = "apply" /\ k \in 1 .. n
      /\ uow'["leader"] = uow["leader"]
      /\ \/ ~ ValidTx(ledger, block[k], height)
         \/ /\ uow'["replica"].stage = "apply"
            /\ uow'["replica"].next = k + 1
            /\ uow'["replica"].w = HandleTransaction(ledger, uow["replica"].w, block[k], height)
  BY ApplyTxEffect
<1>2. PICK f : Agrees(f)
  BY DEF SameInv
<1>3. /\ ValidTx(ledger, block[k], height)
      /\ f[k] = HandleTransaction(ledger, f[k - 1], block[k], height)
  BY <1>1, <1>2 DEF Agrees, Run
<1>4. uow["replica"].w = f[k - 1]
  BY <1>1, <1>2 DEF Agrees, ReplicaRuns
<1>5. /\ uow'["replica"].stage = "apply" /\ uow'["replica"].next = k + 1
      /\ uow'["replica"].w = f[k]
  BY <1>1, <1>3, <1>4
<1> HIDE DEF k
<1>6. n \in Nat
  BY SMT DEF IInv
<1>7. k + 1 \in 1 .. n + 1 /\ (k + 1) - 1 = k
  BY <1>1, <1>6, SMT
<1>8. ReplicaRuns(uow'["replica"], f, block, ledger, height)
  BY <1>5, <1>7, NotInEndBlock DEF ReplicaRuns
<1>9. uow["leader"].stage = "done"
  BY <1>1, <1>2 DEF Agrees
<1>10. Agrees(f)'
  BY <1>1, <1>2, <1>8, <1>9 DEF Agrees, SameLedger
<1> QED
  BY <1>10 DEF SameInv

\* The leader, and then the replica, begins endBlock with the working copy that
\* the transactions of the block left.
LEMMA SameBegin ==
    ASSUME IInv, SameInv, NEW n \in Nodes, BeginEndBlock(n)
    PROVE  SameInv'
<1>1. /\ SameLedger /\ block' = block
      /\ \/ n = "leader" /\ uow[n].stage = "reap"
         \/ n = "replica" /\ uow[n].stage = "apply" /\ uow[n].next > Len(block)
      /\ uow'[n].stage = "unbond"
      /\ uow'[n].w = handleProposerRewards(ledger, uow[n].w, height)
      /\ uow'[n].todo = ReadyToUnstake(ledger, height)
      /\ \A k \in Nodes : k # n => uow'[k] = uow[k]
  BY BeginEffect
<1>2. PICK f : Agrees(f)
  BY DEF SameInv
<1> DEFINE w == f[Len(block)]
<1>3. /\ Sound(ledger) /\ Sound(w) /\ height \in Heights /\ Covers(w, ledger, height)
  BY <1>2, UowFields, NodeNames DEF Agrees
<1>4. CASE n = "leader"
  <2>1. uow[n].w = w /\ uow["replica"].stage = "wait"
    BY <1>1, <1>2, <1>4, NodeNames DEF Agrees, LeaderRuns
  <2>2. InEndBlock(uow'[n], w, ledger, height)
    BY <1>1, <1>3, <2>1, EndBlockBegins
  <2>3. LeaderRuns(uow'[n], w, ledger, height)
    BY <1>1, <2>2 DEF LeaderRuns
  <2>4. uow'["replica"] = uow["replica"]
    BY <1>1, <1>4, NodeNames
  <2>5. Agrees(f)'
    BY <1>1, <1>2, <1>4, <2>1, <2>3, <2>4 DEF Agrees, SameLedger
  <2> QED
    BY <2>5 DEF SameInv
<1>5. CASE n = "replica"
  <2>1. uow[n].stage = "apply" /\ uow[n].next > Len(block)
    BY <1>1, <1>5, NodeNames
  <2>2. uow[n].next \in 1 .. Len(block) + 1 /\ uow[n].w = f[uow[n].next - 1]
    BY <1>2, <1>5, <2>1 DEF Agrees, ReplicaRuns
  <2>3. Len(block) \in Nat
    BY SMT DEF IInv
  <2>4. uow[n].next - 1 = Len(block)
    BY <2>1, <2>2, <2>3, SMT
  <2>5. InEndBlock(uow'[n], w, ledger, height)
    BY <1>1, <1>3, <2>2, <2>4, EndBlockBegins
  <2>6. ReplicaRuns(uow'[n], f, block, ledger, height)
    BY <1>1, <2>5 DEF ReplicaRuns
  <2>7. uow'["leader"] = uow["leader"] /\ uow["leader"].stage = "done"
    BY <1>1, <1>2, <1>5, <2>1, NodeNames DEF Agrees
  <2>8. Agrees(f)'
    BY <1>1, <1>2, <1>5, <2>6, <2>7 DEF Agrees, SameLedger
  <2> QED
    BY <2>8 DEF SameInv
<1> QED
  BY <1>4, <1>5 DEF Nodes

\* A stake goes back: in any order, to the same ledger.
LEMMA SameUnbond ==
    ASSUME IInv, SameInv, NEW n \in Nodes, NEW a \in Actors, UnbondActor(n, a)
    PROVE  SameInv'
<1>1. /\ SameLedger /\ block' = block
      /\ uow[n].stage = "unbond" /\ a \in uow[n].todo
      /\ uow'[n].stage = "unbond" /\ uow'[n].todo = uow[n].todo \ {a}
      /\ uow'[n].w = Unbond(ledger, uow[n].w, a, height)
      /\ \A k \in Nodes : k # n => uow'[k] = uow[k]
  BY UnbondEffect
<1>2. PICK f : Agrees(f)
  BY DEF SameInv
<1> DEFINE w == f[Len(block)]
<1>3. /\ Sound(ledger) /\ Sound(w) /\ height \in Heights /\ Covers(w, ledger, height)
  BY <1>2, UowFields, NodeNames DEF Agrees
<1>4. InEndBlock(uow[n], w, ledger, height)
  BY <1>2 DEF Agrees, LeaderRuns, ReplicaRuns, Nodes
<1> HIDE DEF w
<1>5. InEndBlock(uow'[n], w, ledger, height)
  BY <1>1, <1>3, <1>4, EndBlockGoesOn
<1>6. CASE n = "leader"
  <2>1. LeaderRuns(uow'[n], w, ledger, height)
    BY <1>1, <1>5 DEF LeaderRuns
  <2>2. uow'["replica"] = uow["replica"] /\ uow["replica"].stage = "wait"
    BY <1>1, <1>2, <1>6, NodeNames DEF Agrees
  <2>3. Agrees(f)'
    BY <1>1, <1>2, <1>6, <2>1, <2>2 DEF Agrees, SameLedger, w
  <2> QED
    BY <2>3 DEF SameInv
<1>7. CASE n = "replica"
  <2>1. ReplicaRuns(uow'[n], f, block, ledger, height)
    BY <1>1, <1>5 DEF ReplicaRuns, w
  <2>2. uow'["leader"] = uow["leader"] /\ uow["leader"].stage = "done"
    BY <1>1, <1>2, <1>7, NodeNames DEF Agrees
  <2>3. Agrees(f)'
    BY <1>1, <1>2, <1>7, <2>1, <2>2 DEF Agrees, SameLedger
  <2> QED
    BY <2>3 DEF SameInv
<1> QED
  BY <1>6, <1>7 DEF Nodes

LEMMA SameFinish ==
    ASSUME IInv, SameInv, NEW n \in Nodes, FinishEndBlock(n)
    PROVE  SameInv'
<1>1. /\ SameLedger /\ block' = block
      /\ uow[n].stage = "unbond" /\ uow[n].todo = {}
      /\ uow'[n].stage = "done"
      /\ uow'[n].w = beginUnstakingMaxPausedActors(ledger, uow[n].w, height)
      /\ \A k \in Nodes : k # n =>
           /\ n = "leader" => uow'[k].stage = "apply"
           /\ n = "replica" => uow'[k].stage = uow[k].stage
           /\ uow'[k].w = uow[k].w /\ uow'[k].next = uow[k].next
           /\ uow'[k].todo = uow[k].todo
  BY FinishEffect
<1>2. PICK f : Agrees(f)
  BY DEF SameInv
<1> DEFINE w == f[Len(block)]
<1>3. InEndBlock(uow[n], w, ledger, height)
  BY <1>2 DEF Agrees, LeaderRuns, ReplicaRuns, Nodes
<1> HIDE DEF w
<1>4. InEndBlock(uow'[n], w, ledger, height)
  BY <1>1, <1>3, EndBlockEnds
<1>5. CASE n = "leader"
  <2>1. LeaderRuns(uow'[n], w, ledger, height)
    BY <1>1, <1>4 DEF LeaderRuns
  <2>2. uow["replica"].stage = "wait"
    BY <1>1, <1>2, <1>5, NodeNames DEF Agrees
  <2>3. uow["replica"].w = ledger /\ uow["replica"].next = 1 /\ f[0] = ledger
    BY <1>2, <2>2 DEF Agrees, ReplicaRuns, Run
  <2>4. /\ uow'["replica"].stage = "apply" /\ uow'["replica"].next = 1
        /\ uow'["replica"].w = f[0]
    BY <1>1, <1>5, <2>3, NodeNames
  <2>5. Len(block) \in Nat
    BY SMT DEF IInv
  <2>6. 1 \in 1 .. Len(block) + 1 /\ 1 - 1 = 0
    BY <2>5, SMT
  <2>7. ReplicaRuns(uow'["replica"], f, block, ledger, height)
    BY <2>4, <2>6, NotInEndBlock DEF ReplicaRuns
  <2>8. Agrees(f)'
    BY <1>1, <1>2, <1>5, <2>1, <2>7 DEF Agrees, SameLedger, w
  <2> QED
    BY <2>8 DEF SameInv
<1>6. CASE n = "replica"
  <2>1. ReplicaRuns(uow'[n], f, block, ledger, height)
    BY <1>1, <1>4 DEF ReplicaRuns, w
  <2>2. /\ uow'["leader"].stage = uow["leader"].stage /\ uow'["leader"].w = uow["leader"].w
        /\ uow'["leader"].todo = uow["leader"].todo /\ uow["leader"].stage = "done"
    BY <1>1, <1>2, <1>6, NodeNames DEF Agrees
  <2>3. LeaderRuns(uow'["leader"], w, ledger, height)
    BY <1>2, <2>2 DEF Agrees, LeaderRuns, InEndBlock, w
  <2>4. Agrees(f)'
    BY <1>1, <1>2, <1>6, <2>1, <2>2, <2>3 DEF Agrees, SameLedger, w
  <2> QED
    BY <2>4 DEF SameInv
<1> QED
  BY <1>5, <1>6 DEF Nodes

LEMMA SameCommit ==
    ASSUME IInv', Commit, IInv
    PROVE  SameInv'
<1>1. /\ ledger' = uow["replica"].w /\ block' = <<>>
      /\ uow'["leader"].stage = "reap" /\ uow'["replica"].stage = "wait"
      /\ \A n \in Nodes : uow'[n].w = ledger' /\ uow'[n].next = 1
  BY CommitEffect
<1>2. Sound(ledger') /\ Covers(ledger', ledger', height')
  BY <1>1, NodeNames DEF IInv, UowOK
<1>3. /\ uow'["leader"].w = ledger' /\ uow'["replica"].w = ledger'
      /\ uow'["replica"].next = 1
  BY <1>1, NodeNames
<1>4. \E f : /\ Run(f, <<>>, ledger', height')
             /\ Sound(f[Len(<<>>)]) /\ Covers(f[Len(<<>>)], ledger', height')
             /\ LeaderRuns(uow'["leader"], f[Len(<<>>)], ledger', height')
             /\ ReplicaRuns(uow'["replica"], f, <<>>, ledger', height')
  BY <1>1, <1>2, <1>3, SameStart
<1> QED
  BY <1>1, <1>4 DEF SameInv, Agrees

LEMMA SameNext == IInv /\ IInv' /\ SameInv /\ [Next]_vars => SameInv'
<1> SUFFICES ASSUME IInv, IInv', SameInv, [Next]_vars PROVE SameInv'
  OBVIOUS
<1>1. CASE UNCHANGED vars
  BY <1>1 DEF vars, SameInv, Agrees
<1>2. CASE Next
  BY <1>2, SameReap, SameApply, SameBegin, SameUnbond, SameFinish, SameCommit DEF Next
<1> QED
  BY <1>1, <1>2

\* The replica rejects no transaction of the leader's block and, whatever the
\* orders in which unbondUnstakingActors returns the stakes on each of them,
\* ends with the leader's ledger: ApplyBlock finds the state hash of the
\* proposal.
THEOREM ReplicasAgree == Spec => []SameState
<1>1. SameInv => SameState
  <2> SUFFICES ASSUME SameInv PROVE SameState
    OBVIOUS
  <2>1. PICK f : Agrees(f)
    BY DEF SameInv
  <2>2. uow["replica"].stage # "failed"
    BY <2>1 DEF Agrees, ReplicaRuns
  <2>3. ASSUME \A n \in Nodes : uow[n].stage = "done"
        PROVE  uow["leader"].w = uow["replica"].w
    <3>1. uow["leader"].stage = "done" /\ uow["replica"].stage = "done"
      BY <2>3, NodeNames
    <3> QED
      BY <2>1, <3>1 DEF Agrees, LeaderRuns, ReplicaRuns, InEndBlock
  <2> QED
    BY <2>2, <2>3 DEF SameState
<1> QED
  BY <1>1, InitIInv, NextIInv, SameInit, SameNext, PTL DEF Spec

=============================================================================
