------------------------------- MODULE Mempool -------------------------------
(***************************************************************************)
(* The transaction mempool: a FIFO set (shared/mempool/generic_fifo_set.go)*)
(* with the two counters that utility/types/tx_fifo_mempool.go keeps in    *)
(* the set's callbacks.  A mempool is a record; every operation runs under *)
(* the mutex of the set and is an operator that returns the next record.   *)
(***************************************************************************)
EXTENDS Integers, Sequences

CONSTANTS
    Txs,            \* transactions
    Size(_),        \* the length of a transaction in bytes
    MaxTxs,         \* maxTxs
    MaxTxsBytes,    \* maxTxsBytesTotal
    Word            \* 2^64: the counter of bytes is an unsigned word

ASSUME LimitsAssumption ==
    MaxTxs \in Nat /\ MaxTxsBytes \in Nat /\ Word \in Nat \ {0}
ASSUME SizeAssumption == \A t \in Txs : Size(t) \in 1 .. Word

Mempools == [queue : Seq(Txs), txCount : Int, txsBytesTotal : 0 .. Word - 1]

EmptyMempool == [queue |-> <<>>, txCount |-> 0, txsBytesTotal |-> 0]

TxsIn(seq) == {seq[i] : i \in DOMAIN seq}

Contains(mp, t) == t \in TxsIn(mp.queue)

IsOverflowing(mp) == mp.txCount > MaxTxs \/ mp.txsBytesTotal > MaxTxsBytes

OnAdd(mp, t) ==
    [mp EXCEPT !.txCount = @ + 1, !.txsBytesTotal = (@ + Size(t)) % Word]

OnRemove(mp, t) ==
    [mp EXCEPT !.txCount = @ - 1,
               !.txsBytesTotal = (@ + Word - Size(t)) % Word]

\* Mutant: the callback is not called for the transaction that is evicted.
PushNoCallback(mp, t) ==
    LET added == OnAdd([mp EXCEPT !.queue = Append(@, t)], t)
    IN  IF IsOverflowing(added)
        THEN [added EXCEPT !.queue = Tail(@)]
        ELSE added

\* Push of a transaction that is not in the set.  When the set overflows its
\* front leaves it, once, and the callback is told of the transaction that
\* was pushed, not of the one that leaves.
Push(mp, t) ==
    LET added == OnAdd([mp EXCEPT !.queue = Append(@, t)], t)
    IN  IF IsOverflowing(added)
        THEN OnRemove([added EXCEPT !.queue = Tail(@)], t)
        ELSE added

\* AddTx: a transaction that is there already is refused.
AddTx(mp, t) == IF Contains(mp, t) THEN mp ELSE Push(mp, t)

PopTx(mp) == OnRemove([mp EXCEPT !.queue = Tail(@)], Head(mp.queue))

\* Remove takes the element out of the middle of the list.
Without(queue, t) ==
    LET i == CHOOSE j \in DOMAIN queue : queue[j] = t
    IN  SubSeq(queue, 1, i - 1) \o SubSeq(queue, i + 1, Len(queue))

RemoveTx(mp, t) ==
    IF Contains(mp, t)
    THEN OnRemove([mp EXCEPT !.queue = Without(@, t)], t)
    ELSE mp

=============================================================================
