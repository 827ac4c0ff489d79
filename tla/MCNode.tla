-------------------------------- MODULE MCNode --------------------------------
(* Small loads for Node: each brings some of the waiting together. *)
EXTENDS Node

Load(bootstrapped, at0, inputs, requests, calls, timeouts, crashes) ==
    [bootstrapped |-> bootstrapped, height |-> at0, inputs |-> inputs,
     requests |-> requests, calls |-> calls, timeouts |-> timeouts,
     crashes |-> crashes]

\* A block is decided while the timer fires.
Deciding == Load(TRUE, 2, <<Message("newround", 2), Message("decide", 2),
                            Message("blockreq", 2), Message("tx", 0)>>,
                 {}, 0, 1, 0)

\* The process ends while a block is decided, the first after genesis in one.
Crashing == Load(TRUE, 2, <<Message("newround", 2), Message("decide", 2),
                            Message("blockreq", 2)>>, {}, 0, 0, 1)
First == Load(TRUE, 1, <<Message("newround", 1), Message("decide", 1)>>,
              {}, 0, 0, 1)

\* The node starts and is behind, and is asked for blocks and metadata at
\* height 0.
Behind == Load(FALSE, 0, <<Message("blockreq", 1), Message("newround", 1),
                           Message("metareq", 0)>>, {}, 0, 0, 0)

\* Others answer requests that a debug message sent, one more than fits.
Answered == Load(TRUE, 1, <<Message("syncreq", 0), Message("metares", 0),
                            Message("blockres", 0), Message("metares", 0),
                            Message("newround", 2)>>, {}, 0, 0, 0)

\* Debug messages go back to genesis and on from there.
Resetting == Load(TRUE, 1, <<Message("newround", 1), Message("reset", 0),
                             Message("nextview", 0)>>, {}, 0, 1, 0)

\* Clients take connections while consensus works.
Queried == Load(TRUE, 0, <<Message("newround", 0), Message("metareq", 0)>>,
                {Query, QueryUpgrade, AccountTxs(3, 2, 2), BlockTxs(2)},
                2, 1, 0)

\* After a reset the timer of an earlier round goes off: validators decide a
\* block at height 0, which SQL refuses.
AtGenesis == Load(TRUE, 0, <<Message("newround", 0), Message("decide", 0),
                             Message("nextview", 0)>>, {}, 0, 0, 0)

Mixed == {Deciding, Crashing, First, Behind, Answered, Resetting, AtGenesis,
          Queried}
=============================================================================
