------------------------------- MODULE MCGossip -------------------------------
(***************************************************************************)
(* Instances of Gossip: a tree of two levels with nothing else going on;   *)
(* few nodes that send more messages than the deduper holds; a network in  *)
(* which one validator leaves and another joins while a message travels;   *)
(* one in which the tree gets a level; and one in which a validator leaves *)
(* and comes back.                                                         *)
(***************************************************************************)
EXTENDS Gossip

Tree == [nodes |-> 1 .. 4, staked |-> <<1 .. 4, 1 .. 4, 1 .. 4>>,
         top |-> <<1, 1, 1, 1>>, readers |-> {3}, msgs |-> 1, faults |-> 0]

Pair == [nodes |-> {1, 2}, staked |-> <<{1, 2}, {1, 2}, {1, 2}>>,
         top |-> <<1, 1, 1, 1>>, readers |-> {1, 2}, msgs |-> 2, faults |-> 1]

Joining == [nodes |-> 1 .. 3, staked |-> <<{1, 3}, {2, 3}, {2, 3}>>,
            top |-> <<1, 2, 2, 1>>, readers |-> {}, msgs |-> 2, faults |-> 0]

Growing == [nodes |-> 1 .. 4, staked |-> <<1 .. 3, 1 .. 4, 1 .. 4>>,
            top |-> <<1, 2, 1, 1>>, readers |-> {}, msgs |-> 1, faults |-> 0]

Rejoining == [nodes |-> 1 .. 3, staked |-> <<{1, 2, 3}, {1, 3}, {1, 2}>>,
              top |-> <<2, 3, 1, 1>>, readers |-> {}, msgs |-> 1, faults |-> 0]

Small == {Tree, Pair, Joining, Growing, Rejoining}

\* The sizes at which the tree leaves a validator out, up to the largest network
\* that module_raintree_test.go simulates
ASSUME LeftOut ==
    {n \in 1 .. 27 : Covered(n) # 0 .. n - 1} = {8, 17, 19, 20} \cup 22 .. 26

=============================================================================
