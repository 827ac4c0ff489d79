----------------------------- MODULE BlockChain ------------------------------
(***************************************************************************)
(* What the persistence module promises to those that read blocks from it: *)
(* a chain of state hashes, one for each height above genesis, that blocks *)
(* are appended to and never removed from or changed in.                   *)
(***************************************************************************)
EXTENDS Sequences

CONSTANT Hash

VARIABLE chain

Init == chain = <<>>

CommitBlock == \E hash \in Hash : chain' = Append(chain, hash)

Spec == Init /\ [][CommitBlock]_chain

=============================================================================
