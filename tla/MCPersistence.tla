---------------------------- MODULE MCPersistence ----------------------------
(* An instance of Persistence: two transactions of one byte. *)
EXTENDS Persistence

CONSTANTS t1, t2

SizeOf(t) == 1

=============================================================================
