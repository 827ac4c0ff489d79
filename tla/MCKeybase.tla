------------------------------ MODULE MCKeybase ------------------------------
(***************************************************************************)
(* Two processes that work on one imported key and its child while new     *)
(* keys are created: every operation with a right and a wrong passphrase,  *)
(* a child with and without a hint, and an index out of range.             *)
(***************************************************************************)
EXTENDS Keybase, TLC

CONSTANTS c1, c2, master, derived, fresh, old, new, empty

MCChild == (<<master, 0>> :> derived)

MCMaxVersions == [k \in Keys |-> IF k = master THEN 2 ELSE 1]

Cmd(op, key, pass, other) ==
  [op |-> op, key |-> key, pass |-> pass, new |-> other,
   hint |-> FALSE, store |-> TRUE, index |-> 0]

MCCommands ==
  {Cmd("create", fresh, old, empty), Cmd("import", master, old, empty),
   Cmd("importJSON", master, old, new), Cmd("update", master, old, new),
   Cmd("delete", master, old, empty), Cmd("sign", master, new, empty),
   Cmd("export", master, old, empty), Cmd("get", master, empty, empty),
   Cmd("getAll", master, empty, empty), Cmd("derive", master, old, new),
   [Cmd("derive", master, old, new) EXCEPT !.hint = TRUE],
   [Cmd("derive", master, old, new) EXCEPT !.index = 1]}

Processes == Permutations(Clients)

=============================================================================
