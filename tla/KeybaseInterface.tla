-------------------------- MODULE KeybaseInterface --------------------------
(***************************************************************************)
(* What the Keybase interface (app/client/keybase/keybase.go) promises a   *)
(* user of the command line: every command takes effect at once or not at  *)
(* all.  entry[k] is the passphrase the key k is stored under.             *)
(*                                                                         *)
(* A keybase that one process at a time has open (exclusive) checks a      *)
(* passphrase against the entry as it is when the command takes effect.  A *)
(* keybase that processes share promises less: the passphrase was right at *)
(* some time, a deletion may be overtaken by a write, and the answer to a  *)
(* command that took effect may be lost.                                   *)
(***************************************************************************)
EXTENDS Integers

CONSTANTS Clients, Keys, Passphrases, NoPassphrase, Fresh, Child, Commands, None

VARIABLES exclusive, entry, ever, cmd, outcome

ivars == <<exclusive, entry, ever, cmd, outcome>>

Init ==
  /\ exclusive \in BOOLEAN
  /\ entry = [k \in Keys |-> None]
  /\ ever = [k \in Keys |-> {}]
  /\ cmd = [c \in Clients |-> None]
  /\ outcome = [c \in Clients |-> None]

(* The passphrase p opens the entry of k, or once did. *)
Opens(k, p) == IF exclusive THEN entry[k] = p ELSE p \in ever[k]

(* The key k is stored under the passphrase p, whatever was stored before. *)
Stored(k, p) ==
  /\ entry' = [entry EXCEPT ![k] = p]
  /\ ever' = IF exclusive THEN ever ELSE [ever EXCEPT ![k] = @ \cup {p}]

(* A stored child keeps the passphrase it was given only when a hint came  *)
(* with it; otherwise it is stored without one.                            *)
ChildPassphrase(m) ==
  IF m.new # NoPassphrase /\ m.hint THEN m.new ELSE NoPassphrase

Effect(m) ==
  \/ /\ m.op = "create"
     /\ \E k \in Fresh : entry[k] = None /\ Stored(k, m.pass)
  \/ /\ m.op = "import"
     /\ Stored(m.key, m.pass)
  \/ /\ m.op = "importJSON"
     /\ m.new = m.pass
     /\ Stored(m.key, m.pass)
  \/ /\ m.op = "derive"
     /\ Opens(m.key, m.pass)
     /\ <<m.key, m.index>> \in DOMAIN Child
     /\ IF m.store THEN Stored(Child[<<m.key, m.index>>], ChildPassphrase(m))
                   ELSE UNCHANGED <<entry, ever>>
  \/ /\ m.op = "update"
     /\ Opens(m.key, m.pass)
     /\ Stored(m.key, m.new)
  \/ /\ m.op = "delete"
     /\ Opens(m.key, m.pass)
     /\ \/ entry' = [entry EXCEPT ![m.key] = None]
        \/ ~exclusive /\ entry' = entry
     /\ ever' = ever
  \/ /\ m.op \in {"sign", "export"}
     /\ entry[m.key] = m.pass
     /\ UNCHANGED <<entry, ever>>
  \/ /\ m.op = "get"
     /\ entry[m.key] # None
     /\ UNCHANGED <<entry, ever>>
  \/ /\ m.op = "getAll"
     /\ UNCHANGED <<entry, ever>>

Issue(c) ==
  /\ \E m \in Commands : cmd' = [cmd EXCEPT ![c] = m]
  /\ outcome' = [outcome EXCEPT ![c] = None]
  /\ UNCHANGED <<exclusive, entry, ever>>

Perform(c) ==
  /\ cmd[c] # None
  /\ outcome[c] = None
  /\ Effect(cmd[c])
  /\ \E o \in {"ok"} \cup (IF exclusive THEN {} ELSE {"lost"}) :
       outcome' = [outcome EXCEPT ![c] = o]
  /\ UNCHANGED <<exclusive, cmd>>

Fail(c) ==
  /\ cmd[c] # None
  /\ outcome[c] = None
  /\ \E o \in {"error", "lost"} : outcome' = [outcome EXCEPT ![c] = o]
  /\ UNCHANGED <<exclusive, entry, ever, cmd>>

Next == \E c \in Clients : Issue(c) \/ Perform(c) \/ Fail(c)

Spec == Init /\ [][Next]_ivars

=============================================================================
