------------------------------ MODULE Keybase -------------------------------
(***************************************************************************)
(* The key base of the client: the commands of app/client/cli/keys.go run  *)
(* as processes against one of the two implementations of the Keybase      *)
(* interface, a Badger directory (keystore.go) or a HashiCorp Vault        *)
(* (hashicorp/vault.go).                                                   *)
(*                                                                         *)
(* A command opens the key base, calls one method of it and stops it.      *)
(* Badger locks its directory, so the commands of a file key base exclude  *)
(* each other; those of a vault interleave request by request.  A process  *)
(* may be killed, and the answer to a request to the vault may be lost.    *)
(*                                                                         *)
(* An address stands for its key.  A key pair is the key and the           *)
(* passphrase its private half is encrypted under (shared/crypto).         *)
(***************************************************************************)
EXTENDS Integers, Sequences

CONSTANTS
  Clients,      \* processes of the command line
  Keys,         \* private keys, and their addresses
  Passphrases,
  NoPassphrase, \* the empty passphrase
  Fresh,        \* the keys only Create generates
  Child,        \* Child[<<k, i>>]: the key derived from k at index i
  Commands,     \* the commands users give
  MaxVersions,  \* bound on the versions the vault keeps of each secret
  None

KeyPair == [key : Keys, pass : Passphrases]

Version == [pair : KeyPair, destroyed : BOOLEAN]

Ops == {"create", "import", "importJSON", "derive", "update", "delete",
        "sign", "export", "get", "getAll"}

(* new is the passphrase of an update or of a child, and the passphrase a  *)
(* JSON file is encrypted under; hint says whether a hint was given.       *)
Command ==
  [op : Ops, key : Keys, pass : Passphrases, new : Passphrases,
   hint : BOOLEAN, store : BOOLEAN, index : Nat]

ASSUME KeybaseAssumption ==
  /\ NoPassphrase \in Passphrases
  /\ Fresh \subseteq Keys
  /\ Commands \subseteq Command
  /\ DOMAIN Child \subseteq Keys \X Nat
  /\ \A d \in DOMAIN Child : Child[d] \in Keys
  /\ None \notin Keys \cup Passphrases \cup Clients \cup KeyPair \cup Command
  /\ None \notin {"ok", "error", "lost"}
  /\ MaxVersions \in [Keys -> Nat]

VARIABLES
  type,     \* "file" or "vault"
  store,    \* the Badger database
  versions, \* the vault: the versions of each secret, oldest first
  lock,     \* the process that has the Badger directory open
  pc,       \* where each process is
  cmd,      \* its command
  outcome,  \* what the command answered
  held,     \* the private key it has decrypted
  listed,   \* the number of versions Delete has listed
  left      \* the addresses GetAll has still to read

vars == <<type, store, versions, lock, pc, cmd, outcome, held, listed, left>>

PCs == {"idle", "open", "call", "write", "versions", "destroy", "list", "stop"}

Init ==
  /\ type \in {"file", "vault"}
  /\ store = [k \in Keys |-> None]
  /\ versions = [k \in Keys |-> <<>>]
  /\ lock = None
  /\ pc = [c \in Clients |-> "idle"]
  /\ cmd = [c \in Clients |-> None]
  /\ outcome = [c \in Clients |-> None]
  /\ held = [c \in Clients |-> None]
  /\ listed = [c \in Clients |-> 0]
  /\ left = [c \in Clients |-> {}]

-----------------------------------------------------------------------------
(* Key pairs (shared/crypto/keypair.go). *)

CreateNewKeyFromString(k, passphrase) == [key |-> k, pass |-> passphrase]

Unarmour(kp, passphrase) == IF kp.pass = passphrase THEN kp.key ELSE None

(* The armoured JSON is stored as it is, once the passphrase opens it. *)
ImportKeyFromJSON(json, passphrase) ==
  IF Unarmour(json, passphrase) = None THEN None ELSE json

(* The child comes without a passphrase, as it depends on the master key. *)
CreateNewKeyFromSeed(k) == [key |-> k, pass |-> NoPassphrase]

(* Fails for an index above the largest of a hardened key. *)
DeriveChild(k, index) ==
  IF <<k, index>> \in DOMAIN Child
  THEN CreateNewKeyFromSeed(Child[<<k, index>>]) ELSE None

-----------------------------------------------------------------------------
(* The life of a command. *)

At(c, t, p, ops) ==
  /\ type = t
  /\ pc[c] = p
  /\ cmd[c].op \in ops

Goto(c, p) == pc' = [pc EXCEPT ![c] = p]

Free(c) == lock' = IF lock = c THEN None ELSE lock

(* A method of the file key base answers; a command that fails returns     *)
(* without Stop, and its process ends.                                     *)
Reply(c, ok) ==
  /\ outcome' = [outcome EXCEPT ![c] = IF ok THEN "ok" ELSE "error"]
  /\ Goto(c, IF ok THEN "stop" ELSE "idle")
  /\ IF ok THEN lock' = lock ELSE Free(c)

(* A method of the vault key base answers; its Stop forgets the token of   *)
(* the process, which ends.                                                *)
VaultReply(c, o) ==
  /\ outcome' = [outcome EXCEPT ![c] = o]
  /\ Goto(c, "idle")
  /\ lock' = lock

RunCommand(c) ==
  /\ pc[c] = "idle"
  /\ \E m \in Commands : cmd' = [cmd EXCEPT ![c] = m]
  /\ outcome' = [outcome EXCEPT ![c] = None]
  /\ held' = [held EXCEPT ![c] = None]
  /\ listed' = [listed EXCEPT ![c] = 0]
  /\ left' = [left EXCEPT ![c] = {}]
  /\ Goto(c, "open")
  /\ UNCHANGED <<type, store, versions, lock>>

OpenUnlocked(c) ==
  /\ type = "file"
  /\ pc[c] = "open"
  /\ Goto(c, "call")
  /\ UNCHANGED <<type, store, versions, lock, cmd, outcome, held, listed, left>>

(* badger.Open fails while another process has the directory open. *)
NewBadgerKeybase(c) ==
  /\ type = "file"
  /\ pc[c] = "open"
  /\ \/ /\ lock = None
        /\ lock' = c
        /\ Goto(c, "call")
        /\ outcome' = outcome
     \/ /\ lock # None
        /\ Reply(c, FALSE)
  /\ UNCHANGED <<type, store, versions, cmd, held, listed, left>>

NewVaultKeybase(c) ==
  /\ type = "vault"
  /\ pc[c] = "open"
  /\ Goto(c, "call")
  /\ UNCHANGED <<type, store, versions, lock, cmd, outcome, held, listed, left>>

Stop(c) ==
  /\ pc[c] = "stop"
  /\ Goto(c, "idle")
  /\ Free(c)
  /\ UNCHANGED <<type, store, versions, cmd, outcome, held, listed, left>>

(* The process is killed, or a request to the vault goes unanswered and    *)
(* did not reach it.  The operating system releases the lock.              *)
Kill(c) ==
  /\ pc[c] # "idle"
  /\ Goto(c, "idle")
  /\ Free(c)
  /\ outcome' = [outcome EXCEPT ![c] = IF @ = None THEN "lost" ELSE @]
  /\ UNCHANGED <<type, store, versions, cmd, held, listed, left>>

-----------------------------------------------------------------------------
(* The file key base (keystore.go): each transaction of Badger is a step.  *)

Get(k) == store[k]

(* The private key of a key pair read under a passphrase; None when the    *)
(* address is not stored or the passphrase does not open it.               *)
PrivKey(kp, passphrase) == IF kp = None THEN None ELSE Unarmour(kp, passphrase)

Set(kp) == store' = [store EXCEPT ![kp.key] = kp]

(* A child is encrypted again only when both a passphrase and a hint are   *)
(* given.                                                                  *)
StoredChild(child, m) ==
  IF m.new # NoPassphrase /\ m.hint
  THEN CreateNewKeyFromString(Unarmour(child, NoPassphrase), m.new)
  ELSE child

Create(c) ==
  /\ At(c, "file", "call", {"create"})
  /\ \E k \in Fresh :
       /\ Get(k) = None
       /\ Set(CreateNewKeyFromString(k, cmd[c].pass))
  /\ Reply(c, TRUE)
  /\ UNCHANGED <<type, versions, cmd, held, listed, left>>

(* An address that is stored already is overwritten. *)
ImportFromString(c) ==
  /\ At(c, "file", "call", {"import"})
  /\ Set(CreateNewKeyFromString(cmd[c].key, cmd[c].pass))
  /\ Reply(c, TRUE)
  /\ UNCHANGED <<type, versions, cmd, held, listed, left>>

ImportFromJSON(c) ==
  /\ At(c, "file", "call", {"importJSON"})
  /\ LET kp == ImportKeyFromJSON([key |-> cmd[c].key, pass |-> cmd[c].new],
                                 cmd[c].pass)
     IN IF kp = None THEN store' = store /\ Reply(c, FALSE)
                     ELSE Set(kp) /\ Reply(c, TRUE)
  /\ UNCHANGED <<type, versions, cmd, held, listed, left>>

(* The read transaction UpdatePassphrase, Delete and DeriveChildFromKey    *)
(* begin with.                                                             *)
GetPrivKey(c) ==
  /\ At(c, "file", "call", {"derive", "update", "delete"})
  /\ LET k == PrivKey(Get(cmd[c].key), cmd[c].pass)
     IN IF k = None
        THEN Reply(c, FALSE) /\ held' = held
        ELSE /\ held' = [held EXCEPT ![c] = k]
             /\ Goto(c, "write")
             /\ UNCHANGED <<lock, outcome>>
  /\ UNCHANGED <<type, store, versions, cmd, listed, left>>

DeriveMisplaced(c) ==
  /\ At(c, "file", "write", {"derive"})
  /\ LET child == DeriveChild(held[c], cmd[c].index)
     IN IF child = None
        THEN store' = store /\ Reply(c, FALSE)
        ELSE /\ store' = IF cmd[c].store
                         THEN [store EXCEPT ![cmd[c].key] = StoredChild(child, cmd[c])]
                         ELSE store
             /\ Reply(c, TRUE)
  /\ UNCHANGED <<type, versions, cmd, held, listed, left>>

DeriveChildFromSeed(c) ==
  /\ At(c, "file", "write", {"derive"})
  /\ LET child == DeriveChild(held[c], cmd[c].index)
     IN IF child = None
        THEN store' = store /\ Reply(c, FALSE)
        ELSE /\ IF cmd[c].store THEN Set(StoredChild(child, cmd[c])) ELSE store' = store
             /\ Reply(c, TRUE)
  /\ UNCHANGED <<type, versions, cmd, held, listed, left>>

UpdatePassphrase(c) ==
  /\ At(c, "file", "write", {"update"})
  /\ LET kp == CreateNewKeyFromString(held[c], cmd[c].new)
     IN IF kp.key # cmd[c].key
        THEN store' = store /\ Reply(c, FALSE)
        ELSE Set(kp) /\ Reply(c, TRUE)
  /\ UNCHANGED <<type, versions, cmd, held, listed, left>>

Delete(c) ==
  /\ At(c, "file", "write", {"delete"})
  /\ store' = [store EXCEPT ![cmd[c].key] = None]
  /\ Reply(c, TRUE)
  /\ UNCHANGED <<type, versions, cmd, held, listed, left>>

Sign(c) ==
  /\ At(c, "file", "call", {"sign"})
  /\ Reply(c, PrivKey(Get(cmd[c].key), cmd[c].pass) # None)
  /\ UNCHANGED <<type, store, versions, cmd, held, listed, left>>

ExportPriv(c) ==
  /\ At(c, "file", "call", {"export"})
  /\ Reply(c, PrivKey(Get(cmd[c].key), cmd[c].pass) # None)
  /\ UNCHANGED <<type, store, versions, cmd, held, listed, left>>

(* Get, GetPubKey and Verify need no passphrase. *)
GetPubKey(c) ==
  /\ At(c, "file", "call", {"get"})
  /\ Reply(c, Get(cmd[c].key) # None)
  /\ UNCHANGED <<type, store, versions, cmd, held, listed, left>>

GetAll(c) ==
  /\ At(c, "file", "call", {"getAll"})
  /\ Reply(c, TRUE)
  /\ UNCHANGED <<type, store, versions, cmd, held, listed, left>>

-----------------------------------------------------------------------------
(* The vault key base (hashicorp/vault.go): each request is a step.        *)

(* The latest version of the secret; a destroyed one reads as no key pair. *)
VaultGet(k) ==
  LET n == Len(versions[k])
  IN IF n = 0 \/ versions[k][n].destroyed THEN None ELSE versions[k][n].pair

(* The vault adds a version; its answer may be lost. *)
writeVaultKeyPair(c, kp) ==
  /\ Len(versions[kp.key]) < MaxVersions[kp.key]
  /\ versions' = [versions EXCEPT ![kp.key] =
                    Append(@, [pair |-> kp, destroyed |-> FALSE])]
  /\ \E o \in {"ok", "lost"} : VaultReply(c, o)

VaultCreate(c) ==
  /\ At(c, "vault", "call", {"create"})
  /\ \E k \in Fresh :
       /\ versions[k] = <<>>
       /\ writeVaultKeyPair(c, CreateNewKeyFromString(k, cmd[c].pass))
  /\ UNCHANGED <<type, store, cmd, held, listed, left>>

VaultImportFromString(c) ==
  /\ At(c, "vault", "call", {"import"})
  /\ writeVaultKeyPair(c, CreateNewKeyFromString(cmd[c].key, cmd[c].pass))
  /\ UNCHANGED <<type, store, cmd, held, listed, left>>

VaultImportFromJSON(c) ==
  /\ At(c, "vault", "call", {"importJSON"})
  /\ LET kp == ImportKeyFromJSON([key |-> cmd[c].key, pass |-> cmd[c].new],
                                 cmd[c].pass)
     IN IF kp = None THEN versions' = versions /\ VaultReply(c, "error")
                     ELSE writeVaultKeyPair(c, kp)
  /\ UNCHANGED <<type, store, cmd, held, listed, left>>

VaultGetPrivKey(c) ==
  /\ At(c, "vault", "call", {"derive", "update", "delete"})
  /\ LET k == PrivKey(VaultGet(cmd[c].key), cmd[c].pass)
     IN IF k = None
        THEN VaultReply(c, "error") /\ held' = held
        ELSE /\ held' = [held EXCEPT ![c] = k]
             /\ Goto(c, IF cmd[c].op = "delete" THEN "versions" ELSE "write")
             /\ UNCHANGED <<lock, outcome>>
  /\ UNCHANGED <<type, store, versions, cmd, listed, left>>

VaultDeriveChildFromSeed(c) ==
  /\ At(c, "vault", "write", {"derive"})
  /\ LET child == DeriveChild(held[c], cmd[c].index)
     IN IF child = None \/ ~cmd[c].store
        THEN /\ versions' = versions
             /\ VaultReply(c, IF child = None THEN "error" ELSE "ok")
        ELSE writeVaultKeyPair(c, StoredChild(child, cmd[c]))
  /\ UNCHANGED <<type, store, cmd, held, listed, left>>

VaultUpdatePassphrase(c) ==
  /\ At(c, "vault", "write", {"update"})
  /\ writeVaultKeyPair(c, CreateNewKeyFromString(held[c], cmd[c].new))
  /\ UNCHANGED <<type, store, cmd, held, listed, left>>

ListVersionsTooMany(c) ==
  /\ At(c, "vault", "versions", {"delete"})
  /\ listed' = [listed EXCEPT ![c] = Len(versions[cmd[c].key]) + 1]
  /\ Goto(c, "destroy")
  /\ UNCHANGED <<type, store, versions, lock, cmd, outcome, held, left>>

(* Delete lists the versions of the secret, then destroys those. *)
GetVersionsAsList(c) ==
  /\ At(c, "vault", "versions", {"delete"})
  /\ listed' = [listed EXCEPT ![c] = Len(versions[cmd[c].key])]
  /\ Goto(c, "destroy")
  /\ UNCHANGED <<type, store, versions, lock, cmd, outcome, held, left>>

Destroyed(s, D) ==
  [i \in DOMAIN s |-> [pair |-> s[i].pair, destroyed |-> i \in D \/ s[i].destroyed]]

VaultDeleteLatest(c) ==
  /\ At(c, "vault", "destroy", {"delete"})
  /\ versions' = [versions EXCEPT ![cmd[c].key] = Destroyed(@, {listed[c]})]
  /\ \E o \in {"ok", "lost"} : VaultReply(c, o)
  /\ UNCHANGED <<type, store, cmd, held, listed, left>>

VaultDelete(c) ==
  /\ At(c, "vault", "destroy", {"delete"})
  /\ versions' = [versions EXCEPT ![cmd[c].key] = Destroyed(@, 1 .. listed[c])]
  /\ \E o \in {"ok", "lost"} : VaultReply(c, o)
  /\ UNCHANGED <<type, store, cmd, held, listed, left>>

VaultSign(c) ==
  /\ At(c, "vault", "call", {"sign"})
  /\ VaultReply(c, IF PrivKey(VaultGet(cmd[c].key), cmd[c].pass) # None
                   THEN "ok" ELSE "error")
  /\ UNCHANGED <<type, store, versions, cmd, held, listed, left>>

VaultExportPriv(c) ==
  /\ At(c, "vault", "call", {"export"})
  /\ VaultReply(c, IF PrivKey(VaultGet(cmd[c].key), cmd[c].pass) # None
                   THEN "ok" ELSE "error")
  /\ UNCHANGED <<type, store, versions, cmd, held, listed, left>>

VaultGetPubKey(c) ==
  /\ At(c, "vault", "call", {"get"})
  /\ VaultReply(c, IF VaultGet(cmd[c].key) # None THEN "ok" ELSE "error")
  /\ UNCHANGED <<type, store, versions, cmd, held, listed, left>>

(* The list is that of the secrets' metadata, which a deletion leaves. *)
VaultGetAll(c) ==
  /\ At(c, "vault", "call", {"getAll"})
  /\ LET secrets == {k \in Keys : versions[k] # <<>>}
     IN IF secrets = {}
        THEN VaultReply(c, "ok") /\ left' = left
        ELSE /\ left' = [left EXCEPT ![c] = secrets]
             /\ Goto(c, "list")
             /\ UNCHANGED <<lock, outcome>>
  /\ UNCHANGED <<type, store, versions, cmd, held, listed>>

GetNextUnarmoured(c) ==
  /\ At(c, "vault", "list", {"getAll"})
  /\ \E k \in left[c] :
       /\ left' = [left EXCEPT ![c] = @ \ {k}]
       /\ IF PrivKey(VaultGet(k), cmd[c].pass) = None THEN VaultReply(c, "error")
          ELSE IF left[c] = {k} THEN VaultReply(c, "ok")
          ELSE UNCHANGED <<pc, lock, outcome>>
  /\ UNCHANGED <<type, store, versions, cmd, held, listed>>

VaultGetNext(c) ==
  /\ At(c, "vault", "list", {"getAll"})
  /\ \E k \in left[c] :
       /\ left' = [left EXCEPT ![c] = @ \ {k}]
       /\ IF VaultGet(k) = None THEN VaultReply(c, "error")
          ELSE IF left[c] = {k} THEN VaultReply(c, "ok")
          ELSE UNCHANGED <<pc, lock, outcome>>
  /\ UNCHANGED <<type, store, versions, cmd, held, listed>>

-----------------------------------------------------------------------------
Step(c) ==
  \/ RunCommand(c) \/ NewBadgerKeybase(c) \/ NewVaultKeybase(c)
  \/ Stop(c) \/ Kill(c)

FileCall(c) ==
  \/ Create(c) \/ ImportFromString(c) \/ ImportFromJSON(c) \/ GetPrivKey(c)
  \/ DeriveChildFromSeed(c) \/ UpdatePassphrase(c) \/ Delete(c)
  \/ Sign(c) \/ ExportPriv(c) \/ GetPubKey(c) \/ GetAll(c)

VaultCall(c) ==
  \/ VaultCreate(c) \/ VaultImportFromString(c) \/ VaultImportFromJSON(c)
  \/ VaultGetPrivKey(c) \/ VaultDeriveChildFromSeed(c) \/ VaultUpdatePassphrase(c)
  \/ GetVersionsAsList(c) \/ VaultDelete(c)
  \/ VaultSign(c) \/ VaultExportPriv(c) \/ VaultGetPubKey(c)
  \/ VaultGetAll(c) \/ VaultGetNext(c)

Next == \E c \in Clients : Step(c) \/ FileCall(c) \/ VaultCall(c)

Spec == Init /\ [][Next]_vars

-----------------------------------------------------------------------------
(* Types of the state; Delete lists no more versions than the secret has.  *)
TypeOK ==
  /\ type \in {"file", "vault"}
  /\ store \in [Keys -> KeyPair \cup {None}]
  /\ versions \in [Keys -> Seq(Version)]
  /\ lock \in Clients \cup {None}
  /\ pc \in [Clients -> PCs]
  /\ cmd \in [Clients -> Commands \cup {None}]
  /\ outcome \in [Clients -> {"ok", "error", "lost", None}]
  /\ held \in [Clients -> Keys \cup {None}]
  /\ listed \in [Clients -> Nat]
  /\ left \in [Clients -> SUBSET Keys]
  /\ \A c \in Clients :
       pc[c] = "destroy" => listed[c] <= Len(versions[cmd[c].key])

(* A key pair is stored under its own address, by every method that        *)
(* stores one: a key found at an address signs for that address.           *)
OwnAddress ==
  \A k \in Keys :
    /\ store[k] # None => store[k].key = k
    /\ \A i \in DOMAIN versions[k] : versions[k][i].pair.key = k

(* Delete leaves no copy behind: when the latest version of a secret is    *)
(* destroyed, so is every older one, whatever was written or deleted by    *)
(* others between the listing of the versions and their destruction.       *)
NothingLeftBehind ==
  \A k \in Keys :
    LET n == Len(versions[k])
    IN n > 0 /\ versions[k][n].destroyed =>
         \A i \in 1 .. n : versions[k][i].destroyed

(* GetAll of the vault fails only once a key has been deleted: every       *)
(* method writes key pairs that it can read back.                          *)
ListingFailsOnlyAfterDelete ==
  \A c \in Clients :
    type = "vault" /\ cmd[c] # None /\ outcome[c] = "error" =>
      (cmd[c].op = "getAll" =>
         \E k \in Keys : \E i \in DOMAIN versions[k] : versions[k][i].destroyed)

(* The passphrase under which k is stored, and those it was stored under   *)
(* in the vault.  What a destroyed version held is kept for this only.     *)
Entry(k) ==
  LET kp == IF type = "file" THEN Get(k) ELSE VaultGet(k)
  IN IF kp = None THEN None ELSE kp.pass

Ever(k) ==
  IF type = "file" THEN {}
  ELSE {versions[k][i].pair.pass : i \in DOMAIN versions[k]}

KI == INSTANCE KeybaseInterface WITH
        exclusive <- (type = "file"),
        entry <- [k \in Keys |-> Entry(k)],
        ever <- [k \in Keys |-> Ever(k)]

(* Both implementations keep the promise of the interface.  With the file  *)
(* key base every command takes effect at once, although it reads in one   *)
(* transaction what it writes in another; with the vault an update, a      *)
(* deletion or a derivation may act on a passphrase that has since been    *)
(* replaced.                                                               *)
Implements == KI!Spec

=============================================================================
