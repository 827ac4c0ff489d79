---------------------------- MODULE KeybaseProofs ----------------------------
(***************************************************************************)
(* Proofs about Keybase, for every set of processes, keys, passphrases and *)
(* commands: key pairs are stored under their own address, a deletion      *)
(* leaves no version behind, a listing fails only once a key has been      *)
(* deleted, and both implementations keep the promise of KeybaseInterface. *)
(*                                                                         *)
(* The inductive invariant says what a process may rely on between the     *)
(* step in which it decrypted a key and the step that acts on it.  With    *)
(* the file key base the passphrase is still the one the key is stored     *)
(* under, because the process holds the lock; with the vault it is one the *)
(* key was stored under once.  A process that lists the vault has still to *)
(* read secrets of which there is a version, and no version goes away      *)
(* (ListInv).                                                              *)
(***************************************************************************)
EXTENDS Keybase, TLAPS

USE Zenon

Busy == {"open", "call", "write", "versions", "destroy", "list"}

Locked ==
  \A c \in Clients :
    type = "file" /\ pc[c] \in {"call", "write"} => lock = c

Opened(c) ==
  /\ store[cmd[c].key] # None
  /\ store[cmd[c].key].pass = cmd[c].pass

CheckedFor(c) ==
  /\ pc[c] \in Busy => cmd[c] \in Commands /\ outcome[c] = None
  /\ pc[c] = "stop" => outcome[c] # None
  /\ pc[c] \in {"write", "versions", "destroy"} => held[c] = cmd[c].key
  /\ type = "file" /\ pc[c] = "write" => Opened(c)
  /\ type = "vault" /\ pc[c] \in {"write", "versions", "destroy"} =>
       cmd[c].pass \in Ever(cmd[c].key)

Checked == \A c \in Clients : CheckedFor(c)

IndInv == TypeOK /\ OwnAddress /\ Locked /\ Checked

LEMMA CommandFields ==
  ASSUME NEW m \in Commands
  PROVE  /\ m \in Command
         /\ m.key \in Keys /\ m.pass \in Passphrases /\ m.new \in Passphrases
         /\ m.store \in BOOLEAN /\ m.hint \in BOOLEAN
BY KeybaseAssumption, SMT DEF Command

LEMMA Answers == None # "ok" /\ None # "error" /\ None # "lost"
BY KeybaseAssumption

(* The command of a busy process has not answered. *)
LEMMA Unanswered ==
  ASSUME IndInv, NEW c \in Clients, pc[c] \in Busy
  PROVE  cmd[c] # None /\ outcome[c] = None /\ cmd[c] \in Commands
BY KeybaseAssumption DEF IndInv, Checked, CheckedFor

(* Nothing but the answer of one process changes. *)
LEMMA FileReply ==
  ASSUME IndInv, NEW c \in Clients, NEW ok \in BOOLEAN,
         type = "file", pc[c] \in Busy,
         Reply(c, ok),
         UNCHANGED <<type, store, versions, cmd, held, listed, left>>
  PROVE  IndInv'
<1>1. TypeOK'
  BY SMT DEF IndInv, TypeOK, Reply, Goto, Free, PCs
<1>2. OwnAddress'
  BY SMT DEF IndInv, OwnAddress
<1>3. Locked'
  BY SMT DEF IndInv, TypeOK, Locked, Reply, Goto, Free
<1>4. Checked'
  BY Answers, SMT DEF IndInv, TypeOK, Checked, CheckedFor, Opened, Busy, Ever, Reply, Goto
<1> QED BY <1>1, <1>2, <1>3, <1>4 DEF IndInv

(* One process of the file key base stores a key pair and answers. *)
LEMMA FileSet ==
  ASSUME IndInv, NEW c \in Clients, NEW kp \in KeyPair,
         type = "file", pc[c] \in {"call", "write"},
         Set(kp), Reply(c, TRUE),
         UNCHANGED <<type, versions, cmd, held, listed, left>>
  PROVE  IndInv'
<1>0. kp.key \in Keys /\ kp \in KeyPair \cup {None}
  BY SMT DEF KeyPair
<1>1. TypeOK'
  BY <1>0, SMT DEF IndInv, TypeOK, Reply, Goto, Free, PCs, Set
<1>2. OwnAddress'
  BY <1>0, SMT DEF IndInv, TypeOK, OwnAddress, Set
<1>3. Locked'
  BY SMT DEF IndInv, TypeOK, Locked, Reply, Goto, Free
<1>4. Checked'
  BY Answers, SMT
     DEF IndInv, TypeOK, Locked, Checked, CheckedFor, Opened, Busy, Ever, Reply, Goto
<1> QED BY <1>1, <1>2, <1>3, <1>4 DEF IndInv

LEMMA AppendVersion ==
  ASSUME NEW s \in Seq(Version), NEW v \in Version
  PROVE  /\ Append(s, v) \in Seq(Version)
         /\ Len(Append(s, v)) = Len(s) + 1
         /\ DOMAIN Append(s, v) = DOMAIN s \cup {Len(s) + 1}
         /\ \A i \in DOMAIN s : Append(s, v)[i] = s[i]
         /\ Append(s, v)[Len(s) + 1] = v
BY SMT

(* The passphrases a secret was stored under only grow. *)
LEMMA EverGrows ==
  ASSUME IndInv, type' = type, versions' \in [Keys -> Seq(Version)],
         NEW k \in Keys,
         DOMAIN versions[k] \subseteq DOMAIN versions'[k],
         \A i \in DOMAIN versions[k] : versions'[k][i].pair = versions[k][i].pair
  PROVE  Ever(k) \subseteq Ever(k)'
BY SMT DEF Ever

(* A process of the vault key base answers, the vault as it was. *)
LEMMA VaultQuiet ==
  ASSUME IndInv, NEW c \in Clients, NEW o \in {"ok", "error", "lost"},
         type = "vault", pc[c] \in Busy,
         VaultReply(c, o),
         left' \in [Clients -> SUBSET Keys],
         UNCHANGED <<type, store, versions, cmd, held, listed>>
  PROVE  IndInv'
<1>1. TypeOK'
  <2>1. outcome' \in [Clients -> {"ok", "error", "lost", None}]
    BY SMT DEF IndInv, TypeOK, VaultReply
  <2>2. pc' \in [Clients -> PCs] /\ pc'[c] = "idle"
    BY SMT DEF IndInv, TypeOK, VaultReply, Goto, PCs
  <2>3. \A d \in Clients :
          pc'[d] = "destroy" => listed'[d] <= Len(versions'[cmd'[d].key])
    BY <2>2, SMT DEF IndInv, TypeOK, VaultReply, Goto
  <2> QED BY <2>1, <2>2, <2>3, SMT DEF IndInv, TypeOK, VaultReply
<1>2. OwnAddress'
  BY SMT DEF IndInv, OwnAddress
<1>3. Locked'
  BY SMT DEF IndInv, TypeOK, Locked, VaultReply, Goto
<1>4. Checked'
  BY SMT DEF IndInv, TypeOK, Checked, CheckedFor, Opened, Busy, Ever, VaultReply, Goto
<1> QED BY <1>1, <1>2, <1>3, <1>4 DEF IndInv

(* The versions change, none is lost and every pair keeps its address. *)
LEMMA VaultChange ==
  ASSUME IndInv, NEW c \in Clients, NEW o \in {"ok", "lost"},
         type = "vault", pc[c] \in Busy,
         VaultReply(c, o),
         versions' \in [Keys -> Seq(Version)],
         \A k \in Keys :
           /\ Len(versions[k]) <= Len(versions'[k])
           /\ \A i \in DOMAIN versions[k] :
                versions'[k][i].pair = versions[k][i].pair
           /\ \A i \in DOMAIN versions'[k] : versions'[k][i].pair.key = k,
         UNCHANGED <<type, store, cmd, held, listed, left>>
  PROVE  IndInv'
<1>0. \A d \in Clients : pc[d] \in Busy => cmd[d] \in Commands /\ cmd[d].key \in Keys
  BY CommandFields DEF IndInv, Checked, CheckedFor
<1>1. TypeOK'
  <2>1. \A d \in Clients :
          pc'[d] = "destroy" => listed'[d] <= Len(versions'[cmd'[d].key])
    <3> SUFFICES ASSUME NEW d \in Clients, pc'[d] = "destroy"
                 PROVE  listed'[d] <= Len(versions'[cmd'[d].key])
      OBVIOUS
    <3>1. pc[d] = "destroy"
      BY SMT DEF IndInv, TypeOK, VaultReply, Goto
    <3>2. cmd[d].key \in Keys
      BY <1>0, <3>1 DEF Busy
    <3>3. listed[d] <= Len(versions[cmd[d].key]) /\ listed[d] \in Nat
      BY <3>1, SMT DEF IndInv, TypeOK
    <3>4. Len(versions[cmd[d].key]) \in Nat /\ Len(versions'[cmd[d].key]) \in Nat
      BY <3>2, SMT DEF IndInv, TypeOK
    <3> QED BY <3>2, <3>3, <3>4, SMT
  <2> QED BY <2>1, SMT DEF IndInv, TypeOK, VaultReply, Goto, PCs
<1>2. OwnAddress'
  BY SMT DEF IndInv, OwnAddress
<1>3. Locked'
  BY SMT DEF IndInv, TypeOK, Locked, VaultReply, Goto
<1>4. Checked'
  <2>0. \A k \in Keys : DOMAIN versions[k] \subseteq DOMAIN versions'[k]
    BY SMT DEF IndInv, TypeOK
  <2>1. \A k \in Keys : Ever(k) \subseteq Ever(k)'
    BY <2>0, EverGrows
  <2> QED
    BY <1>0, <2>1, SMT DEF IndInv, TypeOK, Checked, CheckedFor, Opened, Busy, VaultReply, Goto
<1> QED BY <1>1, <1>2, <1>3, <1>4 DEF IndInv

LEMMA VaultPut ==
  ASSUME IndInv, NEW c \in Clients, NEW kp \in KeyPair,
         type = "vault", pc[c] \in Busy,
         writeVaultKeyPair(c, kp),
         UNCHANGED <<type, store, cmd, held, listed, left>>
  PROVE  IndInv'
<1> DEFINE v == [pair |-> kp, destroyed |-> FALSE]
<1>0. kp.key \in Keys /\ v \in Version /\ v.pair = kp
  BY SMT DEF KeyPair, Version
<1>1. versions' = [versions EXCEPT ![kp.key] = Append(@, v)]
  BY DEF writeVaultKeyPair
<1>2. PICK o \in {"ok", "lost"} : VaultReply(c, o)
  BY DEF writeVaultKeyPair
<1>t. versions \in [Keys -> Seq(Version)]
  BY DEF IndInv, TypeOK
<1> HIDE DEF v
<1>3. versions' \in [Keys -> Seq(Version)]
  BY <1>0, <1>1, <1>t, AppendVersion, SMT
<1>4. ASSUME NEW k \in Keys
      PROVE  /\ Len(versions[k]) <= Len(versions'[k])
             /\ \A i \in DOMAIN versions[k] :
                  versions'[k][i].pair = versions[k][i].pair
             /\ \A i \in DOMAIN versions'[k] : versions'[k][i].pair.key = k
  <2>1. CASE k # kp.key
    BY <2>1, <1>0, <1>1, <1>t, SMT DEF IndInv, OwnAddress
  <2>2. CASE k = kp.key
    <3>1. versions'[k] = Append(versions[k], v) /\ versions[k] \in Seq(Version)
      BY <2>2, <1>1, <1>t, SMT
    <3>2. \A i \in DOMAIN versions[k] : versions[k][i].pair.key = k
      BY DEF IndInv, OwnAddress
    <3> QED BY <3>1, <3>2, <2>2, <1>0, AppendVersion, SMT
  <2> QED BY <2>1, <2>2
<1> QED BY <1>2, <1>3, <1>4, VaultChange

-----------------------------------------------------------------------------
(* The invariant holds initially and every step keeps it. *)

LEMMA PrivKeyFound ==
  ASSUME NEW kp \in KeyPair \cup {None}, NEW p,
         PrivKey(kp, p) # None
  PROVE  kp \in KeyPair /\ kp.pass = p /\ PrivKey(kp, p) = kp.key
BY SMT DEF PrivKey, Unarmour

LEMMA NewPair ==
  ASSUME NEW k \in Keys, NEW p \in Passphrases
  PROVE  CreateNewKeyFromString(k, p) \in KeyPair
BY SMT DEF CreateNewKeyFromString, KeyPair

LEMMA NewChild ==
  ASSUME NEW k, NEW m \in Commands, DeriveChild(k, m.index) # None
  PROVE  /\ <<k, m.index>> \in DOMAIN Child
         /\ StoredChild(DeriveChild(k, m.index), m) =
              [key |-> Child[<<k, m.index>>],
               pass |-> IF m.new # NoPassphrase /\ m.hint THEN m.new
                                                         ELSE NoPassphrase]
         /\ StoredChild(DeriveChild(k, m.index), m) \in KeyPair
<1>1. <<k, m.index>> \in DOMAIN Child
  BY DEF DeriveChild
<1> DEFINE ch == Child[<<k, m.index>>]
<1>2. ch \in Keys /\ NoPassphrase \in Passphrases /\ m.new \in Passphrases
  BY <1>1, KeybaseAssumption, CommandFields
<1> HIDE DEF ch
<1>3. DeriveChild(k, m.index) = [key |-> ch, pass |-> NoPassphrase]
  BY <1>1 DEF DeriveChild, CreateNewKeyFromSeed, ch
<1>4. StoredChild([key |-> ch, pass |-> NoPassphrase], m) =
        [key |-> ch, pass |-> IF m.new # NoPassphrase /\ m.hint THEN m.new
                                                                ELSE NoPassphrase]
  BY SMT DEF StoredChild, Unarmour, CreateNewKeyFromString
<1>5. [key |-> ch, pass |-> IF m.new # NoPassphrase /\ m.hint THEN m.new
                                                              ELSE NoPassphrase] \in KeyPair
  BY <1>2, SMT DEF KeyPair
<1> QED BY <1>1, <1>3, <1>4, <1>5 DEF ch

LEMMA InitInd == Init => IndInv
<1> SUFFICES ASSUME Init PROVE IndInv
  OBVIOUS
<1>1. TypeOK
  BY SMT DEF Init, TypeOK, PCs
<1>2. OwnAddress
  BY SMT DEF Init, OwnAddress
<1>3. Locked /\ Checked
  BY SMT DEF Init, Locked, Checked, CheckedFor, Busy
<1> QED BY <1>1, <1>2, <1>3 DEF IndInv

(* What the other processes rely on is left as it is. *)
LEMMA CheckedKept ==
  ASSUME IndInv, NEW c \in Clients,
         UNCHANGED <<type, store, versions>>,
         \A d \in Clients \ {c} :
           /\ pc'[d] = pc[d] /\ cmd'[d] = cmd[d]
           /\ outcome'[d] = outcome[d] /\ held'[d] = held[d],
         pc'[c] \in Busy => cmd'[c] \in Commands /\ outcome'[c] = None,
         pc'[c] \notin {"write", "versions", "destroy", "stop"}
  PROVE  Checked'
<1>1. ASSUME NEW d \in Clients \ {c}
      PROVE  CheckedFor(d)'
  <2>1. CheckedFor(d)
    BY DEF IndInv, Checked
  <2>2. Opened(d)' <=> Opened(d)
    BY DEF Opened
  <2>3. (cmd[d].pass \in Ever(cmd[d].key))' <=> cmd[d].pass \in Ever(cmd[d].key)
    <3>1. cmd'[d] = cmd[d] /\ type' = type /\ versions' = versions
      OBVIOUS
    <3> QED BY <3>1, SMT DEF Ever
  <2> QED BY <2>1, <2>2, <2>3 DEF CheckedFor
<1>2. CheckedFor(c)'
  BY DEF CheckedFor
<1> QED BY <1>1, <1>2 DEF Checked

LEMMA StepInd ==
  ASSUME IndInv, NEW c \in Clients, Step(c)
  PROVE  IndInv'
<1>1. CASE RunCommand(c)
  <2>0. PICK m \in Commands : cmd' = [cmd EXCEPT ![c] = m]
    BY <1>1 DEF RunCommand
  <2>1. TypeOK'
    BY <1>1, <2>0, SMT DEF RunCommand, IndInv, TypeOK, Goto, PCs
  <2>2. OwnAddress'
    BY <1>1, SMT DEF RunCommand, IndInv, OwnAddress
  <2>3. Locked'
    BY <1>1, SMT DEF RunCommand, IndInv, TypeOK, Locked, Goto
  <2>4. Checked'
    <3>1. pc'[c] = "open" /\ cmd'[c] \in Commands /\ outcome'[c] = None
      BY <1>1, <2>0, SMT DEF RunCommand, IndInv, TypeOK, Goto
    <3>2. \A d \in Clients \ {c} :
            /\ pc'[d] = pc[d] /\ cmd'[d] = cmd[d]
            /\ outcome'[d] = outcome[d] /\ held'[d] = held[d]
      BY <1>1, <2>0, SMT DEF RunCommand, IndInv, TypeOK, Goto
    <3>3. UNCHANGED <<type, store, versions>>
      BY <1>1 DEF RunCommand
    <3> QED BY <3>1, <3>2, <3>3, CheckedKept
  <2> QED BY <2>1, <2>2, <2>3, <2>4 DEF IndInv
<1>2. CASE NewBadgerKeybase(c)
  <2>1. CASE lock # None
    BY <1>2, <2>1, FileReply DEF NewBadgerKeybase, Busy
  <2>2. CASE lock = None
    <3>1. TypeOK'
      <4>1. lock' = c /\ Goto(c, "call") /\ outcome' = outcome
        BY <1>2, <2>2 DEF NewBadgerKeybase
      <4> QED BY <1>2, <4>1, SMT DEF NewBadgerKeybase, IndInv, TypeOK, Goto, PCs
    <3>2. OwnAddress'
      BY <1>2, SMT DEF NewBadgerKeybase, IndInv, OwnAddress
    <3>3. Locked'
      BY <1>2, <2>2, KeybaseAssumption, SMT DEF NewBadgerKeybase, IndInv, TypeOK, Locked, Goto
    <3>4. Checked'
      BY <1>2, <2>2, SMT DEF NewBadgerKeybase, IndInv, TypeOK, Checked, CheckedFor, Opened, Busy, Ever, Goto
    <3> QED BY <3>1, <3>2, <3>3, <3>4 DEF IndInv
  <2> QED BY <2>1, <2>2
<1>3. CASE NewVaultKeybase(c)
  <2>1. TypeOK'
    BY <1>3, SMT DEF NewVaultKeybase, IndInv, TypeOK, Goto, PCs
  <2>2. OwnAddress'
    BY <1>3, SMT DEF NewVaultKeybase, IndInv, OwnAddress
  <2>3. Locked'
    BY <1>3, SMT DEF NewVaultKeybase, IndInv, TypeOK, Locked, Goto
  <2>4. Checked'
    <3>1. pc'[c] = "call" /\ \A d \in Clients \ {c} : pc'[d] = pc[d]
      BY <1>3, SMT DEF NewVaultKeybase, IndInv, TypeOK, Goto
    <3>2. cmd[c] \in Commands /\ outcome[c] = None
      BY <1>3 DEF NewVaultKeybase, Busy, IndInv, Checked, CheckedFor
    <3> QED BY <1>3, <3>1, <3>2, CheckedKept DEF NewVaultKeybase
  <2> QED BY <2>1, <2>2, <2>3, <2>4 DEF IndInv
<1>4. CASE Stop(c)
  <2>1. TypeOK'
    BY <1>4, SMT DEF Stop, IndInv, TypeOK, Goto, Free, PCs
  <2>2. OwnAddress'
    BY <1>4, SMT DEF Stop, IndInv, OwnAddress
  <2>3. Locked'
    BY <1>4, SMT DEF Stop, IndInv, TypeOK, Locked, Goto, Free
  <2>4. Checked'
    <3>1. pc'[c] = "idle"
      BY <1>4, SMT DEF Stop, IndInv, TypeOK, Goto
    <3>2. \A d \in Clients \ {c} :
            /\ pc'[d] = pc[d] /\ cmd'[d] = cmd[d]
            /\ outcome'[d] = outcome[d] /\ held'[d] = held[d]
      BY <1>4, SMT DEF Stop, IndInv, TypeOK, Goto
    <3>3. UNCHANGED <<type, store, versions>>
      BY <1>4 DEF Stop
    <3> QED BY <3>1, <3>2, <3>3, CheckedKept DEF Busy
  <2> QED BY <2>1, <2>2, <2>3, <2>4 DEF IndInv
<1>5. CASE Kill(c)
  <2>1. TypeOK'
    BY <1>5, SMT DEF Kill, IndInv, TypeOK, Goto, Free, PCs
  <2>2. OwnAddress'
    BY <1>5, SMT DEF Kill, IndInv, OwnAddress
  <2>3. Locked'
    BY <1>5, SMT DEF Kill, IndInv, TypeOK, Locked, Goto, Free
  <2>4. Checked'
    <3>1. pc'[c] = "idle"
      BY <1>5, SMT DEF Kill, IndInv, TypeOK, Goto
    <3>2. \A d \in Clients \ {c} :
            /\ pc'[d] = pc[d] /\ cmd'[d] = cmd[d]
            /\ outcome'[d] = outcome[d] /\ held'[d] = held[d]
      BY <1>5, SMT DEF Kill, IndInv, TypeOK, Goto
    <3>3. UNCHANGED <<type, store, versions>>
      BY <1>5 DEF Kill
    <3> QED BY <3>1, <3>2, <3>3, CheckedKept DEF Busy
  <2> QED BY <2>1, <2>2, <2>3, <2>4 DEF IndInv
<1> QED BY <1>1, <1>2, <1>3, <1>4, <1>5 DEF Step

LEMMA FileInd ==
  ASSUME IndInv, NEW c \in Clients, FileCall(c)
  PROVE  IndInv'
<1> DEFINE m == cmd[c]
<1>t. type = "file" /\ pc[c] \in {"call", "write"}
  BY DEF FileCall, At, Create, ImportFromString, ImportFromJSON, GetPrivKey,
         DeriveChildFromSeed, UpdatePassphrase, Delete, Sign, ExportPriv,
         GetPubKey, GetAll
<1>b. pc[c] \in Busy
  BY <1>t DEF Busy
<1>c. m \in Commands /\ m.key \in Keys /\ m.pass \in Passphrases /\ m.new \in Passphrases
  BY <1>b, CommandFields DEF IndInv, Checked, CheckedFor
<1>s. store \in [Keys -> KeyPair \cup {None}]
  BY DEF IndInv, TypeOK
<1>h. pc[c] = "write" => held[c] = m.key
  BY DEF IndInv, Checked, CheckedFor
<1> HIDE DEF m
<1>1. CASE Create(c)
  <2>1. PICK k \in Fresh : Set(CreateNewKeyFromString(k, cmd[c].pass))
    BY <1>1 DEF Create
  <2>2. CreateNewKeyFromString(k, cmd[c].pass) \in KeyPair
    BY <1>c, KeybaseAssumption, NewPair DEF m
  <2> QED BY <1>1, <1>t, <2>1, <2>2, FileSet DEF Create
<1>2. CASE ImportFromString(c)
  <2>1. CreateNewKeyFromString(cmd[c].key, cmd[c].pass) \in KeyPair
    BY <1>c, NewPair DEF m
  <2> QED BY <1>2, <1>t, <2>1, FileSet DEF ImportFromString
<1>3. CASE ImportFromJSON(c)
  <2> DEFINE j == [key |-> cmd[c].key, pass |-> cmd[c].new]
             kp == ImportKeyFromJSON(j, cmd[c].pass)
  <2>0. j \in KeyPair
    BY <1>c, SMT DEF KeyPair, m
  <2> HIDE DEF j
  <2>1. CASE kp = None
    <3>1. store' = store /\ Reply(c, FALSE)
      BY <1>3, <2>1 DEF ImportFromJSON, j
    <3> QED BY <1>3, <1>t, <1>b, <3>1, FileReply DEF ImportFromJSON
  <2>2. CASE kp # None
    <3>1. Set(kp) /\ Reply(c, TRUE)
      BY <1>3, <2>2 DEF ImportFromJSON, j
    <3>2. kp \in KeyPair
      BY <2>0, <2>2 DEF ImportKeyFromJSON
    <3> QED BY <1>3, <1>t, <3>1, <3>2, FileSet DEF ImportFromJSON
  <2> QED BY <2>1, <2>2
<1>4. CASE GetPrivKey(c)
  <2> DEFINE k == PrivKey(Get(cmd[c].key), cmd[c].pass)
  <2>1. CASE k = None
    <3>1. Reply(c, FALSE) /\ held' = held
      BY <1>4, <2>1 DEF GetPrivKey
    <3> QED BY <1>4, <1>t, <1>b, <3>1, FileReply DEF GetPrivKey
  <2>2. CASE k # None
    <3>0. Get(cmd[c].key) \in KeyPair \cup {None}
      BY <1>c, <1>s, SMT DEF Get, m
    <3>1. /\ Get(cmd[c].key) \in KeyPair /\ Get(cmd[c].key).pass = cmd[c].pass
          /\ k = Get(cmd[c].key).key
      BY <2>2, <3>0, PrivKeyFound
    <3>2. store[cmd[c].key] # None
      BY <3>1, KeybaseAssumption DEF Get
    <3>3. k = cmd[c].key /\ k \in Keys
      BY <3>1, <3>2, <1>c DEF Get, m, IndInv, OwnAddress
    <3> HIDE DEF k
    <3>4. /\ held' = [held EXCEPT ![c] = k] /\ Goto(c, "write")
          /\ UNCHANGED <<type, store, versions, lock, cmd, outcome, listed, left>>
      BY <1>4, <2>2 DEF GetPrivKey, k
    <3>5. TypeOK'
      BY <3>3, <3>4, SMT DEF IndInv, TypeOK, Goto, PCs
    <3>6. OwnAddress'
      BY <3>4, SMT DEF IndInv, OwnAddress
    <3>7. Locked'
      BY <3>4, <1>t, SMT DEF IndInv, TypeOK, Locked, Goto
    <3>8. Checked'
      BY <3>1, <3>2, <3>3, <3>4, <1>t, <1>b, SMT
         DEF IndInv, TypeOK, Checked, CheckedFor, Opened, Busy, Goto, Get
    <3> QED BY <3>5, <3>6, <3>7, <3>8 DEF IndInv
  <2> QED BY <2>1, <2>2
<1>5. CASE DeriveChildFromSeed(c)
  <2> DEFINE ch == DeriveChild(held[c], cmd[c].index)
  <2>1. CASE ch = None
    BY <1>5, <1>t, <1>b, <2>1, FileReply DEF DeriveChildFromSeed
  <2>2. CASE ch # None /\ ~cmd[c].store
    BY <1>5, <1>t, <1>b, <2>2, FileReply DEF DeriveChildFromSeed
  <2>3. CASE ch # None /\ cmd[c].store
    <3>1. Set(StoredChild(ch, cmd[c])) /\ Reply(c, TRUE)
      BY <1>5, <2>3 DEF DeriveChildFromSeed
    <3>2. StoredChild(ch, cmd[c]) \in KeyPair
      BY <1>c, <2>3, NewChild DEF m
    <3> QED BY <1>5, <1>t, <3>1, <3>2, FileSet DEF DeriveChildFromSeed
  <2> QED BY <2>1, <2>2, <2>3
<1>6. CASE UpdatePassphrase(c)
  <2> DEFINE kp == CreateNewKeyFromString(held[c], cmd[c].new)
  <2>1. pc[c] = "write" /\ kp.key = cmd[c].key /\ kp \in KeyPair
    BY <1>6, <1>c, <1>h, NewPair DEF UpdatePassphrase, At, CreateNewKeyFromString, m
  <2>2. Set(kp) /\ Reply(c, TRUE)
    BY <1>6, <2>1 DEF UpdatePassphrase
  <2> QED BY <1>6, <1>t, <2>1, <2>2, FileSet DEF UpdatePassphrase
<1>7. CASE Delete(c)
  <2>1. TypeOK'
    BY <1>7, <1>c, <1>t, SMT DEF Delete, IndInv, TypeOK, Reply, Goto, Free, PCs, m
  <2>2. OwnAddress'
    BY <1>7, SMT DEF Delete, IndInv, TypeOK, OwnAddress
  <2>3. Locked'
    BY <1>7, SMT DEF Delete, IndInv, TypeOK, Locked, Reply, Goto, Free
  <2>4. Checked'
    BY <1>7, <1>t, Answers, SMT
       DEF Delete, IndInv, TypeOK, Locked, Checked, CheckedFor, Opened, Busy, Reply, Goto
  <2> QED BY <2>1, <2>2, <2>3, <2>4 DEF IndInv
<1>8. CASE Sign(c)
  BY <1>8, <1>t, <1>b, FileReply DEF Sign
<1>9. CASE ExportPriv(c)
  BY <1>9, <1>t, <1>b, FileReply DEF ExportPriv
<1>10. CASE GetPubKey(c)
  BY <1>10, <1>t, <1>b, FileReply DEF GetPubKey
<1>11. CASE GetAll(c)
  BY <1>11, <1>t, <1>b, FileReply DEF GetAll
<1> QED BY <1>1, <1>2, <1>3, <1>4, <1>5, <1>6, <1>7, <1>8, <1>9, <1>10, <1>11
        DEF FileCall

LEMMA DestroyedVersions ==
  ASSUME NEW s \in Seq(Version), NEW D
  PROVE  /\ Destroyed(s, D) \in Seq(Version)
         /\ Len(Destroyed(s, D)) = Len(s)
         /\ DOMAIN Destroyed(s, D) = DOMAIN s
         /\ \A i \in DOMAIN s :
              /\ Destroyed(s, D)[i].pair = s[i].pair
              /\ Destroyed(s, D)[i].destroyed <=> (i \in D \/ s[i].destroyed)
<1>1. \A i \in DOMAIN s : s[i] \in Version
  BY SMT
<1>2. ASSUME NEW v \in Version, NEW b \in BOOLEAN
      PROVE  [pair |-> v.pair, destroyed |-> b] \in Version
  BY SMT DEF Version
<1>3. DOMAIN s = 1 .. Len(s) /\ Len(s) \in Nat
  BY SMT
<1>4. \A i \in DOMAIN s :
        /\ Destroyed(s, D)[i] \in Version
        /\ Destroyed(s, D)[i].pair = s[i].pair
        /\ Destroyed(s, D)[i].destroyed <=> (i \in D \/ s[i].destroyed)
  <2> TAKE i \in DOMAIN s
  <2> DEFINE b == i \in D \/ s[i].destroyed
  <2>1. Destroyed(s, D)[i] = [pair |-> s[i].pair, destroyed |-> b]
    BY DEF Destroyed
  <2>2. b \in BOOLEAN
    OBVIOUS
  <2>3. [pair |-> s[i].pair, destroyed |-> b] \in Version
    BY <1>1, <1>2, <2>2
  <2> HIDE DEF b
  <2>4. Destroyed(s, D)[i].pair = s[i].pair
    BY <2>1, SMT
  <2>5. Destroyed(s, D)[i].destroyed = b
    BY <2>1, SMT
  <2> QED BY <2>1, <2>3, <2>4, <2>5 DEF b
<1>5. DOMAIN Destroyed(s, D) = 1 .. Len(s)
  BY <1>3 DEF Destroyed
<1>6. Destroyed(s, D) = [i \in 1 .. Len(s) |-> Destroyed(s, D)[i]]
  BY <1>3 DEF Destroyed
<1>7. Destroyed(s, D) \in Seq(Version) /\ Len(Destroyed(s, D)) = Len(s)
  BY <1>3, <1>4, <1>5, <1>6, SMT
<1> QED BY <1>3, <1>4, <1>5, <1>7

LEMMA VaultGetType ==
  ASSUME IndInv, NEW k \in Keys
  PROVE  /\ VaultGet(k) \in KeyPair \cup {None}
         /\ VaultGet(k) # None => VaultGet(k).key = k
<1> DEFINE n == Len(versions[k])
<1>1. n \in Nat /\ (n # 0 => n \in DOMAIN versions[k] /\ versions[k][n].pair \in KeyPair)
  <2>1. versions[k] \in Seq(Version)
    BY DEF IndInv, TypeOK
  <2>2. n \in Nat /\ (n # 0 => n \in DOMAIN versions[k] /\ versions[k][n] \in Version)
    BY <2>1, SMT
  <2>3. \A v \in Version : v.pair \in KeyPair
    BY SMT DEF Version
  <2> QED BY <2>2, <2>3
<1> QED BY <1>1 DEF VaultGet, IndInv, OwnAddress

LEMMA VaultInd ==
  ASSUME IndInv, NEW c \in Clients, VaultCall(c)
  PROVE  IndInv'
<1> DEFINE m == cmd[c]
<1>t. type = "vault" /\ pc[c] \in Busy
  BY DEF VaultCall, At, Busy, VaultCreate, VaultImportFromString,
         VaultImportFromJSON, VaultGetPrivKey, VaultDeriveChildFromSeed,
         VaultUpdatePassphrase, GetVersionsAsList, VaultDelete, VaultSign,
         VaultExportPriv, VaultGetPubKey, VaultGetAll, VaultGetNext
<1>c. m \in Commands /\ m.key \in Keys /\ m.pass \in Passphrases /\ m.new \in Passphrases
  BY <1>t, CommandFields DEF IndInv, Checked, CheckedFor
<1>h. pc[c] = "write" => held[c] = m.key
  BY DEF IndInv, Checked, CheckedFor
<1>v. versions \in [Keys -> Seq(Version)]
  BY DEF IndInv, TypeOK
<1>l. left \in [Clients -> SUBSET Keys]
  BY DEF IndInv, TypeOK
<1> HIDE DEF m
<1>1. CASE VaultCreate(c)
  <2>1. PICK k \in Fresh : writeVaultKeyPair(c, CreateNewKeyFromString(k, cmd[c].pass))
    BY <1>1 DEF VaultCreate
  <2>2. CreateNewKeyFromString(k, cmd[c].pass) \in KeyPair
    BY <1>c, KeybaseAssumption, NewPair DEF m
  <2> QED BY <1>1, <1>t, <2>1, <2>2, VaultPut DEF VaultCreate
<1>2. CASE VaultImportFromString(c)
  <2>1. CreateNewKeyFromString(cmd[c].key, cmd[c].pass) \in KeyPair
    BY <1>c, NewPair DEF m
  <2> QED BY <1>2, <1>t, <2>1, VaultPut DEF VaultImportFromString
<1>3. CASE VaultImportFromJSON(c)
  <2> DEFINE j == [key |-> cmd[c].key, pass |-> cmd[c].new]
             kp == ImportKeyFromJSON(j, cmd[c].pass)
  <2>0. j \in KeyPair
    BY <1>c, SMT DEF KeyPair, m
  <2> HIDE DEF j
  <2>1. CASE kp = None
    <3>1. versions' = versions /\ VaultReply(c, "error")
      BY <1>3, <2>1 DEF VaultImportFromJSON, j
    <3> QED BY <1>3, <1>t, <1>l, <3>1, VaultQuiet DEF VaultImportFromJSON
  <2>2. CASE kp # None
    <3>1. writeVaultKeyPair(c, kp)
      BY <1>3, <2>2 DEF VaultImportFromJSON, j
    <3>2. kp \in KeyPair
      BY <2>0, <2>2 DEF ImportKeyFromJSON
    <3> QED BY <1>3, <1>t, <3>1, <3>2, VaultPut DEF VaultImportFromJSON
  <2> QED BY <2>1, <2>2
<1>4. CASE VaultGetPrivKey(c)
  <2> DEFINE k == PrivKey(VaultGet(cmd[c].key), cmd[c].pass)
  <2>1. CASE k = None
    <3>1. VaultReply(c, "error") /\ held' = held
      BY <1>4, <2>1 DEF VaultGetPrivKey
    <3> QED BY <1>4, <1>t, <1>l, <3>1, VaultQuiet DEF VaultGetPrivKey
  <2>2. CASE k # None
    <3>0. VaultGet(cmd[c].key) \in KeyPair \cup {None}
      BY <1>c, VaultGetType DEF m
    <3>1. /\ VaultGet(cmd[c].key) \in KeyPair /\ VaultGet(cmd[c].key).pass = cmd[c].pass
          /\ k = VaultGet(cmd[c].key).key
      BY <2>2, <3>0, PrivKeyFound
    <3>2. VaultGet(cmd[c].key) # None
      BY <3>1, KeybaseAssumption
    <3>3. k = cmd[c].key /\ k \in Keys
      BY <3>1, <3>2, <1>c, VaultGetType DEF m
    <3>e. cmd[c].pass \in Ever(cmd[c].key)
      <4> DEFINE n == Len(versions[cmd[c].key])
      <4>1. n # 0 /\ VaultGet(cmd[c].key) = versions[cmd[c].key][n].pair
        BY <3>2 DEF VaultGet
      <4>2. n \in DOMAIN versions[cmd[c].key]
        BY <4>1, <1>c, <1>v, SMT DEF m
      <4> QED BY <4>1, <4>2, <3>1, <1>t DEF Ever
    <3> HIDE DEF k
    <3> DEFINE q == IF cmd[c].op = "delete" THEN "versions" ELSE "write"
    <3>4. /\ held' = [held EXCEPT ![c] = k] /\ Goto(c, q)
          /\ UNCHANGED <<type, store, versions, lock, cmd, outcome, listed, left>>
      BY <1>4, <2>2 DEF VaultGetPrivKey, k
    <3>q. q \in {"versions", "write"}
      OBVIOUS
    <3> HIDE DEF q
    <3>5. TypeOK'
      BY <3>3, <3>4, <3>q, SMT DEF IndInv, TypeOK, Goto, PCs
    <3>6. OwnAddress'
      BY <3>4, SMT DEF IndInv, OwnAddress
    <3>7. Locked'
      BY <3>4, <1>t, SMT DEF IndInv, TypeOK, Locked, Goto
    <3>8. Checked'
      <4>1. pc'[c] = q /\ held'[c] = cmd'[c].key
        BY <3>3, <3>4, SMT DEF IndInv, TypeOK, Goto
      <4>2. CheckedFor(c)
        BY DEF IndInv, Checked
      <4>3. (cmd[c].pass \in Ever(cmd[c].key))'
        BY <3>4, <3>e, SMT DEF Ever
      <4>4. CheckedFor(c)'
        BY <4>1, <4>2, <4>3, <3>4, <3>q, <1>t DEF CheckedFor, Busy
      <4>5. ASSUME NEW d \in Clients, d # c
            PROVE  CheckedFor(d)'
        <5>1. pc'[d] = pc[d] /\ held'[d] = held[d]
          BY <3>4, <4>5, SMT DEF IndInv, TypeOK, Goto
        <5>2. CheckedFor(d)
          BY DEF IndInv, Checked
        <5>3. Opened(d)' <=> Opened(d)
          BY <3>4 DEF Opened
        <5>4. (cmd[d].pass \in Ever(cmd[d].key))' <=> cmd[d].pass \in Ever(cmd[d].key)
          BY <3>4, SMT DEF Ever
        <5> QED BY <5>1, <5>2, <5>3, <5>4, <3>4 DEF CheckedFor
      <4> QED BY <4>4, <4>5 DEF Checked
    <3> QED BY <3>5, <3>6, <3>7, <3>8 DEF IndInv
  <2> QED BY <2>1, <2>2
<1>5. CASE VaultDeriveChildFromSeed(c)
  <2> DEFINE ch == DeriveChild(held[c], cmd[c].index)
  <2>1. CASE ch = None \/ ~cmd[c].store
    <3> DEFINE o == IF ch = None THEN "error" ELSE "ok"
    <3>1. versions' = versions /\ VaultReply(c, o)
      BY <1>5, <2>1 DEF VaultDeriveChildFromSeed
    <3>2. o \in {"ok", "error", "lost"}
      OBVIOUS
    <3> HIDE DEF o
    <3> QED BY <1>5, <1>t, <1>l, <3>1, <3>2, VaultQuiet DEF VaultDeriveChildFromSeed
  <2>2. CASE ch # None /\ cmd[c].store
    <3>1. writeVaultKeyPair(c, StoredChild(ch, cmd[c]))
      BY <1>5, <2>2 DEF VaultDeriveChildFromSeed
    <3>2. StoredChild(ch, cmd[c]) \in KeyPair
      BY <1>c, <2>2, NewChild DEF m
    <3> QED BY <1>5, <1>t, <3>1, <3>2, VaultPut DEF VaultDeriveChildFromSeed
  <2> QED BY <2>1, <2>2
<1>6. CASE VaultUpdatePassphrase(c)
  <2>1. held[c] = cmd[c].key
    BY <1>6, <1>h DEF VaultUpdatePassphrase, At, m
  <2>2. CreateNewKeyFromString(held[c], cmd[c].new) \in KeyPair
    BY <1>c, <2>1, NewPair DEF m
  <2> QED BY <1>6, <1>t, <2>2, VaultPut DEF VaultUpdatePassphrase
<1>7. CASE GetVersionsAsList(c)
  <2>0. pc[c] = "versions" /\ held[c] = cmd[c].key /\ cmd[c].pass \in Ever(cmd[c].key)
    BY <1>7, <1>t DEF GetVersionsAsList, At, IndInv, Checked, CheckedFor
  <2> DEFINE n == Len(versions[cmd[c].key])
  <2>n. n \in Nat
    BY <1>c, <1>v, SMT DEF m
  <2>1. /\ listed' = [listed EXCEPT ![c] = n] /\ Goto(c, "destroy")
        /\ UNCHANGED <<type, store, versions, lock, cmd, outcome, held, left>>
    BY <1>7 DEF GetVersionsAsList
  <2>2. TypeOK'
    <3>1. \A d \in Clients :
            pc'[d] = "destroy" => listed'[d] <= Len(versions'[cmd'[d].key])
      BY <2>1, <2>n, SMT DEF IndInv, TypeOK, Goto
    <3> HIDE DEF n
    <3> QED BY <2>1, <2>n, <3>1, SMT DEF IndInv, TypeOK, Goto, PCs
  <2>3. OwnAddress'
    BY <2>1, SMT DEF IndInv, OwnAddress
  <2>4. Locked'
    BY <2>1, <1>t, SMT DEF IndInv, TypeOK, Locked, Goto
  <2>5. Checked'
    <3> SUFFICES ASSUME NEW d \in Clients PROVE CheckedFor(d)'
      BY DEF Checked
    <3>1. pc'[d] = IF d = c THEN "destroy" ELSE pc[d]
      BY <2>1, SMT DEF IndInv, TypeOK, Goto
    <3>2. CheckedFor(d)
      BY DEF IndInv, Checked
    <3>3. Opened(d)' <=> Opened(d)
      BY <2>1 DEF Opened
    <3>4. (cmd[d].pass \in Ever(cmd[d].key))' <=> cmd[d].pass \in Ever(cmd[d].key)
      BY <2>1, SMT DEF Ever
    <3>5. CASE d = c
      BY <3>1, <3>2, <3>4, <3>5, <2>0, <2>1, <1>t DEF CheckedFor, Busy
    <3>6. CASE d # c
      BY <3>1, <3>2, <3>3, <3>4, <3>6, <2>1 DEF CheckedFor
    <3> QED BY <3>5, <3>6
  <2> QED BY <2>2, <2>3, <2>4, <2>5 DEF IndInv
<1>8. CASE VaultDelete(c)
  <2>1. versions' = [versions EXCEPT ![cmd[c].key] = Destroyed(@, 1 .. listed[c])]
    BY <1>8 DEF VaultDelete
  <2>2. PICK o \in {"ok", "lost"} : VaultReply(c, o)
    BY <1>8 DEF VaultDelete
  <2>3. \A k \in Keys : versions[k] \in Seq(Version)
    BY <1>v
  <2>4. \A k \in Keys :
          versions'[k] = IF k = cmd[c].key THEN Destroyed(versions[k], 1 .. listed[c])
                                           ELSE versions[k]
    BY <2>1, <1>v, SMT
  <2>5. versions' \in [Keys -> Seq(Version)]
    BY <2>1, <2>3, <1>v, <1>c, DestroyedVersions, SMT DEF m
  <2>6. ASSUME NEW k \in Keys
        PROVE  /\ Len(versions[k]) <= Len(versions'[k])
               /\ \A i \in DOMAIN versions[k] :
                    versions'[k][i].pair = versions[k][i].pair
               /\ \A i \in DOMAIN versions'[k] : versions'[k][i].pair.key = k
    <3>1. \A i \in DOMAIN versions[k] : versions[k][i].pair.key = k
      BY DEF IndInv, OwnAddress
    <3>2. Len(versions[k]) \in Nat
      BY <2>3, SMT
    <3>3. CASE k = cmd[c].key
      <4> DEFINE t == Destroyed(versions[k], 1 .. listed[c])
      <4>1. /\ Len(t) = Len(versions[k]) /\ DOMAIN t = DOMAIN versions[k]
            /\ \A i \in DOMAIN versions[k] : t[i].pair = versions[k][i].pair
        BY <2>3, DestroyedVersions
      <4>2. versions'[k] = t
        BY <2>4, <3>3
      <4> HIDE DEF t
      <4> QED BY <3>1, <3>2, <4>1, <4>2, SMT
    <3>4. CASE k # cmd[c].key
      BY <3>1, <3>2, <3>4, <2>4, SMT
    <3> QED BY <3>3, <3>4
  <2> QED BY <1>8, <1>t, <2>2, <2>5, <2>6, VaultChange DEF VaultDelete
<1>9. CASE VaultSign(c)
  <2>1. PICK o \in {"ok", "error", "lost"} : VaultReply(c, o)
    BY <1>9 DEF VaultSign
  <2> QED BY <1>9, <1>t, <1>l, <2>1, VaultQuiet DEF VaultSign
<1>10. CASE VaultExportPriv(c)
  <2>1. PICK o \in {"ok", "error", "lost"} : VaultReply(c, o)
    BY <1>10 DEF VaultExportPriv
  <2> QED BY <1>10, <1>t, <1>l, <2>1, VaultQuiet DEF VaultExportPriv
<1>11. CASE VaultGetPubKey(c)
  <2>1. PICK o \in {"ok", "error", "lost"} : VaultReply(c, o)
    BY <1>11 DEF VaultGetPubKey
  <2> QED BY <1>11, <1>t, <1>l, <2>1, VaultQuiet DEF VaultGetPubKey
<1>12. CASE VaultGetAll(c)
  <2> DEFINE S == {k \in Keys : versions[k] # <<>>}
  <2>1. CASE S = {}
    <3>1. VaultReply(c, "ok") /\ left' = left
      BY <1>12, <2>1 DEF VaultGetAll
    <3> QED BY <1>12, <1>t, <1>l, <3>1, VaultQuiet DEF VaultGetAll
  <2>2. CASE S # {}
    <3>0. S \in SUBSET Keys
      OBVIOUS
    <3> HIDE DEF S
    <3>1. /\ left' = [left EXCEPT ![c] = S] /\ Goto(c, "list")
          /\ UNCHANGED <<type, store, versions, lock, cmd, outcome, held, listed>>
      BY <1>12, <2>2 DEF VaultGetAll, S
    <3>2. TypeOK'
      BY <3>0, <3>1, SMT DEF IndInv, TypeOK, Goto, PCs
    <3>3. OwnAddress'
      BY <3>1, SMT DEF IndInv, OwnAddress
    <3>4. Locked'
      BY <3>1, <1>t, SMT DEF IndInv, TypeOK, Locked, Goto
    <3>5. Checked'
      <4>1. pc'[c] = "list" /\ \A d \in Clients \ {c} : pc'[d] = pc[d]
        BY <3>1, SMT DEF IndInv, TypeOK, Goto
      <4>2. cmd[c] \in Commands /\ outcome[c] = None
        BY <1>t DEF IndInv, Checked, CheckedFor
      <4> QED BY <3>1, <4>1, <4>2, CheckedKept
    <3> QED BY <3>2, <3>3, <3>4, <3>5 DEF IndInv
  <2> QED BY <2>1, <2>2
<1>13. CASE VaultGetNext(c)
  <2>1. PICK k \in left[c] :
          /\ left' = [left EXCEPT ![c] = @ \ {k}]
          /\ IF VaultGet(k) = None THEN VaultReply(c, "error")
             ELSE IF left[c] = {k} THEN VaultReply(c, "ok")
             ELSE UNCHANGED <<pc, lock, outcome>>
    BY <1>13 DEF VaultGetNext
  <2>2. left' \in [Clients -> SUBSET Keys]
    BY <1>l, <2>1, SMT
  <2>3. CASE VaultReply(c, "error") \/ VaultReply(c, "ok")
    BY <1>13, <1>t, <2>2, <2>3, VaultQuiet DEF VaultGetNext
  <2>4. CASE UNCHANGED <<pc, lock, outcome>>
    <3>1. UNCHANGED <<type, store, versions, cmd, held, listed>>
      BY <1>13 DEF VaultGetNext
    <3>2. TypeOK'
      BY <2>2, <2>4, <3>1, SMT DEF IndInv, TypeOK
    <3>3. OwnAddress' /\ Locked'
      BY <2>4, <3>1, SMT DEF IndInv, OwnAddress, Locked
    <3>4. pc[c] = "list" /\ cmd[c] \in Commands /\ outcome[c] = None
      BY <1>13, <1>t DEF VaultGetNext, At, IndInv, Checked, CheckedFor
    <3>5. Checked'
      BY <2>4, <3>1, <3>4, CheckedKept
    <3> QED BY <3>2, <3>3, <3>5 DEF IndInv
  <2> QED BY <2>1, <2>3, <2>4
<1> QED BY <1>1, <1>2, <1>3, <1>4, <1>5, <1>6, <1>7, <1>8, <1>9, <1>10, <1>11,
           <1>12, <1>13 DEF VaultCall

LEMMA StutterInd ==
  ASSUME IndInv, UNCHANGED vars
  PROVE  IndInv'
<1>1. TypeOK' /\ OwnAddress' /\ Locked'
  BY SMT DEF vars, IndInv, TypeOK, OwnAddress, Locked
<1>2. Checked'
  <2> SUFFICES ASSUME NEW d \in Clients PROVE CheckedFor(d)'
    BY DEF Checked
  <2>1. CheckedFor(d)
    BY DEF IndInv, Checked
  <2>2. Opened(d)' <=> Opened(d)
    BY DEF vars, Opened
  <2>3. (cmd[d].pass \in Ever(cmd[d].key))' <=> cmd[d].pass \in Ever(cmd[d].key)
    BY SMT DEF vars, Ever
  <2> QED BY <2>1, <2>2, <2>3 DEF vars, CheckedFor
<1> QED BY <1>1, <1>2 DEF IndInv

LEMMA NextInd == IndInv /\ [Next]_vars => IndInv'
BY StepInd, FileInd, VaultInd, StutterInd DEF Next

LEMMA Inductive == Spec => []IndInv
BY InitInd, NextInd, PTL DEF Spec

(* The types of the state, and what Delete lists. *)
THEOREM TypeCorrect == Spec => []TypeOK
<1>1. IndInv => TypeOK
  BY DEF IndInv
<1> QED BY <1>1, Inductive, PTL

(* Every key pair is stored under its own address, whatever the commands   *)
(* of keystore.go and vault.go and however they interleave.                *)
THEOREM StoredUnderOwnAddress == Spec => []OwnAddress
<1>1. IndInv => OwnAddress
  BY DEF IndInv
<1> QED BY <1>1, Inductive, PTL

-----------------------------------------------------------------------------
(* A deletion leaves no version behind. *)

LEMMA VaultWrites ==
  ASSUME IndInv, NEW c \in Clients, VaultCall(c)
  PROVE  \/ versions' = versions
         \/ VaultDelete(c)
         \/ \E kp \in KeyPair : writeVaultKeyPair(c, kp)
<1>t. pc[c] \in Busy
  BY DEF VaultCall, At, Busy, VaultCreate, VaultImportFromString,
         VaultImportFromJSON, VaultGetPrivKey, VaultDeriveChildFromSeed,
         VaultUpdatePassphrase, GetVersionsAsList, VaultDelete, VaultSign,
         VaultExportPriv, VaultGetPubKey, VaultGetAll, VaultGetNext
<1>c. /\ cmd[c] \in Commands /\ cmd[c].key \in Keys /\ cmd[c].pass \in Passphrases
      /\ cmd[c].new \in Passphrases
  BY <1>t, CommandFields DEF IndInv, Checked, CheckedFor
<1>1. CASE VaultCreate(c)
  BY <1>1, <1>c, KeybaseAssumption, NewPair DEF VaultCreate
<1>2. CASE VaultImportFromString(c)
  BY <1>2, <1>c, NewPair DEF VaultImportFromString
<1>3. CASE VaultImportFromJSON(c)
  <2> DEFINE j == [key |-> cmd[c].key, pass |-> cmd[c].new]
  <2>1. j \in KeyPair
    BY <1>c, SMT DEF KeyPair
  <2> HIDE DEF j
  <2> QED BY <1>3, <2>1 DEF VaultImportFromJSON, ImportKeyFromJSON, j
<1>4. CASE VaultDeriveChildFromSeed(c)
  BY <1>4, <1>c, NewChild DEF VaultDeriveChildFromSeed
<1>5. CASE VaultUpdatePassphrase(c)
  <2>1. held[c] = cmd[c].key
    BY <1>5 DEF VaultUpdatePassphrase, At, IndInv, Checked, CheckedFor
  <2> QED BY <1>5, <2>1, <1>c, NewPair DEF VaultUpdatePassphrase
<1>6. CASE \/ VaultGetPrivKey(c) \/ GetVersionsAsList(c) \/ VaultSign(c)
           \/ VaultExportPriv(c) \/ VaultGetPubKey(c) \/ VaultGetAll(c)
           \/ VaultGetNext(c)
  BY <1>6 DEF VaultGetPrivKey, GetVersionsAsList, VaultSign, VaultExportPriv,
              VaultGetPubKey, VaultGetAll, VaultGetNext
<1> QED BY <1>1, <1>2, <1>3, <1>4, <1>5, <1>6 DEF VaultCall

LEMMA VersionsStep ==
  ASSUME IndInv, [Next]_vars
  PROVE  \/ versions' = versions
         \/ \E c \in Clients : VaultDelete(c)
         \/ \E c \in Clients : \E kp \in KeyPair : writeVaultKeyPair(c, kp)
<1>1. CASE UNCHANGED vars
  BY <1>1 DEF vars
<1>2. CASE Next
  <2>1. PICK c \in Clients : Step(c) \/ FileCall(c) \/ VaultCall(c)
    BY <1>2 DEF Next
  <2>2. CASE Step(c)
    BY <2>2 DEF Step, RunCommand, NewBadgerKeybase, NewVaultKeybase, Stop, Kill
  <2>3. CASE FileCall(c)
    BY <2>3 DEF FileCall, Create, ImportFromString, ImportFromJSON, GetPrivKey,
                DeriveChildFromSeed, UpdatePassphrase, Delete, Sign, ExportPriv,
                GetPubKey, GetAll
  <2>4. CASE VaultCall(c)
    BY <2>4, VaultWrites
  <2> QED BY <2>1, <2>2, <2>3, <2>4
<1> QED BY <1>1, <1>2

LEMMA NothingLeftStep ==
  ASSUME IndInv, NothingLeftBehind, [Next]_vars
  PROVE  NothingLeftBehind'
<1>v. \A k \in Keys : versions[k] \in Seq(Version)
  BY DEF IndInv, TypeOK
<1>f. versions \in [Keys -> Seq(Version)]
  BY DEF IndInv, TypeOK
<1>1. CASE versions' = versions
  BY <1>1 DEF NothingLeftBehind
<1>2. ASSUME NEW c \in Clients, NEW kp \in KeyPair, writeVaultKeyPair(c, kp)
      PROVE  NothingLeftBehind'
  <2> DEFINE v == [pair |-> kp, destroyed |-> FALSE]
  <2>1. v \in Version /\ ~v.destroyed
    BY SMT DEF Version
  <2>2. versions' = [versions EXCEPT ![kp.key] = Append(@, v)]
    BY <1>2 DEF writeVaultKeyPair
  <2> HIDE DEF v
  <2> SUFFICES ASSUME NEW k \in Keys,
                      Len(versions'[k]) > 0,
                      versions'[k][Len(versions'[k])].destroyed
               PROVE  \A i \in 1 .. Len(versions'[k]) : versions'[k][i].destroyed
    BY DEF NothingLeftBehind
  <2>3. CASE k = kp.key
    <3>1. versions'[k] = Append(versions[k], v)
      BY <2>2, <2>3, <1>f, SMT
    <3>2. versions'[k][Len(versions'[k])] = v
      BY <3>1, <2>1, <1>v, AppendVersion, SMT
    <3> QED BY <3>2, <2>1
  <2>4. CASE k # kp.key
    <3>1. versions'[k] = versions[k]
      BY <2>2, <2>4, <1>f, SMT
    <3> QED BY <3>1 DEF NothingLeftBehind
  <2> QED BY <2>3, <2>4
<1>3. ASSUME NEW c \in Clients, VaultDelete(c)
      PROVE  NothingLeftBehind'
  <2> DEFINE n == listed[c]
  <2>1. versions' = [versions EXCEPT ![cmd[c].key] = Destroyed(@, 1 .. n)]
    BY <1>3 DEF VaultDelete
  <2>n. n \in Nat
    BY DEF IndInv, TypeOK
  <2> HIDE DEF n
  <2> SUFFICES ASSUME NEW k \in Keys,
                      Len(versions'[k]) > 0,
                      versions'[k][Len(versions'[k])].destroyed
               PROVE  \A i \in 1 .. Len(versions'[k]) : versions'[k][i].destroyed
    BY DEF NothingLeftBehind
  <2>2. CASE k = cmd[c].key
    <3> DEFINE s == versions[k]
               D == 1 .. n
               t == Destroyed(s, D)
    <3>1. versions'[k] = t
      BY <2>1, <2>2, <1>f, SMT
    <3>2. s \in Seq(Version) /\ Len(s) \in Nat /\ DOMAIN s = 1 .. Len(s)
      BY <1>v, SMT
    <3> HIDE DEF s, D
    <3>3. Len(t) = Len(s) /\ \A i \in DOMAIN s : t[i].destroyed <=> (i \in D \/ s[i].destroyed)
      BY <3>2, DestroyedVersions
    <3> HIDE DEF t
    <3>4. Len(s) \in DOMAIN s
      BY <3>1, <3>2, <3>3, SMT
    <3>5. Len(s) \in D \/ s[Len(s)].destroyed
      BY <3>1, <3>3, <3>4
    <3>6. CASE Len(s) \in D
      <4>1. \A i \in DOMAIN s : i \in D
        BY <3>2, <3>6, <2>n, SMT DEF D
      <4> QED BY <4>1, <3>1, <3>2, <3>3
    <3>7. CASE s[Len(s)].destroyed
      <4>1. Len(s) > 0
        BY <3>1, <3>3
      <4>2. \A i \in 1 .. Len(s) : s[i].destroyed
        BY <4>1, <3>7 DEF NothingLeftBehind, s
      <4> QED BY <4>2, <3>1, <3>2, <3>3
    <3> QED BY <3>5, <3>6, <3>7
  <2>3. CASE k # cmd[c].key
    <3>1. versions'[k] = versions[k]
      BY <2>1, <2>3, <1>f, SMT
    <3> QED BY <3>1 DEF NothingLeftBehind
  <2> QED BY <2>2, <2>3
<1> QED BY <1>1, <1>2, <1>3, VersionsStep

(* When the latest version of a secret is destroyed, so are all the older  *)
(* ones, although Delete of vault.go lists the versions in one request and *)
(* destroys them in another.                                               *)
THEOREM DeletesWhole == Spec => []NothingLeftBehind
<1>1. Init => NothingLeftBehind
  <2> SUFFICES ASSUME Init PROVE NothingLeftBehind
    OBVIOUS
  <2>1. \A k \in Keys : Len(versions[k]) = 0
    BY SMT DEF Init
  <2> QED BY <2>1, SMT DEF NothingLeftBehind
<1>2. IndInv /\ NothingLeftBehind /\ [Next]_vars => NothingLeftBehind'
  BY NothingLeftStep
<1> QED BY <1>1, <1>2, Inductive, PTL DEF Spec

-----------------------------------------------------------------------------
(* A listing fails only once a key has been deleted. *)

Gone == \E k \in Keys : \E i \in DOMAIN versions[k] : versions[k][i].destroyed

(* GetAll of the vault has still to read secrets that have a version. *)
ListFor(c) ==
  type = "vault" =>
    /\ outcome[c] = "error" /\ cmd[c] # None => (cmd[c].op = "getAll" => Gone)
    /\ pc[c] = "list" => \A k \in left[c] : DOMAIN versions[k] # {}

ListInv == \A c \in Clients : ListFor(c)

(* No version of a secret goes away, and none that is destroyed comes back. *)
LEMMA VersionsGrow ==
  ASSUME IndInv, [Next]_vars, NEW k \in Keys
  PROVE  /\ DOMAIN versions[k] \subseteq DOMAIN versions'[k]
         /\ \A i \in DOMAIN versions[k] :
              versions[k][i].destroyed => versions'[k][i].destroyed
<1>f. versions \in [Keys -> Seq(Version)] /\ versions[k] \in Seq(Version)
  BY DEF IndInv, TypeOK
<1>1. CASE versions' = versions
  BY <1>1
<1>2. ASSUME NEW c \in Clients, NEW kp \in KeyPair, writeVaultKeyPair(c, kp)
      PROVE  /\ DOMAIN versions[k] \subseteq DOMAIN versions'[k]
             /\ \A i \in DOMAIN versions[k] :
                  versions[k][i].destroyed => versions'[k][i].destroyed
  <2> DEFINE v == [pair |-> kp, destroyed |-> FALSE]
  <2>1. v \in Version
    BY SMT DEF Version
  <2>2. versions' = [versions EXCEPT ![kp.key] = Append(@, v)]
    BY <1>2 DEF writeVaultKeyPair
  <2> HIDE DEF v
  <2>3. versions'[k] = versions[k] \/ versions'[k] = Append(versions[k], v)
    BY <2>2, <1>f, SMT
  <2>4. /\ DOMAIN versions[k] \subseteq DOMAIN Append(versions[k], v)
        /\ \A i \in DOMAIN versions[k] : Append(versions[k], v)[i] = versions[k][i]
    BY <2>1, <1>f, SMT
  <2> QED BY <2>3, <2>4
<1>3. ASSUME NEW c \in Clients, VaultDelete(c)
      PROVE  /\ DOMAIN versions[k] \subseteq DOMAIN versions'[k]
             /\ \A i \in DOMAIN versions[k] :
                  versions[k][i].destroyed => versions'[k][i].destroyed
  <2> DEFINE D == 1 .. listed[c]
             t == Destroyed(versions[k], D)
  <2>1. versions' = [versions EXCEPT ![cmd[c].key] = Destroyed(@, D)]
    BY <1>3 DEF VaultDelete
  <2> HIDE DEF D
  <2>2. versions'[k] = versions[k] \/ versions'[k] = t
    BY <2>1, <1>f, SMT
  <2>3. /\ DOMAIN t = DOMAIN versions[k]
        /\ \A i \in DOMAIN versions[k] : versions[k][i].destroyed => t[i].destroyed
    BY <1>f, DestroyedVersions, SMT
  <2> HIDE DEF t
  <2> QED BY <2>2, <2>3
<1> QED BY <1>1, <1>2, <1>3, VersionsStep

LEMMA GoneStays ==
  ASSUME IndInv, [Next]_vars, Gone
  PROVE  Gone'
<1>1. PICK k \in Keys : \E i \in DOMAIN versions[k] : versions[k][i].destroyed
  BY DEF Gone
<1> QED BY <1>1, VersionsGrow DEF Gone

(* A step of process c is the only one that can falsify its own part. *)
LEMMA ListKept ==
  ASSUME IndInv, ListInv, [Next]_vars, NEW c \in Clients, type' = type,
         \A d \in Clients : d # c =>
           /\ cmd'[d] = cmd[d] /\ pc'[d] = pc[d]
           /\ outcome'[d] = outcome[d] /\ left'[d] = left[d],
         ListFor(c)'
  PROVE  ListInv'
<1> SUFFICES ASSUME NEW d \in Clients, d # c, type = "vault"
             PROVE  ListFor(d)'
  BY DEF ListInv, ListFor
<1>1. ListFor(d) /\ left[d] \subseteq Keys
  BY DEF ListInv, IndInv, TypeOK
<1>2. ASSUME outcome[d] = "error", cmd[d] # None, cmd[d].op = "getAll"
      PROVE  Gone'
  BY <1>1, <1>2, GoneStays DEF ListFor
<1>3. ASSUME pc[d] = "list", NEW k \in left[d]
      PROVE  DOMAIN versions'[k] # {}
  <2>1. DOMAIN versions[k] # {}
    BY <1>1, <1>3 DEF ListFor
  <2> QED BY <1>1, <2>1, VersionsGrow
<1> QED BY <1>2, <1>3 DEF ListFor

(* The step of a process that is not listing. *)
LEMMA NotListing ==
  ASSUME IndInv, ListInv, [Next]_vars, NEW c \in Clients,
         pc'[c] # "list",
         \/ outcome'[c] \in {None, "ok", "lost"}
         \/ outcome'[c] = outcome[c] /\ cmd'[c] = cmd[c] /\ type' = type
         \/ cmd'[c] = cmd[c] /\ cmd[c].op # "getAll"
  PROVE  ListFor(c)'
<1>1. outcome[c] = "error" /\ cmd[c] # None /\ cmd[c].op = "getAll" /\ type = "vault" => Gone'
  BY GoneStays DEF ListInv, ListFor
<1>2. None # "error"
  BY Answers
<1> QED BY <1>1, <1>2 DEF ListFor

LEMMA ListStep ==
  ASSUME IndInv, ListInv, NEW c \in Clients, [Next]_vars, Step(c)
  PROVE  ListInv'
<1>t. /\ pc \in [Clients -> PCs] /\ cmd \in [Clients -> Commands \cup {None}]
      /\ outcome \in [Clients -> {"ok", "error", "lost", None}]
      /\ left \in [Clients -> SUBSET Keys]
  BY DEF IndInv, TypeOK
<1>1. CASE type = "file"
  <2>1. type' = type
    BY DEF Step, RunCommand, NewBadgerKeybase, NewVaultKeybase, Stop, Kill
  <2> QED BY <1>1, <2>1 DEF ListInv, ListFor
<1>2. CASE type = "vault"
  <2>1. CASE RunCommand(c)
    <3>1. /\ type' = type /\ pc'[c] = "open" /\ outcome'[c] = None
          /\ \A d \in Clients : d # c =>
               /\ cmd'[d] = cmd[d] /\ pc'[d] = pc[d]
               /\ outcome'[d] = outcome[d] /\ left'[d] = left[d]
      BY <1>t, <2>1 DEF RunCommand, Goto
    <3> QED BY <3>1, NotListing, ListKept
  <2>2. CASE NewVaultKeybase(c) \/ Stop(c)
    <3>1. /\ type' = type /\ pc'[c] \in {"call", "idle"} /\ UNCHANGED <<outcome, cmd, left>>
          /\ \A d \in Clients : d # c => pc'[d] = pc[d]
      BY <1>t, <2>2 DEF NewVaultKeybase, Stop, Goto
    <3>2. ListFor(c)'
      BY <3>1, NotListing
    <3> QED BY <3>1, <3>2, ListKept
  <2>3. CASE Kill(c)
    <3>1. /\ type' = type /\ pc'[c] = "idle" /\ UNCHANGED <<cmd, left>>
          /\ outcome'[c] = "lost" \/ outcome'[c] = outcome[c]
          /\ \A d \in Clients : d # c => pc'[d] = pc[d] /\ outcome'[d] = outcome[d]
      BY <1>t, <2>3 DEF Kill, Goto
    <3>2. ListFor(c)'
      BY <3>1, NotListing
    <3> QED BY <3>1, <3>2, ListKept
  <2> QED BY <1>2, <2>1, <2>2, <2>3 DEF Step, NewBadgerKeybase
<1> QED BY <1>1, <1>2 DEF IndInv, TypeOK

(* What a call to the vault that is not part of a listing leaves alone. *)
LEMMA OtherCalls ==
  ASSUME IndInv, NEW c \in Clients, VaultCall(c), ~VaultGetAll(c), ~VaultGetNext(c)
  PROVE  /\ UNCHANGED <<type, cmd, left>> /\ cmd[c].op # "getAll"
         /\ pc'[c] # "list"
         /\ \A d \in Clients : d # c => pc'[d] = pc[d] /\ outcome'[d] = outcome[d]
<1>t. /\ pc \in [Clients -> PCs] /\ outcome \in [Clients -> {"ok", "error", "lost", None}]
  BY DEF IndInv, TypeOK
<1> DEFINE Quiet == /\ pc'[c] # "list"
                    /\ \A d \in Clients : d # c => pc'[d] = pc[d] /\ outcome'[d] = outcome[d]
<1>1. ASSUME NEW o, VaultReply(c, o)
      PROVE  Quiet
  BY <1>1, <1>t DEF VaultReply, Goto
<1>2. ASSUME NEW p, Goto(c, p), p # "list", outcome' = outcome
      PROVE  Quiet
  BY <1>2, <1>t DEF Goto
<1>3. ASSUME NEW kp, writeVaultKeyPair(c, kp)
      PROVE  Quiet
  BY <1>1, <1>3 DEF writeVaultKeyPair
<1> HIDE DEF Quiet
<1>4. CASE \/ VaultCreate(c) \/ VaultImportFromString(c) \/ VaultUpdatePassphrase(c)
           \/ VaultDelete(c) \/ VaultSign(c) \/ VaultExportPriv(c) \/ VaultGetPubKey(c)
  <2>1. Quiet
    BY <1>1, <1>3, <1>4 DEF VaultCreate, VaultImportFromString, VaultUpdatePassphrase,
         VaultDelete, VaultSign, VaultExportPriv, VaultGetPubKey
  <2>2. UNCHANGED <<type, cmd, left>> /\ cmd[c].op # "getAll"
    BY <1>4 DEF VaultCreate, VaultImportFromString, VaultUpdatePassphrase,
         VaultDelete, VaultSign, VaultExportPriv, VaultGetPubKey, At
  <2> QED BY <2>1, <2>2 DEF Quiet
<1>5. CASE VaultImportFromJSON(c) \/ VaultDeriveChildFromSeed(c)
  <2>1. Quiet
    BY <1>1, <1>3, <1>5 DEF VaultImportFromJSON, VaultDeriveChildFromSeed
  <2>2. UNCHANGED <<type, cmd, left>> /\ cmd[c].op # "getAll"
    BY <1>5 DEF VaultImportFromJSON, VaultDeriveChildFromSeed, At
  <2> QED BY <2>1, <2>2 DEF Quiet
<1>6. CASE VaultGetPrivKey(c) \/ GetVersionsAsList(c)
  <2>1. Quiet
    BY <1>1, <1>2, <1>6 DEF VaultGetPrivKey, GetVersionsAsList
  <2>2. UNCHANGED <<type, cmd, left>> /\ cmd[c].op # "getAll"
    BY <1>6 DEF VaultGetPrivKey, GetVersionsAsList, At
  <2> QED BY <2>1, <2>2 DEF Quiet
<1> QED BY <1>4, <1>5, <1>6 DEF VaultCall

(* The version of a secret that reads as no key pair is a destroyed one. *)
LEMMA NoPairGone ==
  ASSUME IndInv, NEW k \in Keys, DOMAIN versions[k] # {}, VaultGet(k) = None
  PROVE  Gone
<1> DEFINE n == Len(versions[k])
<1>1. versions[k] \in Seq(Version)
  BY DEF IndInv, TypeOK
<1>2. n \in DOMAIN versions[k] /\ n # 0 /\ versions[k][n].pair \in KeyPair
  <2>1. n \in DOMAIN versions[k] /\ n # 0 /\ versions[k][n] \in Version
    BY <1>1, SMT
  <2> QED BY <2>1, SMT DEF Version
<1>3. versions[k][n].pair # None
  BY <1>2, KeybaseAssumption
<1>4. versions[k][n].destroyed
  BY <1>2, <1>3 DEF VaultGet
<1> QED BY <1>2, <1>4 DEF Gone

LEMMA ListCall ==
  ASSUME IndInv, ListInv, NEW c \in Clients, [Next]_vars, FileCall(c) \/ VaultCall(c)
  PROVE  ListInv'
<1>t. /\ pc \in [Clients -> PCs] /\ left \in [Clients -> SUBSET Keys]
      /\ outcome \in [Clients -> {"ok", "error", "lost", None}]
      /\ versions \in [Keys -> Seq(Version)]
  BY DEF IndInv, TypeOK
<1>1. CASE FileCall(c)
  <2>1. type = "file" /\ type' = type
    BY <1>1 DEF FileCall, Create, ImportFromString, ImportFromJSON, GetPrivKey,
                DeriveChildFromSeed, UpdatePassphrase, Delete, Sign, ExportPriv,
                GetPubKey, GetAll, At
  <2> QED BY <2>1 DEF ListInv, ListFor
<1>2. CASE VaultCall(c) /\ ~VaultGetAll(c) /\ ~VaultGetNext(c)
  <2>1. /\ UNCHANGED <<type, cmd, left>> /\ cmd[c].op # "getAll" /\ pc'[c] # "list"
        /\ \A d \in Clients : d # c => pc'[d] = pc[d] /\ outcome'[d] = outcome[d]
    BY <1>2, OtherCalls
  <2>2. ListFor(c)'
    BY <2>1, NotListing
  <2> QED BY <2>1, <2>2, ListKept
<1>3. CASE VaultGetAll(c)
  <2>0. UNCHANGED <<type, versions, cmd>> /\ pc[c] = "call"
    BY <1>3 DEF VaultGetAll, At
  <2>1. CASE VaultReply(c, "ok") /\ left' = left
    <3>1. /\ pc'[c] = "idle" /\ outcome'[c] = "ok"
          /\ \A d \in Clients : d # c => pc'[d] = pc[d] /\ outcome'[d] = outcome[d]
      BY <1>t, <2>1 DEF VaultReply, Goto
    <3>2. ListFor(c)'
      BY <3>1, NotListing
    <3> QED BY <2>0, <2>1, <3>1, <3>2, ListKept
  <2> DEFINE secrets == {k \in Keys : versions[k] # <<>>}
  <2>2. CASE /\ left' = [left EXCEPT ![c] = secrets]
             /\ Goto(c, "list") /\ outcome' = outcome
    <3>1. /\ left'[c] = secrets
          /\ \A d \in Clients : d # c => pc'[d] = pc[d] /\ left'[d] = left[d]
      <4> HIDE DEF secrets
      <4> QED BY <1>t, <2>2 DEF Goto
    <3>2. \A k \in Keys : versions[k] # <<>> => DOMAIN versions[k] # {}
      <4>1. \A s \in Seq(Version) : s # <<>> => Len(s) # 0 /\ Len(s) \in Nat
        BY SMT
      <4>2. \A s \in Seq(Version) : DOMAIN s = 1 .. Len(s)
        BY SMT
      <4>3. \A n \in Nat : n # 0 => 1 \in 1 .. n
        BY SMT
      <4> QED BY <1>t, <4>1, <4>2, <4>3
    <3>3. \A k \in left'[c] : DOMAIN versions'[k] # {}
      BY <2>0, <3>1, <3>2
    <3>4. outcome'[c] = None
      BY <2>0, <2>2, Unanswered DEF Busy
    <3>5. ListFor(c)'
      BY <3>3, <3>4, Answers DEF ListFor
    <3> QED BY <2>0, <2>2, <3>1, <3>5, ListKept
  <2> QED BY <1>3, <2>1, <2>2 DEF VaultGetAll
<1>4. CASE VaultGetNext(c)
  <2>0. UNCHANGED <<type, versions, cmd>> /\ pc[c] = "list" /\ type = "vault"
    BY <1>4 DEF VaultGetNext, At
  <2>1. PICK k \in left[c] :
          /\ left' = [left EXCEPT ![c] = @ \ {k}]
          /\ IF VaultGet(k) = None THEN VaultReply(c, "error")
             ELSE IF left[c] = {k} THEN VaultReply(c, "ok")
             ELSE UNCHANGED <<pc, lock, outcome>>
    BY <1>4 DEF VaultGetNext
  <2>2. /\ left'[c] = left[c] \ {k} /\ left'[c] \subseteq left[c]
        /\ \A d \in Clients : d # c => left'[d] = left[d]
    BY <1>t, <2>1
  <2>3. k \in Keys /\ \A j \in left[c] : DOMAIN versions[j] # {}
    BY <1>t, <2>0 DEF ListInv, ListFor
  <2>4. ASSUME NEW o, VaultReply(c, o)
        PROVE  /\ pc'[c] = "idle" /\ outcome'[c] = o
               /\ \A d \in Clients : d # c => pc'[d] = pc[d] /\ outcome'[d] = outcome[d]
    BY <1>t, <2>4 DEF VaultReply, Goto
  <2>5. CASE VaultGet(k) = None
    <3>1. Gone
      BY <2>3, <2>5, NoPairGone
    <3>2. Gone'
      BY <3>1, GoneStays
    <3>3. ListFor(c)'
      BY <2>1, <2>4, <2>5, <3>2 DEF ListFor
    <3> QED BY <2>0, <2>1, <2>2, <2>4, <2>5, <3>3, ListKept
  <2>6. CASE VaultGet(k) # None /\ left[c] = {k}
    <3>1. ListFor(c)'
      BY <2>1, <2>4, <2>6, NotListing
    <3> QED BY <2>0, <2>1, <2>2, <2>4, <2>6, <3>1, ListKept
  <2>7. CASE VaultGet(k) # None /\ left[c] # {k}
    <3>1. pc' = pc /\ outcome' = outcome /\ outcome[c] = None
      BY <2>0, <2>1, <2>7, Unanswered DEF Busy
    <3>2. ListFor(c)'
      BY <2>0, <2>2, <2>3, <3>1, Answers DEF ListFor
    <3> QED BY <2>0, <2>2, <3>1, <3>2, ListKept
  <2> QED BY <2>5, <2>6, <2>7
<1> QED BY <1>1, <1>2, <1>3, <1>4

(* GetAll of vault.go fails only once a version of some secret is          *)
(* destroyed: it reads one by one secrets whose list it got in an earlier  *)
(* request, and no writer in between makes one of them unreadable.         *)
THEOREM ListsUntilDeleted == Spec => []ListingFailsOnlyAfterDelete
<1>1. Init => ListInv
  <2> SUFFICES ASSUME Init PROVE ListInv
    OBVIOUS
  <2>1. \A c \in Clients : pc[c] = "idle" /\ outcome[c] = None
    BY DEF Init
  <2> QED BY <2>1, Answers DEF ListInv, ListFor
<1>2. IndInv /\ ListInv /\ [Next]_vars => ListInv'
  <2> SUFFICES ASSUME IndInv, ListInv, [Next]_vars PROVE ListInv'
    OBVIOUS
  <2>1. CASE Next
    BY <2>1, ListStep, ListCall DEF Next
  <2>2. CASE UNCHANGED vars
    BY <2>2 DEF vars, ListInv, ListFor, Gone
  <2> QED BY <2>1, <2>2
<1>3. ListInv => ListingFailsOnlyAfterDelete
  BY DEF ListInv, ListFor, Gone, ListingFailsOnlyAfterDelete
<1> QED BY <1>1, <1>2, <1>3, Inductive, PTL DEF Spec


-----------------------------------------------------------------------------
(* Both implementations keep the promise of the interface. *)

LEMMA MapSame ==
  ASSUME UNCHANGED <<type, store, versions>>
  PROVE  /\ [k \in Keys |-> Entry(k)]' = [k \in Keys |-> Entry(k)]
         /\ [k \in Keys |-> Ever(k)]' = [k \in Keys |-> Ever(k)]
         /\ (type = "file")' = (type = "file")
BY DEF Entry, Ever, Get, VaultGet

LEMMA ExceptAt ==
  ASSUME NEW S, NEW f, NEW g, NEW a \in S, NEW v,
         f = [x \in S |-> f[x]], g = [x \in S |-> g[x]],
         \A x \in S : g[x] = IF x = a THEN v ELSE f[x]
  PROVE  g = [f EXCEPT ![a] = v]
OBVIOUS

LEMMA FileStored ==
  ASSUME IndInv, type = "file", NEW kp \in KeyPair, Set(kp),
         UNCHANGED <<type, versions>>
  PROVE  KI!Stored(kp.key, kp.pass)
<1>1. kp.key \in Keys /\ kp # None
  BY KeybaseAssumption, SMT DEF KeyPair
<1>2. ASSUME NEW k \in Keys
      PROVE  Entry(k)' = IF k = kp.key THEN kp.pass ELSE Entry(k)
  <2>1. store'[k] = IF k = kp.key THEN kp ELSE store[k]
    BY SMT DEF Set, IndInv, TypeOK
  <2> QED BY <1>1, <2>1 DEF Entry, Get
<1>3. [k \in Keys |-> Entry(k)]' = [[k \in Keys |-> Entry(k)] EXCEPT ![kp.key] = kp.pass]
  <2> DEFINE f == [k \in Keys |-> Entry(k)]
  <2>1. \A k \in Keys : f'[k] = IF k = kp.key THEN kp.pass ELSE f[k]
    BY <1>2
  <2>2. f = [k \in Keys |-> f[k]] /\ f' = [k \in Keys |-> f'[k]]
    OBVIOUS
  <2> HIDE DEF f
  <2>3. f' = [f EXCEPT ![kp.key] = kp.pass]
    BY <1>1, <2>1, <2>2, ExceptAt
  <2> QED BY <2>3 DEF f
<1>4. [k \in Keys |-> Ever(k)]' = [k \in Keys |-> Ever(k)]
  BY DEF Ever
<1> QED BY <1>3, <1>4 DEF KI!Stored

LEMMA VaultStored ==
  ASSUME IndInv, type = "vault", NEW kp \in KeyPair, NEW c \in Clients,
         writeVaultKeyPair(c, kp), UNCHANGED <<type, store>>
  PROVE  KI!Stored(kp.key, kp.pass)
<1> DEFINE v == [pair |-> kp, destroyed |-> FALSE]
           s == versions[kp.key]
<1>0. kp.key \in Keys /\ v \in Version /\ v.pair = kp /\ ~v.destroyed
  BY SMT DEF KeyPair, Version
<1>n. kp # None
  BY KeybaseAssumption
<1>f. versions \in [Keys -> Seq(Version)]
  BY DEF IndInv, TypeOK
<1>1. versions' = [versions EXCEPT ![kp.key] = Append(@, v)]
  BY DEF writeVaultKeyPair
<1> HIDE DEF v
<1>2. versions'[kp.key] = Append(s, v) /\ s \in Seq(Version)
  BY <1>0, <1>1, <1>f, SMT
<1>3. /\ Len(Append(s, v)) = Len(s) + 1
      /\ DOMAIN Append(s, v) = DOMAIN s \cup {Len(s) + 1}
      /\ \A i \in DOMAIN s : Append(s, v)[i] = s[i]
      /\ Append(s, v)[Len(s) + 1] = v
  BY <1>0, <1>2, AppendVersion
<1>4. Len(s) + 1 # 0
  BY <1>2, SMT
<1>5. VaultGet(kp.key)' = kp
  BY <1>0, <1>2, <1>3, <1>4 DEF VaultGet
<1>6. Entry(kp.key)' = kp.pass
  BY <1>5, <1>n DEF Entry
<1>7. \A k \in Keys : k # kp.key => versions'[k] = versions[k]
  BY <1>1, <1>f, SMT
<1>8. ASSUME NEW k \in Keys, k # kp.key
      PROVE  Entry(k)' = Entry(k) /\ Ever(k)' = Ever(k)
  <2>1. versions'[k] = versions[k]
    BY <1>7, <1>8
  <2>2. VaultGet(k)' = VaultGet(k)
    BY <2>1 DEF VaultGet
  <2>3. Entry(k)' = Entry(k)
    BY <2>2 DEF Entry
  <2>4. Ever(k)' = Ever(k)
    BY <2>1 DEF Ever
  <2> QED BY <2>3, <2>4
<1>9. Ever(kp.key)' = Ever(kp.key) \cup {kp.pass}
  <2>1. Ever(kp.key) = {s[i].pair.pass : i \in DOMAIN s}
    BY DEF Ever
  <2>2. Ever(kp.key)' = {Append(s, v)[i].pair.pass : i \in DOMAIN Append(s, v)}
    BY <1>2 DEF Ever
  <2> HIDE DEF s
  <2>3. {Append(s, v)[i].pair.pass : i \in DOMAIN Append(s, v)} =
          {s[i].pair.pass : i \in DOMAIN s} \cup {kp.pass}
    BY <1>0, <1>3, SMT
  <2> QED BY <2>1, <2>2, <2>3
<1>10. [k \in Keys |-> Entry(k)]' = [[k \in Keys |-> Entry(k)] EXCEPT ![kp.key] = kp.pass]
  <2> DEFINE f == [k \in Keys |-> Entry(k)]
  <2>1. \A k \in Keys : f'[k] = IF k = kp.key THEN kp.pass ELSE f[k]
    BY <1>6, <1>8
  <2>2. f = [k \in Keys |-> f[k]] /\ f' = [k \in Keys |-> f'[k]]
    OBVIOUS
  <2> HIDE DEF f
  <2>3. f' = [f EXCEPT ![kp.key] = kp.pass]
    BY <1>0, <2>1, <2>2, ExceptAt
  <2> QED BY <2>3 DEF f
<1>11. [k \in Keys |-> Ever(k)]' =
         [[k \in Keys |-> Ever(k)] EXCEPT ![kp.key] = @ \cup {kp.pass}]
  <2> DEFINE f == [k \in Keys |-> Ever(k)]
  <2>1. \A k \in Keys : f'[k] = IF k = kp.key THEN f[kp.key] \cup {kp.pass} ELSE f[k]
    BY <1>0, <1>8, <1>9
  <2>2. f = [k \in Keys |-> f[k]] /\ f' = [k \in Keys |-> f'[k]]
    OBVIOUS
  <2> HIDE DEF f
  <2>3. f' = [f EXCEPT ![kp.key] = f[kp.key] \cup {kp.pass}]
    BY <1>0, <2>1, <2>2, ExceptAt
  <2> QED BY <2>3 DEF f
<1> QED BY <1>10, <1>11 DEF KI!Stored

(* What a process has decrypted, the interface lets it act on. *)
LEMMA OpensHeld ==
  ASSUME IndInv, NEW c \in Clients,
         pc[c] \in {"write", "versions", "destroy"},
         type = "file" => pc[c] = "write"
  PROVE  KI!Opens(cmd[c].key, cmd[c].pass)
<1>1. cmd[c].key \in Keys /\ CheckedFor(c)
  BY CommandFields DEF IndInv, Checked, CheckedFor, Busy
<1>2. CASE type = "file"
  BY <1>1, <1>2 DEF CheckedFor, Opened, KI!Opens, Entry, Get
<1>3. CASE type = "vault"
  BY <1>1, <1>3 DEF CheckedFor, KI!Opens
<1> QED BY <1>2, <1>3 DEF IndInv, TypeOK

LEMMA EntryOf ==
  ASSUME NEW k \in Keys
  PROVE  [x \in Keys |-> Entry(x)][k] = Entry(k)
OBVIOUS

LEMMA Fails ==
  ASSUME IndInv, NEW c \in Clients, pc[c] \in Busy,
         NEW o \in {"error", "lost"}, outcome' = [outcome EXCEPT ![c] = o],
         UNCHANGED <<type, store, versions, cmd>>
  PROVE  KI!Fail(c)
BY Unanswered, MapSame DEF KI!Fail

LEMMA Performs ==
  ASSUME IndInv, NEW c \in Clients, pc[c] \in Busy,
         NEW o \in {"ok", "lost"}, type = "file" => o = "ok",
         outcome' = [outcome EXCEPT ![c] = o],
         UNCHANGED <<type, cmd>>,
         KI!Effect(cmd[c])
  PROVE  KI!Perform(c)
<1>1. o \in {"ok"} \cup (IF type = "file" THEN {} ELSE {"lost"})
  OBVIOUS
<1> QED BY <1>1, Unanswered DEF KI!Perform

LEMMA Stutters ==
  ASSUME UNCHANGED <<type, store, versions, cmd, outcome>>
  PROVE  UNCHANGED KI!ivars
BY MapSame DEF KI!ivars

LEMMA StepRefines ==
  ASSUME IndInv, NEW c \in Clients, Step(c)
  PROVE  [KI!Next]_(KI!ivars)
<1>1. CASE RunCommand(c)
  <2>1. KI!Issue(c)
    BY <1>1, MapSame DEF RunCommand, KI!Issue
  <2> QED BY <2>1 DEF KI!Next
<1>2. CASE NewBadgerKeybase(c)
  <2>1. pc[c] \in Busy
    BY <1>2 DEF NewBadgerKeybase, Busy
  <2>2. CASE lock = None
    BY <1>2, <2>2, Stutters DEF NewBadgerKeybase
  <2>3. CASE lock # None
    <3>1. outcome' = [outcome EXCEPT ![c] = "error"]
      BY <1>2, <2>3 DEF NewBadgerKeybase, Reply
    <3>2. KI!Fail(c)
      BY <1>2, <2>1, <3>1, Fails DEF NewBadgerKeybase
    <3> QED BY <3>2 DEF KI!Next
  <2> QED BY <2>2, <2>3
<1>3. CASE NewVaultKeybase(c)
  BY <1>3, Stutters DEF NewVaultKeybase
<1>4. CASE Stop(c)
  BY <1>4, Stutters DEF Stop
<1>5. CASE Kill(c)
  <2>0. outcome' = [outcome EXCEPT ![c] = IF outcome[c] = None THEN "lost" ELSE outcome[c]]
    BY <1>5 DEF Kill
  <2>1. CASE pc[c] \in Busy
    <3>1. outcome' = [outcome EXCEPT ![c] = "lost"]
      BY <2>0, <2>1, Unanswered
    <3>2. KI!Fail(c)
      BY <1>5, <2>1, <3>1, Fails DEF Kill
    <3> QED BY <3>2 DEF KI!Next
  <2>2. CASE pc[c] = "stop" /\ outcome[c] # None
    <3>1. outcome' = [outcome EXCEPT ![c] = outcome[c]]
      BY <2>0, <2>2
    <3>2. outcome' = outcome
      BY <3>1, SMT DEF IndInv, TypeOK
    <3> QED BY <1>5, <3>2, Stutters DEF Kill
  <2>3. pc[c] \in Busy \/ (pc[c] = "stop" /\ outcome[c] # None)
    BY <1>5 DEF Kill, IndInv, TypeOK, PCs, Busy, Checked, CheckedFor
  <2> QED BY <2>1, <2>2, <2>3
<1> QED BY <1>1, <1>2, <1>3, <1>4, <1>5 DEF Step

(* A method of the file key base that fails, and one that succeeds. *)
LEMMA FileFails ==
  ASSUME IndInv, NEW c \in Clients, pc[c] \in Busy, Reply(c, FALSE),
         UNCHANGED <<type, store, versions, cmd>>
  PROVE  KI!Next
<1>1. outcome' = [outcome EXCEPT ![c] = "error"]
  BY DEF Reply
<1>2. KI!Fail(c)
  BY <1>1, Fails
<1> QED BY <1>2 DEF KI!Next

LEMMA FileSucceeds ==
  ASSUME IndInv, NEW c \in Clients, pc[c] \in Busy, Reply(c, TRUE),
         UNCHANGED <<type, cmd>>, KI!Effect(cmd[c])
  PROVE  KI!Next
<1>1. outcome' = [outcome EXCEPT ![c] = "ok"]
  BY DEF Reply
<1>2. KI!Perform(c)
  BY <1>1, Performs
<1> QED BY <1>2 DEF KI!Next

LEMMA FileRefines ==
  ASSUME IndInv, NEW c \in Clients, FileCall(c)
  PROVE  [KI!Next]_(KI!ivars)
<1>t. type = "file" /\ pc[c] \in {"call", "write"} /\ pc[c] \in Busy
  BY DEF FileCall, At, Busy, Create, ImportFromString, ImportFromJSON, GetPrivKey,
         DeriveChildFromSeed, UpdatePassphrase, Delete, Sign, ExportPriv,
         GetPubKey, GetAll
<1>c. /\ cmd[c] \in Commands /\ cmd[c].key \in Keys /\ cmd[c].pass \in Passphrases
      /\ cmd[c].new \in Passphrases
  BY <1>t, CommandFields DEF IndInv, Checked, CheckedFor
<1>s. \A k \in Keys : store[k] \in KeyPair \cup {None}
  BY DEF IndInv, TypeOK
<1>e. \A k \in Keys : Entry(k) = IF store[k] = None THEN None ELSE store[k].pass
  BY <1>t DEF Entry, Get
<1>1. CASE Create(c)
  <2>1. PICK k \in Fresh :
          Get(k) = None /\ Set(CreateNewKeyFromString(k, cmd[c].pass))
    BY <1>1 DEF Create
  <2> DEFINE kp == CreateNewKeyFromString(k, cmd[c].pass)
  <2>2. k \in Keys /\ kp \in KeyPair /\ kp.key = k /\ kp.pass = cmd[c].pass
    BY <1>c, KeybaseAssumption, NewPair DEF CreateNewKeyFromString
  <2> HIDE DEF kp
  <2>3. Set(kp)
    BY <2>1 DEF kp
  <2>4. KI!Stored(kp.key, kp.pass)
    BY <1>1, <1>t, <2>2, <2>3, FileStored DEF Create
  <2>5. KI!Stored(k, cmd[c].pass)
    BY <2>2, <2>4
  <2>6. [x \in Keys |-> Entry(x)][k] = None
    BY <2>1, <2>2, <1>e DEF Get
  <2>7. KI!Effect(cmd[c])
    BY <1>1, <2>5, <2>6 DEF KI!Effect, Create, At
  <2> QED BY <1>1, <1>t, <2>7, FileSucceeds DEF Create
<1>2. CASE ImportFromString(c)
  <2> DEFINE kp == CreateNewKeyFromString(cmd[c].key, cmd[c].pass)
  <2>1. kp \in KeyPair /\ kp.key = cmd[c].key /\ kp.pass = cmd[c].pass
    BY <1>c, NewPair DEF CreateNewKeyFromString
  <2>2. Set(kp)
    BY <1>2 DEF ImportFromString
  <2> HIDE DEF kp
  <2>3. KI!Stored(kp.key, kp.pass)
    BY <1>2, <1>t, <2>1, <2>2, FileStored DEF ImportFromString
  <2>4. KI!Stored(cmd[c].key, cmd[c].pass)
    BY <2>1, <2>3
  <2>5. KI!Effect(cmd[c])
    BY <1>2, <2>4 DEF KI!Effect, ImportFromString, At
  <2> QED BY <1>2, <1>t, <2>5, FileSucceeds DEF ImportFromString
<1>3. CASE ImportFromJSON(c)
  <2> DEFINE kp == [key |-> cmd[c].key, pass |-> cmd[c].new]
  <2>0. kp \in KeyPair /\ kp.key = cmd[c].key /\ kp.pass = cmd[c].new
    BY <1>c, SMT DEF KeyPair
  <2>n. kp # None /\ cmd[c].key # None
    BY <1>c, <2>0, KeybaseAssumption
  <2>1. CASE cmd[c].new # cmd[c].pass
    <3>1. ImportKeyFromJSON(kp, cmd[c].pass) = None
      BY <2>1, <2>0 DEF ImportKeyFromJSON, Unarmour
    <3>2. store' = store /\ Reply(c, FALSE)
      BY <1>3, <3>1 DEF ImportFromJSON
    <3> QED BY <1>3, <1>t, <3>2, FileFails DEF ImportFromJSON
  <2>2. CASE cmd[c].new = cmd[c].pass
    <3>1. ImportKeyFromJSON(kp, cmd[c].pass) = kp
      BY <2>2, <2>0, <2>n DEF ImportKeyFromJSON, Unarmour
    <3>2. Set(kp) /\ Reply(c, TRUE)
      BY <1>3, <3>1, <2>n DEF ImportFromJSON
    <3> HIDE DEF kp
    <3>3. KI!Stored(kp.key, kp.pass)
      BY <1>3, <1>t, <2>0, <3>2, FileStored DEF ImportFromJSON
    <3>4. KI!Stored(cmd[c].key, cmd[c].pass)
      BY <2>0, <2>2, <3>3
    <3>5. KI!Effect(cmd[c])
      BY <1>3, <2>2, <3>4 DEF KI!Effect, ImportFromJSON, At
    <3> QED BY <1>3, <1>t, <3>2, <3>5, FileSucceeds DEF ImportFromJSON
  <2> QED BY <2>1, <2>2
<1>4. CASE GetPrivKey(c)
  <2>1. CASE PrivKey(Get(cmd[c].key), cmd[c].pass) = None
    <3>1. Reply(c, FALSE)
      BY <1>4, <2>1 DEF GetPrivKey
    <3> QED BY <1>4, <1>t, <3>1, FileFails DEF GetPrivKey
  <2>2. CASE PrivKey(Get(cmd[c].key), cmd[c].pass) # None
    BY <1>4, <2>2, Stutters DEF GetPrivKey
  <2> QED BY <2>1, <2>2
<1>5. CASE DeriveChildFromSeed(c)
  <2> DEFINE ch == DeriveChild(held[c], cmd[c].index)
             kp == StoredChild(ch, cmd[c])
  <2>w. pc[c] = "write" /\ cmd[c].op = "derive"
    BY <1>5 DEF DeriveChildFromSeed, At
  <2>h. held[c] = cmd[c].key
    BY <2>w DEF IndInv, Checked, CheckedFor
  <2>o. KI!Opens(cmd[c].key, cmd[c].pass)
    BY <2>w, OpensHeld
  <2>1. CASE ch = None
    <3>1. store' = store /\ Reply(c, FALSE)
      BY <1>5, <2>1 DEF DeriveChildFromSeed
    <3> QED BY <1>5, <1>t, <3>1, FileFails DEF DeriveChildFromSeed
  <2>2. CASE ch # None
    <3>0. <<cmd[c].key, cmd[c].index>> \in DOMAIN Child
      BY <2>2, <2>h DEF DeriveChild
    <3>1. Reply(c, TRUE)
      BY <1>5, <2>2 DEF DeriveChildFromSeed
    <3>2. CASE ~cmd[c].store
      <4>1. store' = store
        BY <1>5, <2>2, <3>2 DEF DeriveChildFromSeed
      <4>2. KI!Effect(cmd[c])
        BY <1>5, <2>w, <2>o, <3>0, <3>2, <4>1, MapSame DEF KI!Effect, DeriveChildFromSeed
      <4> QED BY <1>5, <1>t, <3>1, <4>2, FileSucceeds DEF DeriveChildFromSeed
    <3>3. CASE cmd[c].store
      <4>1. Set(kp)
        BY <1>5, <2>2, <3>3 DEF DeriveChildFromSeed
      <4>2. /\ kp \in KeyPair
            /\ kp = [key |-> Child[<<cmd[c].key, cmd[c].index>>],
                     pass |-> KI!ChildPassphrase(cmd[c])]
        BY <1>c, <2>2, <2>h, NewChild DEF KI!ChildPassphrase
      <4> HIDE DEF kp
      <4>3. KI!Stored(kp.key, kp.pass)
        BY <1>5, <1>t, <4>1, <4>2, FileStored DEF DeriveChildFromSeed
      <4>4. /\ kp.key = Child[<<cmd[c].key, cmd[c].index>>]
            /\ kp.pass = KI!ChildPassphrase(cmd[c])
        BY <4>2
      <4>5. KI!Effect(cmd[c])
        BY <2>w, <2>o, <3>0, <3>3, <4>3, <4>4 DEF KI!Effect
      <4> QED BY <1>5, <1>t, <3>1, <4>5, FileSucceeds DEF DeriveChildFromSeed
    <3> QED BY <3>2, <3>3
  <2> QED BY <2>1, <2>2
<1>6. CASE UpdatePassphrase(c)
  <2> DEFINE kp == CreateNewKeyFromString(held[c], cmd[c].new)
  <2>w. pc[c] = "write" /\ cmd[c].op = "update"
    BY <1>6 DEF UpdatePassphrase, At
  <2>h. held[c] = cmd[c].key
    BY <2>w DEF IndInv, Checked, CheckedFor
  <2>o. KI!Opens(cmd[c].key, cmd[c].pass)
    BY <2>w, OpensHeld
  <2>1. kp \in KeyPair /\ kp.key = cmd[c].key /\ kp.pass = cmd[c].new
    BY <1>c, <2>h, NewPair DEF CreateNewKeyFromString
  <2>2. Set(kp) /\ Reply(c, TRUE)
    BY <1>6, <2>1 DEF UpdatePassphrase
  <2> HIDE DEF kp
  <2>3. KI!Stored(kp.key, kp.pass)
    BY <1>6, <1>t, <2>1, <2>2, FileStored DEF UpdatePassphrase
  <2>4. KI!Effect(cmd[c])
    BY <2>w, <2>o, <2>1, <2>3 DEF KI!Effect
  <2> QED BY <1>6, <1>t, <2>2, <2>4, FileSucceeds DEF UpdatePassphrase
<1>7. CASE Delete(c)
  <2>w. pc[c] = "write" /\ cmd[c].op = "delete"
    BY <1>7 DEF Delete, At
  <2>o. KI!Opens(cmd[c].key, cmd[c].pass)
    BY <2>w, OpensHeld
  <2> DEFINE f == [k \in Keys |-> Entry(k)]
  <2>1. \A k \in Keys : store'[k] = IF k = cmd[c].key THEN None ELSE store[k]
    BY <1>7, SMT DEF Delete, IndInv, TypeOK
  <2>2. \A k \in Keys : f'[k] = IF k = cmd[c].key THEN None ELSE f[k]
    <3> SUFFICES ASSUME NEW k \in Keys
                 PROVE  Entry(k)' = IF k = cmd[c].key THEN None ELSE Entry(k)
      OBVIOUS
    <3>1. store'[k] = IF k = cmd[c].key THEN None ELSE store[k]
      BY <2>1
    <3>2. type' = "file"
      BY <1>7, <1>t DEF Delete
    <3> QED BY <1>t, <3>1, <3>2 DEF Entry, Get
  <2>3. f = [k \in Keys |-> f[k]] /\ f' = [k \in Keys |-> f'[k]]
    OBVIOUS
  <2> HIDE DEF f
  <2>4. f' = [f EXCEPT ![cmd[c].key] = None]
    BY <1>c, <2>2, <2>3, ExceptAt
  <2>5. [k \in Keys |-> Ever(k)]' = [k \in Keys |-> Ever(k)]
    BY <1>7, <1>t DEF Delete, Ever
  <2>6. KI!Effect(cmd[c])
    BY <2>w, <2>o, <2>4, <2>5 DEF KI!Effect, f
  <2> QED BY <1>7, <1>t, <2>6, FileSucceeds DEF Delete
<1>8. ASSUME \/ Sign(c) /\ cmd[c].op = "sign"
             \/ ExportPriv(c) /\ cmd[c].op = "export"
      PROVE  [KI!Next]_(KI!ivars)
  <2>0. UNCHANGED <<type, store, versions, cmd>>
    BY <1>8 DEF Sign, ExportPriv
  <2>1. CASE PrivKey(Get(cmd[c].key), cmd[c].pass) = None
    <3>1. Reply(c, FALSE)
      BY <1>8, <2>1 DEF Sign, ExportPriv
    <3> QED BY <1>t, <2>0, <3>1, FileFails
  <2>2. CASE PrivKey(Get(cmd[c].key), cmd[c].pass) # None
    <3>1. Reply(c, TRUE)
      BY <1>8, <2>2 DEF Sign, ExportPriv
    <3>2. Get(cmd[c].key) \in KeyPair /\ Get(cmd[c].key).pass = cmd[c].pass
      BY <1>c, <1>s, <2>2, PrivKeyFound DEF Get
    <3>3. Entry(cmd[c].key) = cmd[c].pass
      BY <3>2, <1>c, <1>e, KeybaseAssumption DEF Get
    <3>4. KI!Effect(cmd[c])
      BY <1>8, <1>c, <3>3, <2>0, MapSame, EntryOf DEF KI!Effect
    <3> QED BY <1>t, <2>0, <3>1, <3>4, FileSucceeds
  <2> QED BY <2>1, <2>2
<1>9. CASE GetPubKey(c)
  <2>1. CASE Get(cmd[c].key) = None
    <3>1. Reply(c, FALSE)
      BY <1>9, <2>1 DEF GetPubKey
    <3> QED BY <1>9, <1>t, <3>1, FileFails DEF GetPubKey
  <2>2. CASE Get(cmd[c].key) # None
    <3>1. Reply(c, TRUE)
      BY <1>9, <2>2 DEF GetPubKey
    <3>2. store[cmd[c].key] \in KeyPair /\ Entry(cmd[c].key) = store[cmd[c].key].pass
      BY <1>c, <1>e, <1>s, <2>2 DEF Get
    <3>3. \A kp \in KeyPair : kp.pass \in Passphrases
      BY SMT DEF KeyPair
    <3>4. Entry(cmd[c].key) # None
      BY <3>2, <3>3, KeybaseAssumption
    <3>5. KI!Effect(cmd[c])
      BY <1>9, <1>c, <3>4, MapSame, EntryOf DEF KI!Effect, GetPubKey, At
    <3> QED BY <1>9, <1>t, <3>1, <3>5, FileSucceeds DEF GetPubKey
  <2> QED BY <2>1, <2>2
<1>10. CASE GetAll(c)
  <2>1. KI!Effect(cmd[c])
    BY <1>10, MapSame DEF KI!Effect, GetAll, At
  <2> QED BY <1>10, <1>t, <2>1, FileSucceeds DEF GetAll
<1>11. (Sign(c) => cmd[c].op = "sign") /\ (ExportPriv(c) => cmd[c].op = "export")
  BY DEF Sign, ExportPriv, At
<1> QED BY <1>1, <1>2, <1>3, <1>4, <1>5, <1>6, <1>7, <1>8, <1>9, <1>10, <1>11
        DEF FileCall

(* The same of the vault key base. *)
LEMMA VaultFails ==
  ASSUME IndInv, NEW c \in Clients, pc[c] \in Busy, VaultReply(c, "error"),
         UNCHANGED <<type, store, versions, cmd>>
  PROVE  KI!Next
<1>1. outcome' = [outcome EXCEPT ![c] = "error"]
  BY DEF VaultReply
<1>2. KI!Fail(c)
  BY <1>1, Fails
<1> QED BY <1>2 DEF KI!Next

LEMMA VaultSucceeds ==
  ASSUME IndInv, NEW c \in Clients, pc[c] \in Busy, type = "vault",
         NEW o \in {"ok", "lost"}, VaultReply(c, o),
         UNCHANGED <<type, cmd>>, KI!Effect(cmd[c])
  PROVE  KI!Next
<1>1. outcome' = [outcome EXCEPT ![c] = o]
  BY DEF VaultReply
<1>2. KI!Perform(c)
  BY <1>1, Performs
<1> QED BY <1>2 DEF KI!Next

LEMMA VaultWriteSucceeds ==
  ASSUME IndInv, NEW c \in Clients, pc[c] \in Busy, type = "vault",
         NEW kp, writeVaultKeyPair(c, kp),
         UNCHANGED <<type, cmd>>, KI!Effect(cmd[c])
  PROVE  KI!Next
<1>1. PICK o \in {"ok", "lost"} : VaultReply(c, o)
  BY DEF writeVaultKeyPair
<1> QED BY <1>1, VaultSucceeds

(* Destroying versions of k takes away its entry or leaves it. *)
LEMMA VaultDestroyed ==
  ASSUME IndInv, type = "vault", UNCHANGED <<type, store>>,
         NEW k \in Keys, NEW D,
         versions'[k] = Destroyed(versions[k], D),
         \A x \in Keys : x # k => versions'[x] = versions[x]
  PROVE  /\ \/ [x \in Keys |-> Entry(x)]' = [[x \in Keys |-> Entry(x)] EXCEPT ![k] = None]
            \/ [x \in Keys |-> Entry(x)]' = [x \in Keys |-> Entry(x)]
         /\ [x \in Keys |-> Ever(x)]' = [x \in Keys |-> Ever(x)]
<1> DEFINE s == versions[k]
           t == Destroyed(s, D)
           f == [x \in Keys |-> Entry(x)]
<1>1. versions'[k] = t /\ s \in Seq(Version)
  BY SMT DEF IndInv, TypeOK
<1>2. /\ Len(t) = Len(s) /\ DOMAIN t = DOMAIN s
      /\ \A i \in DOMAIN s : /\ t[i].pair = s[i].pair
                             /\ t[i].destroyed <=> (i \in D \/ s[i].destroyed)
  BY <1>1, DestroyedVersions
<1>3. ASSUME NEW x \in Keys, x # k
      PROVE  Entry(x)' = Entry(x) /\ Ever(x)' = Ever(x)
  <2>1. versions'[x] = versions[x]
    BY <1>3
  <2>2. VaultGet(x)' = VaultGet(x)
    BY <2>1 DEF VaultGet
  <2>3. Entry(x)' = Entry(x)
    BY <2>2 DEF Entry
  <2>4. Ever(x)' = Ever(x)
    BY <2>1 DEF Ever
  <2> QED BY <2>3, <2>4
<1>4. Ever(k)' = Ever(k)
  <2>1. Ever(k) = {s[i].pair.pass : i \in DOMAIN s}
    BY DEF Ever
  <2>2. Ever(k)' = {t[i].pair.pass : i \in DOMAIN t}
    BY <1>1 DEF Ever
  <2> HIDE DEF s, t
  <2> QED BY <2>1, <2>2, <1>2
<1>5. VaultGet(k)' = None \/ VaultGet(k)' = VaultGet(k)
  <2>1. Len(s) # 0 => Len(s) \in DOMAIN s
    BY <1>1, SMT
  <2>2. VaultGet(k) = IF Len(s) = 0 \/ s[Len(s)].destroyed THEN None ELSE s[Len(s)].pair
    BY DEF VaultGet
  <2>3. VaultGet(k)' = IF Len(t) = 0 \/ t[Len(t)].destroyed THEN None ELSE t[Len(t)].pair
    BY <1>1 DEF VaultGet
  <2> HIDE DEF s, t
  <2> QED BY <2>1, <2>2, <2>3, <1>2
<1>6. Entry(k)' = None \/ Entry(k)' = Entry(k)
  BY <1>5 DEF Entry
<1>7. f = [x \in Keys |-> f[x]] /\ f' = [x \in Keys |-> f'[x]]
  OBVIOUS
<1>8. CASE Entry(k)' = None
  <2>1. \A x \in Keys : f'[x] = IF x = k THEN None ELSE f[x]
    BY <1>3, <1>8
  <2> HIDE DEF f
  <2>2. f' = [f EXCEPT ![k] = None]
    BY <1>7, <2>1, ExceptAt
  <2> QED BY <2>2, <1>3, <1>4 DEF f
<1>9. CASE Entry(k)' = Entry(k)
  BY <1>3, <1>4, <1>9
<1> QED BY <1>6, <1>8, <1>9

LEMMA VaultRefines ==
  ASSUME IndInv, NEW c \in Clients, VaultCall(c)
  PROVE  [KI!Next]_(KI!ivars)
<1>t. type = "vault" /\ pc[c] \in Busy
  BY DEF VaultCall, At, Busy, VaultCreate, VaultImportFromString,
         VaultImportFromJSON, VaultGetPrivKey, VaultDeriveChildFromSeed,
         VaultUpdatePassphrase, GetVersionsAsList, VaultDelete, VaultSign,
         VaultExportPriv, VaultGetPubKey, VaultGetAll, VaultGetNext
<1>c. /\ cmd[c] \in Commands /\ cmd[c].key \in Keys /\ cmd[c].pass \in Passphrases
      /\ cmd[c].new \in Passphrases
  BY <1>t, CommandFields DEF IndInv, Checked, CheckedFor
<1>e. \A k \in Keys : Entry(k) = IF VaultGet(k) = None THEN None ELSE VaultGet(k).pass
  BY <1>t DEF Entry
<1>1. CASE VaultCreate(c)
  <2>1. PICK k \in Fresh :
          versions[k] = <<>> /\ writeVaultKeyPair(c, CreateNewKeyFromString(k, cmd[c].pass))
    BY <1>1 DEF VaultCreate
  <2> DEFINE kp == CreateNewKeyFromString(k, cmd[c].pass)
  <2>2. k \in Keys /\ kp \in KeyPair /\ kp.key = k /\ kp.pass = cmd[c].pass
    BY <1>c, KeybaseAssumption, NewPair DEF CreateNewKeyFromString
  <2> HIDE DEF kp
  <2>3. writeVaultKeyPair(c, kp)
    BY <2>1 DEF kp
  <2>4. KI!Stored(kp.key, kp.pass)
    BY <1>1, <1>t, <2>2, <2>3, VaultStored DEF VaultCreate
  <2>5. KI!Stored(k, cmd[c].pass)
    BY <2>2, <2>4
  <2>6. Len(versions[k]) = 0
    BY <2>1, SMT
  <2>7. [x \in Keys |-> Entry(x)][k] = None
    BY <2>2, <2>6, <1>e DEF VaultGet
  <2>8. KI!Effect(cmd[c])
    BY <1>1, <2>5, <2>7 DEF KI!Effect, VaultCreate, At
  <2> QED BY <1>1, <1>t, <2>3, <2>8, VaultWriteSucceeds DEF VaultCreate
<1>2. CASE VaultImportFromString(c)
  <2> DEFINE kp == CreateNewKeyFromString(cmd[c].key, cmd[c].pass)
  <2>1. kp \in KeyPair /\ kp.key = cmd[c].key /\ kp.pass = cmd[c].pass
    BY <1>c, NewPair DEF CreateNewKeyFromString
  <2>2. writeVaultKeyPair(c, kp)
    BY <1>2 DEF VaultImportFromString
  <2> HIDE DEF kp
  <2>3. KI!Stored(kp.key, kp.pass)
    BY <1>2, <1>t, <2>1, <2>2, VaultStored DEF VaultImportFromString
  <2>4. KI!Stored(cmd[c].key, cmd[c].pass)
    BY <2>1, <2>3
  <2>5. KI!Effect(cmd[c])
    BY <1>2, <2>4 DEF KI!Effect, VaultImportFromString, At
  <2> QED BY <1>2, <1>t, <2>2, <2>5, VaultWriteSucceeds DEF VaultImportFromString
<1>3. CASE VaultImportFromJSON(c)
  <2> DEFINE kp == [key |-> cmd[c].key, pass |-> cmd[c].new]
  <2>0. kp \in KeyPair /\ kp.key = cmd[c].key /\ kp.pass = cmd[c].new
    BY <1>c, SMT DEF KeyPair
  <2>n. kp # None /\ cmd[c].key # None
    BY <1>c, <2>0, KeybaseAssumption
  <2>1. CASE cmd[c].new # cmd[c].pass
    <3>1. ImportKeyFromJSON(kp, cmd[c].pass) = None
      BY <2>1, <2>0 DEF ImportKeyFromJSON, Unarmour
    <3>2. versions' = versions /\ VaultReply(c, "error")
      BY <1>3, <3>1 DEF VaultImportFromJSON
    <3> QED BY <1>3, <1>t, <3>2, VaultFails DEF VaultImportFromJSON
  <2>2. CASE cmd[c].new = cmd[c].pass
    <3>1. ImportKeyFromJSON(kp, cmd[c].pass) = kp
      BY <2>2, <2>0, <2>n DEF ImportKeyFromJSON, Unarmour
    <3>2. writeVaultKeyPair(c, kp)
      BY <1>3, <3>1, <2>n DEF VaultImportFromJSON
    <3> HIDE DEF kp
    <3>3. KI!Stored(kp.key, kp.pass)
      BY <1>3, <1>t, <2>0, <3>2, VaultStored DEF VaultImportFromJSON
    <3>4. KI!Stored(cmd[c].key, cmd[c].pass)
      BY <2>0, <2>2, <3>3
    <3>5. KI!Effect(cmd[c])
      BY <1>3, <2>2, <3>4 DEF KI!Effect, VaultImportFromJSON, At
    <3> QED BY <1>3, <1>t, <3>2, <3>5, VaultWriteSucceeds DEF VaultImportFromJSON
  <2> QED BY <2>1, <2>2
<1>4. CASE VaultGetPrivKey(c)
  <2>1. CASE PrivKey(VaultGet(cmd[c].key), cmd[c].pass) = None
    <3>1. VaultReply(c, "error")
      BY <1>4, <2>1 DEF VaultGetPrivKey
    <3> QED BY <1>4, <1>t, <3>1, VaultFails DEF VaultGetPrivKey
  <2>2. CASE PrivKey(VaultGet(cmd[c].key), cmd[c].pass) # None
    BY <1>4, <2>2, Stutters DEF VaultGetPrivKey
  <2> QED BY <2>1, <2>2
<1>5. CASE VaultDeriveChildFromSeed(c)
  <2> DEFINE ch == DeriveChild(held[c], cmd[c].index)
             kp == StoredChild(ch, cmd[c])
  <2>w. pc[c] = "write" /\ cmd[c].op = "derive"
    BY <1>5 DEF VaultDeriveChildFromSeed, At
  <2>h. held[c] = cmd[c].key
    BY <2>w DEF IndInv, Checked, CheckedFor
  <2>o. KI!Opens(cmd[c].key, cmd[c].pass)
    BY <2>w, OpensHeld
  <2>1. CASE ch = None
    <3>1. versions' = versions /\ VaultReply(c, "error")
      BY <1>5, <2>1 DEF VaultDeriveChildFromSeed
    <3> QED BY <1>5, <1>t, <3>1, VaultFails DEF VaultDeriveChildFromSeed
  <2>2. CASE ch # None
    <3>0. <<cmd[c].key, cmd[c].index>> \in DOMAIN Child
      BY <2>2, <2>h DEF DeriveChild
    <3>2. CASE ~cmd[c].store
      <4>1. versions' = versions /\ VaultReply(c, "ok")
        BY <1>5, <2>2, <3>2 DEF VaultDeriveChildFromSeed
      <4>2. KI!Effect(cmd[c])
        BY <1>5, <2>w, <2>o, <3>0, <3>2, <4>1, MapSame
           DEF KI!Effect, VaultDeriveChildFromSeed
      <4> QED BY <1>5, <1>t, <4>1, <4>2, VaultSucceeds DEF VaultDeriveChildFromSeed
    <3>3. CASE cmd[c].store
      <4>1. writeVaultKeyPair(c, kp)
        BY <1>5, <2>2, <3>3 DEF VaultDeriveChildFromSeed
      <4>2. /\ kp \in KeyPair
            /\ kp = [key |-> Child[<<cmd[c].key, cmd[c].index>>],
                     pass |-> KI!ChildPassphrase(cmd[c])]
        BY <1>c, <2>2, <2>h, NewChild DEF KI!ChildPassphrase
      <4> HIDE DEF kp
      <4>3. KI!Stored(kp.key, kp.pass)
        BY <1>5, <1>t, <4>1, <4>2, VaultStored DEF VaultDeriveChildFromSeed
      <4>4. /\ kp.key = Child[<<cmd[c].key, cmd[c].index>>]
            /\ kp.pass = KI!ChildPassphrase(cmd[c])
        BY <4>2
      <4>5. KI!Effect(cmd[c])
        BY <2>w, <2>o, <3>0, <3>3, <4>3, <4>4 DEF KI!Effect
      <4> QED BY <1>5, <1>t, <4>1, <4>5, VaultWriteSucceeds DEF VaultDeriveChildFromSeed
    <3> QED BY <3>2, <3>3
  <2> QED BY <2>1, <2>2
<1>6. CASE VaultUpdatePassphrase(c)
  <2> DEFINE kp == CreateNewKeyFromString(held[c], cmd[c].new)
  <2>w. pc[c] = "write" /\ cmd[c].op = "update"
    BY <1>6 DEF VaultUpdatePassphrase, At
  <2>h. held[c] = cmd[c].key
    BY <2>w DEF IndInv, Checked, CheckedFor
  <2>o. KI!Opens(cmd[c].key, cmd[c].pass)
    BY <2>w, OpensHeld
  <2>1. kp \in KeyPair /\ kp.key = cmd[c].key /\ kp.pass = cmd[c].new
    BY <1>c, <2>h, NewPair DEF CreateNewKeyFromString
  <2>2. writeVaultKeyPair(c, kp)
    BY <1>6 DEF VaultUpdatePassphrase
  <2> HIDE DEF kp
  <2>3. KI!Stored(kp.key, kp.pass)
    BY <1>6, <1>t, <2>1, <2>2, VaultStored DEF VaultUpdatePassphrase
  <2>4. KI!Effect(cmd[c])
    BY <2>w, <2>o, <2>1, <2>3 DEF KI!Effect
  <2> QED BY <1>6, <1>t, <2>2, <2>4, VaultWriteSucceeds DEF VaultUpdatePassphrase
<1>7. CASE GetVersionsAsList(c)
  BY <1>7, Stutters DEF GetVersionsAsList
<1>8. CASE VaultDelete(c)
  <2>w. pc[c] = "destroy" /\ cmd[c].op = "delete"
    BY <1>8 DEF VaultDelete, At
  <2>o. KI!Opens(cmd[c].key, cmd[c].pass)
    BY <1>t, <2>w, OpensHeld
  <2>1. PICK o \in {"ok", "lost"} : VaultReply(c, o)
    BY <1>8 DEF VaultDelete
  <2>v. /\ versions'[cmd[c].key] = Destroyed(versions[cmd[c].key], 1 .. listed[c])
        /\ \A x \in Keys : x # cmd[c].key => versions'[x] = versions[x]
    BY <1>8, <1>c, SMT DEF VaultDelete, IndInv, TypeOK
  <2>2. /\ \/ [x \in Keys |-> Entry(x)]' = [[x \in Keys |-> Entry(x)] EXCEPT ![cmd[c].key] = None]
           \/ [x \in Keys |-> Entry(x)]' = [x \in Keys |-> Entry(x)]
        /\ [x \in Keys |-> Ever(x)]' = [x \in Keys |-> Ever(x)]
    BY <1>8, <1>t, <1>c, <2>v, VaultDestroyed DEF VaultDelete
  <2>3. KI!Effect(cmd[c])
    BY <1>t, <2>w, <2>o, <2>2 DEF KI!Effect
  <2> QED BY <1>8, <1>t, <2>1, <2>3, VaultSucceeds DEF VaultDelete
<1>9. ASSUME \/ VaultSign(c) /\ cmd[c].op = "sign"
             \/ VaultExportPriv(c) /\ cmd[c].op = "export"
      PROVE  [KI!Next]_(KI!ivars)
  <2>0. UNCHANGED <<type, store, versions, cmd>>
    BY <1>9 DEF VaultSign, VaultExportPriv
  <2>1. CASE PrivKey(VaultGet(cmd[c].key), cmd[c].pass) = None
    <3>1. VaultReply(c, "error")
      BY <1>9, <2>1 DEF VaultSign, VaultExportPriv
    <3> QED BY <1>t, <2>0, <3>1, VaultFails
  <2>2. CASE PrivKey(VaultGet(cmd[c].key), cmd[c].pass) # None
    <3>1. VaultReply(c, "ok")
      BY <1>9, <2>2 DEF VaultSign, VaultExportPriv
    <3>2. VaultGet(cmd[c].key) \in KeyPair /\ VaultGet(cmd[c].key).pass = cmd[c].pass
      BY <1>c, <2>2, VaultGetType, PrivKeyFound
    <3>3. Entry(cmd[c].key) = cmd[c].pass
      BY <3>2, <1>c, <1>e, KeybaseAssumption
    <3>4. KI!Effect(cmd[c])
      BY <1>9, <1>c, <3>3, <2>0, MapSame, EntryOf DEF KI!Effect
    <3> QED BY <1>t, <2>0, <3>1, <3>4, VaultSucceeds
  <2> QED BY <2>1, <2>2
<1>10. CASE VaultGetPubKey(c)
  <2>1. CASE VaultGet(cmd[c].key) = None
    <3>1. VaultReply(c, "error")
      BY <1>10, <2>1 DEF VaultGetPubKey
    <3> QED BY <1>10, <1>t, <3>1, VaultFails DEF VaultGetPubKey
  <2>2. CASE VaultGet(cmd[c].key) # None
    <3>1. VaultReply(c, "ok")
      BY <1>10, <2>2 DEF VaultGetPubKey
    <3>2. VaultGet(cmd[c].key) \in KeyPair /\ Entry(cmd[c].key) = VaultGet(cmd[c].key).pass
      BY <1>c, <1>e, <2>2, VaultGetType
    <3>3. \A kp \in KeyPair : kp.pass \in Passphrases
      BY SMT DEF KeyPair
    <3>4. Entry(cmd[c].key) # None
      BY <3>2, <3>3, KeybaseAssumption
    <3>5. KI!Effect(cmd[c])
      BY <1>10, <1>c, <3>4, MapSame, EntryOf DEF KI!Effect, VaultGetPubKey, At
    <3> QED BY <1>10, <1>t, <3>1, <3>5, VaultSucceeds DEF VaultGetPubKey
  <2> QED BY <2>1, <2>2
<1>11. ASSUME VaultGetAll(c) \/ VaultGetNext(c)
       PROVE  [KI!Next]_(KI!ivars)
  <2>0. UNCHANGED <<type, store, versions, cmd>> /\ cmd[c].op = "getAll"
    BY <1>11 DEF VaultGetAll, VaultGetNext, At
  <2>1. VaultReply(c, "error") \/ VaultReply(c, "ok") \/ outcome' = outcome
    BY <1>11 DEF VaultGetAll, VaultGetNext
  <2>2. CASE VaultReply(c, "error")
    BY <1>t, <2>0, <2>2, VaultFails
  <2>3. CASE VaultReply(c, "ok")
    <3>1. KI!Effect(cmd[c])
      BY <2>0, MapSame DEF KI!Effect
    <3> QED BY <1>t, <2>0, <2>3, <3>1, VaultSucceeds
  <2>4. CASE outcome' = outcome
    BY <2>0, <2>4, Stutters
  <2> QED BY <2>1, <2>2, <2>3, <2>4
<1>12. (VaultSign(c) => cmd[c].op = "sign") /\ (VaultExportPriv(c) => cmd[c].op = "export")
  BY DEF VaultSign, VaultExportPriv, At
<1> QED BY <1>1, <1>2, <1>3, <1>4, <1>5, <1>6, <1>7, <1>8, <1>9, <1>10, <1>11,
           <1>12 DEF VaultCall

(* The file key base of keystore.go and the vault key base of vault.go     *)
(* keep the promise of the Keybase interface: every step of either is a    *)
(* step of KeybaseInterface or leaves what it speaks of unchanged.         *)
THEOREM KeepsInterface == Spec => Implements
<1>1. Init => KI!Init
  <2> SUFFICES ASSUME Init PROVE KI!Init
    OBVIOUS
  <2>1. \A k \in Keys : Entry(k) = None /\ Ever(k) = {}
    <3> TAKE k \in Keys
    <3>1. store[k] = None /\ versions[k] = <<>> /\ Len(versions[k]) = 0
      BY SMT DEF Init
    <3>2. DOMAIN versions[k] = {}
      BY <3>1, SMT
    <3> QED BY <3>1, <3>2 DEF Entry, Ever, Get, VaultGet
  <2>2. [k \in Keys |-> Entry(k)] = [k \in Keys |-> None]
    BY <2>1
  <2>3. [k \in Keys |-> Ever(k)] = [k \in Keys |-> {}]
    BY <2>1
  <2>4. (type = "file") \in BOOLEAN
    OBVIOUS
  <2> QED BY <2>2, <2>3, <2>4 DEF Init, KI!Init
<1>2. IndInv /\ [Next]_vars => [KI!Next]_(KI!ivars)
  <2> SUFFICES ASSUME IndInv, [Next]_vars PROVE [KI!Next]_(KI!ivars)
    OBVIOUS
  <2>1. CASE UNCHANGED vars
    BY <2>1, Stutters DEF vars
  <2>2. CASE Next
    BY <2>2, StepRefines, FileRefines, VaultRefines DEF Next
  <2> QED BY <2>1, <2>2
<1> QED BY <1>1, <1>2, Inductive, PTL DEF Spec, Implements, KI!Spec

=============================================================================
